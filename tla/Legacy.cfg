CONSTANTS
  f1 = f1  f2 = f2  p1 = p1
  Brands = {1, 2}
  Factories = {f1, f2}
  Products = {p1}
  Codes = {"c1"}
  Users = {"u1"}
  Invitations = {"i1"}
  None = None
  r1 = r1  r2 = r2  k1 = k1
  Requests = {r1, r2}
  Keys = {k1}
  Packages = {p11, p12}
  Archives = {a1, a2}
  keyOf <- MCKeyOf
  bodyOf <- MCBodyOf
  Quantity = 2
  MaxArchives = 1
  Nothing = Nothing
  Entries = {e1, e2}
  Stages = {origin, elsewhere}
  Origin = origin
  Goods = {g1}
  Alerts = {al1}
  Provinces <- MCProvinces
  Cities <- MCCities
  Texts <- MCTexts
  Names <- MCNames
  Includes <- MCIncludes
  Where <- MCWhere
  Territories <- MCTerritories
  MaxCampaign = 2
  MaxText = 2
  MaxScans = 2
  MaxCleared = 1
  Blank = Blank
  b1 = b1  b2 = b2  i1 = i1  i2 = i2  i3 = i3
  Boxes = {b1, b2}
  Items = {i1, i2, i3}
  StockProducts = {"feed"}
  Batches = {"LOT-1", "LOT-2"}
  StockFactories = {f1, f2}
  Distributors = {"d1"}
  Null = Null
  FactoriesFor <- MCFactoriesFor
  ProductSize <- MCProductSize
  Sizes = {1, 2}
  Printed <- MCPrinted
SYMMETRY MCSymmetry
SPECIFICATION MCSpec
INVARIANTS
  NothingDangles
  StockAtItsFactory
  PrimaryBrandIsLinked
  OneBatchPerKey
  ExportsAreWhole
  SlotsMatch
  PageIsCleared
  PrizesAreFirstScans
  AlertsAreTrue
  BoxesSound
  OneReceipt
  ShipmentsTellWhere
PROPERTIES
  InvalidItemsStay
CHECK_DEADLOCK FALSE
