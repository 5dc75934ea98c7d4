SPECIFICATION TripSpec
CONSTANTS
  brand = brand
  dealer = dealer
  store = store
  agent = agent
  i1 = i1
  i2 = i2
  c1 = c1
  c2 = c2
  None = None
  Objects = {c1}
  Organizations = {brand, dealer, agent}
  Documents <- TripDocuments
  DocumentType <- TripType
  FromOrganization <- TripFrom
  ToOrganization <- TripTo
  LineRequests <- TripLines
  LevelOf <- MCLevelOf
  InitialCustodian <- MCInitialCustodian
  Capability <- TripCapability
  Matching <- MCMatching
  Shipments <- MCShipments
  ShipmentTo <- MCShipmentTo
  ShipmentObjects <- MCShipmentObjects
  MaxEvents = 6
INVARIANT FirstReceiptsOnly
\* The bound on events is reached and the system may rest.
CHECK_DEADLOCK FALSE
