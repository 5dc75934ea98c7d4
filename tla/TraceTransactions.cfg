SPECIFICATION PackedSpec
CONSTANTS
  brand = brand
  dealer = dealer
  store = store
  agent = agent
  i1 = i1
  i2 = i2
  c1 = c1
  c2 = c2
  None = None
  Objects = {i1, i2, c1, c2}
  Organizations = {brand, dealer}
  Documents <- PackedDocuments
  DocumentType <- PackedType
  FromOrganization <- MCFrom
  ToOrganization <- PackedTo
  LineRequests <- PackedLines
  LevelOf <- MCLevelOf
  InitialCustodian <- MCInitialCustodian
  Capability <- MCCapability
  Matching <- MCMatching
  Shipments = {}
  ShipmentTo <- MCShipmentTo
  ShipmentObjects <- MCShipmentObjects
  MaxEvents = 3
  Requests <- MCRequests
  IdOf <- MCIdOf
INVARIANTS
  RowsAreCurrent
PROPERTIES
  Serializable
  EveryRequestEnds
\* Once every request is answered the system rests.
CHECK_DEADLOCK FALSE
