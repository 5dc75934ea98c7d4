SPECIFICATION MCSpec
CONSTANTS
  brand = brand
  dealer = dealer
  store = store
  agent = agent
  i1 = i1
  i2 = i2
  c1 = c1
  c2 = c2
  None = None
  Objects = {i1, i2, c1, c2}
  Organizations = {brand, dealer, store}
  Documents <- MCDocuments
  DocumentType <- MCDocType
  FromOrganization <- MCFrom
  ToOrganization <- MCTo
  LineRequests <- MCLines
  LevelOf <- MCLevelOf
  InitialCustodian <- MCInitialCustodian
  Capability <- MCCapability
  Matching <- MCMatching
  Shipments <- MCShipments
  ShipmentTo <- MCShipmentTo
  ShipmentObjects <- MCShipmentObjects
  MaxEvents = 4
INVARIANTS
  PackagingSound
  DocumentsSound
  SnapshotsSound
  AggregationsTellTheParents
  ClaimsSound
PROPERTIES
  ContainersMoveWhole
  ApprovedLinesFrozen
\* The bound on events is reached and the system may rest.
CHECK_DEADLOCK FALSE
