--------------------------- MODULE MCTraceEvents ---------------------------
(***************************************************************************)
(* Instances of TraceEvents for TLC: one brand, a dealer and a store, two  *)
(* cases and two items.  Half of the behaviours start with the documents   *)
(* for events approved, a state that creating, filling and approving each  *)
(* of them leads to, so that the bound is spent on events; the others      *)
(* start from nothing and take two papers through their whole life, with   *)
(* events of one case and one item.  TripSpec follows one case further.    *)
(***************************************************************************)
EXTENDS TraceEvents

CONSTANTS brand, dealer, store, agent, i1, i2, c1, c2

MCLevelOf == [o \in Objects |-> IF o \in {i1, i2} THEN "ITEM" ELSE "CASE"]
\* Code jobs leave the organization NULL, code batches set the brand's.
MCInitialCustodian == [o \in Objects |-> IF o = i1 THEN None ELSE brand]
MCCapability == [g \in Organizations |->
  CASE g = brand  -> {"PACKING", "UNPACKING", "SHIPPING", "DESTROYING"}
    [] g = dealer -> {"RECEIVING_DISTRIBUTOR", "SHIPPING", "RETURNING"}
    [] g = store  -> {"RECEIVING_STORE", "SELLING", "VERIFY"}]
\* One campaign pays distributors, two compete for the stores' receipts.
MCMatching == [e \in Receiving |-> IF e = "RECEIVING_STORE" THEN 2 ELSE 1]
\* A shipment row addressed to the dealer that announces only the case.
MCShipments == {"announced"}
MCShipmentTo == [s \in Shipments |-> dealer]
MCShipmentObjects == [s \in Shipments |-> {c1}]

Action(S) == [object : S, expected : {TRUE}, role : {"ACTION"}]
Context(S) == [object : S, expected : {TRUE}, role : {"CONTEXT"}]

LinesOf(requests) ==
  [o \in Objects |->
     IF \E r \in requests : r.object = o
     THEN LET r == CHOOSE x \in requests : x.object = o
          IN [role |-> r.role, expected |-> r.expected, fulfilledBy |-> Unfulfilled]
     ELSE NoLine]

EventDocuments == {"pack1", "pack2", "ship", "receive", "shelve", "destroy"}
Papers == {"bill", "slip"}
MCDocuments == EventDocuments \cup Papers

DocumentsAre(types) == [d \in Documents |-> types[d]]

\* Events: the case is packed, repacked, unpacked, shipped, received by the dealer or
\* the store, or destroyed, with or without the item in it.  Papers: a shipment and a
\* receipt, with the item entered on the shipment as an action, as context, or as not
\* expected.
MCDocType == DocumentsAre(
  [pack1 |-> "PACKING_ORDER", pack2 |-> "PACKING_ORDER", ship |-> "SHIPMENT",
   receive |-> "RECEIPT", shelve |-> "RECEIPT", destroy |-> "DESTRUCTION",
   bill |-> "SHIPMENT", slip |-> "RECEIPT"])
MCFrom == [d \in Documents |-> brand]
MCTo == DocumentsAre(
  [pack1 |-> None, pack2 |-> None, ship |-> dealer, receive |-> dealer,
   shelve |-> store, destroy |-> None, bill |-> dealer, slip |-> dealer])
MCLines == DocumentsAre(
  [pack1 |-> Action({i1}) \cup Context({i2, c1, c2}),
   pack2 |-> Action({i1}) \cup Context({c1, c2}),
   ship |-> Action({c1, i1}), receive |-> Action({c1, i1}),
   shelve |-> Action({c1}), destroy |-> Action({c1}),
   bill |-> Action({c1}) \cup
            [object : {i1}, expected : BOOLEAN, role : {"ACTION", "CONTEXT"}],
   slip |-> Action({i1, c1})])

ApprovedInit ==
  /\ docStatus = [d \in Documents |-> IF d \in Papers THEN "ABSENT" ELSE "APPROVED"]
  /\ docVersion = [d \in Documents |-> IF d \in Papers THEN 0 ELSE 1]
  /\ lines = [d \in Documents |-> IF d \in Papers THEN LinesOf({})
                                                    ELSE LinesOf(LineRequests[d])]
  /\ status = [o \in Objects |-> "COMMISSIONED"]
  /\ custodian = InitialCustodian
  /\ parent = [o \in Objects |-> None]
  /\ log = <<>>
  /\ risk = [i \in 1 .. MaxEvents |-> "NONE"]
  /\ claims = {}

EventsOnly == \A d \in EventDocuments : docStatus[d] # "ABSENT"

\* No clerk touches the documents of the events, no store those of the papers.
EventsStep == EventsOnly /\ (TraceNext \/ RiskNext)
PapersStep ==
  /\ ~EventsOnly
  /\ \/ /\ TraceNext
        /\ LET e == log'[Len(log')] IN
             Len(log') <= 3 /\ e.object \in {i1, c1} /\ e.organization \in {brand, dealer}
     \/ RiskNext
     \/ /\ \E d \in Papers : DocumentRequest(d)
        /\ UNCHANGED <<objectVars, log, risk, claims>>

MCSpec == (ApprovedInit \/ Init) /\ [][EventsStep \/ PapersStep]_vars

-----------------------------------------------------------------------------
(* A case on its way to a distributor, to another one, and back *)

Trip == <<"out", "first", "onward", "second", "back", "third">>
TripDocuments == {Trip[i] : i \in DOMAIN Trip}
TripType ==
  [d \in TripDocuments |-> IF d \in {"out", "onward", "back"} THEN "SHIPMENT" ELSE "RECEIPT"]
TripFrom == [d \in TripDocuments |->
  CASE d = "onward" -> dealer [] d = "back" -> agent [] OTHER -> brand]
TripTo == [d \in TripDocuments |-> IF d \in {"onward", "second"} THEN agent ELSE dealer]
TripLines == [d \in TripDocuments |-> Action({c1})]
TripCapability == [g \in Organizations |->
  IF g = brand THEN {"SHIPPING"} ELSE {"RECEIVING_DISTRIBUTOR", "SHIPPING"}]

\* Each shipment is received by whom it is addressed to, before the next.
TripStep == TraceNext /\ log'[Len(log')].document = Trip[Len(log')]

TripSpec == ApprovedInit /\ [][TripStep]_vars
=============================================================================
