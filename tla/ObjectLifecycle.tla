-------------------------- MODULE ObjectLifecycle --------------------------
(***************************************************************************)
(* The life of a serialized object (an item, a case or a pallet): which    *)
(* business event is valid in which status, and the status it leads to.    *)
(* Pure operators, no state: apps/scan-api/src/domain.mjs.                 *)
(***************************************************************************)
EXTENDS Naturals

Level == {"ITEM", "CASE", "PALLET"}

Status == {"COMMISSIONED", "PACKED", "IN_TRANSIT", "RECEIVED", "SOLD",
           "RETURNED", "DESTROYED"}

\* Events that change who holds what; each scans one root object.
MovingEvent == {"SHIPPING", "RECEIVING_DISTRIBUTOR", "RECEIVING_STORE",
                "RETURNING", "SELLING", "DESTROYING"}
\* Events that change a packaging relationship.
PackagingEvent == {"PACKING", "UNPACKING", "REPACKING"}
EventType == MovingEvent \cup PackagingEvent \cup {"VERIFY"}

Receiving == {"RECEIVING_DISTRIBUTOR", "RECEIVING_STORE"}

\* Packaging ranks: a parent outranks its child.
ranks == [l \in Level |-> IF l = "ITEM" THEN 1 ELSE IF l = "CASE" THEN 2 ELSE 3]

\* Events that leave the status as it is and are valid in every status.
StatusKept == {"VERIFY", "UNPACKING", "REPACKING"}

EveryLevel(statuses) == [l \in Level |-> statuses]
ItemOnly(statuses) == [l \in Level |-> IF l = "ITEM" THEN statuses ELSE {}]

\* The statuses in which an event is valid for an object of a level.
ValidFrom ==
  [PACKING               |-> ItemOnly({"COMMISSIONED"}),
   SHIPPING              |-> EveryLevel({"COMMISSIONED", "PACKED", "RECEIVED"}),
   RECEIVING_DISTRIBUTOR |-> EveryLevel({"IN_TRANSIT"}),
   RECEIVING_STORE       |-> EveryLevel({"IN_TRANSIT"}),
   RETURNING             |-> [l \in Level |-> {"RECEIVED"} \cup
                                (IF l = "ITEM" THEN {"SOLD"} ELSE {})],
   SELLING               |-> ItemOnly({"RECEIVED"}),
   DESTROYING            |-> EveryLevel({"COMMISSIONED", "PACKED", "RECEIVED",
                                         "RETURNED"})]

\* The status each of those events leads to.
LeadsTo ==
  [PACKING               |-> "PACKED",
   SHIPPING              |-> "IN_TRANSIT",
   RECEIVING_DISTRIBUTOR |-> "RECEIVED",
   RECEIVING_STORE       |-> "RECEIVED",
   RETURNING             |-> "RETURNED",
   SELLING               |-> "SOLD",
   DESTROYING            |-> "DESTROYED"]

\* Mutant: what has been received may be received again.
ValidTransitionAgain(eventType, level, current) ==
  \/ eventType \in StatusKept \/ current \in ValidFrom[eventType][level]
  \/ eventType \in Receiving /\ current = "RECEIVED"

\* nextObjectStatus throws INVALID_STATE_TRANSITION (409) when this is false.
ValidTransition(eventType, level, current) ==
  eventType \notin StatusKept => current \in ValidFrom[eventType][level]

nextObjectStatus(eventType, current) ==
  IF eventType \in StatusKept THEN current ELSE LeadsTo[eventType]
=============================================================================
