------------------------------ MODULE MCWorkers ------------------------------
(***************************************************************************)
(* The workers of the scan platform for TLC.  A behaviour is about the jobs*)
(* of the code workers or the queue of one integration, of the only one    *)
(* that is configured, and what the others work on stays as it begins.     *)
(*                                                                         *)
(* Jobs: two of consecutive numbers of one series, two of pallets and one  *)
(* of before the SSCC migration, over the turn of a month; in each         *)
(* behaviour, all but three of them were cancelled at the start.  Queues:  *)
(* each with two workers; an export may also wait where storage is not     *)
(* configured.                                                             *)
(***************************************************************************)
EXTENDS CodeJobs, Deliveries

CONSTANTS s1, s2, p1, p2, old, e1, e2, h1, x1

VARIABLE about

MCRule == [j \in Jobs |-> CASE j \in {s1, s2} -> "SEQUENTIAL"
                             [] j \in {p1, p2} -> "SSCC"
                             [] j = old -> "LEGACY_NONCONFORMING"]
MCSeries == [j \in Jobs |-> "gtin/lot"]
MCQuantity == [j \in Jobs |-> IF j \in {s2, p1} THEN 2 ELSE 1]
MCRequestedAt == [j \in Jobs |-> CASE j = old -> 1 [] j = s1 -> 2 [] j = p1 -> 3
                                    [] j = s2 -> 4 [] j = p2 -> 5]
\* The longer prefix has room for one pallet less.
MCCapacity == [p \in Prefixes |-> IF p = "0614141" THEN 3 ELSE 2]
Scenarios == {{s1, s2, old}, {p1, p2, old}}

MCCreatedAt == [r \in Rows |-> IF r = e1 THEN 1 ELSE 2]
MCEndpointOf == [r \in Hooks |-> "erp"]
QueueOf(integration) == CASE integration = "epcis" -> Events
                          [] integration = "webhooks" -> Hooks \cup Exports
                          [] integration = "storage" -> Exports

MCInit ==
  /\ about \in {"jobs"} \cup Integrations
  /\ DeliveriesInit
  /\ \/ about = "jobs" /\ deployed = {"epcis"} /\ \E S \in Scenarios : JobsInitWith(Jobs \ S)
     \/ about # "jobs" /\ deployed = {about} /\ JobsInitWith(Jobs)

MCNext ==
  /\ UNCHANGED about
  /\ \/ about = "jobs" /\ JobsNext /\ UNCHANGED deliveryVars
     \/ /\ about # "jobs" /\ DeliveriesNext /\ UNCHANGED jobVars
        /\ \A r \in Rows \ QueueOf(about) : rows[r].state' = "absent"

MCSpec ==
  /\ MCInit /\ [][MCNext]_<<about, jobVars, deliveryVars>>
  /\ JobsFairness /\ DeliveriesFairness
=============================================================================
