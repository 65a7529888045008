------------------------------ MODULE RunSlots ------------------------------
(***************************************************************************)
(* What the job runner promises the HTTP layer, without futures, queues or  *)
(* worker threads: every run has one slot.  A submission fills an idle slot *)
(* and is dropped while the slot is taken; a taken slot is first waiting,   *)
(* then executing, then idle again; a waiting slot may be emptied by a       *)
(* cancellation; and no more than Capacity slots execute together.          *)
(***************************************************************************)
EXTENDS Naturals, FiniteSets

CONSTANTS Runs,        \* the run identifiers
          Capacity     \* the most executions at a time (max_workers)

VARIABLE slot          \* slot[r]: what the runner is doing for run r

SlotState == {"idle", "waiting", "executing"}

Executing == {r \in Runs : slot[r] = "executing"}

Init == slot = [r \in Runs |-> "idle"]

Admit(r) ==
    /\ slot[r] = "idle"
    /\ slot' = [slot EXCEPT ![r] = "waiting"]

Start(r) ==
    /\ slot[r] = "waiting"
    /\ Cardinality(Executing) < Capacity
    /\ slot' = [slot EXCEPT ![r] = "executing"]

Drop(r) ==
    /\ slot[r] = "waiting"
    /\ slot' = [slot EXCEPT ![r] = "idle"]

End(r) ==
    /\ slot[r] = "executing"
    /\ slot' = [slot EXCEPT ![r] = "idle"]

Next == \E r \in Runs : Admit(r) \/ Start(r) \/ Drop(r) \/ End(r)

Spec == Init /\ [][Next]_slot

=============================================================================
