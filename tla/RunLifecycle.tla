---------------------------- MODULE RunLifecycle ----------------------------
(***************************************************************************)
(* What GET /v1/analyses/{run_id} promises a client that polls a run: a run *)
(* is unknown, then accepted, then settled in one terminal status, which    *)
(* never changes again.                                                    *)
(***************************************************************************)
CONSTANTS Runs, Terminal    \* Terminal: the statuses that end the polling

VARIABLE life               \* life[r]: what a client sees of run r

Init == life = [r \in Runs |-> "unknown"]

Accept(r) ==
    /\ life[r] = "unknown"
    /\ life' = [life EXCEPT ![r] = "accepted"]

Settle(r) ==
    /\ life[r] = "accepted"
    /\ \E s \in Terminal : life' = [life EXCEPT ![r] = s]

Next == \E r \in Runs : Accept(r) \/ Settle(r)

Spec == Init /\ [][Next]_life

=============================================================================
