----------------------------- MODULE RunControl -----------------------------
(***************************************************************************)
(* The registry of orchestration/run_control.py: which runs a user asked   *)
(* to cancel and which runs have an analysis deadline.  Every operation of  *)
(* the registry holds its lock for its whole body, so each one is a single  *)
(* step of whoever calls it.                                               *)
(*                                                                         *)
(* Time is abstract: a deadline is "armed" when it is set and "lapsed" once *)
(* the monotonic clock has passed it; "none" is a run without an entry in   *)
(* _deadlines.                                                             *)
(***************************************************************************)
CONSTANT Runs           \* the run identifiers

VARIABLES cancelled,    \* _cancelled: the runs somebody asked to cancel
          deadline      \* _deadlines, with the clock folded into the value

controlVars == <<cancelled, deadline>>

DeadlineState == {"none", "armed", "lapsed"}

ControlTypeOK ==
    /\ cancelled \subseteq Runs
    /\ deadline \in [Runs -> DeadlineState]

ControlInit ==
    /\ cancelled = {}
    /\ deadline = [r \in Runs |-> "none"]

\* Faults for the mutation runs: begin forgets to discard the run's flag, or
\* clears the flags of all runs.
begin_keepsFlag(r) ==
    /\ deadline' = [deadline EXCEPT ![r] = "armed"]
    /\ UNCHANGED cancelled

begin_clearsAll(r) ==
    /\ cancelled' = {}
    /\ deadline' = [deadline EXCEPT ![r] = "armed"]

begin(r) ==
    /\ cancelled' = cancelled \ {r}
    /\ deadline' = [deadline EXCEPT ![r] = "armed"]

\* Fault: finish overwrites the deadline instead of popping it.
finish_storesNone(r) ==
    /\ deadline' = [deadline EXCEPT ![r] = "None"]
    /\ cancelled' = cancelled \ {r}

finish(r) ==
    /\ deadline' = [deadline EXCEPT ![r] = "none"]
    /\ cancelled' = cancelled \ {r}

cancel(r) ==
    /\ cancelled' = cancelled \cup {r}
    /\ UNCHANGED deadline

\* The clock passes the deadline of run r.
Lapse(r) ==
    /\ deadline[r] = "armed"
    /\ deadline' = [deadline EXCEPT ![r] = "lapsed"]
    /\ UNCHANGED cancelled

=============================================================================
