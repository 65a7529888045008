----------------------------- MODULE ResultStore -----------------------------
(***************************************************************************)
(* The analysis_results table as AnalysisResultRepository uses it           *)
(* (storage/analysis_repository.py, storage/schema.py): append-only rows,   *)
(* looked up by idempotency key or by run and version, with the two unique  *)
(* constraints of the schema.  Every method opens its own transaction, so a *)
(* lookup and the insertion that follows it are separate steps of a caller. *)
(***************************************************************************)
EXTENDS Naturals, FiniteSetsExt

CONSTANTS Runs,       \* run identifiers
          Bodies,     \* request bodies, up to the run they name
          Keys        \* idempotency keys

VARIABLE results      \* the rows of analysis_results

ResultStatus == {"COMPLETED", "PARTIAL", "FAILED"}

Result == [run : Runs, version : Nat \ {0}, key : Keys, body : Bodies, status : ResultStatus]

Versions(run) == {x.version : x \in {y \in results : y.run = run}}

\* Fault: the newest version is drawn again.
next_version_repeats(run) == Max({0} \cup Versions(run))

next_version(run) == 1 + Max({0} \cup Versions(run))

\* The row with this key, as a set of at most one (the schema's constraint on
\* tenant and key).
get_by_idempotency_key(key) == {x \in results : x.key = key}

\* The newest row of the run, as a set of at most one.
get(run) == {x \in results : x.run = run /\ x.version = Max(Versions(run))}

\* uq_analysis_result_version (and the primary key, which is derived from the
\* same pair) and uq_analysis_result_tenant_idempotency.
IntegrityError(x) ==
    \E y \in results : (y.run = x.run /\ y.version = x.version) \/ y.key = x.key

\* INSERT of the row and of its sections, in one transaction.
insert(x) ==
    /\ ~IntegrityError(x)
    /\ results' = results \cup {x}

=============================================================================
