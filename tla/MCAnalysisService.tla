-------------------------- MODULE MCAnalysisService --------------------------
(***************************************************************************)
(* Instances of AnalysisService for TLC.                                   *)
(***************************************************************************)
EXTENDS AnalysisService, TLC

MCKeys == Headers \cup (Runs \X Bodies)

AllEndpoints == {"v1", "v1_sync", "legacy", "legacy_sync"}
V1Endpoints == {"v1", "v1_sync"}
JobEndpoints == {"v1", "v1_sync", "legacy"}

\* Runs also name executors and clients are executors too, each in one role:
\* the members of each set are interchangeable.
Symmetry == Permutations(Runs) \cup Permutations(Clients)

=============================================================================
