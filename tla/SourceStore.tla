----------------------------- MODULE SourceStore -----------------------------
(***************************************************************************)
(* The tables source_documents and source_document_revisions as             *)
(* SourceRepository.save uses them (storage/repositories.py): one row per    *)
(* source, naming its latest revision, and one row per revision.  A revision *)
(* identifier is derived from the source and the snapshot's fingerprint      *)
(* (source_snapshot/fetcher.py), so that a snapshot is known by it.          *)
(*                                                                         *)
(* A save looks the snapshot up before its transaction takes the write lock: *)
(* the lookup and the write are separate steps of the saving thread.         *)
(***************************************************************************)
EXTENDS TLC

CONSTANTS SourceIds, Revisions

VARIABLES latest,      \* latest_revision_id of the sources that have a row
          revisions    \* the rows of source_document_revisions

storeVars == <<latest, revisions>>

StoreTypeOK ==
    /\ DOMAIN latest \subseteq SourceIds
    /\ \A s \in DOMAIN latest : latest[s] \in Revisions
    /\ revisions \subseteq SourceIds \X Revisions

StoreInit == latest = <<>> /\ revisions = {}

\* What the lookup of a save remembers.
look(s, r) == [known |-> <<s, r>> \in revisions, base |-> s \in DOMAIN latest]

\* The primary keys, and uq_source_revision on source and fingerprint.
save_fails(s, r, seen) ==
    /\ ~seen.known
    /\ \/ ~seen.base /\ s \in DOMAIN latest
       \/ <<s, r>> \in revisions

\* The sources' latest revisions, r for s from now on.
naming(s, r) == [x \in DOMAIN latest \cup {s} |-> IF x = s THEN r ELSE latest[x]]

\* Fault: a source that has a row is updated, and its revision is forgotten.
write_updates(s, r, seen) ==
    IF seen.known THEN UNCHANGED storeVars
    ELSE /\ latest' = naming(s, r)
         /\ revisions' = IF seen.base THEN revisions ELSE revisions \cup {<<s, r>>}
\* Fault: the new revision takes the place of the old ones.
write_replaces(s, r, seen) ==
    IF seen.known THEN UNCHANGED storeVars
    ELSE /\ latest' = naming(s, r)
         /\ revisions' = {x \in revisions : x[1] # s} \cup {<<s, r>>}
\* A known snapshot is returned as it was stored; the rest of the transaction
\* inserts or updates the source and inserts the revision.
write(s, r, seen) ==
    IF seen.known THEN UNCHANGED storeVars
    ELSE /\ latest' = naming(s, r)
         /\ revisions' = revisions \cup {<<s, r>>}

\* Every source names a revision it has, and no revision is an orphan.
StoreIsConsistent ==
    /\ \A s \in DOMAIN latest : <<s, latest[s]>> \in revisions
    /\ \A x \in revisions : x[1] \in DOMAIN latest

\* A stored revision stays, and a source never loses its row.
HistoryGrows == revisions \subseteq revisions' /\ DOMAIN latest \subseteq DOMAIN latest'

=============================================================================
