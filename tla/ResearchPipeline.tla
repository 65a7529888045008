--------------------------- MODULE ResearchPipeline ---------------------------
(***************************************************************************)
(* ResearchPipeline.run for the risk agents                                  *)
(* (orchestration/research_pipeline.py) up to the research summary of the    *)
(* analysis (orchestration/analysis_orchestrator.py): the agents run side by *)
(* side and store what they read; the pool hands their results over in the   *)
(* order they finish; their documents are merged; every candidate is         *)
(* validated, once more after a retried extraction; the accepted ones are    *)
(* reconciled and saved; the run is settled and summarised.                  *)
(*                                                                         *)
(* What an agent reads and extracts is ResearchAgent's subject.  Here it is  *)
(* its load [docs, candidates, partial]: documents in the order it stores    *)
(* them, candidates [shape, source] in the order it extracted them.          *)
(***************************************************************************)
EXTENDS EventValidation, SourceStore

CONSTANTS Agents,
          Shapes,    \* what a candidate says, by name
          Loads,     \* the loads of the agents, functions on Agents
          Replies    \* what a retried extraction answers: [error, shapes]

Document ==
    [source : SourceIds, revision : Revisions, ok : BOOLEAN, flagged : BOOLEAN,
     tier : DOMAIN TIER \cup {"OTHER"}, dated : BOOLEAN, published : Int, anchored : BOOLEAN]
\* Every agent reads finitely many documents and extracts finitely many
\* candidates; a retried extraction answers with finitely many.
ASSUME LoadsAssumption ==
    /\ Loads \subseteq [Agents -> [docs : Seq(Document),
                                  candidates : Seq([shape : DOMAIN Shapes, source : SourceIds]),
                                  partial : BOOLEAN]]
    /\ \A r \in Replies : r.shapes \in Seq(DOMAIN Shapes)

\* What a candidate says is complete, of a registered type, with whole days.
ASSUME ShapesAssumption ==
    \A x \in DOMAIN Shapes : LET c == Shapes[x] IN
       /\ {"type", "value", "claims", "quote", "paths", "start", "end", "next_decision", "hold_quote",
           "ongoing", "relevant", "venues", "place", "who", "bok"} \subseteq DOMAIN c
       /\ c.type \in DOMAIN Registry /\ c.bok \in BOOLEAN
       /\ {c.start.day, c.end.day, c.next_decision.day} \subseteq Int

VARIABLES load,
          at,          \* of every agent: LOOK, SAVE, DONE or FAILED
          read,        \* how many of its documents an agent has stored
          seen,        \* what the save of its next document looked up
          order,       \* the agents whose results were collected
          errors,
          documents,   \* the merged documents, by source
          todo,        \* the candidates still to be validated
          outcomes,
          candidates,  \* the rows of event_candidates: identifier to shape
          accepted, excluded,
          to_save,     \* the events still to be saved
          versions,    \* the rows of canonical_event_versions
          row,         \* the status of the research run
          pc

agentVars == <<at, read, seen>>
eventVars == <<accepted, excluded, to_save, versions>>
vars == <<load, at, read, seen, order, errors, documents, todo, outcomes, candidates,
          accepted, excluded, to_save, versions, row, pc, latest, revisions>>

\* What a candidate says, with where it comes from.
Placed(place, said) ==
    [x \in DOMAIN place \cup DOMAIN said |-> IF x \in DOMAIN place THEN place[x] ELSE said[x]]
\* Fault: the identifier does not say that the extraction was retried.
Candidate_unmarked(agent, shape, source, revision, index, attempt) ==
    Placed([id |-> <<agent, source, revision, index, 0>>,
            shape |-> shape, source |-> source, revision |-> revision], Shapes[shape])
Candidate(agent, shape, source, revision, index, attempt) ==
    Placed([id |-> <<agent, source, revision, index, attempt>>,
            shape |-> shape, source |-> source, revision |-> revision], Shapes[shape])

\* The last snapshot an agent read of a source.
own_document(a, s) ==
    load[a].docs[Max({i \in DOMAIN load[a].docs : load[a].docs[i].source = s})]
\* Candidates are numbered within their source.
own_candidates(a) ==
    LET cs == load[a].candidates
        index(i) == Cardinality({j \in 1..i : cs[j].source = cs[i].source})
    IN [i \in DOMAIN cs |-> Candidate(a, cs[i].shape, cs[i].source,
                                      own_document(a, cs[i].source).revision, index(i), 0)]

----------------------------------------------------------------------------
Init ==
    /\ load \in Loads
    /\ at = [a \in Agents |-> "LOOK"] /\ read = [a \in Agents |-> 0]
    /\ seen = [a \in Agents |-> [known |-> FALSE, base |-> FALSE]]
    /\ order = <<>> /\ errors = {} /\ documents = <<>> /\ todo = <<>> /\ outcomes = <<>>
    /\ candidates = <<>> /\ accepted = {} /\ excluded = <<>> /\ to_save = <<>> /\ versions = {}
    /\ row = "RUNNING" /\ pc = "COLLECTING"
    /\ StoreInit

(* The threads of the pool.                                                  *)

next_document(a) == load[a].docs[read[a] + 1]

Look(a) ==
    /\ at[a] = "LOOK" /\ read[a] < Len(load[a].docs)
    /\ seen' = [seen EXCEPT ![a] = look(next_document(a).source, next_document(a).revision)]
    /\ at' = [at EXCEPT ![a] = "SAVE"]
    /\ UNCHANGED <<load, read, order, errors, documents, todo, outcomes, candidates, row, pc>>
    /\ UNCHANGED <<eventVars, storeVars>>

\* A violated key is not caught: the agent raises and its result is lost.
Save(a) ==
    LET doc == next_document(a)
        fails == save_fails(doc.source, doc.revision, seen[a])
    IN /\ at[a] = "SAVE"
       /\ at' = [at EXCEPT ![a] = IF fails THEN "FAILED" ELSE "LOOK"]
       /\ read' = [read EXCEPT ![a] = IF fails THEN @ ELSE @ + 1]
       /\ IF fails THEN UNCHANGED storeVars ELSE write(doc.source, doc.revision, seen[a])
       /\ UNCHANGED <<load, seen, order, errors, documents, todo, outcomes, candidates, row, pc>>
       /\ UNCHANGED eventVars

\* Rows that exist stay as they are.
stored(cs) == [id \in {c.id : c \in ToSet(cs)} |-> (CHOOSE c \in ToSet(cs) : c.id = id).shape]

Extract(a) ==
    /\ at[a] = "LOOK" /\ read[a] = Len(load[a].docs)
    /\ at' = [at EXCEPT ![a] = "DONE"]
    /\ candidates' = candidates @@ stored(own_candidates(a))
    /\ UNCHANGED <<load, read, seen, order, errors, documents, todo, outcomes, row, pc>>
    /\ UNCHANGED <<eventVars, storeVars>>

(* The thread of the run.                                                    *)

collected == ToSet(order)
\* as_completed: in the order the agents happen to finish.
Collect(a) ==
    /\ pc = "COLLECTING" /\ a \notin collected \cup errors
    /\ \/ at[a] = "DONE" /\ order' = Append(order, a) /\ UNCHANGED errors
       \/ at[a] = "FAILED" /\ errors' = errors \cup {a} /\ UNCHANGED order
    /\ UNCHANGED <<load, agentVars, documents, todo, outcomes, candidates, row, pc>>
    /\ UNCHANGED <<eventVars, storeVars>>

\* Of one source, the snapshot of the agent collected last.
merged_documents ==
    LET all == FlattenSeq([i \in DOMAIN order |-> load[order[i]].docs])
        last(s) == Max({i \in DOMAIN all : all[i].source = s})
    IN [s \in {d.source : d \in ToSet(all)} |-> all[last(s)]]

Merge ==
    /\ pc = "COLLECTING" /\ collected \cup errors = Agents
    /\ documents' = merged_documents
    /\ todo' = FlattenSeq([i \in DOMAIN order |-> own_candidates(order[i])])
    /\ pc' = "VALIDATING"
    /\ UNCHANGED <<load, agentVars, order, errors, outcomes, candidates, row>>
    /\ UNCHANGED <<eventVars, storeVars>>

\* The candidates of a retried extraction, numbered anew.
retried(c, shapes) ==
    [i \in DOMAIN shapes |->
       Candidate(c.id[1], shapes[i], c.source, documents[c.source].revision, i, 1)]

retries(c, outcome) == outcome.retryable /\ c.source \in DOMAIN documents
accepted_at(os) == {i \in DOMAIN os : os[i].status = "ACCEPTED"}
\* The first accepted one of the retried candidates is added; the rest are dropped.
first_accepted(cs) ==
    LET verdicts == [i \in DOMAIN cs |-> validate(cs[i], documents)]
        good == Chosen(verdicts, accepted_at(verdicts))
    IN IF good = <<>> THEN <<>> ELSE <<good[1]>>

Answered(outcome, again) == <<outcome>> \o again

ValidateNext ==
    /\ pc = "VALIDATING" /\ todo # <<>>
    /\ todo' = Tail(todo)
    /\ \E c \in {Head(todo)} : \E outcome \in {validate(c, documents)} :
          \/ /\ ~retries(c, outcome)
             /\ outcomes' = Append(outcomes, outcome)
             /\ UNCHANGED <<candidates, errors>>
          \/ /\ retries(c, outcome)
             /\ \E reply \in Replies : \E again \in {retried(c, reply.shapes)} :
                  /\ candidates' = candidates @@ stored(again)
                  /\ outcomes' = outcomes \o Answered(outcome, first_accepted(again))
                  /\ errors' = errors \cup (IF reply.error = "NONE" THEN {} ELSE {"VALIDATION_RETRY"})
    /\ UNCHANGED <<load, agentVars, order, documents, row, pc>>
    /\ UNCHANGED <<eventVars, storeVars>>

accepted_raw ==
    LET good == Chosen(outcomes, accepted_at(outcomes))
    IN [i \in DOMAIN good |-> CHOOSE e \in good[i].event : TRUE]

Reconcile ==
    /\ pc = "VALIDATING" /\ todo = <<>>
    /\ LET result == reconcile(accepted_raw)
       IN /\ accepted' = assign_cause_groups(result.accepted)
          /\ excluded' = result.excluded
          /\ to_save' = SetToSeq(accepted') \o excluded'
    /\ pc' = "SAVING"
    /\ UNCHANGED <<load, agentVars, order, errors, documents, todo, outcomes, candidates, versions, row>>
    /\ UNCHANGED storeVars

\* The log rows of a version are inserted anew: the same version twice raises.
SaveNext ==
    /\ pc = "SAVING" /\ to_save # <<>>
    /\ \/ /\ Head(to_save) \in versions
          /\ pc' = "RAISED"
          /\ UNCHANGED <<versions, to_save>>
       \/ /\ Head(to_save) \notin versions
          /\ versions' = versions \cup {Head(to_save)}
          /\ to_save' = Tail(to_save)
          /\ UNCHANGED pc
    /\ UNCHANGED <<load, agentVars, order, errors, documents, todo, outcomes, candidates, row>>
    /\ UNCHANGED <<accepted, excluded, storeVars>>

\* Fault: an agent that raised does not count.
partial_forgets == \E a \in collected : load[a].partial
partial == errors # {} \/ \E a \in collected : load[a].partial

Finish ==
    /\ pc = "SAVING" /\ to_save = <<>>
    /\ row' = IF partial THEN "PARTIAL" ELSE "COMPLETED"
    /\ pc' = "FINISHED"
    /\ UNCHANGED <<load, agentVars, order, errors, documents, todo, outcomes, candidates>>
    /\ UNCHANGED <<eventVars, storeVars>>

rejected_outcomes == Chosen(outcomes, DOMAIN outcomes \ accepted_at(outcomes))
\* _research_summary refuses identifiers that occur twice.
ids_clash ==
    LET rejected == {o.candidate : o \in ToSet(rejected_outcomes)}
        kept == UNION {e.candidates : e \in accepted}
    IN \/ \E e, f \in accepted : e # f /\ e.candidates \cap f.candidates # {}
       \/ Cardinality(rejected) # Len(rejected_outcomes)
       \/ kept \cap rejected # {}

Summarise ==
    /\ pc = "FINISHED"
    /\ pc' = IF ids_clash THEN "RAISED" ELSE "SUMMARISED"
    /\ UNCHANGED <<load, agentVars, order, errors, documents, todo, outcomes, candidates, row>>
    /\ UNCHANGED <<eventVars, storeVars>>

Next ==
    \/ \E a \in Agents : Look(a) \/ Save(a) \/ Extract(a) \/ Collect(a)
    \/ Merge \/ ValidateNext \/ Reconcile \/ SaveNext \/ Finish \/ Summarise

Spec == Init /\ [][Next]_vars

----------------------------------------------------------------------------
TypeOK ==
    /\ load \in Loads /\ StoreTypeOK
    /\ at \in [Agents -> {"LOOK", "SAVE", "DONE", "FAILED"}]
    /\ \A a \in Agents : read[a] \in 0..Len(load[a].docs)
    /\ ToSet(order) \subseteq Agents /\ errors \subseteq Agents \cup {"VALIDATION_RETRY"}
    /\ \A o \in ToSet(outcomes) :
         /\ o.status \in {"ACCEPTED", "REJECTED", "REFERENCE_ONLY", "RETRYABLE"}
         /\ (o.status = "ACCEPTED") <=> (o.codes = {})
    /\ row \in {"RUNNING", "PARTIAL", "COMPLETED"}
    /\ pc \in {"COLLECTING", "VALIDATING", "SAVING", "FINISHED", "SUMMARISED", "RAISED"}

\* Whatever the agents read at the same time, the store keeps every snapshot
\* it took (SourceRepository.save; StoreIsConsistent is its invariant).
SourceHistoryGrows == [][HistoryGrows]_vars

\* An accepted event rests on snapshots the run merged and the store has,
\* readable, unflagged and trusted ones; one that may move the finances lies
\* in the forecast and is in no cause an official indicator stands for.
AcceptedAreGrounded ==
    \A e \in accepted :
       /\ e.revisions \subseteq revisions
       /\ \A x \in e.revisions :
            /\ x[1] \in DOMAIN documents /\ documents[x[1]].revision = x[2]
            /\ documents[x[1]].ok /\ ~documents[x[1]].flagged /\ documents[x[1]].tier # "OTHER"
       /\ e.start <= e.end
       /\ e.signal => /\ e.start <= ForecastEnd /\ e.end >= ForecastStart
                      /\ ~represented(e)

opposed(e, raw) == {f \in raw : f.id = e.id /\ ~same_facts(e, f)}
\* No statement of the same or a higher tier contradicts an accepted event,
\* in groups where each set of facts is stated at one tier only.
AcceptedAreUnopposed ==
    LET raw == ToSet(accepted_raw)
        clear(e) == \A f, g \in raw : f.id = e.id /\ g.id = e.id /\ same_facts(f, g) => f.tier = g.tier
    IN \A e \in accepted : clear(e) => \A f \in opposed(e, raw) : TIER[f.tier] < TIER[e.tier]

\* On the day of the analysis one base-rate decision is in force, whatever
\* decisions the articles found (those made on different days).
OneDecisionInForce ==
    LET in_force == {e \in accepted : e.bok /\ e.start <= AsOf /\ AsOf <= e.end}
    IN \A e, f \in in_force : e.start = f.start

retried_twice ==
    \E i, j \in DOMAIN outcomes :
       /\ i < j /\ retries(outcomes[i], outcomes[i]) /\ retries(outcomes[j], outcomes[j])
       /\ outcomes[i].candidate[1] = outcomes[j].candidate[1]
       /\ outcomes[i].source = outcomes[j].source
\* Unless two candidates of one source were retried, every candidate has one
\* verdict, and neither the saves nor the summary refuse an identifier.
OneVerdictPerCandidate ==
    ~retried_twice =>
       /\ pc # "RAISED"
       /\ \A i, j \in DOMAIN outcomes : outcomes[i].candidate = outcomes[j].candidate => i = j

EveryCandidateIsJudged ==
    \A a \in Agents : \A c \in ToSet(own_candidates(a)) : c.id \in {o.candidate : o \in ToSet(outcomes)}
EverySnapshotIsKept ==
    \A a \in Agents :
       /\ \A i \in 1..Len(load[a].docs) : <<load[a].docs[i].source, load[a].docs[i].revision>> \in revisions
       /\ ~load[a].partial

\* A run recorded as COMPLETED has a verdict on every candidate that any agent
\* extracted, and every snapshot that any agent read; no agent was cut short.
CompletedMeansEverything == row = "COMPLETED" => EveryCandidateIsJudged /\ EverySnapshotIsKept

=============================================================================
