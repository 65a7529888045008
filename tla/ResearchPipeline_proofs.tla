------------------------ MODULE ResearchPipeline_proofs ------------------------
(***************************************************************************)
(* Proofs about ResearchPipeline for any agents, loads and answers: what   *)
(* agents that store their documents side by side leave in the store, what *)
(* a COMPLETED run has read and judged, that accepted events rest on       *)
(* documents of the run and are opposed by nobody, the types, and that     *)
(* every candidate has one verdict that the saves and the summary accept.  *)
(***************************************************************************)
EXTENDS ResearchPipeline, SequenceLemmas

Places == {"LOOK", "SAVE", "DONE", "FAILED"}

\* What an agent counts as stored is stored, and what a lookup found known is
\* there: nothing takes a revision away between the lookup and the write.
ReadIsStored ==
    /\ load \in Loads
    /\ at \in [Agents -> Places]
    /\ read \in [Agents -> Nat]
    /\ seen \in [Agents -> [known : BOOLEAN, base : BOOLEAN]]
    /\ \A a \in Agents : read[a] <= Len(load[a].docs)
    /\ \A a \in Agents : at[a] = "SAVE" => read[a] < Len(load[a].docs)
    /\ \A a \in Agents : at[a] = "DONE" => read[a] = Len(load[a].docs)
    /\ \A a \in Agents : \A i \in 1 .. read[a] :
          <<load[a].docs[i].source, load[a].docs[i].revision>> \in revisions
    /\ \A a \in Agents : at[a] = "SAVE" /\ seen[a].known =>
          <<next_document(a).source, next_document(a).revision>> \in revisions

\* The run waits for all its agents, and takes results of finished ones only.
AllAreWaitedFor ==
    /\ order \in Seq(Agents)
    /\ \A a \in collected : at[a] = "DONE"
    /\ pc # "COLLECTING" => Agents \subseteq collected \cup errors
    /\ row = "COMPLETED" => pc \in {"FINISHED", "SUMMARISED", "RAISED"} /\ ~partial

IInv == ReadIsStored /\ AllAreWaitedFor

-----------------------------------------------------------------------------
(* The store.                                                               *)

\* Whoever writes, whatever it had looked up, leaves a consistent store.
LEMMA WriteKeepsStore ==
    ASSUME NEW s, NEW r, NEW found, StoreIsConsistent, write(s, r, found)
    PROVE  StoreIsConsistent'
<1>1. CASE found.known
  BY <1>1 DEF write, storeVars, StoreIsConsistent
<1>2. CASE ~found.known
  <2>1. /\ latest' = naming(s, r)
        /\ revisions' = revisions \cup {<<s, r>>}
    BY <1>2 DEF write
  <2>2. DOMAIN latest' = DOMAIN latest \cup {s}
    BY <2>1 DEF naming
  <2>3. \A x \in DOMAIN latest' : latest'[x] = IF x = s THEN r ELSE latest[x]
    BY <2>1, <2>2 DEF naming
  <2>4. ASSUME NEW x \in DOMAIN latest' PROVE <<x, latest'[x]>> \in revisions'
    BY <2>1, <2>2, <2>3, <2>4 DEF StoreIsConsistent
  <2>5. ASSUME NEW x \in revisions' PROVE x[1] \in DOMAIN latest'
    BY <2>1, <2>2, <2>5 DEF StoreIsConsistent
  <2> QED BY <2>4, <2>5 DEF StoreIsConsistent
<1> QED BY <1>1, <1>2

LEMMA WriteGrows ==
    ASSUME NEW s, NEW r, NEW found, write(s, r, found)
    PROVE  HistoryGrows
<1>1. CASE found.known
  BY <1>1 DEF write, storeVars, HistoryGrows
<1>2. CASE ~found.known
  BY <1>2 DEF write, naming, HistoryGrows
<1> QED BY <1>1, <1>2

\* The store is only written by an agent that saves.
StoreStep == UNCHANGED storeVars \/ \E s, r, found : write(s, r, found)

LEMMA NextStore == [Next]_vars => StoreStep
<1> SUFFICES ASSUME [Next]_vars PROVE StoreStep
  OBVIOUS
<1>1. ASSUME NEW a \in Agents, Save(a) PROVE StoreStep
  <2>1. UNCHANGED storeVars \/ write(next_document(a).source, next_document(a).revision, seen[a])
    BY <1>1 DEF Save
  <2> QED BY <2>1 DEF StoreStep
<1>2. ASSUME NEW a \in Agents, Look(a) \/ Extract(a) \/ Collect(a) PROVE StoreStep
  BY <1>2 DEF Look, Extract, Collect, StoreStep
<1>3. CASE Merge \/ ValidateNext \/ Reconcile \/ SaveNext \/ Finish \/ Summarise
  BY <1>3 DEF Merge, ValidateNext, Reconcile, SaveNext, Finish, Summarise, StoreStep, storeVars
<1>4. CASE UNCHANGED vars
  BY <1>4 DEF vars, StoreStep, storeVars
<1> QED BY <1>1, <1>2, <1>3, <1>4 DEF Next

\* Every source names a revision the store has and no revision is an orphan,
\* however the saves of the agents interleave (SourceRepository.save).
THEOREM StoreStaysConsistent == Spec => []StoreIsConsistent
<1>1. Init => StoreIsConsistent
  BY DEF Init, StoreInit, StoreIsConsistent
<1>2. StoreIsConsistent /\ [Next]_vars => StoreIsConsistent'
  <2> SUFFICES ASSUME StoreIsConsistent, [Next]_vars PROVE StoreIsConsistent'
    OBVIOUS
  <2>1. CASE UNCHANGED storeVars
    BY <2>1 DEF storeVars, StoreIsConsistent
  <2>2. CASE \E s, r, found : write(s, r, found)
    BY <2>2, WriteKeepsStore
  <2> QED BY <2>1, <2>2, NextStore DEF StoreStep
<1> QED BY <1>1, <1>2, PTL DEF Spec

\* No step of any agent takes a revision or a source out of the store.
THEOREM StoreOnlyGrows == Spec => SourceHistoryGrows
<1>1. [Next]_vars => [HistoryGrows]_vars
  <2> SUFFICES ASSUME [Next]_vars PROVE HistoryGrows
    OBVIOUS
  <2>1. CASE UNCHANGED storeVars
    BY <2>1 DEF storeVars, HistoryGrows
  <2>2. CASE \E s, r, found : write(s, r, found)
    BY <2>2, WriteGrows
  <2> QED BY <2>1, <2>2, NextStore DEF StoreStep
<1> QED BY <1>1, PTL DEF Spec, SourceHistoryGrows

-----------------------------------------------------------------------------
(* What a COMPLETED run has read.                                           *)

\* A write that does not fail leaves its revision in the store.
LEMMA WriteStores ==
    ASSUME NEW s, NEW r, NEW found, write(s, r, found), found.known => <<s, r>> \in revisions
    PROVE  <<s, r>> \in revisions'
  BY DEF write, storeVars

LEMMA RevisionsStay == [Next]_vars => revisions \subseteq revisions'
<1>1. UNCHANGED storeVars => revisions \subseteq revisions'
  BY DEF storeVars
<1> QED BY <1>1, NextStore, WriteGrows DEF StoreStep, HistoryGrows

LEMMA ReadInit == Init => ReadIsStored
  BY LoadsAssumption DEF Init, ReadIsStored, Places

\* The agents' threads, one at a time.
LEMMA LookReads == ASSUME ReadIsStored, NEW a \in Agents, Look(a) PROVE ReadIsStored'
<1>1. /\ at[a] = "LOOK" /\ read[a] < Len(load[a].docs)
      /\ seen' = [seen EXCEPT ![a] = look(next_document(a).source, next_document(a).revision)]
      /\ at' = [at EXCEPT ![a] = "SAVE"]
      /\ UNCHANGED <<load, read, revisions>>
  BY DEF Look, storeVars
<1>2. look(next_document(a).source, next_document(a).revision) \in [known : BOOLEAN, base : BOOLEAN]
  BY DEF look
<1>3. look(next_document(a).source, next_document(a).revision).known
         => <<next_document(a).source, next_document(a).revision>> \in revisions
  BY DEF look
<1> QED BY <1>1, <1>2, <1>3 DEF ReadIsStored, Places, next_document

LEMMA SaveReads == ASSUME ReadIsStored, [Next]_vars, NEW a \in Agents, Save(a) PROVE ReadIsStored'
<1> DEFINE doc == next_document(a)
           fails == save_fails(doc.source, doc.revision, seen[a])
<1>1. /\ at[a] = "SAVE"
      /\ at' = [at EXCEPT ![a] = IF fails THEN "FAILED" ELSE "LOOK"]
      /\ read' = [read EXCEPT ![a] = IF fails THEN @ ELSE @ + 1]
      /\ ~fails => write(doc.source, doc.revision, seen[a])
      /\ UNCHANGED <<load, seen>>
  BY DEF Save
<1>2. revisions \subseteq revisions'
  BY RevisionsStay
<1>3. ~fails => <<doc.source, doc.revision>> \in revisions'
  <2>1. seen[a].known => <<doc.source, doc.revision>> \in revisions
    BY <1>1 DEF ReadIsStored
  <2> QED BY <1>1, <2>1, WriteStores
<1>4. at' \in [Agents -> Places] /\ read' \in [Agents -> Nat]
  BY <1>1 DEF ReadIsStored, Places
<1>5. \A b \in Agents : /\ read'[b] <= Len(load[b].docs)
                        /\ at'[b] = "SAVE" => read'[b] < Len(load[b].docs)
                        /\ at'[b] = "DONE" => read'[b] = Len(load[b].docs)
  BY <1>1, LoadsAssumption DEF ReadIsStored
<1>6. ASSUME NEW b \in Agents, NEW i \in 1 .. read'[b]
      PROVE  <<load[b].docs[i].source, load[b].docs[i].revision>> \in revisions'
  <2>1. CASE i \in 1 .. read[b]
    BY <1>2, <2>1 DEF ReadIsStored
  <2>2. CASE i \notin 1 .. read[b]
    <3>1. b = a /\ ~fails /\ i = read[a] + 1
      BY <1>1, <2>2 DEF ReadIsStored
    <3> QED BY <1>3, <3>1 DEF next_document
  <2> QED BY <2>1, <2>2
<1>7. ASSUME NEW b \in Agents, at'[b] = "SAVE", seen'[b].known
      PROVE  <<next_document(b).source, next_document(b).revision>>' \in revisions'
  <2>1. b # a /\ read'[b] = read[b] /\ at[b] = "SAVE" /\ seen[b].known
    BY <1>1, <1>7 DEF ReadIsStored, Places
  <2> QED BY <1>1, <1>2, <2>1 DEF ReadIsStored, next_document
<1> QED BY <1>1, <1>4, <1>5, <1>6, <1>7 DEF ReadIsStored

LEMMA ExtractReads == ASSUME ReadIsStored, NEW a \in Agents, Extract(a) PROVE ReadIsStored'
<1>1. /\ read[a] = Len(load[a].docs) /\ at' = [at EXCEPT ![a] = "DONE"]
      /\ UNCHANGED <<load, read, seen, revisions>>
  BY DEF Extract, storeVars
<1> QED BY <1>1 DEF ReadIsStored, Places, next_document

\* The other steps leave the agents and the store alone.
RunStep == Merge \/ ValidateNext \/ Reconcile \/ SaveNext \/ Finish \/ Summarise \/ UNCHANGED vars

LEMMA RunStepLeavesAgents == RunStep => UNCHANGED <<load, agentVars, storeVars, order>>
  BY DEF RunStep, Merge, ValidateNext, Reconcile, SaveNext, Finish, Summarise, vars, agentVars, storeVars

LEMMA ReadStep == ReadIsStored /\ [Next]_vars => ReadIsStored'
<1> SUFFICES ASSUME ReadIsStored, [Next]_vars PROVE ReadIsStored'
  OBVIOUS
<1>1. ASSUME NEW a \in Agents, Collect(a) PROVE ReadIsStored'
  BY <1>1 DEF Collect, agentVars, storeVars, ReadIsStored, next_document
<1>2. CASE RunStep
  BY <1>2, RunStepLeavesAgents DEF agentVars, storeVars, ReadIsStored, next_document
<1> QED BY <1>1, <1>2, LookReads, SaveReads, ExtractReads DEF Next, RunStep

LEMMA WaitInit == Init => AllAreWaitedFor
  BY DEF Init, AllAreWaitedFor, collected, ToSet

\* A result that was collected stays with the ones collected after it.
LEMMA CollectAppends ==
    ASSUME NEW s \in Seq(Agents), NEW a \in Agents
    PROVE  Append(s, a) \in Seq(Agents) /\ ToSet(Append(s, a)) = ToSet(s) \cup {a}
  BY DEF ToSet

LEMMA WaitStep == ReadIsStored /\ AllAreWaitedFor /\ [Next]_vars => AllAreWaitedFor'
<1> SUFFICES ASSUME ReadIsStored, AllAreWaitedFor, [Next]_vars PROVE AllAreWaitedFor'
  OBVIOUS
<1>1. ASSUME NEW a \in Agents, Look(a) \/ Save(a) \/ Extract(a) PROVE AllAreWaitedFor'
  <2>1. UNCHANGED <<load, order, errors, row, pc>>
    BY <1>1 DEF Look, Save, Extract
  <2>2. at[a] # "DONE" /\ \A b \in Agents \ {a} : at'[b] = at[b]
    BY <1>1 DEF Look, Save, Extract, ReadIsStored
  <2> QED BY <2>1, <2>2 DEF AllAreWaitedFor, collected, partial, ToSet
<1>2. ASSUME NEW a \in Agents, Collect(a) PROVE AllAreWaitedFor'
  <2>1. pc = "COLLECTING" /\ UNCHANGED <<load, at, row, pc>>
    BY <1>2 DEF Collect, agentVars
  <2>2. \/ at[a] = "DONE" /\ order' = Append(order, a)
        \/ UNCHANGED order
    BY <1>2 DEF Collect
  <2>3. order' \in Seq(Agents) /\ \A b \in ToSet(order') : at[b] = "DONE"
    <3>1. order \in Seq(Agents) /\ \A b \in ToSet(order) : at[b] = "DONE"
      BY DEF AllAreWaitedFor, collected
    <3>2. Append(order, a) \in Seq(Agents) /\ ToSet(Append(order, a)) = ToSet(order) \cup {a}
      BY <3>1, CollectAppends
    <3>3. CASE at[a] = "DONE" /\ order' = Append(order, a)
      BY <3>1, <3>2, <3>3
    <3>4. CASE UNCHANGED order
      BY <3>1, <3>4
    <3> QED BY <2>2, <3>3, <3>4
  <2> QED BY <2>1, <2>3 DEF AllAreWaitedFor, collected
<1>3. CASE RunStep
  <2>1. UNCHANGED <<load, at, order>>
    BY <1>3, RunStepLeavesAgents DEF agentVars
  <2>2. errors \subseteq errors'
    BY <1>3 DEF RunStep, Merge, ValidateNext, Reconcile, SaveNext, Finish, Summarise, vars
  <2>3. pc' # "COLLECTING" => Agents \subseteq collected \cup errors
    BY <1>3 DEF RunStep, Merge, ValidateNext, Reconcile, SaveNext, Finish, Summarise, vars, AllAreWaitedFor
  <2>4. row' = "COMPLETED" => pc' \in {"FINISHED", "SUMMARISED", "RAISED"} /\ ~partial'
    BY <1>3, <2>1 DEF RunStep, Merge, ValidateNext, Reconcile, SaveNext, Finish, Summarise, vars,
                      AllAreWaitedFor, partial, collected
  <2> QED BY <2>1, <2>2, <2>3, <2>4 DEF AllAreWaitedFor, collected
<1> QED BY <1>1, <1>2, <1>3 DEF Next, RunStep

THEOREM Invariance == Spec => []IInv
<1>1. Init => IInv
  BY ReadInit, WaitInit DEF IInv
<1>2. IInv /\ [Next]_vars => IInv'
  BY ReadStep, WaitStep DEF IInv
<1> QED BY <1>1, <1>2, PTL DEF Spec

\* The store has every snapshot that any agent of a COMPLETED run read, and no
\* agent was cut short or lost (ResearchPipeline.run): the half of
\* CompletedMeansEverything that is about documents.
THEOREM CompletedKeepsSnapshots == Spec => [](row = "COMPLETED" => EverySnapshotIsKept)
<1>1. IInv => (row = "COMPLETED" => EverySnapshotIsKept)
  <2> SUFFICES ASSUME IInv, row = "COMPLETED", NEW a \in Agents
               PROVE  /\ \A i \in 1..Len(load[a].docs) :
                            <<load[a].docs[i].source, load[a].docs[i].revision>> \in revisions
                      /\ ~load[a].partial
    BY DEF EverySnapshotIsKept
  <2>1. ~partial /\ pc # "COLLECTING"
    BY DEF IInv, AllAreWaitedFor
  <2>2. a \in collected /\ ~load[a].partial
    BY <2>1 DEF IInv, AllAreWaitedFor, partial
  <2>3. read[a] = Len(load[a].docs)
    BY <2>2 DEF IInv, AllAreWaitedFor, ReadIsStored
  <2> QED BY <2>2, <2>3 DEF IInv, ReadIsStored
<1> QED BY <1>1, Invariance, PTL

-----------------------------------------------------------------------------
(* The verdict on one candidate.                                            *)

Says(c) ==
    /\ c.type \in DOMAIN Registry /\ c.bok \in BOOLEAN
    /\ {c.start.day, c.end.day, c.next_decision.day} \subseteq Int

\* Documents by source.
BySource(docs) == \A s \in DOMAIN docs : docs[s] \in Document /\ docs[s].source = s

EventFields ==
    {"id", "candidates", "sources", "revisions", "evidence", "type", "bok", "start", "end",
     "address", "tier", "status", "codes", "signal", "cause", "lifecycle"}

\* What an event is after any of the steps from its verdict to the result.
Grounded(e, docs) ==
    /\ DOMAIN e = EventFields
    /\ \A x \in e.revisions :
         /\ x = <<x[1], x[2]>> /\ x[1] \in DOMAIN docs /\ docs[x[1]].revision = x[2]
         /\ docs[x[1]].ok /\ ~docs[x[1]].flagged /\ docs[x[1]].tier # "OTHER"
    /\ {e.start, e.end} \subseteq Int /\ e.start <= e.end
    /\ e.signal \in BOOLEAN
    /\ e.signal => e.start <= ForecastEnd /\ e.end >= ForecastStart
    /\ e.bok \in BOOLEAN /\ e.id.bok = e.bok
    /\ e.tier \in DOMAIN TIER

\* A verdict has reasons unless it accepts, and then it has a grounded event.
Reasoned(o, docs) ==
    /\ o.status \in {"ACCEPTED", "REJECTED", "REFERENCE_ONLY", "RETRYABLE"}
    /\ (o.status = "ACCEPTED") <=> (o.codes = {})
    /\ o.status = "ACCEPTED" =>
          \E e : o.event = {e} /\ Grounded(e, docs) /\ e.status = "ACCEPTED" /\ e.candidates = {o.candidate}

\* A verdict that refuses a candidate carries its reasons.
LEMMA RefusalIsReasoned ==
    ASSUME NEW c, NEW docs, NEW codes, codes # {},
           NEW status \in {"REJECTED", "REFERENCE_ONLY", "RETRYABLE"}
    PROVE  Reasoned(Verdict(c, status, codes), docs) /\ Verdict(c, status, codes).candidate = c.id
  BY DEF Verdict, Reasoned

\* The dates a candidate says resolve to days of the calendar.
LEMMA DaysAreWhole ==
    ASSUME NEW c, Says(c), NEW doc \in Document
    PROVE  day(c.start, doc) \in Int /\ end_day(c, doc) \in Int
<1>1. published(doc) \in Int
  BY Window DEF published, Document
<1>2. /\ c.start.day \in Int /\ c.end.day \in Int /\ c.next_decision.day \in Int
      /\ ForecastEnd \in Int
  BY Window DEF Says
<1> QED BY <1>1, <1>2 DEF day, end_day

\* The event registry says of every type whether it may move the finances.
LEMMA TypesHaveSignals == \A t \in DOMAIN Registry : Registry[t].signal \in BOOLEAN
<1>1. DOMAIN Registry = {"BASE_RATE_INCREASE", "BASE_RATE_HOLD", "WHOLESALE_PRICE_INCREASE",
                         "INGREDIENT_SHORTAGE", "PRODUCT_RECALL", "LOCAL_FESTIVAL"}
  BY DEF Registry
<1>2. /\ Registry["BASE_RATE_INCREASE"].signal = FALSE
      /\ Registry["BASE_RATE_HOLD"].signal = FALSE
  BY DEF Registry
<1>3. /\ Registry["WHOLESALE_PRICE_INCREASE"].signal = FALSE
      /\ Registry["INGREDIENT_SHORTAGE"].signal = TRUE
  BY DEF Registry
<1>4. /\ Registry["PRODUCT_RECALL"].signal = TRUE
      /\ Registry["LOCAL_FESTIVAL"].signal = TRUE
  BY DEF Registry
<1> QED BY <1>1, <1>2, <1>3, <1>4

\* The event of an accepted candidate rests on the document it was read from.
LEMMA AcceptedIsGrounded ==
    ASSUME NEW c, Says(c), NEW docs, BySource(docs), available(c, docs), ~docs[c.source].flagged,
           NEW found, evidence_codes(c, docs[c.source]) \subseteq found, found = {},
           range_codes(c, docs[c.source]) = {}, ~outside_window(c, docs[c.source])
    PROVE  Grounded(canonical_event(c, docs[c.source]), docs)
<1> DEFINE doc == docs[c.source]
           e == canonical_event(c, doc)
<1>1. doc \in Document /\ doc.source = c.source /\ c.source \in DOMAIN docs
      /\ doc.revision = c.revision /\ doc.ok
  BY DEF BySource, available
<1>2. day(c.start, doc) \in Int /\ end_day(c, doc) \in Int
  BY <1>1, DaysAreWhole
<1>3. day(c.start, doc) <= end_day(c, doc)
  BY <1>2 DEF range_codes, code
<1>4. day(c.start, doc) <= ForecastEnd /\ end_day(c, doc) >= ForecastStart
  BY <1>2, Window DEF outside_window
<1>5. doc.tier # "OTHER" /\ doc.tier \in DOMAIN TIER
  BY <1>1 DEF evidence_codes, code, Document
<1>6. /\ DOMAIN e = EventFields
      /\ e.revisions = {<<c.source, c.revision>>}
      /\ e.start = day(c.start, doc) /\ e.end = end_day(c, doc)
      /\ e.signal = Registry[c.type].signal
      /\ e.bok = c.bok /\ e.id.bok = c.bok /\ e.tier = doc.tier
  BY DEF canonical_event, fingerprint, EventFields
<1>7. Registry[c.type].signal \in BOOLEAN /\ c.bok \in BOOLEAN
  BY TypesHaveSignals DEF Says
<1>8. \A x \in e.revisions :
         /\ x = <<x[1], x[2]>> /\ x[1] \in DOMAIN docs /\ docs[x[1]].revision = x[2]
         /\ docs[x[1]].ok /\ ~docs[x[1]].flagged /\ docs[x[1]].tier # "OTHER"
  BY <1>1, <1>5, <1>6
<1> HIDE DEF e
<1>9. Grounded(e, docs)
  BY <1>2, <1>3, <1>4, <1>5, <1>6, <1>7, <1>8 DEF Grounded
<1> QED BY <1>9 DEF e

\* ResearchValidator._validate_relevance: a reasoned verdict about the candidate.
LEMMA RelevanceIsReasoned ==
    ASSUME NEW c, Says(c), NEW docs, BySource(docs), available(c, docs), ~docs[c.source].flagged
    PROVE  LET o == validate_relevance(c, docs[c.source], evidence_codes(c, docs[c.source]))
           IN Reasoned(o, docs) /\ o.candidate = c.id
<1> DEFINE doc == docs[c.source]
           found == evidence_codes(c, doc)
           codes == found \cup range_codes(c, doc) \cup code(~c.relevant, "INDUSTRY_NOT_RELEVANT")
                      \cup location_codes(c) \cup distance_codes(c)
           o == validate_relevance(c, doc, found)
           late == found \cup range_codes(c, doc) \cup {"FORECAST_WINDOW_NOT_OVERLAPPED"}
<1>1. o = IF outside_window(c, doc) THEN Verdict(c, "REJECTED", late)
          ELSE IF codes = {} THEN [Verdict(c, "ACCEPTED", {}) EXCEPT !.event = {canonical_event(c, doc)}]
          ELSE IF "SOURCE_UNTRUSTED" \in codes THEN Verdict(c, "REFERENCE_ONLY", codes)
          ELSE IF codes \cap terminal_codes # {} THEN Verdict(c, "REJECTED", codes)
          ELSE Verdict(c, "RETRYABLE", codes)
  BY DEF validate_relevance
<1>2. late # {}
  OBVIOUS
<1>3. CASE ~outside_window(c, doc) /\ codes = {}
  <2>1. o = [Verdict(c, "ACCEPTED", {}) EXCEPT !.event = {canonical_event(c, doc)}]
    BY <1>1, <1>3
  <2>2. found = {} /\ range_codes(c, doc) = {}
    BY <1>3
  <2>3. Grounded(canonical_event(c, doc), docs)
    BY <1>3, <2>2, AcceptedIsGrounded
  <2>4. /\ canonical_event(c, doc).status = "ACCEPTED"
        /\ canonical_event(c, doc).candidates = {c.id}
    BY DEF canonical_event
  <2>5. /\ o.status = "ACCEPTED" /\ o.codes = {} /\ o.candidate = c.id
        /\ o.event = {canonical_event(c, doc)}
    BY <2>1 DEF Verdict
  <2> HIDE DEF o
  <2>6. Reasoned(o, docs)
    BY <2>3, <2>4, <2>5 DEF Reasoned
  <2> QED BY <2>5, <2>6 DEF o
<1>4. CASE outside_window(c, doc) \/ codes # {}
  <2> HIDE DEF codes, late
  <2>1. CASE outside_window(c, doc)
    BY <1>1, <1>2, <2>1, RefusalIsReasoned
  <2>2. CASE ~outside_window(c, doc) /\ codes # {}
    BY <1>1, <2>2, RefusalIsReasoned
  <2> QED BY <1>4, <2>1, <2>2
<1> QED BY <1>3, <1>4

\* ResearchValidator.validate: one verdict, about the candidate it was asked
\* about, with its reasons or with an event that rests on the documents.
LEMMA VerdictIsReasoned ==
    ASSUME NEW c, Says(c), NEW docs, BySource(docs)
    PROVE  Reasoned(validate(c, docs), docs) /\ validate(c, docs).candidate = c.id
<1> DEFINE doc == docs[c.source]
           found == evidence_codes(c, doc)
<1>1. CASE numeric_codes(c) # {} \/ ~available(c, docs) \/ doc.flagged \/ registry_codes(c) # {}
  <2>1. {"SOURCE_UNAVAILABLE"} # {} /\ {"PROMPT_INJECTION_DETECTED"} # {}
    OBVIOUS
  <2>2. \E codes, status : /\ codes # {} /\ status \in {"REJECTED", "REFERENCE_ONLY", "RETRYABLE"}
                           /\ validate(c, docs) = Verdict(c, status, codes)
    BY <1>1, <2>1 DEF validate
  <2> QED BY <2>2, RefusalIsReasoned
<1>2. CASE numeric_codes(c) = {} /\ available(c, docs) /\ ~doc.flagged /\ registry_codes(c) = {}
  <2>1. validate(c, docs) = validate_dates(c, doc, found)
    BY <1>2 DEF validate
  <2>2. \/ validate(c, docs) = validate_relevance(c, doc, found)
        \/ \E codes, status : /\ codes # {} /\ status \in {"REJECTED", "REFERENCE_ONLY", "RETRYABLE"}
                              /\ validate(c, docs) = Verdict(c, status, codes)
    <3>1. \A x : found \cup {x} # {}
      OBVIOUS
    <3> HIDE DEF found
    <3> QED BY <2>1, <3>1 DEF validate_dates
  <2> QED BY <1>2, <2>2, RefusalIsReasoned, RelevanceIsReasoned
<1> QED BY <1>1, <1>2

-----------------------------------------------------------------------------
(* Reconciliation of one group.                                             *)

Folding == INSTANCE SequenceLemmas WITH Op <- reconcile_pair

\* g follows the reconciliation of a group, from its first event to its last.
Reconciles(g, group) ==
    /\ g[1] = [base |-> group[1], excluded |-> <<>>]
    /\ \A i \in 1 .. (Len(group) - 1) : g[i + 1] = reconcile_pair(g[i], group[i + 1])
    /\ reconcile_group(group) = g[Len(group)]

\* The steps of a fold of reconcile_pair, whatever the order of the events.
LEMMA GroupSteps ==
    ASSUME NEW S, NEW group \in Seq(S), group # <<>>
    PROVE  \E g : Reconciles(g, group)
<1> DEFINE start == [base |-> group[1], excluded |-> <<>>]
           N == Len(group)
<1>1. /\ Tail(group) \in Seq(S) /\ Len(Tail(group)) = N - 1 /\ N \in Nat \ {0}
      /\ \A i \in 1 .. (N - 1) : Tail(group)[i] = group[i + 1]
  OBVIOUS
<1>2. PICK f : /\ Folding!Folds(f, start, Tail(group), Len(Tail(group)))
               /\ Folding!FoldLeft(reconcile_pair, start, Tail(group)) = f[Len(Tail(group))]
  <2> HIDE DEF start
  <2> QED BY <1>1, Folding!FoldSteps
<1>3. reconcile_group(group) = f[N - 1]
  <2>1. FoldLeft(reconcile_pair, start, Tail(group)) = Folding!FoldLeft(reconcile_pair, start, Tail(group))
    BY DEF FoldLeft, MapThenFoldSet, Max, Folding!FoldLeft, Folding!MapThenFoldSet, Folding!Max
  <2> QED BY <1>1, <1>2, <2>1 DEF reconcile_group
<1>4. f[0] = start /\ \A i \in 0 .. (N - 1) : i < N - 1 => f[i + 1] = reconcile_pair(f[i], Tail(group)[i + 1])
  BY <1>1, <1>2 DEF Folding!Folds
<1> DEFINE g == [i \in 1 .. N |-> f[i - 1]]
<1>5. g[1] = start /\ g[N] = f[N - 1]
  BY <1>1, <1>4
<1>6. ASSUME NEW i \in 1 .. (N - 1) PROVE g[i + 1] = reconcile_pair(g[i], group[i + 1])
  <2>1. i - 1 \in 0 .. (N - 1) /\ i - 1 < N - 1 /\ (i - 1) + 1 = i /\ i \in 1 .. N /\ i + 1 \in 1 .. N
    BY <1>1
  <2>2. f[i] = reconcile_pair(f[i - 1], group[i + 1])
    BY <1>1, <1>4, <2>1
  <2>3. g[i + 1] = f[i] /\ g[i] = f[i - 1]
    BY <1>1, <2>1
  <2> HIDE DEF g
  <2> QED BY <2>2, <2>3
<1> HIDE DEF g
<1>7. Reconciles(g, group)
  BY <1>3, <1>5, <1>6 DEF Reconciles
<1> QED BY <1>7

\* What the merge of two events of one group leaves as the first one has it.
Alike(e, f) ==
    /\ DOMAIN e = EventFields
    /\ e.id = f.id /\ e.type = f.type /\ e.bok = f.bok
    /\ e.start = f.start /\ e.end = f.end /\ e.address = f.address /\ e.tier = f.tier

\* EventReconciler._reconcile_group, one event.
PairStep(h, g, other) ==
    /\ DOMAIN h = {"base", "excluded"}
    /\ \/ /\ h.base = other
          /\ ~same_facts(g.base, other) /\ TIER[other.tier] > TIER[g.base.tier]
       \/ /\ Alike(h.base, g.base)
          /\ h.base.revisions \in {g.base.revisions, g.base.revisions \cup other.revisions}
          /\ h.base.signal \in {g.base.signal, FALSE}
          /\ \/ same_facts(g.base, other) /\ h.base.status = g.base.status
             \/ /\ ~same_facts(g.base, other) /\ TIER[g.base.tier] = TIER[other.tier]
                /\ h.base.status = "CONFLICTED"
             \/ /\ ~same_facts(g.base, other) /\ TIER[g.base.tier] # TIER[other.tier]
                /\ ~(TIER[other.tier] > TIER[g.base.tier])
                /\ h.base.status = g.base.status

\* What a pair of events leaves: one of them, with the marks of the other.
LEMMA PairSteps ==
    ASSUME NEW g, NEW other, DOMAIN g = {"base", "excluded"}, DOMAIN g.base = EventFields
    PROVE  PairStep(reconcile_pair(g, other), g, other)
<1> DEFINE h == reconcile_pair(g, other)
<1>1. CASE same_facts(g.base, other)
  <2>1. DOMAIN h = {"base", "excluded"} /\ h.base = merged(g.base, other)
    BY <1>1 DEF reconcile_pair
  <2>2. /\ Alike(h.base, g.base) /\ h.base.revisions = g.base.revisions \cup other.revisions
        /\ h.base.signal = g.base.signal /\ h.base.status = g.base.status
    BY <2>1 DEF merged, Alike, EventFields
  <2> HIDE DEF h
  <2>3. PairStep(h, g, other)
    BY <1>1, <2>1, <2>2 DEF PairStep
  <2> QED BY <2>3 DEF h
<1>2. CASE ~same_facts(g.base, other) /\ TIER[g.base.tier] = TIER[other.tier]
  <2>1. DOMAIN h = {"base", "excluded"} /\ h.base = Excluded(g.base, "CONFLICTED", "SOURCE_CONFLICT")
    BY <1>2 DEF reconcile_pair
  <2>2. /\ Alike(h.base, g.base) /\ h.base.revisions = g.base.revisions
        /\ h.base.signal = FALSE /\ h.base.status = "CONFLICTED"
    BY <2>1 DEF Excluded, Alike, EventFields
  <2> HIDE DEF h
  <2>3. PairStep(h, g, other)
    BY <1>2, <2>1, <2>2 DEF PairStep
  <2> QED BY <2>3 DEF h
<1>3. CASE /\ ~same_facts(g.base, other) /\ TIER[g.base.tier] # TIER[other.tier]
           /\ TIER[other.tier] > TIER[g.base.tier]
  <2>1. DOMAIN h = {"base", "excluded"} /\ h.base = other
    BY <1>3 DEF reconcile_pair
  <2> HIDE DEF h
  <2>2. PairStep(h, g, other)
    BY <1>3, <2>1 DEF PairStep
  <2> QED BY <2>2 DEF h
<1>4. CASE /\ ~same_facts(g.base, other) /\ TIER[g.base.tier] # TIER[other.tier]
           /\ ~(TIER[other.tier] > TIER[g.base.tier])
  <2>1. DOMAIN h = {"base", "excluded"} /\ h.base = g.base
    BY <1>4 DEF reconcile_pair
  <2> HIDE DEF h
  <2>2. PairStep(h, g, other)
    BY <1>4, <2>1 DEF PairStep, Alike
  <2> QED BY <2>2 DEF h
<1> QED BY <1>1, <1>2, <1>3, <1>4

\* An event as a verdict made it.
Raw(e, docs) == Grounded(e, docs) /\ e.status = "ACCEPTED"

\* Merging with another event of the group keeps an event grounded.
LEMMA GroundedStays ==
    ASSUME NEW docs, NEW g, NEW other, NEW h, PairStep(h, g, other),
           Grounded(g.base, docs), Grounded(other, docs), other.id = g.base.id
    PROVE  Grounded(h.base, docs) /\ h.base.id = g.base.id
<1>1. CASE h.base = other
  BY <1>1
<1>2. CASE /\ Alike(h.base, g.base)
           /\ h.base.revisions \in {g.base.revisions, g.base.revisions \cup other.revisions}
           /\ h.base.signal \in {g.base.signal, FALSE}
  BY <1>2 DEF Alike, Grounded
<1> QED BY <1>1, <1>2 DEF PairStep

\* Events of one identifier, in any order.
OneGroup(group, id, docs) ==
    /\ group \in Seq(ToSet(group)) /\ group # <<>>
    /\ \A e \in ToSet(group) : Raw(e, docs) /\ e.id = id

\* Whatever the order of a group's events, its base event is grounded.
LEMMA GroupIsGrounded ==
    ASSUME NEW docs, NEW group, NEW id, OneGroup(group, id, docs)
    PROVE  Grounded(reconcile_group(group).base, docs) /\ reconcile_group(group).base.id = id
<1> DEFINE S == ToSet(group)
<1>0. group \in Seq(S) /\ group # <<>> /\ \A e \in S : Raw(e, docs) /\ e.id = id
  BY DEF OneGroup
<1> HIDE DEF S
<1>1. PICK g : Reconciles(g, group)
  BY <1>0, GroupSteps
<1> DEFINE N == Len(group)
           Good == {n \in 0 .. (N - 1) : /\ DOMAIN g[n + 1] = {"base", "excluded"}
                                         /\ Grounded(g[n + 1].base, docs) /\ g[n + 1].base.id = id}
<1>n. N \in Nat \ {0} /\ N - 1 \in Nat /\ \A i \in 1 .. N : group[i] \in S
  BY <1>0
<1>2. 0 \in Good
  <2>1. 0 \in 0 .. (N - 1) /\ group[1] \in S
    BY <1>n
  <2>2. g[0 + 1] = [base |-> group[1], excluded |-> <<>>]
    BY <1>1 DEF Reconciles
  <2>3. Grounded(group[1], docs) /\ group[1].id = id
    BY <1>0, <2>1 DEF Raw
  <2> QED BY <2>1, <2>2, <2>3
<1>3. ASSUME NEW n \in 0 .. (N - 1), n < N - 1, n \in Good PROVE n + 1 \in Good
  <2>1. n + 1 \in 1 .. (N - 1) /\ n + 1 \in 0 .. (N - 1) /\ group[(n + 1) + 1] \in S
    BY <1>3, <1>n
  <2>2. g[(n + 1) + 1] = reconcile_pair(g[n + 1], group[(n + 1) + 1])
    BY <1>1, <2>1 DEF Reconciles
  <2>3. PairStep(g[(n + 1) + 1], g[n + 1], group[(n + 1) + 1])
    BY <1>3, <2>2, PairSteps DEF Grounded
  <2>4. Grounded(group[(n + 1) + 1], docs) /\ group[(n + 1) + 1].id = id
    BY <1>0, <2>1 DEF Raw
  <2>5. /\ Grounded(g[(n + 1) + 1].base, docs) /\ g[(n + 1) + 1].base.id = id
    BY <1>3, <2>3, <2>4, GroundedStays
  <2>6. DOMAIN g[(n + 1) + 1] = {"base", "excluded"}
    BY <2>3 DEF PairStep
  <2> QED BY <2>1, <2>5, <2>6
<1>4. N - 1 \in Good
  <2> HIDE DEF Good
  <2>1. \A n \in 0 .. (N - 1) : n \in Good
    <3> HIDE DEF N
    <3> QED BY <1>n, <1>2, <1>3, PrefixInduction
  <2> QED BY <1>n, <2>1
<1>5. (N - 1) + 1 = N
  BY <1>n
<1> QED BY <1>1, <1>4, <1>5 DEF Reconciles

\* In groups where each set of facts is stated at one tier only, no statement
\* of the same or a higher tier contradicts an accepted base event.
Unopposed(e, events) ==
    \A f \in events : ~same_facts(e, f) => TIER[f.tier] < TIER[e.tier]

FactsHaveOneTier(events) == \A e, f \in events : same_facts(e, f) => e.tier = f.tier

\* The base event g after n events of the group: it has the facts of one of
\* them and none is of a higher tier; unless it is in conflict, those that
\* differ are of lower ones.
Prevails(e, group, n) ==
    /\ e.tier \in DOMAIN TIER
    /\ \E k \in 1 .. n : /\ e.tier = group[k].tier /\ e.bok = group[k].bok
                         /\ e.start = group[k].start /\ e.end = group[k].end
                         /\ e.address = group[k].address
    /\ \A j \in 1 .. n : TIER[group[j].tier] <= TIER[e.tier]
    /\ e.status = "ACCEPTED" =>
          \A j \in 1 .. n : ~same_facts(e, group[j]) => TIER[group[j].tier] < TIER[e.tier]

\* Every source tier has a rank.
LEMMA TiersAreNumbers == \A t \in DOMAIN TIER : TIER[t] \in Nat
<1>1. DOMAIN TIER = {"OFFICIAL_PRIMARY", "OFFICIAL_SECONDARY", "MAJOR_NEWS"}
  BY DEF TIER
<1>2. TIER["OFFICIAL_PRIMARY"] = 5 /\ TIER["OFFICIAL_SECONDARY"] = 4 /\ TIER["MAJOR_NEWS"] = 2
  BY DEF TIER
<1> QED BY <1>1, <1>2

\* A base that prevails over the statements so far prevails after one more pair.
LEMMA PrevailingStays ==
    ASSUME NEW docs, NEW S, NEW group \in Seq(S), \A e \in S : Raw(e, docs),
           \A e, f \in S : same_facts(e, f) => e.tier = f.tier,
           NEW n \in 1 .. Len(group), n < Len(group),
           NEW g, NEW h, Prevails(g.base, group, n), PairStep(h, g, group[n + 1])
    PROVE  Prevails(h.base, group, n + 1)
<1> DEFINE other == group[n + 1]
<1>n. n + 1 \in 1 .. Len(group) /\ 1 .. (n + 1) = (1 .. n) \cup {n + 1}
      /\ \A j \in 1 .. Len(group) : group[j] \in S
  OBVIOUS
<1>t. \A j \in 1 .. Len(group) : group[j].tier \in DOMAIN TIER /\ TIER[group[j].tier] \in Nat
  BY <1>n, TiersAreNumbers DEF Raw, Grounded
<1>b. TIER[g.base.tier] \in Nat
  BY TiersAreNumbers DEF Prevails
<1>o. other \in S /\ other.tier \in DOMAIN TIER /\ TIER[other.tier] \in Nat
  BY <1>n, <1>t
<1>1. CASE h.base = other /\ TIER[other.tier] > TIER[g.base.tier]
  <2>1. \A j \in 1 .. n : TIER[group[j].tier] < TIER[other.tier]
    BY <1>b, <1>n, <1>o, <1>t, <1>1 DEF Prevails
  <2>2. same_facts(other, other)
    BY DEF same_facts
  <2>3. \A j \in 1 .. (n + 1) : j \in 1 .. n \/ group[j] = other
    BY <1>n
  <2>4. \A j \in 1 .. (n + 1) : TIER[group[j].tier] <= TIER[other.tier]
    BY <1>o, <1>n, <1>t, <2>1, <2>3
  <2>5. \A j \in 1 .. (n + 1) : ~same_facts(other, group[j]) => TIER[group[j].tier] < TIER[other.tier]
    BY <2>1, <2>2, <2>3
  <2> HIDE DEF other
  <2>6. \E k \in 1 .. (n + 1) : other = group[k]
    BY <1>n DEF other
  <2> QED BY <1>1, <1>o, <2>4, <2>5, <2>6 DEF Prevails
<1>2. CASE Alike(h.base, g.base)
  <2>1. PICK k \in 1 .. n : /\ g.base.tier = group[k].tier /\ g.base.bok = group[k].bok
                            /\ g.base.start = group[k].start /\ g.base.end = group[k].end
                            /\ g.base.address = group[k].address
    BY DEF Prevails
  <2>2. \A x : same_facts(h.base, x) <=> same_facts(g.base, x)
    BY <1>2 DEF Alike, same_facts
  <2>3. \A x : same_facts(g.base, x) <=> same_facts(group[k], x)
    BY <2>1 DEF same_facts
  <2>4. same_facts(g.base, other) => TIER[other.tier] = TIER[g.base.tier]
    BY <1>n, <1>o, <2>1, <2>3
  <2>0. ~(h.base = other /\ TIER[other.tier] > TIER[g.base.tier])
    BY <1>2, <1>o, <1>b DEF Alike
  <2>c. \/ same_facts(g.base, other) /\ h.base.status = g.base.status
        \/ /\ ~same_facts(g.base, other) /\ TIER[g.base.tier] = TIER[other.tier]
           /\ h.base.status = "CONFLICTED"
        \/ /\ ~same_facts(g.base, other) /\ TIER[g.base.tier] # TIER[other.tier]
           /\ ~(TIER[other.tier] > TIER[g.base.tier])
           /\ h.base.status = g.base.status
    BY <2>0 DEF PairStep
  <2>5. TIER[other.tier] <= TIER[g.base.tier]
    BY <1>o, <1>b, <2>4, <2>c
  <2>6. h.base.status = "ACCEPTED" =>
          /\ g.base.status = "ACCEPTED"
          /\ ~same_facts(g.base, other) => TIER[other.tier] < TIER[g.base.tier]
    BY <1>o, <1>b, <2>5, <2>c
  <2>7. /\ h.base.tier = g.base.tier /\ h.base.bok = g.base.bok /\ h.base.start = g.base.start
        /\ h.base.end = g.base.end /\ h.base.address = g.base.address
    BY <1>2 DEF Alike
  <2>8. \A j \in 1 .. (n + 1) : j \in 1 .. n \/ group[j] = other
    BY <1>n
  <2>9. \A j \in 1 .. (n + 1) : TIER[group[j].tier] <= TIER[h.base.tier]
    BY <2>5, <2>7, <2>8 DEF Prevails
  <2>10. ASSUME h.base.status = "ACCEPTED", NEW j \in 1 .. (n + 1), ~same_facts(h.base, group[j])
         PROVE  TIER[group[j].tier] < TIER[h.base.tier]
    BY <2>2, <2>6, <2>7, <2>8, <2>10 DEF Prevails
  <2>11. k \in 1 .. (n + 1)
    BY <1>n
  <2> QED BY <2>1, <2>7, <2>9, <2>10, <2>11 DEF Prevails
<1> QED BY <1>1, <1>2 DEF PairStep

\* EventReconciler._reconcile_group, however many events disagree.
LEMMA GroupIsUnopposed ==
    ASSUME NEW docs, NEW group, NEW id, OneGroup(group, id, docs), FactsHaveOneTier(ToSet(group)),
           reconcile_group(group).base.status = "ACCEPTED"
    PROVE  Unopposed(reconcile_group(group).base, ToSet(group))
<1> DEFINE S == ToSet(group)
<1>0. /\ group \in Seq(S) /\ group # <<>> /\ \A e \in S : Raw(e, docs) /\ e.id = id
      /\ \A e, f \in S : same_facts(e, f) => e.tier = f.tier
  BY DEF OneGroup, FactsHaveOneTier
<1> HIDE DEF S
<1>1. PICK g : Reconciles(g, group)
  BY <1>0, GroupSteps
<1> DEFINE N == Len(group)
           Good == {n \in 0 .. (N - 1) : /\ DOMAIN g[n + 1] = {"base", "excluded"}
                                         /\ Grounded(g[n + 1].base, docs) /\ g[n + 1].base.id = id
                                         /\ Prevails(g[n + 1].base, group, n + 1)}
<1>n. N \in Nat \ {0} /\ N - 1 \in Nat /\ \A i \in 1 .. N : group[i] \in S
  BY <1>0
<1>2. 0 \in Good
  <2>1. 0 \in 0 .. (N - 1) /\ group[1] \in S
    BY <1>n
  <2>2. g[0 + 1] = [base |-> group[1], excluded |-> <<>>]
    BY <1>1 DEF Reconciles
  <2>3. Grounded(group[1], docs) /\ group[1].id = id
    BY <1>0, <2>1 DEF Raw
  <2>4. Prevails(group[1], group, 1)
    <3>1. TIER[group[1].tier] <= TIER[group[1].tier] /\ same_facts(group[1], group[1])
      BY <2>3, TiersAreNumbers DEF Grounded, same_facts
    <3>2. \A j \in 1 .. 1 : j = 1
      OBVIOUS
    <3> QED BY <2>3, <3>1, <3>2 DEF Prevails, Grounded
  <2> QED BY <2>1, <2>2, <2>3, <2>4
<1>3. ASSUME NEW n \in 0 .. (N - 1), n < N - 1, n \in Good PROVE n + 1 \in Good
  <2>1. /\ n + 1 \in 1 .. (N - 1) /\ n + 1 \in 0 .. (N - 1) /\ group[(n + 1) + 1] \in S
        /\ n + 1 \in 1 .. N /\ n + 1 < N
    BY <1>3, <1>n
  <2>2. g[(n + 1) + 1] = reconcile_pair(g[n + 1], group[(n + 1) + 1])
    BY <1>1, <2>1 DEF Reconciles
  <2>3. PairStep(g[(n + 1) + 1], g[n + 1], group[(n + 1) + 1])
    <3>1. DOMAIN g[n + 1] = {"base", "excluded"} /\ DOMAIN g[n + 1].base = EventFields
      BY <1>3 DEF Grounded
    <3> QED BY <2>2, <3>1, PairSteps
  <2>4. Grounded(group[(n + 1) + 1], docs) /\ group[(n + 1) + 1].id = id
    BY <1>0, <2>1 DEF Raw
  <2>5. /\ Grounded(g[(n + 1) + 1].base, docs) /\ g[(n + 1) + 1].base.id = id
    BY <1>3, <2>3, <2>4, GroundedStays
  <2>6. DOMAIN g[(n + 1) + 1] = {"base", "excluded"}
    BY <2>3 DEF PairStep
  <2>7. Prevails(g[(n + 1) + 1].base, group, (n + 1) + 1)
    BY <1>0, <1>3, <2>1, <2>3, PrevailingStays
  <2> QED BY <2>1, <2>5, <2>6, <2>7
<1>4. N - 1 \in Good
  <2> HIDE DEF Good
  <2>1. \A n \in 0 .. (N - 1) : n \in Good
    <3> HIDE DEF N
    <3> QED BY <1>n, <1>2, <1>3, PrefixInduction
  <2> QED BY <1>n, <2>1
<1>5. (N - 1) + 1 = N
  BY <1>n
<1>6. Prevails(reconcile_group(group).base, group, N)
  BY <1>1, <1>4, <1>5 DEF Reconciles
<1>7. ToSet(group) = {group[j] : j \in 1 .. N}
  BY DEF ToSet
<1> QED BY <1>6, <1>7 DEF Unopposed, Prevails

-----------------------------------------------------------------------------
(* Reconciliation of all events of a run.                                   *)

group_of(events, id) == Chosen(events, {i \in DOMAIN events : events[i].id = id})

bases(events) == {reconcile_group(group_of(events, e.id)).base : e \in ToSet(events)}

kept_bases(events) == {b \in bases(events) : b.status = "ACCEPTED"}

rate_decisions(events) == {b \in kept_bases(events) : b.bok}

settled(b, D) == IF b.bok THEN bok_lifecycle(b, D, current_decision(D)) ELSE b

\* The events of the accepting verdicts of a run, in their order.
RawEvents(events, docs) == events \in Seq(ToSet(events)) /\ \A e \in ToSet(events) : Raw(e, docs)

\* A group has the events of its identifier.
LEMMA GroupMembers ==
    ASSUME NEW S, NEW events \in Seq(S), NEW e \in ToSet(events)
    PROVE  LET group == group_of(events, e.id)
               T == {f \in ToSet(events) : f.id = e.id}
           IN group \in Seq(T) /\ ToSet(group) = T /\ group # <<>>
<1> DEFINE I == {i \in DOMAIN events : events[i].id = e.id}
           group == group_of(events, e.id)
           T == {f \in ToSet(events) : f.id = e.id}
<1>1. group \in Seq(S) /\ ToSet(group) = {events[i] : i \in I \cap DOMAIN events}
  BY ChosenRange DEF group_of
<1>2. {events[i] : i \in I \cap DOMAIN events} = T
  BY DEF ToSet
<1>3. group \in Seq(T)
  <2> HIDE DEF group, T, I
  <2> QED BY <1>1, <1>2, OwnRange
<1>4. group # <<>>
  <2>1. e \in T
    OBVIOUS
  <2>2. ToSet(<<>>) = {}
    BY DEF ToSet
  <2> QED BY <1>1, <1>2, <2>1, <2>2
<1> QED BY <1>1, <1>2, <1>3, <1>4

\* The events of one identifier, in the order they came, are one group to reconcile.
LEMMA GroupIsOne ==
    ASSUME NEW docs, NEW events, RawEvents(events, docs), NEW e \in ToSet(events)
    PROVE  OneGroup(group_of(events, e.id), e.id, docs)
<1> DEFINE T == {f \in ToSet(events) : f.id = e.id}
           group == group_of(events, e.id)
<1>1. group \in Seq(T) /\ ToSet(group) = T /\ group # <<>>
  BY GroupMembers DEF RawEvents
<1>2. \A f \in T : Raw(f, docs) /\ f.id = e.id
  BY DEF RawEvents
<1> HIDE DEF T, group
<1>3. OneGroup(group, e.id, docs)
  BY <1>1, <1>2 DEF OneGroup
<1> QED BY <1>3 DEF group

\* The base event of every group is grounded.
LEMMA BasesAreGrounded ==
    ASSUME NEW docs, NEW events, RawEvents(events, docs), NEW e \in ToSet(events)
    PROVE  LET r == reconcile_group(group_of(events, e.id))
           IN Grounded(r.base, docs) /\ r.base.id = e.id
<1>1. OneGroup(group_of(events, e.id), e.id, docs)
  BY GroupIsOne
<1> QED BY <1>1, GroupIsGrounded

\* EventReconciler.reconcile returns the settled base events of the groups
\* whose base event is still accepted.
LEMMA ReconcileKeeps ==
    ASSUME NEW docs, NEW events, RawEvents(events, docs)
    PROVE  reconcile(events).accepted =
             {settled(b, rate_decisions(events)) : b \in kept_bases(events)}
<1> DEFINE ids == {e.id : e \in ToSet(events)}
           groups == [id \in ids |-> reconcile_group(group_of(events, id))]
           kept == {id \in DOMAIN groups : groups[id].base.status = "ACCEPTED"}
           decisions == {groups[id].base : id \in {i \in kept : i.bok}}
<1>1. reconcile(events).accepted =
        {IF groups[id].base.bok THEN bok_lifecycle(groups[id].base, decisions, current_decision(decisions))
         ELSE groups[id].base : id \in kept}
  BY DEF reconcile, group_of
<1>2. \A id \in ids : groups[id] = reconcile_group(group_of(events, id))
  OBVIOUS
<1>3. DOMAIN groups = ids
  OBVIOUS
<1>4. \A id \in ids : groups[id].base.bok = id.bok
  <2>1. ASSUME NEW e \in ToSet(events) PROVE groups[e.id].base.bok = e.id.bok
    <3>1. groups[e.id] = reconcile_group(group_of(events, e.id))
      BY <1>2
    <3>2. Grounded(groups[e.id].base, docs) /\ groups[e.id].base.id = e.id
      BY <3>1, BasesAreGrounded
    <3> QED BY <3>2 DEF Grounded
  <2> QED BY <2>1
<1>5. kept_bases(events) = {groups[id].base : id \in kept}
  <2>1. bases(events) = {groups[id].base : id \in ids}
    BY <1>2 DEF bases
  <2> HIDE DEF groups
  <2> QED BY <1>3, <2>1 DEF kept_bases
<1>6. decisions = rate_decisions(events)
  <2> HIDE DEF groups
  <2> QED BY <1>3, <1>4, <1>5 DEF rate_decisions
<1> HIDE DEF groups, kept, decisions
<1>7. reconcile(events).accepted = {settled(groups[id].base, decisions) : id \in kept}
  BY <1>1 DEF settled
<1> QED BY <1>5, <1>6, <1>7

\* Of the decisions after a given one there is a next one.
LEMMA NextDecision ==
    ASSUME NEW D, \A f \in D : f.start \in Int, NEW x \in Int, NEW f \in D, f.start > x
    PROVE  LET after == {g \in D : g.start > x}
               next == CHOOSE g \in after : \A h \in after : g.start <= h.start
           IN next \in D /\ next.start > x /\ \A h \in after : next.start <= h.start
<1> DEFINE after == {g \in D : g.start > x}
           T == {g.start - x : g \in after}
<1>1. T \subseteq Nat /\ T # {}
  <2>1. ASSUME NEW g \in after PROVE g.start - x \in Nat
    OBVIOUS
  <2>2. f \in after
    OBVIOUS
  <2> HIDE DEF after
  <2> QED BY <2>1, <2>2
<1>2. PICK n \in T : \A m \in T : n <= m
  BY <1>1, NatLeast
<1>3. PICK g \in after : n = g.start - x
  BY <1>2
<1>4. \A h \in after : g.start <= h.start
  BY <1>2, <1>3
<1> DEFINE next == CHOOSE y \in after : \A h \in after : y.start <= h.start
<1>5. next \in after /\ \A h \in after : next.start <= h.start
  BY <1>4
<1> QED BY <1>5

\* What becomes of an accepted event when it is settled.
LEMMA SettledIs ==
    ASSUME NEW docs, NEW D, \A f \in D : Grounded(f, docs), NEW b, Grounded(b, docs)
    PROVE  LET s == settled(b, D) IN
           /\ Grounded(s, docs)
           /\ s.id = b.id /\ s.bok = b.bok /\ s.start = b.start /\ s.tier = b.tier /\ s.type = b.type
           /\ ~b.bok => s = b
           /\ s.candidates = b.candidates
           /\ b.bok => \A f \in D : b.start < f.start /\ f.start <= AsOf => s.end < AsOf
<1> DEFINE s == settled(b, D)
           after == {f \in D : f.start > b.start}
           next == CHOOSE f \in after : \A g \in after : f.start <= g.start
<1>w. AsOf \in Int /\ ForecastStart \in Int /\ ForecastEnd \in Int
  BY Window
<1>i. b.start \in Int /\ b.end \in Int /\ \A f \in D : f.start \in Int
  BY DEF Grounded
<1>1. CASE ~b.bok
  <2>1. s = b
    BY <1>1 DEF settled
  <2> QED BY <1>1, <2>1
<1>2. CASE b.bok /\ b \in current_decision(D)
  <2>1. s = [b EXCEPT !.lifecycle = "CURRENT_OFFICIAL_DECISION"]
    BY <1>2 DEF settled, bok_lifecycle
  <2>2. /\ DOMAIN s = EventFields /\ s.id = b.id /\ s.bok = b.bok /\ s.start = b.start /\ s.end = b.end
        /\ s.tier = b.tier /\ s.type = b.type /\ s.candidates = b.candidates
        /\ s.revisions = b.revisions /\ s.signal = b.signal
    BY <2>1 DEF Grounded, EventFields
  <2>3. \A f \in D : ~(b.start < f.start /\ f.start <= AsOf)
    <3>1. b \in current_decisions(D)
      BY <1>2 DEF current_decision
    <3> QED BY <1>w, <1>i, <3>1 DEF current_decisions
  <2> HIDE DEF s
  <2>4. Grounded(s, docs)
    BY <2>2 DEF Grounded
  <2>5. \A f \in D : b.start < f.start /\ f.start <= AsOf => s.end < AsOf
    BY <2>3
  <2> QED BY <1>2, <2>2, <2>4, <2>5 DEF s
<1>3. CASE b.bok /\ b \notin current_decision(D) /\ after # {}
  <2>1. s = [b EXCEPT !.end = next.start - 1, !.lifecycle = "SUPERSEDED_BY_LATER_DECISION", !.signal = FALSE]
    BY <1>3 DEF settled, bok_lifecycle
  <2>2. /\ DOMAIN s = EventFields /\ s.id = b.id /\ s.bok = b.bok /\ s.start = b.start
        /\ s.end = next.start - 1
        /\ s.tier = b.tier /\ s.type = b.type /\ s.candidates = b.candidates
        /\ s.revisions = b.revisions /\ s.signal = FALSE
    BY <2>1 DEF Grounded, EventFields
  <2>3. next \in D /\ next.start > b.start /\ \A h \in after : next.start <= h.start
    <3>1. PICK f \in D : f.start > b.start
      BY <1>3
    <3> QED BY <1>i, <3>1, NextDecision
  <2> HIDE DEF s, next
  <2>4. next.start \in Int /\ b.start <= next.start - 1
    BY <1>i, <2>3
  <2>5. Grounded(s, docs)
    <3>1. s.start <= s.end /\ {s.start, s.end} \subseteq Int
      BY <1>i, <2>2, <2>4
    <3> QED BY <2>2, <3>1 DEF Grounded
  <2>6. \A f \in D : b.start < f.start /\ f.start <= AsOf => s.end < AsOf
    BY <1>i, <1>w, <2>2, <2>3, <2>4
  <2> QED BY <1>3, <2>2, <2>5, <2>6 DEF s
<1>4. CASE b.bok /\ b \notin current_decision(D) /\ after = {}
  <2>1. s = [b EXCEPT !.lifecycle = "FUTURE_OFFICIAL_DECISION", !.signal = FALSE]
    BY <1>4 DEF settled, bok_lifecycle
  <2>2. /\ DOMAIN s = EventFields /\ s.id = b.id /\ s.bok = b.bok /\ s.start = b.start /\ s.end = b.end
        /\ s.tier = b.tier /\ s.type = b.type /\ s.candidates = b.candidates
        /\ s.revisions = b.revisions /\ s.signal = FALSE
    BY <2>1 DEF Grounded, EventFields
  <2>3. \A f \in D : ~(b.start < f.start)
    BY <1>i, <1>4
  <2> HIDE DEF s
  <2>4. Grounded(s, docs)
    BY <2>2 DEF Grounded
  <2> QED BY <1>4, <2>2, <2>3, <2>4 DEF s
<1> QED BY <1>1, <1>2, <1>3, <1>4

\* What the result says of an accepted event, by the base event it comes from.
ComesFrom(e, b, events, docs) ==
    /\ Grounded(b, docs) /\ Grounded(e, docs)
    /\ e.id = b.id /\ e.bok = b.bok /\ e.start = b.start /\ e.tier = b.tier
    /\ e.candidates = b.candidates
    /\ ~b.bok => e.end = b.end /\ e.address = b.address
    /\ e.signal => ~represented(e)
    /\ b.bok => \A f \in rate_decisions(events) : b.start < f.start /\ f.start <= AsOf => e.end < AsOf

\* What EventReconciler.reconcile keeps is grounded.
LEMMA KeptAreGrounded ==
    ASSUME NEW docs, NEW events, RawEvents(events, docs), NEW b \in kept_bases(events)
    PROVE  /\ Grounded(b, docs) /\ b.status = "ACCEPTED"
           /\ \E e \in ToSet(events) : b = reconcile_group(group_of(events, e.id)).base /\ b.id = e.id
  BY BasesAreGrounded DEF kept_bases, bases

\* What is accepted after reconciliation comes from the raw events.
LEMMA AcceptedComeFrom ==
    ASSUME NEW docs, NEW events, RawEvents(events, docs),
           NEW e \in assign_cause_groups(reconcile(events).accepted)
    PROVE  \E b \in kept_bases(events) : ComesFrom(e, b, events, docs)
<1> DEFINE D == rate_decisions(events)
<1>1. PICK b \in kept_bases(events) : e = assign_cause_group(settled(b, D))
  BY ReconcileKeeps DEF assign_cause_groups
<1>2. Grounded(b, docs) /\ \A f \in D : Grounded(f, docs)
  BY KeptAreGrounded DEF rate_decisions
<1> DEFINE s == settled(b, D)
<1> HIDE DEF D
<1>3. /\ Grounded(s, docs)
      /\ s.id = b.id /\ s.bok = b.bok /\ s.start = b.start /\ s.tier = b.tier /\ s.type = b.type
      /\ ~b.bok => s = b
      /\ s.candidates = b.candidates
      /\ b.bok => \A f \in D : b.start < f.start /\ f.start <= AsOf => s.end < AsOf
  BY <1>2, SettledIs
<1> HIDE DEF s
<1>4. /\ DOMAIN e = EventFields /\ e.id = s.id /\ e.bok = s.bok /\ e.start = s.start /\ e.end = s.end
      /\ e.tier = s.tier /\ e.type = s.type /\ e.candidates = s.candidates
      /\ e.revisions = s.revisions /\ e.address = s.address
      /\ e.signal = (s.signal /\ ~represented(s))
  BY <1>1, <1>3 DEF Grounded, EventFields, assign_cause_group, s
<1>5. represented(e) <=> represented(s)
  BY <1>4 DEF represented, cause_key
<1>6. e.signal \in BOOLEAN /\ (e.signal => s.signal /\ ~represented(s))
  BY <1>3, <1>4 DEF Grounded
<1>7. Grounded(e, docs)
  BY <1>3, <1>4, <1>6 DEF Grounded
<1>8. ComesFrom(e, b, events, docs)
  BY <1>2, <1>3, <1>4, <1>5, <1>6, <1>7 DEF ComesFrom, D
<1> QED BY <1>8

-----------------------------------------------------------------------------
(* The state of a run.                                                      *)

\* What a load holds as a candidate says what the validator reads.
LEMMA CandidateSays ==
    ASSUME NEW a, NEW shape \in DOMAIN Shapes, NEW source, NEW revision, NEW index, NEW attempt
    PROVE  LET c == Candidate(a, shape, source, revision, index, attempt)
           IN Says(c) /\ c.id = <<a, source, revision, index, attempt>> /\ c.source = source
<1> DEFINE c == Candidate(a, shape, source, revision, index, attempt)
           said == Shapes[shape]
<1>1. /\ {"type", "start", "end", "next_decision", "bok"} \subseteq DOMAIN said
      /\ said.type \in DOMAIN Registry /\ said.bok \in BOOLEAN
      /\ {said.start.day, said.end.day, said.next_decision.day} \subseteq Int
  BY ShapesAssumption
<1> HIDE DEF said
<1>2. /\ c.type = said.type /\ c.start = said.start /\ c.end = said.end
      /\ c.next_decision = said.next_decision /\ c.bok = said.bok
  BY <1>1 DEF Candidate, Placed, said
<1>3. c.id = <<a, source, revision, index, attempt>> /\ c.source = source
  BY DEF Candidate, Placed
<1> HIDE DEF c
<1>4. Says(c)
  BY <1>1, <1>2 DEF Says
<1> QED BY <1>3, <1>4 DEF c

\* Sequences of candidates, verdicts and events, with their own members.
OfCandidates(s) == s \in Seq(ToSet(s)) /\ \A c \in ToSet(s) : Says(c)

OfVerdicts(s, docs) == s \in Seq(ToSet(s)) /\ \A o \in ToSet(s) : Reasoned(o, docs)

\* The candidates an agent hands over are candidates about its documents.
LEMMA OwnAreCandidates ==
    ASSUME NEW a \in Agents, load \in Loads
    PROVE  OfCandidates(own_candidates(a))
<1> DEFINE cs == load[a].candidates
           own == own_candidates(a)
           Given == [shape : DOMAIN Shapes, source : SourceIds]
<1>1. cs \in Seq(Given)
  BY LoadsAssumption
<1>2. DOMAIN cs = 1 .. Len(cs) /\ Len(cs) \in Nat /\ \A i \in DOMAIN cs : cs[i].shape \in DOMAIN Shapes
  <2>1. \A x \in Given : x.shape \in DOMAIN Shapes
    OBVIOUS
  <2> HIDE DEF Given, cs
  <2>2. DOMAIN cs = 1 .. Len(cs) /\ Len(cs) \in Nat /\ \A i \in DOMAIN cs : cs[i] \in Given
    BY <1>1
  <2> QED BY <2>1, <2>2
<1>3. DOMAIN own = DOMAIN cs
  BY DEF own_candidates
<1>4. \A i \in DOMAIN cs : Says(own[i])
  BY <1>2, CandidateSays DEF own_candidates
<1>5. own = [i \in 1 .. Len(cs) |-> own[i]]
  BY <1>2 DEF own_candidates
<1> HIDE DEF own
<1>6. own \in Seq({own[i] : i \in DOMAIN own})
  BY <1>2, <1>3, <1>5
<1>7. ToSet(own) = {own[i] : i \in DOMAIN own}
  BY DEF ToSet
<1>8. OfCandidates(own)
  BY <1>3, <1>4, <1>6, <1>7 DEF OfCandidates
<1> QED BY <1>8 DEF own

\* The reply to a retry request holds candidates again.
LEMMA RetriedAreCandidates ==
    ASSUME NEW c, NEW shapes \in Seq(DOMAIN Shapes)
    PROVE  OfCandidates(retried(c, shapes))
<1> DEFINE again == retried(c, shapes)
<1>1. DOMAIN shapes = 1 .. Len(shapes) /\ Len(shapes) \in Nat /\ \A i \in DOMAIN shapes : shapes[i] \in DOMAIN Shapes
  OBVIOUS
<1>2. DOMAIN again = DOMAIN shapes
  BY DEF retried
<1>3. \A i \in DOMAIN shapes : Says(again[i])
  BY <1>1, CandidateSays DEF retried
<1>4. again = [i \in 1 .. Len(shapes) |-> again[i]]
  BY <1>1 DEF retried
<1> HIDE DEF again
<1>5. again \in Seq({again[i] : i \in DOMAIN again})
  BY <1>1, <1>2, <1>4
<1>6. ToSet(again) = {again[i] : i \in DOMAIN again}
  BY DEF ToSet
<1>7. OfCandidates(again)
  BY <1>2, <1>3, <1>5, <1>6 DEF OfCandidates
<1> QED BY <1>7 DEF again

\* The accepted verdicts of a reply are verdicts.
LEMMA FirstAcceptedAreVerdicts ==
    ASSUME NEW cs, OfCandidates(cs), BySource(documents)
    PROVE  OfVerdicts(first_accepted(cs), documents)
<1> DEFINE verdicts == [i \in DOMAIN cs |-> validate(cs[i], documents)]
           good == Chosen(verdicts, accepted_at(verdicts))
<1>0. /\ Len(cs) \in Nat /\ DOMAIN cs = 1 .. Len(cs) /\ \A i \in DOMAIN cs : cs[i] \in ToSet(cs)
  BY DEF OfCandidates, ToSet
<1>1. \A i \in DOMAIN cs : Reasoned(verdicts[i], documents)
  BY <1>0, VerdictIsReasoned DEF OfCandidates
<1>2. verdicts \in Seq(ToSet(verdicts)) /\ ToSet(verdicts) = {verdicts[i] : i \in DOMAIN cs}
  BY <1>0, SequenceOfValues
<1> HIDE DEF verdicts
<1>3. good \in Seq(ToSet(verdicts))
  BY <1>2, ChosenRange
<1>4. CASE good = <<>>
  <2>1. first_accepted(cs) = <<>>
    BY <1>4 DEF first_accepted, verdicts
  <2>2. ToSet(<<>>) = {} /\ <<>> \in Seq({})
    BY DEF ToSet
  <2> QED BY <2>1, <2>2 DEF OfVerdicts
<1>5. CASE good # <<>>
  <2>1. first_accepted(cs) = <<good[1]>>
    BY <1>5 DEF first_accepted, verdicts
  <2>2. good[1] \in ToSet(verdicts)
    <3> HIDE DEF good
    <3> QED BY <1>3, <1>5
  <2>3. Reasoned(good[1], documents)
    BY <1>1, <1>2, <2>2
  <2> HIDE DEF good
  <2>4. <<good[1]>> \in Seq({good[1]}) /\ ToSet(<<good[1]>>) = {good[1]}
    BY DEF ToSet
  <2> QED BY <2>1, <2>3, <2>4 DEF OfVerdicts
<1> QED BY <1>4, <1>5

\* The events of the accepting verdicts.
LEMMA RawAreEvents ==
    ASSUME NEW docs, OfVerdicts(outcomes, docs)
    PROVE  RawEvents(accepted_raw, docs)
<1> DEFINE good == Chosen(outcomes, accepted_at(outcomes))
           raw == accepted_raw
<1>1. /\ good \in Seq(ToSet(outcomes))
      /\ ToSet(good) = {outcomes[i] : i \in accepted_at(outcomes) \cap DOMAIN outcomes}
  BY ChosenRange DEF OfVerdicts
<1> HIDE DEF good
<1>2. Len(good) \in Nat /\ DOMAIN good = 1 .. Len(good) /\ \A i \in DOMAIN good : good[i] \in ToSet(good)
  BY <1>1 DEF ToSet
<1>3. raw = [i \in DOMAIN good |-> CHOOSE e \in good[i].event : TRUE]
  BY DEF accepted_raw, good
<1>4. ASSUME NEW i \in DOMAIN good PROVE Raw(raw[i], docs)
  <2>1. good[i] \in ToSet(outcomes) /\ good[i].status = "ACCEPTED"
    BY <1>1, <1>2 DEF accepted_at, ToSet
  <2>2. PICK e : good[i].event = {e} /\ Grounded(e, docs) /\ e.status = "ACCEPTED"
    BY <2>1 DEF OfVerdicts, Reasoned
  <2>3. raw[i] = e
    BY <1>3, <2>2
  <2> QED BY <2>2, <2>3 DEF Raw
<1>5. DOMAIN raw = 1 .. Len(good) /\ raw = [i \in 1 .. Len(good) |-> raw[i]]
  BY <1>2, <1>3
<1> HIDE DEF raw
<1>6. raw \in Seq(ToSet(raw)) /\ ToSet(raw) = {raw[i] : i \in 1 .. Len(good)}
  BY <1>2, <1>5, SequenceOfValues
<1>7. RawEvents(raw, docs)
  BY <1>2, <1>4, <1>6 DEF RawEvents
<1> QED BY <1>7 DEF raw

\* The merge takes whole documents of the agents that were collected.
LEMMA MergedAreDocuments ==
    ASSUME load \in Loads, order \in Seq(Agents)
    PROVE  /\ BySource(merged_documents)
           /\ \A s \in DOMAIN merged_documents :
                 \E a \in collected : \E i \in 1 .. Len(load[a].docs) : merged_documents[s] = load[a].docs[i]
<1> DEFINE ss == [i \in DOMAIN order |-> load[order[i]].docs]
           all == FlattenSeq(ss)
           at_source(s) == {i \in DOMAIN all : all[i].source = s}
<1>0. Len(order) \in Nat /\ DOMAIN order = 1 .. Len(order) /\ \A i \in DOMAIN order : order[i] \in Agents
  OBVIOUS
<1>1. \A a \in Agents : load[a].docs \in Seq(Document)
  BY LoadsAssumption
<1>2. ss \in Seq(Seq(Document)) /\ Len(ss) = Len(order)
  <2> HIDE DEF Document
  <2> QED BY <1>0, <1>1
<1>3. /\ all \in Seq(Document)
      /\ ToSet(all) = UNION {ToSet(ss[i]) : i \in 1 .. Len(ss)}
  <2> HIDE DEF ss
  <2> QED BY <1>2, FlattenRange
<1>4. \A d \in ToSet(all) : \E a \in collected : \E j \in 1 .. Len(load[a].docs) : d = load[a].docs[j]
  <2> SUFFICES ASSUME NEW d \in ToSet(all)
               PROVE  \E a \in collected : \E j \in 1 .. Len(load[a].docs) : d = load[a].docs[j]
    OBVIOUS
  <2> HIDE DEF all
  <2>1. PICK i \in 1 .. Len(ss) : d \in ToSet(ss[i])
    BY <1>3
  <2>2. order[i] \in collected /\ ss[i] = load[order[i]].docs
    BY <1>0, <1>2, <2>1 DEF collected, ToSet
  <2>3. DOMAIN load[order[i]].docs = 1 .. Len(load[order[i]].docs)
    <3>1. order[i] \in Agents
      BY <1>0, <1>2, <2>1
    <3> HIDE DEF Document
    <3> QED BY <1>1, <3>1
  <2> QED BY <2>1, <2>2, <2>3 DEF ToSet
<1>5. merged_documents = [s \in {d.source : d \in ToSet(all)} |-> all[Max(at_source(s))]]
  BY DEF merged_documents
<1> HIDE DEF all
<1>6. ASSUME NEW s \in DOMAIN merged_documents
      PROVE  merged_documents[s] \in ToSet(all) /\ merged_documents[s].source = s
  <2>0. Len(all) \in Nat /\ DOMAIN all = 1 .. Len(all)
    <3> HIDE DEF Document
    <3> QED BY <1>3
  <2>1. PICK i \in DOMAIN all : all[i].source = s
    BY <1>5 DEF ToSet
  <2>2. at_source(s) \subseteq 1 .. Len(all) /\ at_source(s) # {}
    BY <2>0, <2>1
  <2>3. Max(at_source(s)) \in at_source(s)
    <3> HIDE DEF at_source
    <3> QED BY <2>0, <2>2, LastPosition
  <2>4. merged_documents[s] = all[Max(at_source(s))]
    BY <1>5
  <2> QED BY <2>3, <2>4 DEF ToSet
<1>7. \A d \in ToSet(all) : d \in Document
  <2> HIDE DEF Document
  <2> QED BY <1>3 DEF ToSet
<1> QED BY <1>4, <1>6, <1>7 DEF BySource

judged == {o.candidate : o \in ToSet(outcomes)}

\* Documents, candidates and verdicts are what the code calls them; what was
\* extracted is judged or still to be judged; the accepted events come from
\* the verdicts.
VerdictsInv ==
    /\ BySource(documents)
    /\ \A s \in DOMAIN documents : <<s, documents[s].revision>> \in revisions
    /\ OfCandidates(todo) /\ OfVerdicts(outcomes, documents)
    /\ pc = "COLLECTING" => todo = <<>> /\ outcomes = <<>>
    /\ pc # "COLLECTING" =>
          \A a \in collected : \A c \in ToSet(own_candidates(a)) : c \in ToSet(todo) \/ c.id \in judged
    /\ pc \notin {"COLLECTING", "VALIDATING"} => todo = <<>>
    /\ pc \in {"COLLECTING", "VALIDATING"} => accepted = {}
    /\ accepted # {} => accepted = assign_cause_groups(reconcile(accepted_raw).accepted)

\* Nothing is a sequence of candidates, and of verdicts.
LEMMA EmptyIsFine == OfCandidates(<<>>) /\ \A docs : OfVerdicts(<<>>, docs)
<1>1. ToSet(<<>>) = {} /\ <<>> \in Seq({})
  BY DEF ToSet
<1> QED BY <1>1 DEF OfCandidates, OfVerdicts

\* Nothing has been judged at the start.
LEMMA VerdictsInit == Init => VerdictsInv
<1> SUFFICES ASSUME Init PROVE VerdictsInv
  OBVIOUS
<1>1. /\ todo = <<>> /\ outcomes = <<>> /\ accepted = {} /\ pc = "COLLECTING"
      /\ documents = <<>> /\ DOMAIN documents = {}
  BY DEF Init
<1> QED BY <1>1, EmptyIsFine DEF VerdictsInv, BySource

\* A verdict more: it is about the candidate at the head of those to come.
LEMMA OneMoreVerdict ==
    ASSUME NEW docs, NEW os, OfVerdicts(os, docs), NEW ps, OfVerdicts(ps, docs)
    PROVE  OfVerdicts(os \o ps, docs) /\ ToSet(os \o ps) = ToSet(os) \cup ToSet(ps)
<1> DEFINE S == ToSet(os) \cup ToSet(ps)
<1>1. os \in Seq(S) /\ ps \in Seq(S)
  <2>1. ToSet(os) \subseteq S /\ ToSet(ps) \subseteq S
    OBVIOUS
  <2>2. os \in Seq(ToSet(os)) /\ ps \in Seq(ToSet(ps))
    BY DEF OfVerdicts
  <2> HIDE DEF S
  <2> QED BY <2>1, <2>2, OwnRange
<1>2. os \o ps \in Seq(S) /\ ToSet(os \o ps) = S
  <2> HIDE DEF S
  <2>1. os \o ps \in Seq(S) /\ ToSet(os \o ps) = ToSet(os) \cup ToSet(ps)
    BY <1>1, ConcatRange
  <2> QED BY <2>1 DEF S
<1>3. \A o \in S : Reasoned(o, docs)
  BY DEF OfVerdicts
<1> QED BY <1>2, <1>3 DEF OfVerdicts

\* A sequence of one verdict.
LEMMA SingleVerdict ==
    ASSUME NEW docs, NEW o, Reasoned(o, docs)
    PROVE  OfVerdicts(<<o>>, docs) /\ ToSet(<<o>>) = {o}
<1>1. <<o>> \in Seq({o}) /\ ToSet(<<o>>) = {o}
  BY DEF ToSet
<1> QED BY <1>1 DEF OfVerdicts

\* ResearchPipeline._validate: every candidate gets its verdict, retried ones too.
LEMMA ValidateAdds ==
    ASSUME VerdictsInv, ValidateNext
    PROVE  /\ todo # <<>> /\ todo' = Tail(todo) /\ pc = "VALIDATING"
           /\ OfVerdicts(outcomes', documents)
           /\ \E o \in ToSet(outcomes') : o.candidate = Head(todo).id
           /\ ToSet(outcomes) \subseteq ToSet(outcomes')
<1> DEFINE c == Head(todo)
           o == validate(c, documents)
<1>1. todo # <<>> /\ todo' = Tail(todo) /\ pc = "VALIDATING"
  BY DEF ValidateNext
<1>2. c \in ToSet(todo)
  BY <1>1, HeadAndTail DEF VerdictsInv, OfCandidates
<1>3. Reasoned(o, documents) /\ o.candidate = c.id
  BY <1>2, VerdictIsReasoned DEF VerdictsInv, OfCandidates
<1>4. OfVerdicts(<<o>>, documents) /\ ToSet(<<o>>) = {o}
  BY <1>3, SingleVerdict
<1>5. \E ps : OfVerdicts(ps, documents) /\ o \in ToSet(ps) /\ outcomes' = outcomes \o ps
  <2>1. CASE outcomes' = Append(outcomes, o)
    <3>1. outcomes \in Seq(ToSet(outcomes) \cup {o})
      BY OwnRange DEF VerdictsInv, OfVerdicts
    <3>2. Append(outcomes, o) = outcomes \o <<o>>
      <4> HIDE DEF o
      <4> QED BY <3>1
    <3> HIDE DEF o
    <3> QED BY <1>4, <2>1, <3>2
  <2>2. ASSUME NEW reply \in Replies, outcomes' = outcomes \o Answered(o, first_accepted(retried(c, reply.shapes)))
        PROVE  \E ps : OfVerdicts(ps, documents) /\ o \in ToSet(ps) /\ outcomes' = outcomes \o ps
    <3> DEFINE more == first_accepted(retried(c, reply.shapes))
    <3>1. OfCandidates(retried(c, reply.shapes))
      BY LoadsAssumption, RetriedAreCandidates
    <3>2. OfVerdicts(more, documents)
      BY <3>1, FirstAcceptedAreVerdicts DEF VerdictsInv
    <3> HIDE DEF o, more
    <3>3. OfVerdicts(<<o>> \o more, documents) /\ o \in ToSet(<<o>> \o more)
      BY <1>4, <3>2, OneMoreVerdict
    <3> QED BY <2>2, <3>3 DEF Answered, more
  <2> QED BY <2>1, <2>2 DEF ValidateNext
<1>6. PICK ps : OfVerdicts(ps, documents) /\ o \in ToSet(ps) /\ outcomes' = outcomes \o ps
  BY <1>5
<1>7. OfVerdicts(outcomes', documents) /\ ToSet(outcomes') = ToSet(outcomes) \cup ToSet(ps)
  BY <1>6, OneMoreVerdict DEF VerdictsInv
<1> HIDE DEF o
<1> QED BY <1>1, <1>3, <1>6, <1>7

\* The agents' steps touch none of this, but the store, which only grows.
LEMMA AgentsLeaveVerdicts ==
    ASSUME VerdictsInv, [Next]_vars, NEW a \in Agents, Look(a) \/ Save(a) \/ Extract(a) \/ Collect(a)
    PROVE  VerdictsInv'
<1>1. /\ UNCHANGED <<load, documents, todo, outcomes, accepted, pc>>
      /\ pc = "COLLECTING" \/ order' = order
  BY DEF Look, Save, Extract, Collect, eventVars
<1>2. revisions \subseteq revisions'
  BY RevisionsStay
<1>3. \A b : own_candidates(b)' = own_candidates(b)
  BY <1>1 DEF own_candidates, own_document
<1>4. accepted_raw' = accepted_raw
  BY <1>1 DEF accepted_raw
<1>5. collected' = collected \/ pc = "COLLECTING"
  BY <1>1 DEF collected
<1>6. judged' = judged
  BY <1>1 DEF judged
<1> QED BY <1>1, <1>2, <1>3, <1>4, <1>5, <1>6 DEF VerdictsInv

\* The merge starts with no verdicts and the candidates of the agents it collected.
LEMMA MergeVerdicts ==
    ASSUME IInv, VerdictsInv, Merge
    PROVE  VerdictsInv'
<1> DEFINE ss == [i \in DOMAIN order |-> own_candidates(order[i])]
           all == FlattenSeq(ss)
<1>1. /\ pc = "COLLECTING" /\ pc' = "VALIDATING" /\ documents' = merged_documents /\ todo' = all
      /\ UNCHANGED <<load, order, outcomes, accepted, revisions>>
  BY DEF Merge, eventVars, storeVars
<1>2. load \in Loads /\ order \in Seq(Agents)
  BY DEF IInv, ReadIsStored, AllAreWaitedFor
<1>3. BySource(documents')
  BY <1>1, <1>2, MergedAreDocuments
<1>4. ASSUME NEW s \in DOMAIN documents' PROVE <<s, documents'[s].revision>> \in revisions'
  <2>0. PICK a \in collected : \E j \in 1 .. Len(load[a].docs) : documents'[s] = load[a].docs[j]
    BY <1>1, <1>2, <1>4, MergedAreDocuments
  <2>1. PICK i \in 1 .. Len(load[a].docs) : documents'[s] = load[a].docs[i]
    BY <2>0
  <2>2. a \in Agents /\ read[a] = Len(load[a].docs)
    BY <1>2, <2>1 DEF IInv, ReadIsStored, AllAreWaitedFor, collected, ToSet
  <2>3. <<load[a].docs[i].source, load[a].docs[i].revision>> \in revisions
    BY <2>1, <2>2 DEF IInv, ReadIsStored
  <2> QED BY <1>1, <1>3, <1>4, <2>1, <2>3 DEF BySource
<1>5. \A i \in DOMAIN order : OfCandidates(ss[i])
  <2>1. \A i \in DOMAIN order : order[i] \in Agents
    BY <1>2
  <2> QED BY <1>2, <2>1, OwnAreCandidates
<1>6. all \in Seq(ToSet(all)) /\ ToSet(all) = UNION {ToSet(ss[i]) : i \in DOMAIN order}
  <2>1. Len(order) \in Nat /\ DOMAIN order = 1 .. Len(order)
    BY <1>2
  <2>2. DOMAIN ss = 1 .. Len(order) /\ ss = [i \in 1 .. Len(order) |-> ss[i]]
    BY <2>1
  <2>3. \A i \in 1 .. Len(order) : ss[i] \in Seq(ToSet(ss[i]))
    BY <1>5, <2>1 DEF OfCandidates
  <2> HIDE DEF ss
  <2> QED BY <2>1, <2>2, <2>3, FlattenOwn
<1>7. \A b : own_candidates(b)' = own_candidates(b)
  BY <1>1 DEF own_candidates, own_document
<1>8. \A a \in collected : \A c \in ToSet(own_candidates(a)) : c \in ToSet(all)
  <2> HIDE DEF all
  <2>1. \A a \in collected : \E i \in DOMAIN order : ss[i] = own_candidates(a)
    BY DEF collected, ToSet
  <2> QED BY <1>6, <2>1
<1>9. OfCandidates(all)
  <2> HIDE DEF all
  <2>1. \A c \in ToSet(all) : Says(c)
    BY <1>5, <1>6 DEF OfCandidates
  <2> QED BY <1>6, <2>1 DEF OfCandidates
<1>10. OfVerdicts(outcomes', documents')
  BY <1>1, EmptyIsFine DEF VerdictsInv
<1> HIDE DEF all
<1>11. collected' = collected /\ accepted' = {}
  BY <1>1 DEF collected, VerdictsInv
<1> QED BY <1>1, <1>3, <1>4, <1>7, <1>8, <1>9, <1>10, <1>11 DEF VerdictsInv

\* Every step keeps what is known of candidates, verdicts and results.
LEMMA VerdictsStep == IInv /\ VerdictsInv /\ [Next]_vars => VerdictsInv'
<1> SUFFICES ASSUME IInv, VerdictsInv, [Next]_vars PROVE VerdictsInv'
  OBVIOUS
<1>1. CASE ValidateNext
  <2>1. /\ todo # <<>> /\ todo' = Tail(todo) /\ pc = "VALIDATING"
        /\ OfVerdicts(outcomes', documents)
        /\ \E o \in ToSet(outcomes') : o.candidate = Head(todo).id
        /\ ToSet(outcomes) \subseteq ToSet(outcomes')
    BY <1>1, ValidateAdds
  <2>2. UNCHANGED <<load, order, documents, accepted, pc, revisions>>
    BY <1>1 DEF ValidateNext, eventVars, storeVars
  <2>3. Tail(todo) \in Seq(ToSet(todo)) /\ ToSet(todo) = {Head(todo)} \cup ToSet(Tail(todo))
    BY <2>1, HeadAndTail DEF VerdictsInv, OfCandidates
  <2>4. OfCandidates(todo')
    <3>1. Tail(todo) \in Seq(ToSet(Tail(todo)))
      BY <2>3, OwnRange
    <3> QED BY <2>1, <2>3, <3>1 DEF VerdictsInv, OfCandidates
  <2>5. judged \subseteq judged' /\ Head(todo).id \in judged'
    BY <2>1 DEF judged
  <2>6. \A b : own_candidates(b)' = own_candidates(b)
    BY <2>2 DEF own_candidates, own_document
  <2>7. collected' = collected
    BY <2>2 DEF collected
  <2>8. \A a \in collected : \A c \in ToSet(own_candidates(a)) : c \in ToSet(todo') \/ c.id \in judged'
    BY <2>1, <2>3, <2>5 DEF VerdictsInv
  <2> QED BY <2>1, <2>2, <2>4, <2>6, <2>7, <2>8 DEF VerdictsInv
<1>2. CASE Reconcile
  <2>1. /\ pc = "VALIDATING" /\ pc' = "SAVING" /\ todo = <<>>
        /\ accepted' = assign_cause_groups(reconcile(accepted_raw).accepted)
        /\ UNCHANGED <<load, order, documents, todo, outcomes, revisions>>
    BY <1>2 DEF Reconcile, storeVars
  <2>2. accepted_raw' = accepted_raw /\ collected' = collected /\ judged' = judged
    BY <2>1 DEF accepted_raw, collected, judged
  <2>3. \A b : own_candidates(b)' = own_candidates(b)
    BY <2>1 DEF own_candidates, own_document
  <2> QED BY <2>1, <2>2, <2>3 DEF VerdictsInv
<1>3. CASE SaveNext \/ Finish \/ Summarise \/ UNCHANGED vars
  <2>1. /\ UNCHANGED <<load, order, documents, todo, outcomes, accepted, revisions>>
        /\ \/ pc' = pc
           \/ pc \notin {"COLLECTING", "VALIDATING"} /\ pc' \notin {"COLLECTING", "VALIDATING"}
    BY <1>3 DEF SaveNext, Finish, Summarise, vars, eventVars, storeVars
  <2>2. accepted_raw' = accepted_raw /\ collected' = collected /\ judged' = judged
    BY <2>1 DEF accepted_raw, collected, judged
  <2>3. \A b : own_candidates(b)' = own_candidates(b)
    BY <2>1 DEF own_candidates, own_document
  <2> QED BY <2>1, <2>2, <2>3 DEF VerdictsInv
<1> QED BY <1>1, <1>2, <1>3, AgentsLeaveVerdicts, MergeVerdicts DEF Next

\* The invariants hold of every run.
LEMMA BothHold == Spec => [](IInv /\ VerdictsInv)
<1>1. Init => VerdictsInv
  BY VerdictsInit
<1>2. IInv /\ VerdictsInv /\ [Next]_vars => VerdictsInv'
  BY VerdictsStep
<1> QED BY <1>1, <1>2, Invariance, PTL DEF Spec

TypesInv ==
    /\ StoreTypeOK
    /\ errors \subseteq Agents \cup {"VALIDATION_RETRY"}
    /\ row \in {"RUNNING", "PARTIAL", "COMPLETED"}
    /\ pc \in {"COLLECTING", "VALIDATING", "SAVING", "FINISHED", "SUMMARISED", "RAISED"}

\* Writing a revision keeps the types of the store.
LEMMA SaveKeepsStoreTypes ==
    ASSUME StoreTypeOK, NEW s \in SourceIds, NEW r \in Revisions, NEW found, write(s, r, found)
    PROVE  StoreTypeOK'
<1>1. CASE found.known
  BY <1>1 DEF write, storeVars, StoreTypeOK
<1>2. CASE ~found.known
  BY <1>2 DEF write, naming, StoreTypeOK
<1> QED BY <1>1, <1>2

\* Every step keeps the types.
LEMMA TypesStep == IInv /\ TypesInv /\ [Next]_vars => TypesInv'
<1> SUFFICES ASSUME IInv, TypesInv, [Next]_vars PROVE TypesInv'
  OBVIOUS
<1>1. ASSUME NEW a \in Agents, Save(a) PROVE TypesInv'
  <2>1. UNCHANGED <<errors, row, pc>>
    BY <1>1 DEF Save
  <2>2. UNCHANGED storeVars \/ write(next_document(a).source, next_document(a).revision, seen[a])
    BY <1>1 DEF Save
  <2>3. next_document(a) \in Document
    <3>1. load \in Loads /\ read[a] \in Nat /\ read[a] < Len(load[a].docs)
      BY <1>1 DEF Save, IInv, ReadIsStored
    <3>2. load[a].docs \in Seq(Document)
      BY <3>1, LoadsAssumption
    <3> HIDE DEF Document
    <3> QED BY <3>1, <3>2 DEF next_document
  <2>4. next_document(a).source \in SourceIds /\ next_document(a).revision \in Revisions
    BY <2>3 DEF Document
  <2>5. StoreTypeOK'
    <3>1. CASE UNCHANGED storeVars
      BY <3>1 DEF TypesInv, StoreTypeOK, storeVars
    <3>2. CASE write(next_document(a).source, next_document(a).revision, seen[a])
      BY <2>4, <3>2, SaveKeepsStoreTypes DEF TypesInv
    <3> QED BY <2>2, <3>1, <3>2
  <2> QED BY <2>1, <2>5 DEF TypesInv
<1>2. ASSUME NEW a \in Agents, Look(a) \/ Extract(a) \/ Collect(a) PROVE TypesInv'
  BY <1>2 DEF Look, Extract, Collect, storeVars, StoreTypeOK, TypesInv
<1>3. CASE Merge \/ Reconcile \/ SaveNext \/ Finish \/ Summarise \/ UNCHANGED vars
  BY <1>3 DEF Merge, Reconcile, SaveNext, Finish, Summarise, vars, storeVars, StoreTypeOK, TypesInv
<1>4. CASE ValidateNext
  <2>1. UNCHANGED <<row, pc, latest, revisions>>
    BY <1>4 DEF ValidateNext, storeVars
  <2>2. errors' \subseteq errors \cup {"VALIDATION_RETRY"}
    BY <1>4 DEF ValidateNext
  <2> QED BY <2>1, <2>2 DEF TypesInv, StoreTypeOK
<1> QED BY <1>1, <1>2, <1>3, <1>4 DEF Next

\* Every variable keeps its type, and a verdict of the run accepts exactly
\* when it has no reasons (ValidationOutcome, ResearchPipeline.run).
THEOREM TypeCorrect == Spec => []TypeOK
<1>1. Init => TypesInv
  BY DEF Init, StoreInit, StoreTypeOK, TypesInv
<1>2. IInv /\ TypesInv /\ [Next]_vars => TypesInv'
  BY TypesStep
<1>3. IInv /\ VerdictsInv /\ TypesInv => TypeOK
  <2> SUFFICES ASSUME IInv, VerdictsInv, TypesInv PROVE TypeOK
    OBVIOUS
  <2>1. /\ load \in Loads /\ at \in [Agents -> {"LOOK", "SAVE", "DONE", "FAILED"}]
        /\ ToSet(order) \subseteq Agents
    BY DEF IInv, ReadIsStored, AllAreWaitedFor, Places, ToSet
  <2>2. \A a \in Agents : read[a] \in 0 .. Len(load[a].docs)
    <3> SUFFICES ASSUME NEW a \in Agents PROVE read[a] \in 0 .. Len(load[a].docs)
      OBVIOUS
    <3>1. load[a].docs \in Seq(Document)
      BY <2>1, LoadsAssumption
    <3>2. Len(load[a].docs) \in Nat
      <4> HIDE DEF Document
      <4> QED BY <3>1
    <3> QED BY <3>2 DEF IInv, ReadIsStored
  <2>3. \A o \in ToSet(outcomes) :
          /\ o.status \in {"ACCEPTED", "REJECTED", "REFERENCE_ONLY", "RETRYABLE"}
          /\ (o.status = "ACCEPTED") <=> (o.codes = {})
    BY DEF VerdictsInv, OfVerdicts, Reasoned
  <2> QED BY <2>1, <2>2, <2>3 DEF TypesInv, TypeOK
<1> QED BY <1>1, <1>2, <1>3, Invariance, BothHold, PTL DEF Spec

-----------------------------------------------------------------------------
(* What is accepted.                                                        *)

\* An accepted event of the result rests on the base event of its group.
LEMMA AcceptedHaveBases ==
    ASSUME VerdictsInv, NEW e \in accepted
    PROVE  /\ RawEvents(accepted_raw, documents)
           /\ \E b \in kept_bases(accepted_raw) : ComesFrom(e, b, accepted_raw, documents)
<1>1. OfVerdicts(outcomes, documents)
  BY DEF VerdictsInv
<1>2. RawEvents(accepted_raw, documents)
  BY <1>1, RawAreEvents
<1>3. e \in assign_cause_groups(reconcile(accepted_raw).accepted)
  BY DEF VerdictsInv
<1> QED BY <1>2, <1>3, AcceptedComeFrom

\* An accepted event rests on stored, merged, readable, trusted snapshots, and
\* may move the finances only inside the forecast and where no official
\* indicator stands for its cause: through validation, merge of duplicates,
\* supersession and cause groups, for any events in any order.
THEOREM AcceptedRestOnEvidence == Spec => []AcceptedAreGrounded
<1>1. VerdictsInv => AcceptedAreGrounded
  <2> SUFFICES ASSUME VerdictsInv, NEW e \in accepted
               PROVE  /\ e.revisions \subseteq revisions
                      /\ \A x \in e.revisions :
                           /\ x[1] \in DOMAIN documents /\ documents[x[1]].revision = x[2]
                           /\ documents[x[1]].ok /\ ~documents[x[1]].flagged /\ documents[x[1]].tier # "OTHER"
                      /\ e.start <= e.end
                      /\ e.signal => /\ e.start <= ForecastEnd /\ e.end >= ForecastStart
                                     /\ ~represented(e)
    BY DEF AcceptedAreGrounded
  <2>1. PICK b \in kept_bases(accepted_raw) : ComesFrom(e, b, accepted_raw, documents)
    BY AcceptedHaveBases
  <2>2. Grounded(e, documents) /\ (e.signal => ~represented(e))
    BY <2>1 DEF ComesFrom
  <2>3. ASSUME NEW x \in e.revisions PROVE x \in revisions
    <3>1. x = <<x[1], x[2]>> /\ x[1] \in DOMAIN documents /\ documents[x[1]].revision = x[2]
      BY <2>2 DEF Grounded
    <3>2. <<x[1], documents[x[1]].revision>> \in revisions
      BY <3>1 DEF VerdictsInv
    <3> QED BY <3>1, <3>2
  <2> QED BY <2>2, <2>3 DEF Grounded
<1> QED BY <1>1, BothHold, PTL

\* No statement of the same or a higher tier contradicts an accepted event, in
\* groups where each set of facts is stated at one tier only, for any number
\* of statements in any order (EventReconciler._reconcile_group).
THEOREM AcceptedPrevail == Spec => []AcceptedAreUnopposed
<1>1. VerdictsInv => AcceptedAreUnopposed
  <2> SUFFICES ASSUME VerdictsInv, NEW e \in accepted,
                      \A f, g \in ToSet(accepted_raw) :
                         f.id = e.id /\ g.id = e.id /\ same_facts(f, g) => f.tier = g.tier,
                      NEW f \in opposed(e, ToSet(accepted_raw))
               PROVE  TIER[f.tier] < TIER[e.tier]
    BY DEF AcceptedAreUnopposed
  <2> DEFINE raw == accepted_raw
  <2>1. RawEvents(raw, documents)
    BY AcceptedHaveBases
  <2>2. PICK b \in kept_bases(raw) : ComesFrom(e, b, raw, documents)
    BY AcceptedHaveBases
  <2> HIDE DEF raw
  <2>3. PICK x \in ToSet(raw) : b = reconcile_group(group_of(raw, x.id)).base /\ b.id = x.id
    BY <2>1, <2>2, KeptAreGrounded
  <2>4. b.status = "ACCEPTED"
    BY <2>1, <2>2, KeptAreGrounded
  <2> DEFINE group == group_of(raw, x.id)
             T == {y \in ToSet(raw) : y.id = x.id}
  <2>5. ToSet(group) = T
    BY <2>1, GroupMembers DEF RawEvents
  <2>6. OneGroup(group, x.id, documents)
    BY <2>1, GroupIsOne
  <2>7. e.id = x.id /\ e.tier = b.tier /\ e.bok = b.bok /\ e.start = b.start
        /\ (~b.bok => e.end = b.end /\ e.address = b.address)
    BY <2>2, <2>3 DEF ComesFrom
  <2>8. FactsHaveOneTier(ToSet(group))
    <3> HIDE DEF group
    <3> QED BY <2>5, <2>7 DEF FactsHaveOneTier, raw
  <2>9. Unopposed(b, ToSet(group))
    <3> HIDE DEF group
    <3> QED BY <2>3, <2>4, <2>6, <2>8, GroupIsUnopposed DEF group
  <2>10. f \in T /\ ~same_facts(e, f)
    BY <2>7 DEF opposed, raw
  <2>11. f.bok = e.bok /\ e.bok \in BOOLEAN
    <3>1. Grounded(e, documents) /\ Grounded(f, documents)
      BY <2>1, <2>2, <2>10 DEF ComesFrom, RawEvents, Raw
    <3> QED BY <2>7, <2>10, <3>1 DEF Grounded
  <2>12. ~same_facts(b, f)
    BY <2>7, <2>10, <2>11 DEF same_facts
  <2> HIDE DEF group, T
  <2> QED BY <2>5, <2>7, <2>9, <2>10, <2>12 DEF Unopposed
<1> QED BY <1>1, BothHold, PTL

\* Of base-rate decisions of different days at most one is in force on the
\* day of the analysis: the later one ends the earlier one the day before it
\* starts (EventReconciler._apply_bok_lifecycle).
THEOREM DecisionsFollowEachOther == Spec => []OneDecisionInForce
<1>1. VerdictsInv => OneDecisionInForce
  <2> SUFFICES ASSUME VerdictsInv, NEW e \in accepted, NEW f \in accepted,
                      e.bok /\ e.start <= AsOf /\ AsOf <= e.end,
                      f.bok /\ f.start <= AsOf /\ AsOf <= f.end
               PROVE  e.start = f.start
    BY DEF OneDecisionInForce
  <2> DEFINE raw == accepted_raw
             D == rate_decisions(raw)
  <2>1. ASSUME NEW x \in accepted, x.bok
        PROVE  /\ {x.start, x.end} \subseteq Int
               /\ \E b \in D : b.start = x.start
               /\ \A d \in D : x.start < d.start /\ d.start <= AsOf => x.end < AsOf
    <3>1. PICK b \in kept_bases(raw) : ComesFrom(x, b, raw, documents)
      BY AcceptedHaveBases
    <3>2. b \in D
      BY <2>1, <3>1 DEF ComesFrom, rate_decisions
    <3>3. x.start = b.start /\ b.bok
          /\ \A d \in D : b.start < d.start /\ d.start <= AsOf => x.end < AsOf
      BY <2>1, <3>1 DEF ComesFrom
    <3>4. {x.start, x.end} \subseteq Int
      BY <3>1 DEF ComesFrom, Grounded
    <3> QED BY <3>2, <3>3, <3>4
  <2>2. AsOf \in Int
    BY Window
  <2>3. /\ {e.start, e.end} \subseteq Int /\ {f.start, f.end} \subseteq Int
        /\ ~(e.start < f.start) /\ ~(f.start < e.start)
    <3> HIDE DEF D
    <3>1. ~(e.start < f.start)
      BY <2>1, <2>2
    <3>2. ~(f.start < e.start)
      BY <2>1, <2>2
    <3> QED BY <2>1, <3>1, <3>2
  <2> QED BY <2>3
<1> QED BY <1>1, BothHold, PTL

\* A run recorded as COMPLETED has a verdict on every candidate and every
\* snapshot of every agent, whatever finished in whatever order.
THEOREM CompletedIsEverything == Spec => []CompletedMeansEverything
<1>1. IInv /\ VerdictsInv /\ (row = "COMPLETED" => EverySnapshotIsKept) => CompletedMeansEverything
  <2> SUFFICES ASSUME IInv, VerdictsInv, row = "COMPLETED", NEW a \in Agents, NEW c \in ToSet(own_candidates(a))
               PROVE  c.id \in judged
    BY DEF CompletedMeansEverything, EveryCandidateIsJudged, judged
  <2>1. pc \notin {"COLLECTING", "VALIDATING"} /\ ~partial
    BY DEF IInv, AllAreWaitedFor
  <2>2. a \in collected
    BY <2>1 DEF IInv, AllAreWaitedFor, partial
  <2>3. ToSet(todo) = {}
    BY <2>1 DEF VerdictsInv, ToSet
  <2> QED BY <2>1, <2>2, <2>3 DEF VerdictsInv
<1> QED BY <1>1, BothHold, CompletedKeepsSnapshots, PTL

-----------------------------------------------------------------------------
(* No event is reconciled into two.                                         *)

\* Every event is of one candidate, and no two of them are of the same.
Singles(events) ==
    /\ \A i \in DOMAIN events : \E x : events[i].candidates = {x}
    /\ \A i, j \in DOMAIN events : events[i].candidates = events[j].candidates => i = j

\* The event e grew out of the k-th one of the group, and took over only
\* candidates that came after it, among the first n.
GrewFrom(e, k, group, n) ==
    /\ group[k].candidates \subseteq e.candidates
    /\ \A x \in e.candidates : \E m \in k .. n : x \in group[m].candidates

\* Events that grew out of different ones are of different candidates.
LEMMA GrownApart ==
    ASSUME NEW group, NEW n \in Nat, DOMAIN group = 1 .. n, Singles(group),
           NEW e, NEW f, NEW k \in 1 .. n, NEW l \in 1 .. n, k # l,
           GrewFrom(e, k, group, n), GrewFrom(f, l, group, n)
    PROVE  e.candidates # f.candidates
<1>1. ASSUME NEW p \in 1 .. n, NEW q \in 1 .. n, p < q, NEW x, NEW y,
             GrewFrom(x, p, group, n), GrewFrom(y, q, group, n), x.candidates = y.candidates
      PROVE  FALSE
  <2>1. PICK z : group[p].candidates = {z}
    BY DEF Singles
  <2>2. z \in y.candidates
    BY <1>1, <2>1 DEF GrewFrom
  <2>3. PICK m \in q .. n : z \in group[m].candidates
    BY <1>1, <2>2 DEF GrewFrom
  <2>4. m \in 1 .. n /\ m # p
    BY <1>1, <2>3
  <2>5. group[m].candidates = {z}
    BY <2>3, <2>4 DEF Singles
  <2> QED BY <2>1, <2>4, <2>5 DEF Singles
<1>2. k < l \/ l < k
  OBVIOUS
<1> QED BY <1>1, <1>2

\* The n events of a group, the base event first and then the excluded ones,
\* and where each of them grew from.
Apart(g, o, group, n) ==
    /\ DOMAIN g = {"base", "excluded"}
    /\ DOMAIN g.base = EventFields
    /\ g.excluded \in Seq(ToSet(g.excluded)) /\ Len(g.excluded) = n - 1
    /\ o \in [0 .. (n - 1) -> 1 .. n] /\ IsInjective(o)
    /\ GrewFrom(g.base, o[0], group, n)
    /\ \A i \in 1 .. (n - 1) : GrewFrom(g.excluded[i], o[i], group, n)

\* What reconcile_pair makes of two events of a group: one stays, the other is
\* excluded, and only the one that stays may take over candidates.
LEMMA PairParts ==
    ASSUME NEW g, NEW other, DOMAIN g = {"base", "excluded"}, DOMAIN g.base = EventFields,
           DOMAIN other = EventFields, g.excluded \in Seq(ToSet(g.excluded))
    PROVE  LET h == reconcile_pair(g, other) IN
           /\ DOMAIN h = {"base", "excluded"} /\ DOMAIN h.base = EventFields
           /\ \E out : /\ h.excluded = Append(g.excluded, out)
                       /\ \/ /\ h.base.candidates \in {g.base.candidates, g.base.candidates \cup other.candidates}
                             /\ out.candidates = other.candidates
                          \/ /\ h.base.candidates = other.candidates
                             /\ out.candidates = g.base.candidates
<1> DEFINE h == reconcile_pair(g, other)
<1>1. \A e, status, why : DOMAIN e = EventFields =>
         DOMAIN Excluded(e, status, why) = EventFields /\ Excluded(e, status, why).candidates = e.candidates
  BY DEF Excluded, EventFields
<1>2. CASE same_facts(g.base, other)
  <2>1. h = [base |-> merged(g.base, other),
             excluded |-> Append(g.excluded, Excluded(other, "REFERENCE_ONLY", "DUPLICATE_EVENT"))]
    BY <1>2 DEF reconcile_pair
  <2>2. DOMAIN merged(g.base, other) = EventFields
        /\ merged(g.base, other).candidates = g.base.candidates \cup other.candidates
    BY DEF merged, EventFields
  <2>3. /\ DOMAIN h = {"base", "excluded"} /\ h.base = merged(g.base, other)
        /\ h.excluded = Append(g.excluded, Excluded(other, "REFERENCE_ONLY", "DUPLICATE_EVENT"))
    BY <2>1
  <2> HIDE DEF h
  <2> QED BY <1>1, <2>2, <2>3 DEF h
<1>3. CASE ~same_facts(g.base, other) /\ TIER[g.base.tier] = TIER[other.tier]
  <2>1. h = [base |-> Excluded(g.base, "CONFLICTED", "SOURCE_CONFLICT"),
             excluded |-> Append(g.excluded, Excluded(other, "CONFLICTED", "SOURCE_CONFLICT"))]
    BY <1>3 DEF reconcile_pair
  <2>2. /\ DOMAIN h = {"base", "excluded"} /\ h.base = Excluded(g.base, "CONFLICTED", "SOURCE_CONFLICT")
        /\ h.excluded = Append(g.excluded, Excluded(other, "CONFLICTED", "SOURCE_CONFLICT"))
    BY <2>1
  <2> HIDE DEF h
  <2> QED BY <1>1, <2>2 DEF h
<1>4. CASE /\ ~same_facts(g.base, other) /\ TIER[g.base.tier] # TIER[other.tier]
           /\ TIER[other.tier] > TIER[g.base.tier]
  <2>1. h = [base |-> other,
             excluded |-> Append(g.excluded, Excluded(g.base, "REFERENCE_ONLY", "SOURCE_CONFLICT"))]
    BY <1>4 DEF reconcile_pair
  <2>2. /\ DOMAIN h = {"base", "excluded"} /\ h.base = other
        /\ h.excluded = Append(g.excluded, Excluded(g.base, "REFERENCE_ONLY", "SOURCE_CONFLICT"))
    BY <2>1
  <2> HIDE DEF h
  <2> QED BY <1>1, <2>2 DEF h
<1>5. CASE /\ ~same_facts(g.base, other) /\ TIER[g.base.tier] # TIER[other.tier]
           /\ ~(TIER[other.tier] > TIER[g.base.tier])
  <2>1. h = [g EXCEPT !.excluded = Append(@, Excluded(other, "REFERENCE_ONLY", "SOURCE_CONFLICT"))]
    BY <1>5 DEF reconcile_pair
  <2>2. /\ DOMAIN h = {"base", "excluded"} /\ h.base = g.base
        /\ h.excluded = Append(g.excluded, Excluded(other, "REFERENCE_ONLY", "SOURCE_CONFLICT"))
    BY <2>1
  <2> HIDE DEF h
  <2> QED BY <1>1, <2>2 DEF h
<1> QED BY <1>2, <1>3, <1>4, <1>5

\* The pair of one more event.
LEMMA ApartStep ==
    ASSUME NEW group, NEW N \in Nat, DOMAIN group = 1 .. N, NEW n \in 1 .. (N - 1),
           DOMAIN group[n + 1] = EventFields,
           NEW g, NEW o, Apart(g, o, group, n)
    PROVE  \E p : Apart(reconcile_pair(g, group[n + 1]), p, group, n + 1)
<1> DEFINE other == group[n + 1]
           h == reconcile_pair(g, other)
<1>n. n \in Nat /\ n >= 1 /\ n + 1 \in Nat /\ (n + 1) - 1 = n
  OBVIOUS
<1>0. /\ DOMAIN g = {"base", "excluded"} /\ DOMAIN g.base = EventFields
      /\ g.excluded \in Seq(ToSet(g.excluded)) /\ Len(g.excluded) = n - 1
      /\ o \in [0 .. (n - 1) -> 1 .. n] /\ IsInjective(o)
      /\ GrewFrom(g.base, o[0], group, n)
      /\ \A i \in 1 .. (n - 1) : GrewFrom(g.excluded[i], o[i], group, n)
  BY DEF Apart
<1>1. /\ DOMAIN h = {"base", "excluded"} /\ DOMAIN h.base = EventFields
      /\ \E out : /\ h.excluded = Append(g.excluded, out)
                  /\ \/ /\ h.base.candidates \in {g.base.candidates, g.base.candidates \cup other.candidates}
                        /\ out.candidates = other.candidates
                     \/ /\ h.base.candidates = other.candidates
                        /\ out.candidates = g.base.candidates
  BY <1>0, PairParts
<1>2. PICK out : /\ h.excluded = Append(g.excluded, out)
                 /\ \/ /\ h.base.candidates \in {g.base.candidates, g.base.candidates \cup other.candidates}
                       /\ out.candidates = other.candidates
                    \/ /\ h.base.candidates = other.candidates
                       /\ out.candidates = g.base.candidates
  BY <1>1
<1> HIDE DEF h
<1>3. /\ h.excluded \in Seq(ToSet(h.excluded)) /\ Len(h.excluded) = n
      /\ h.excluded[n] = out
      /\ \A i \in 1 .. (n - 1) : h.excluded[i] = g.excluded[i]
  <2> DEFINE S == ToSet(g.excluded) \cup {out}
             ex == g.excluded
  <2>1. ex \in Seq(S)
    <3>1. ToSet(ex) \subseteq S
      OBVIOUS
    <3> HIDE DEF S, ex
    <3> QED BY <1>0, <3>1, OwnRange DEF ex
  <2>2. out \in S
    OBVIOUS
  <2> HIDE DEF S, ex
  <2>3. Append(ex, out) \in Seq(S) /\ Len(Append(ex, out)) = n /\ Append(ex, out)[n] = out
        /\ \A i \in 1 .. (n - 1) : Append(ex, out)[i] = ex[i]
    BY <1>n, <1>0, <2>1, <2>2 DEF ex
  <2>4. Append(ex, out) \in Seq(ToSet(Append(ex, out)))
    BY <2>3, OwnRange
  <2> QED BY <1>2, <2>3, <2>4 DEF ex
<1>4. \A e, k : k \in 1 .. n /\ GrewFrom(e, k, group, n) => GrewFrom(e, k, group, n + 1)
  <2>1. \A k \in 1 .. n : \A m \in k .. n : m \in k .. (n + 1)
    BY <1>n
  <2> QED BY <2>1, Zenon DEF GrewFrom
<1>5. \A e : e.candidates = other.candidates => GrewFrom(e, n + 1, group, n + 1)
  <2>1. n + 1 \in (n + 1) .. (n + 1)
    BY <1>n
  <2> QED BY <2>1 DEF GrewFrom
<1>6. \A e, f, k : /\ k \in 1 .. n /\ GrewFrom(f, k, group, n)
                   /\ e.candidates \in {f.candidates, f.candidates \cup other.candidates}
                   => GrewFrom(e, k, group, n + 1)
  <2>1. \A k \in 1 .. n : n + 1 \in k .. (n + 1)
    BY <1>n
  <2>2. \A k \in 1 .. n : \A m \in k .. n : m \in k .. (n + 1)
    BY <1>n
  <2> QED BY <2>1, <2>2 DEF GrewFrom
<1>7. \A i \in 0 .. (n - 1) : o[i] \in 1 .. n
  BY <1>0
<1>8. CASE /\ h.base.candidates \in {g.base.candidates, g.base.candidates \cup other.candidates}
           /\ out.candidates = other.candidates
  <2> DEFINE p == [i \in 0 .. n |-> IF i = n THEN n + 1 ELSE o[i]]
  <2>1. p \in [0 .. n -> 1 .. (n + 1)]
    BY <1>n, <1>7
  <2>2. IsInjective(p)
    BY <1>n, <1>0, <1>7 DEF IsInjective
  <2>3. p[0] = o[0] /\ p[n] = n + 1 /\ \A i \in 1 .. (n - 1) : p[i] = o[i]
    BY <1>n
  <2> HIDE DEF p, other
  <2>4. GrewFrom(h.base, p[0], group, n + 1)
    BY <1>n, <1>0, <1>6, <1>7, <1>8, <2>3
  <2>5. \A i \in 1 .. n : GrewFrom(h.excluded[i], p[i], group, n + 1)
    <3> SUFFICES ASSUME NEW i \in 1 .. n PROVE GrewFrom(h.excluded[i], p[i], group, n + 1)
      OBVIOUS
    <3>1. CASE i = n
      BY <1>3, <1>5, <1>8, <2>3, <3>1
    <3>2. CASE i # n
      <4>1. i \in 1 .. (n - 1) /\ i \in 0 .. (n - 1)
        BY <1>n, <3>2
      <4> QED BY <1>0, <1>3, <1>4, <1>7, <2>3, <4>1
    <3> QED BY <3>1, <3>2
  <2> QED BY <1>n, <1>1, <1>3, <2>1, <2>2, <2>4, <2>5 DEF Apart, h, other
<1>9. CASE h.base.candidates = other.candidates /\ out.candidates = g.base.candidates
  <2> DEFINE p == [i \in 0 .. n |-> IF i = 0 THEN n + 1 ELSE IF i = n THEN o[0] ELSE o[i]]
  <2>1. p \in [0 .. n -> 1 .. (n + 1)]
    BY <1>n, <1>7
  <2>2. IsInjective(p)
    BY <1>n, <1>0, <1>7 DEF IsInjective
  <2>3. p[0] = n + 1 /\ p[n] = o[0] /\ \A i \in 1 .. (n - 1) : p[i] = o[i]
    BY <1>n
  <2> HIDE DEF p, other
  <2>4. GrewFrom(h.base, p[0], group, n + 1)
    BY <1>5, <1>9, <2>3
  <2>5. \A i \in 1 .. n : GrewFrom(h.excluded[i], p[i], group, n + 1)
    <3> SUFFICES ASSUME NEW i \in 1 .. n PROVE GrewFrom(h.excluded[i], p[i], group, n + 1)
      OBVIOUS
    <3>1. CASE i = n
      <4>1. o[0] \in 1 .. n
        BY <1>n, <1>7
      <4> QED BY <1>0, <1>3, <1>6, <1>9, <2>3, <3>1, <4>1
    <3>2. CASE i # n
      <4>1. i \in 1 .. (n - 1) /\ i \in 0 .. (n - 1)
        BY <1>n, <3>2
      <4> QED BY <1>0, <1>3, <1>4, <1>7, <2>3, <4>1
    <3> QED BY <3>1, <3>2
  <2> QED BY <1>n, <1>1, <1>3, <2>1, <2>2, <2>4, <2>5 DEF Apart, h, other
<1> QED BY <1>2, <1>8, <1>9

\* What a group of events becomes: a base event and excluded ones that are
\* all of different candidates, and of candidates of the group.
Separated(r, group) ==
    /\ r.excluded \in Seq(ToSet(r.excluded))
    /\ \A i, j \in DOMAIN r.excluded : r.excluded[i].candidates = r.excluded[j].candidates => i = j
    /\ \A e \in ToSet(r.excluded) : e.candidates # r.base.candidates
    /\ \A e \in ToSet(r.excluded) \cup {r.base} :
          e.candidates # {} /\ \A x \in e.candidates : \E f \in ToSet(group) : x \in f.candidates

\* EventReconciler reconciles a group without doubling any of its events.
LEMMA GroupIsSeparated ==
    ASSUME NEW docs, NEW group, NEW id, OneGroup(group, id, docs), Singles(group)
    PROVE  Separated(reconcile_group(group), group)
<1> DEFINE S == ToSet(group)
           N == Len(group)
<1>0. group \in Seq(S) /\ group # <<>> /\ \A e \in S : DOMAIN e = EventFields
  BY DEF OneGroup, Raw, Grounded
<1>n. N \in Nat \ {0} /\ N - 1 \in Nat /\ DOMAIN group = 1 .. N /\ \A i \in 1 .. N : group[i] \in S
  <2> HIDE DEF S
  <2> QED BY <1>0
<1>1. PICK g : Reconciles(g, group)
  <2> HIDE DEF S
  <2> QED BY <1>0, GroupSteps
<1> HIDE DEF N, S
<1> DEFINE Good == {n \in 0 .. (N - 1) : \E o : Apart(g[n + 1], o, group, n + 1)}
<1>2. 0 \in Good
  <2> DEFINE o == [i \in 0 .. 0 |-> 1]
             x == [base |-> group[1], excluded |-> <<>>]
  <2>1. g[0 + 1] = x /\ 0 \in 0 .. (N - 1) /\ 1 \in 1 .. N /\ 0 + 1 = 1
    BY <1>1, <1>n DEF Reconciles
  <2>2. o \in [0 .. (1 - 1) -> 1 .. 1] /\ IsInjective(o) /\ o[0] = 1
    BY DEF IsInjective
  <2>3. GrewFrom(group[1], 1, group, 1)
    <3>1. 1 \in 1 .. 1
      OBVIOUS
    <3> QED BY <3>1 DEF GrewFrom
  <2>4. DOMAIN group[1] = EventFields
    BY <1>0, <1>n, <2>1
  <2>5. /\ x.excluded \in Seq(ToSet(x.excluded)) /\ Len(x.excluded) = 1 - 1
        /\ DOMAIN x = {"base", "excluded"} /\ x.base = group[1]
    BY DEF ToSet
  <2> HIDE DEF x, o
  <2>6. \A i \in 1 .. (1 - 1) : GrewFrom(x.excluded[i], o[i], group, 1)
    OBVIOUS
  <2>7. Apart(x, o, group, 1)
    BY <2>2, <2>3, <2>4, <2>5, <2>6 DEF Apart
  <2> QED BY <2>1, <2>7
<1>3. ASSUME NEW n \in 0 .. (N - 1), n < N - 1, n \in Good PROVE n + 1 \in Good
  <2>1. n + 1 \in 1 .. (N - 1) /\ n + 1 \in 0 .. (N - 1) /\ (n + 1) + 1 \in 1 .. N
    BY <1>3, <1>n
  <2>2. g[(n + 1) + 1] = reconcile_pair(g[n + 1], group[(n + 1) + 1])
    BY <1>1, <2>1 DEF Reconciles, N
  <2>3. PICK o : Apart(g[n + 1], o, group, n + 1)
    BY <1>3
  <2>4. DOMAIN group[(n + 1) + 1] = EventFields
    BY <1>0, <1>n, <2>1
  <2>5. \E p : Apart(reconcile_pair(g[n + 1], group[(n + 1) + 1]), p, group, (n + 1) + 1)
    BY <1>n, <2>1, <2>3, <2>4, ApartStep
  <2> QED BY <2>1, <2>2, <2>5
<1>4. N - 1 \in Good
  <2> HIDE DEF Good
  <2>1. \A n \in 0 .. (N - 1) : n \in Good
    BY <1>n, <1>2, <1>3, PrefixInduction
  <2> QED BY <1>n, <2>1
<1>5. (N - 1) + 1 = N
  BY <1>n
<1> DEFINE r == reconcile_group(group)
<1>6. PICK o : Apart(r, o, group, N)
  BY <1>1, <1>4, <1>5 DEF Reconciles, N
<1> HIDE DEF r
<1>7. /\ r.excluded \in Seq(ToSet(r.excluded)) /\ Len(r.excluded) = N - 1
      /\ o \in [0 .. (N - 1) -> 1 .. N] /\ IsInjective(o)
      /\ GrewFrom(r.base, o[0], group, N)
      /\ \A i \in 1 .. (N - 1) : GrewFrom(r.excluded[i], o[i], group, N)
  BY <1>6 DEF Apart
<1>8. DOMAIN r.excluded = 1 .. (N - 1)
  BY <1>7, <1>n
<1>9. \A i \in 0 .. (N - 1) : o[i] \in 1 .. N
  BY <1>7
<1>10. \A i, j \in 0 .. (N - 1) : i # j => o[i] # o[j]
  BY <1>7 DEF IsInjective
<1>11. \A e, k : k \in 1 .. N /\ GrewFrom(e, k, group, N) =>
          e.candidates # {} /\ \A x \in e.candidates : \E f \in S : x \in f.candidates
  <2> SUFFICES ASSUME NEW e, NEW k \in 1 .. N, GrewFrom(e, k, group, N)
               PROVE  e.candidates # {} /\ \A x \in e.candidates : \E f \in S : x \in f.candidates
    OBVIOUS
  <2>1. PICK z : group[k].candidates = {z}
    BY <1>n DEF Singles
  <2>2. e.candidates # {}
    BY <2>1 DEF GrewFrom
  <2>3. \A m \in k .. N : m \in 1 .. N
    BY <1>n
  <2>4. \A x \in e.candidates : \E f \in S : x \in f.candidates
    BY <1>n, <2>3 DEF GrewFrom
  <2> QED BY <2>2, <2>4
<1>12. \A i \in 1 .. (N - 1) : i \in 0 .. (N - 1) /\ i # 0 /\ 0 \in 0 .. (N - 1)
  BY <1>n
<1>13. \A i, j \in DOMAIN r.excluded : r.excluded[i].candidates = r.excluded[j].candidates => i = j
  <2> SUFFICES ASSUME NEW i \in 1 .. (N - 1), NEW j \in 1 .. (N - 1), i # j
               PROVE  r.excluded[i].candidates # r.excluded[j].candidates
    BY <1>8
  <2> QED BY <1>n, <1>7, <1>9, <1>10, <1>12, GrownApart
<1>14. \A i \in 1 .. (N - 1) : r.excluded[i].candidates # r.base.candidates
  <2> SUFFICES ASSUME NEW i \in 1 .. (N - 1) PROVE r.excluded[i].candidates # r.base.candidates
    OBVIOUS
  <2> QED BY <1>n, <1>7, <1>9, <1>10, <1>12, GrownApart
<1>15. ToSet(r.excluded) = {r.excluded[i] : i \in 1 .. (N - 1)}
  BY <1>8 DEF ToSet
<1>16. \A e \in ToSet(r.excluded) : e.candidates # r.base.candidates
  BY <1>14, <1>15
<1>17. \A e \in ToSet(r.excluded) \cup {r.base} :
          e.candidates # {} /\ \A x \in e.candidates : \E f \in S : x \in f.candidates
  <2>1. \A i \in 1 .. (N - 1) : o[i] \in 1 .. N
    BY <1>9, <1>12
  <2>2. 0 \in 0 .. (N - 1)
    BY <1>n
  <2>3. o[0] \in 1 .. N
    BY <1>9, <2>2
  <2> QED BY <1>7, <1>11, <1>15, <2>1, <2>3
<1>18. Separated(r, group)
  BY <1>7, <1>13, <1>16, <1>17 DEF Separated, S
<1> QED BY <1>18 DEF r

\* The events of one identifier are single ones, if all events are.
LEMMA GroupIsSingle ==
    ASSUME NEW S, NEW events \in Seq(S), Singles(events), NEW id
    PROVE  Singles(group_of(events, id))
<1> DEFINE I == {i \in DOMAIN events : events[i].id = id}
           group == Chosen(events, I)
<1>1. group_of(events, id) = group
  BY DEF group_of
<1> HIDE DEF I
<1>2. PICK p : /\ DOMAIN p = DOMAIN group /\ IsInjective(p)
               /\ \A k \in DOMAIN p : p[k] \in I \cap DOMAIN events /\ group[k] = events[p[k]]
  BY ChosenPositions
<1> HIDE DEF group
<1>3. ASSUME NEW k \in DOMAIN group PROVE \E x : group[k].candidates = {x}
  <2>1. p[k] \in DOMAIN events /\ group[k] = events[p[k]]
    BY <1>2
  <2>2. PICK x : events[p[k]].candidates = {x}
    BY <2>1, Zenon DEF Singles
  <2> QED BY <2>1, <2>2
<1>4. ASSUME NEW k \in DOMAIN group, NEW m \in DOMAIN group, group[k].candidates = group[m].candidates
      PROVE  k = m
  <2>1. p[k] = p[m]
    BY <1>2, <1>4 DEF Singles
  <2> QED BY <1>2, <2>1 DEF IsInjective
<1> QED BY <1>1, <1>3, <1>4 DEF Singles

\* Events of different identifiers are of different candidates.
LEMMA IdentifiersPart ==
    ASSUME NEW events, Singles(events), NEW e \in ToSet(events), NEW f \in ToSet(events), e.id # f.id
    PROVE  e.candidates \cap f.candidates = {}
<1>1. PICK i \in DOMAIN events : e = events[i]
  BY DEF ToSet
<1>2. PICK j \in DOMAIN events : f = events[j]
  BY DEF ToSet
<1>3. PICK x : e.candidates = {x}
  BY <1>1 DEF Singles
<1>4. PICK y : f.candidates = {y}
  BY <1>2 DEF Singles
<1>5. x # y
  BY <1>1, <1>2, <1>3, <1>4 DEF Singles
<1> QED BY <1>3, <1>4, <1>5

reconciled(events, id) == reconcile_group(group_of(events, id))
\* An accepted base event, as the result has it.
finished(b, events) == assign_cause_group(settled(b, rate_decisions(events)))
results_of(events) == assign_cause_groups(reconcile(events).accepted)

\* Every accepted event of the result is its group's base event, of the same candidates.
LEMMA ResultsAreBases ==
    ASSUME NEW docs, NEW events, RawEvents(events, docs), NEW e \in results_of(events)
    PROVE  \E d \in ToSet(events) :
              /\ reconciled(events, d.id).base.status = "ACCEPTED"
              /\ e = finished(reconciled(events, d.id).base, events)
              /\ e.candidates = reconciled(events, d.id).base.candidates
<1> DEFINE D == rate_decisions(events)
<1>1. PICK b \in kept_bases(events) : e = assign_cause_group(settled(b, D))
  BY ReconcileKeeps DEF assign_cause_groups, results_of
<1>2. Grounded(b, docs) /\ \A f \in D : Grounded(f, docs)
  BY KeptAreGrounded DEF rate_decisions
<1>3. PICK d \in ToSet(events) : b = reconciled(events, d.id).base
  BY <1>1, KeptAreGrounded DEF reconciled
<1>4. b.status = "ACCEPTED"
  BY DEF kept_bases
<1> DEFINE s == settled(b, D)
<1>5. e = finished(b, events)
  BY <1>1 DEF finished
<1> HIDE DEF D
<1>6. Grounded(s, docs) /\ s.candidates = b.candidates
  BY <1>2, SettledIs
<1> HIDE DEF s
<1>7. e.candidates = s.candidates
  BY <1>1, <1>6 DEF Grounded, EventFields, assign_cause_group, s
<1> QED BY <1>3, <1>4, <1>5, <1>6, <1>7

\* Every group is separated, and its events are of candidates of its own.
LEMMA GroupsSeparated ==
    ASSUME NEW docs, NEW events, RawEvents(events, docs), Singles(events), NEW d \in ToSet(events)
    PROVE  /\ Separated(reconciled(events, d.id), group_of(events, d.id))
           /\ ToSet(group_of(events, d.id)) = {f \in ToSet(events) : f.id = d.id}
<1> DEFINE group == group_of(events, d.id)
<1>1. OneGroup(group, d.id, docs)
  BY GroupIsOne
<1>2. Singles(group)
  BY GroupIsSingle DEF RawEvents
<1>3. ToSet(group) = {f \in ToSet(events) : f.id = d.id}
  BY GroupMembers DEF RawEvents
<1> HIDE DEF group
<1>4. Separated(reconcile_group(group), group)
  BY <1>1, <1>2, GroupIsSeparated
<1> QED BY <1>3, <1>4 DEF reconciled, group

\* So what is excluded of a group has other candidates than its base event, and
\* all of them are candidates of events of the group.
LEMMA GroupsAreSeparated ==
    ASSUME NEW docs, NEW events, RawEvents(events, docs), Singles(events), NEW d \in ToSet(events)
    PROVE  LET r == reconciled(events, d.id) IN
           /\ r.excluded \in Seq(ToSet(r.excluded))
           /\ \A i, j \in DOMAIN r.excluded : r.excluded[i].candidates = r.excluded[j].candidates => i = j
           /\ \A e \in ToSet(r.excluded) : e.candidates # r.base.candidates
           /\ \A e \in ToSet(r.excluded) \cup {r.base} :
                 /\ e.candidates # {}
                 /\ \A x \in e.candidates : \E f \in ToSet(events) : f.id = d.id /\ x \in f.candidates
<1> DEFINE r == reconciled(events, d.id)
<1>1. Separated(r, group_of(events, d.id)) /\ ToSet(group_of(events, d.id)) = {f \in ToSet(events) : f.id = d.id}
  BY GroupsSeparated
<1> HIDE DEF r
<1>2. \A e \in ToSet(r.excluded) \cup {r.base} :
         /\ e.candidates # {}
         /\ \A x \in e.candidates : \E f \in ToSet(events) : f.id = d.id /\ x \in f.candidates
  BY <1>1 DEF Separated
<1> QED BY <1>1, <1>2 DEF Separated, r

\* Events of different groups share no candidate.
LEMMA GroupsPart ==
    ASSUME NEW docs, NEW events, RawEvents(events, docs), Singles(events),
           NEW d \in ToSet(events), NEW c \in ToSet(events), d.id # c.id,
           NEW e, e \in ToSet(reconciled(events, d.id).excluded) \cup {reconciled(events, d.id).base},
           NEW f, f \in ToSet(reconciled(events, c.id).excluded) \cup {reconciled(events, c.id).base}
    PROVE  e.candidates \cap f.candidates = {} /\ e.candidates # f.candidates
<1>1. /\ e.candidates # {}
      /\ \A x \in e.candidates : \E g \in ToSet(events) : g.id = d.id /\ x \in g.candidates
  BY GroupsAreSeparated
<1>2. \A x \in f.candidates : \E g \in ToSet(events) : g.id = c.id /\ x \in g.candidates
  BY GroupsAreSeparated
<1>3. ASSUME NEW x, x \in e.candidates, x \in f.candidates PROVE FALSE
  <2>1. PICK g \in ToSet(events) : g.id = d.id /\ x \in g.candidates
    BY <1>1, <1>3
  <2>2. PICK h \in ToSet(events) : h.id = c.id /\ x \in h.candidates
    BY <1>2, <1>3
  <2>3. g.candidates \cap h.candidates = {}
    BY <2>1, <2>2, IdentifiersPart
  <2> QED BY <2>1, <2>2, <2>3
<1> QED BY <1>1, <1>3

\* Accepted events of the result share no candidate.
LEMMA ResultsPart ==
    ASSUME NEW docs, NEW events, RawEvents(events, docs), Singles(events),
           NEW e \in results_of(events), NEW f \in results_of(events), e # f
    PROVE  e.candidates \cap f.candidates = {}
<1>1. PICK d \in ToSet(events) : /\ e = finished(reconciled(events, d.id).base, events)
                                 /\ e.candidates = reconciled(events, d.id).base.candidates
  BY ResultsAreBases
<1>2. PICK c \in ToSet(events) : /\ f = finished(reconciled(events, c.id).base, events)
                                 /\ f.candidates = reconciled(events, c.id).base.candidates
  BY ResultsAreBases
<1>3. d.id # c.id
  BY <1>1, <1>2
<1> DEFINE x == reconciled(events, d.id).base
           y == reconciled(events, c.id).base
<1>4. x.candidates \cap y.candidates = {}
  <2>1. x \in ToSet(reconciled(events, d.id).excluded) \cup {x} /\ y \in ToSet(reconciled(events, c.id).excluded) \cup {y}
    OBVIOUS
  <2> QED BY <1>3, <2>1, GroupsPart
<1> QED BY <1>1, <1>2, <1>4

\* The candidates of the accepted events are candidates of the events they came from.
LEMMA ResultsAreOfEvents ==
    ASSUME NEW docs, NEW events, RawEvents(events, docs), Singles(events),
           NEW e \in results_of(events), NEW x \in e.candidates
    PROVE  \E f \in ToSet(events) : x \in f.candidates
<1>1. PICK d \in ToSet(events) : e.candidates = reconciled(events, d.id).base.candidates
  BY ResultsAreBases
<1>2. \A y \in reconciled(events, d.id).base.candidates : \E f \in ToSet(events) : f.id = d.id /\ y \in f.candidates
  BY GroupsAreSeparated
<1> QED BY <1>1, <1>2

\* There are finitely many accepted events.
LEMMA ResultsAreFinite ==
    ASSUME NEW docs, NEW events, RawEvents(events, docs)
    PROVE  IsFiniteSet(results_of(events))
<1> DEFINE f == [d \in ToSet(events) |-> finished(reconciled(events, d.id).base, events)]
<1>1. DOMAIN f = ToSet(events)
  OBVIOUS
<1>2. results_of(events) \subseteq {f[d] : d \in ToSet(events)}
  BY ResultsAreBases
<1> HIDE DEF f
<1>3. IsFiniteSet({f[d] : d \in ToSet(events)})
  BY <1>1, ImageIsFinite DEF RawEvents
<1> QED BY <1>2, <1>3, FS_Subset

identifiers(events) == {e.id : e \in ToSet(events)}
\* What is excluded of a group: its base event too, unless it is accepted.
left_out_of(events, id) ==
    reconciled(events, id).excluded
        \o (IF reconciled(events, id).base.status = "ACCEPTED" THEN <<>> ELSE <<reconciled(events, id).base>>)

\* The identifiers of a run's events are finitely many, listed once each.
LEMMA IdentifiersAsSequence ==
    ASSUME NEW S, NEW events \in Seq(S)
    PROVE  LET names == SetToSeq(identifiers(events)) IN
           /\ names \in Seq(identifiers(events)) /\ IsInjective(names)
           /\ ToSet(names) = identifiers(events)
<1> DEFINE f == [e \in ToSet(events) |-> e.id]
<1>1. identifiers(events) = {f[e] : e \in ToSet(events)} /\ DOMAIN f = ToSet(events)
  BY DEF identifiers
<1> HIDE DEF f
<1>2. IsFiniteSet(identifiers(events))
  BY <1>1, ImageIsFinite
<1> QED BY <1>2, SetAsSequence

\* The excluded events are those left out of the groups, one group after the other.
LEMMA ExcludedAre ==
    ASSUME NEW S, NEW events \in Seq(S)
    PROVE  LET names == SetToSeq(identifiers(events))
           IN reconcile(events).excluded = FlattenSeq([i \in DOMAIN names |-> left_out_of(events, names[i])])
<1> DEFINE ids == {e.id : e \in ToSet(events)}
           groups == [id \in ids |-> reconcile_group(group_of(events, id))]
           kept == {id \in DOMAIN groups : groups[id].base.status = "ACCEPTED"}
           seq == SetToSeq(DOMAIN groups)
           out(id) == groups[id].excluded \o (IF id \in kept THEN <<>> ELSE <<groups[id].base>>)
<1>1. reconcile(events).excluded = FlattenSeq([i \in DOMAIN seq |-> out(seq[i])])
  BY DEF reconcile, group_of
<1>2. \A id \in ids : groups[id] = reconciled(events, id)
  BY DEF reconciled
<1>3. DOMAIN groups = ids /\ ids = identifiers(events)
  BY DEF identifiers
<1> HIDE DEF groups, ids
<1>4. \A id \in ids : out(id) = left_out_of(events, id)
  BY <1>2, <1>3 DEF left_out_of
<1>5. seq = SetToSeq(identifiers(events))
  BY <1>3
<1>6. \A i \in DOMAIN seq : seq[i] \in ids
  <2> HIDE DEF seq
  <2>1. seq \in Seq(identifiers(events))
    BY <1>5, IdentifiersAsSequence
  <2> QED BY <1>3, <2>1
<1> HIDE DEF seq, out
<1>7. [i \in DOMAIN seq |-> out(seq[i])] = [i \in DOMAIN seq |-> left_out_of(events, seq[i])]
  BY <1>4, <1>6
<1> QED BY <1>1, <1>5, <1>7

\* Of one group, nothing is left out twice.
LEMMA LeftOutOnce ==
    ASSUME NEW docs, NEW events, RawEvents(events, docs), Singles(events), NEW d \in ToSet(events)
    PROVE  LET out == left_out_of(events, d.id)
               r == reconciled(events, d.id)
           IN /\ out \in Seq(ToSet(out)) /\ IsInjective(out)
              /\ ToSet(out) \subseteq ToSet(r.excluded) \cup {r.base}
              /\ r.base.status = "ACCEPTED" => \A e \in ToSet(out) : e.candidates # r.base.candidates
<1> DEFINE r == reconciled(events, d.id)
           ex == r.excluded
           b == r.base
           out == left_out_of(events, d.id)
           S == ToSet(ex) \cup {b}
<1>1. Separated(r, group_of(events, d.id))
  BY GroupsSeparated
<1>2. /\ ex \in Seq(ToSet(ex))
      /\ \A i, j \in DOMAIN ex : ex[i].candidates = ex[j].candidates => i = j
      /\ \A e \in ToSet(ex) : e.candidates # b.candidates
  <2> HIDE DEF r
  <2> QED BY <1>1 DEF Separated
<1>3. out = ex \o (IF b.status = "ACCEPTED" THEN <<>> ELSE <<b>>)
  BY DEF left_out_of
<1> SUFFICES /\ out \in Seq(ToSet(out)) /\ IsInjective(out)
             /\ ToSet(out) \subseteq ToSet(ex) \cup {b}
             /\ b.status = "ACCEPTED" => \A e \in ToSet(out) : e.candidates # b.candidates
  OBVIOUS
<1> HIDE DEF r, ex, b, out, S
<1>4. IsInjective(ex)
  BY <1>2 DEF IsInjective
<1>5. CASE b.status = "ACCEPTED"
  <2>1. out = ex
    BY <1>2, <1>3, <1>5
  <2> QED BY <1>2, <1>4, <2>1
<1>6. CASE b.status # "ACCEPTED"
  <2>1. ToSet(ex) \subseteq S /\ b \in S
    BY DEF S
  <2>2. ex \in Seq(S)
    BY <1>2, <2>1, OwnRange
  <2>3. out = ex \o <<b>>
    BY <1>3, <1>6
  <2>4. <<b>> \in Seq(S) /\ ToSet(<<b>>) = {b} /\ IsInjective(<<b>>)
    BY <2>1 DEF ToSet, IsInjective
  <2>5. ToSet(ex) \cap ToSet(<<b>>) = {}
    BY <1>2, <2>4
  <2> DEFINE t == <<b>>
  <2> HIDE DEF t
  <2>a. ex \o t \in Seq(S) /\ ToSet(ex \o t) = ToSet(ex) \cup ToSet(t)
    BY <2>2, <2>4, ConcatRange DEF t
  <2>6. out \in Seq(S) /\ ToSet(out) = ToSet(ex) \cup ToSet(<<b>>)
    BY <2>3, <2>a DEF t
  <2>b. IsInjective(ex \o t)
    BY <1>4, <2>2, <2>4, <2>5, InjectiveConcat DEF t
  <2>7. IsInjective(out)
    BY <2>3, <2>b DEF t
  <2>8. out \in Seq(ToSet(out))
    BY <2>6, OwnRange
  <2> QED BY <1>6, <2>4, <2>6, <2>7, <2>8
<1> QED BY <1>5, <1>6

\* Nothing is excluded twice, and nothing that is accepted is excluded.
LEMMA ExcludedOnce ==
    ASSUME NEW docs, NEW events, RawEvents(events, docs), Singles(events)
    PROVE  LET out == reconcile(events).excluded IN
           /\ out \in Seq(ToSet(out)) /\ IsInjective(out)
           /\ ToSet(out) \cap results_of(events) = {}
<1> DEFINE names == SetToSeq(identifiers(events))
           ss == [i \in DOMAIN names |-> left_out_of(events, names[i])]
           out == reconcile(events).excluded
<1>0. events \in Seq(ToSet(events))
  BY DEF RawEvents
<1>1. out = FlattenSeq(ss)
  BY <1>0, ExcludedAre
<1>2. names \in Seq(identifiers(events)) /\ IsInjective(names) /\ ToSet(names) = identifiers(events)
  BY <1>0, IdentifiersAsSequence
<1> HIDE DEF names
<1>3. \A i \in DOMAIN names : \E d \in ToSet(events) : names[i] = d.id
  <2>1. \A i \in DOMAIN names : names[i] \in identifiers(events)
    BY <1>2
  <2> QED BY <2>1 DEF identifiers
<1>4. \A i \in DOMAIN names : ss[i] \in Seq(ToSet(ss[i])) /\ IsInjective(ss[i])
  <2> SUFFICES ASSUME NEW i \in DOMAIN names PROVE ss[i] \in Seq(ToSet(ss[i])) /\ IsInjective(ss[i])
    OBVIOUS
  <2>1. PICK d \in ToSet(events) : names[i] = d.id
    BY <1>3
  <2>2. ss[i] = left_out_of(events, d.id)
    BY <2>1
  <2> HIDE DEF ss
  <2> QED BY <2>2, LeftOutOnce
<1>5. ASSUME NEW i \in DOMAIN names, NEW j \in DOMAIN names, i # j PROVE ToSet(ss[i]) \cap ToSet(ss[j]) = {}
  <2>1. PICK d \in ToSet(events) : names[i] = d.id
    BY <1>3
  <2>2. PICK c \in ToSet(events) : names[j] = c.id
    BY <1>3
  <2>3. d.id # c.id
    BY <1>2, <1>5, <2>1, <2>2 DEF IsInjective
  <2>4. ss[i] = left_out_of(events, d.id) /\ ss[j] = left_out_of(events, c.id)
    BY <2>1, <2>2
  <2> HIDE DEF ss
  <2>5. ToSet(ss[i]) \subseteq ToSet(reconciled(events, d.id).excluded) \cup {reconciled(events, d.id).base}
    BY <2>4, LeftOutOnce
  <2>6. ToSet(ss[j]) \subseteq ToSet(reconciled(events, c.id).excluded) \cup {reconciled(events, c.id).base}
    BY <2>4, LeftOutOnce
  <2>7. ASSUME NEW e, e \in ToSet(ss[i]), e \in ToSet(ss[j]) PROVE FALSE
    <3>1. e.candidates # e.candidates
      BY <2>3, <2>5, <2>6, <2>7, GroupsPart
    <3> QED BY <3>1
  <2> QED BY <2>7
<1>6. Len(names) \in Nat /\ DOMAIN names = 1 .. Len(names)
  BY <1>2
<1>7. DOMAIN ss = 1 .. Len(names) /\ ss = [i \in 1 .. Len(names) |-> ss[i]]
  BY <1>6
<1> HIDE DEF ss
<1>8. out \in Seq(ToSet(out)) /\ ToSet(out) = UNION {ToSet(ss[i]) : i \in 1 .. Len(names)}
  <2>1. \A i \in 1 .. Len(names) : ss[i] \in Seq(ToSet(ss[i]))
    BY <1>4, <1>6
  <2> HIDE DEF out
  <2> QED BY <1>1, <1>6, <1>7, <2>1, FlattenOwn
<1>9. IsInjective(out)
  <2> DEFINE S == ToSet(out)
  <2>1. \A i \in 1 .. Len(names) : ss[i] \in Seq(S)
    <3> SUFFICES ASSUME NEW i \in 1 .. Len(names) PROVE ss[i] \in Seq(S)
      OBVIOUS
    <3>1. ToSet(ss[i]) \subseteq S /\ ss[i] \in Seq(ToSet(ss[i]))
      BY <1>4, <1>6, <1>8
    <3> HIDE DEF S
    <3> QED BY <3>1, OwnRange
  <2> HIDE DEF S, out
  <2>2. ss \in Seq(Seq(S)) /\ Len(ss) = Len(names)
    BY <1>6, <1>7, <2>1
  <2> QED BY <1>1, <1>4, <1>5, <1>6, <2>2, FlattenInjective
<1>10. ASSUME NEW e, e \in ToSet(out), e \in results_of(events) PROVE FALSE
  <2> HIDE DEF out
  <2>1. PICK i \in DOMAIN names : e \in ToSet(ss[i])
    BY <1>6, <1>8, <1>10
  <2>2. PICK c \in ToSet(events) : names[i] = c.id
    BY <1>3
  <2>3. ss[i] = left_out_of(events, c.id)
    BY <2>2 DEF ss
  <2>4. PICK d \in ToSet(events) : /\ reconciled(events, d.id).base.status = "ACCEPTED"
                                   /\ e.candidates = reconciled(events, d.id).base.candidates
    BY <1>10, ResultsAreBases
  <2>5. /\ e \in ToSet(reconciled(events, c.id).excluded) \cup {reconciled(events, c.id).base}
        /\ reconciled(events, c.id).base.status = "ACCEPTED" => e.candidates # reconciled(events, c.id).base.candidates
    BY <2>1, <2>3, LeftOutOnce
  <2>6. CASE d.id = c.id
    BY <2>4, <2>5, <2>6
  <2>7. CASE d.id # c.id
    <3> DEFINE b == reconciled(events, d.id).base
    <3>1. b \in ToSet(reconciled(events, d.id).excluded) \cup {b}
      OBVIOUS
    <3>2. b.candidates # e.candidates
      BY <2>5, <2>7, <3>1, GroupsPart
    <3> QED BY <2>4, <3>2
  <2> QED BY <2>6, <2>7
<1> QED BY <1>8, <1>9, <1>10

\* What a run saves of its events, it saves once.
LEMMA SavedOnce ==
    ASSUME NEW docs, NEW events, RawEvents(events, docs), Singles(events)
    PROVE  LET all == SetToSeq(results_of(events)) \o reconcile(events).excluded
           IN all \in Seq(ToSet(all)) /\ IsInjective(all)
<1> DEFINE T == results_of(events)
           s == SetToSeq(T)
           t == reconcile(events).excluded
           S == T \cup ToSet(t)
<1>1. s \in Seq(T) /\ IsInjective(s) /\ ToSet(s) = T
  BY ResultsAreFinite, SetAsSequence
<1>2. t \in Seq(ToSet(t)) /\ IsInjective(t) /\ ToSet(t) \cap T = {}
  BY ExcludedOnce
<1> HIDE DEF T, s, t
<1>3. ToSet(s) \subseteq S /\ ToSet(t) \subseteq S
  BY <1>1
<1> HIDE DEF S
<1>4. s \in Seq(S) /\ t \in Seq(S)
  BY <1>1, <1>2, <1>3, OwnRange
<1>5. s \o t \in Seq(S) /\ IsInjective(s \o t)
  BY <1>1, <1>2, <1>4, ConcatRange, InjectiveConcat
<1>6. s \o t \in Seq(ToSet(s \o t))
  BY <1>5, OwnRange
<1> QED BY <1>5, <1>6 DEF s, t, T

-----------------------------------------------------------------------------
(* One verdict per candidate.                                               *)

\* No two verdicts are about the same candidate.
VerdictsDiffer == \A i, j \in DOMAIN outcomes : outcomes[i].candidate = outcomes[j].candidate => i = j

\* An accepting verdict's event is of its candidate alone; so the events differ
\* in their candidates when the verdicts do, and each is of an accepted one.
LEMMA RawAreSingles ==
    ASSUME NEW docs, OfVerdicts(outcomes, docs), VerdictsDiffer
    PROVE  /\ Singles(accepted_raw)
           /\ \A e \in ToSet(accepted_raw) :
                 \E i \in DOMAIN outcomes : outcomes[i].status = "ACCEPTED" /\ e.candidates = {outcomes[i].candidate}
<1> DEFINE good == Chosen(outcomes, accepted_at(outcomes))
           raw == accepted_raw
<1>1. outcomes \in Seq(ToSet(outcomes))
  BY DEF OfVerdicts
<1>2. PICK p : /\ DOMAIN p = DOMAIN good /\ IsInjective(p)
               /\ \A k \in DOMAIN p : p[k] \in accepted_at(outcomes) \cap DOMAIN outcomes /\ good[k] = outcomes[p[k]]
  BY <1>1, ChosenPositions
<1> HIDE DEF good
<1>3. raw = [i \in DOMAIN good |-> CHOOSE e \in good[i].event : TRUE]
  BY DEF accepted_raw, good
<1>4. ASSUME NEW k \in DOMAIN good
      PROVE  /\ p[k] \in DOMAIN outcomes /\ outcomes[p[k]].status = "ACCEPTED"
             /\ raw[k].candidates = {outcomes[p[k]].candidate}
  <2>1. p[k] \in DOMAIN outcomes /\ outcomes[p[k]].status = "ACCEPTED" /\ good[k] = outcomes[p[k]]
    BY <1>2 DEF accepted_at
  <2>2. outcomes[p[k]] \in ToSet(outcomes)
    BY <2>1 DEF ToSet
  <2>3. PICK e : good[k].event = {e} /\ e.candidates = {good[k].candidate}
    BY <2>1, <2>2 DEF OfVerdicts, Reasoned
  <2>4. raw[k] = e
    BY <1>3, <2>3
  <2> QED BY <2>1, <2>3, <2>4
<1>5. DOMAIN raw = DOMAIN good
  BY <1>3
<1> HIDE DEF raw
<1>6. \A k \in DOMAIN raw : \E x : raw[k].candidates = {x}
  BY <1>4, <1>5
<1>7. ASSUME NEW k \in DOMAIN raw, NEW m \in DOMAIN raw, raw[k].candidates = raw[m].candidates PROVE k = m
  <2>1. outcomes[p[k]].candidate = outcomes[p[m]].candidate /\ p[k] \in DOMAIN outcomes /\ p[m] \in DOMAIN outcomes
    BY <1>4, <1>5, <1>7
  <2>2. p[k] = p[m]
    BY <2>1 DEF VerdictsDiffer
  <2> QED BY <1>2, <1>5, <2>2 DEF IsInjective
<1>8. \A e \in ToSet(raw) : \E k \in DOMAIN raw : e = raw[k]
  BY DEF ToSet
<1>9. Singles(raw)
  BY <1>6, <1>7 DEF Singles
<1> QED BY <1>4, <1>5, <1>8, <1>9 DEF raw

\* A sequence whose members differ in their candidates has as many of these.
LEMMA DifferentAreCounted ==
    ASSUME NEW S, NEW s \in Seq(S),
           \A i, j \in DOMAIN s : s[i].candidate = s[j].candidate => i = j
    PROVE  Cardinality({o.candidate : o \in ToSet(s)}) = Len(s)
<1> DEFINE n == Len(s)
           T == {o.candidate : o \in ToSet(s)}
           f == [i \in 1 .. n |-> s[i].candidate]
<1>1. n \in Nat /\ DOMAIN s = 1 .. n
  OBVIOUS
<1>2. T = {s[i].candidate : i \in 1 .. n}
  BY <1>1 DEF ToSet
<1> HIDE DEF n
<1>3. f \in Bijection(1 .. n, T)
  <2>1. f \in [1 .. n -> T]
    BY <1>2
  <2>2. \A i, j \in 1 .. n : f[i] = f[j] => i = j
    BY <1>1
  <2>3. \A x \in T : \E i \in 1 .. n : f[i] = x
    BY <1>2
  <2> HIDE DEF f, T
  <2>4. IsInjective(f)
    BY <2>1, <2>2 DEF IsInjective
  <2> QED BY <2>1, <2>3, <2>4 DEF Bijection, Injection, Surjection
<1> HIDE DEF f, T
<1>5. Cardinality(T) = n
  BY <1>1, <1>3, FS_CountingElements DEF ExistsBijection
<1> QED BY <1>5 DEF T, n

\* The refused verdicts differ as all verdicts do.
LEMMA RejectedDiffer ==
    ASSUME NEW docs, OfVerdicts(outcomes, docs), VerdictsDiffer
    PROVE  /\ Cardinality({o.candidate : o \in ToSet(rejected_outcomes)}) = Len(rejected_outcomes)
           /\ \A o \in ToSet(rejected_outcomes) :
                 \E i \in DOMAIN outcomes : outcomes[i].status # "ACCEPTED" /\ o = outcomes[i]
<1> DEFINE bad == rejected_outcomes
           I == DOMAIN outcomes \ accepted_at(outcomes)
<1>1. outcomes \in Seq(ToSet(outcomes))
  BY DEF OfVerdicts
<1>2. bad = Chosen(outcomes, I)
  BY DEF rejected_outcomes
<1>3. \A i \in I : outcomes[i].status # "ACCEPTED" /\ i \in DOMAIN outcomes
  BY DEF accepted_at
<1> HIDE DEF bad, I
<1>4. bad \in Seq(ToSet(outcomes)) /\ ToSet(bad) = {outcomes[i] : i \in I \cap DOMAIN outcomes}
  BY <1>1, <1>2, ChosenRange
<1>5. PICK p : /\ DOMAIN p = DOMAIN bad /\ IsInjective(p)
               /\ \A k \in DOMAIN p : p[k] \in I \cap DOMAIN outcomes /\ bad[k] = outcomes[p[k]]
  BY <1>1, <1>2, ChosenPositions
<1>6. ASSUME NEW k \in DOMAIN bad, NEW m \in DOMAIN bad, bad[k].candidate = bad[m].candidate PROVE k = m
  <2>1. p[k] = p[m]
    BY <1>5, <1>6 DEF VerdictsDiffer
  <2> QED BY <1>5, <2>1 DEF IsInjective
<1>7. Cardinality({o.candidate : o \in ToSet(bad)}) = Len(bad)
  BY <1>4, <1>6, DifferentAreCounted
<1> QED BY <1>3, <1>4, <1>7 DEF bad

\* _research_summary finds no identifier twice.
LEMMA SummaryAccepts ==
    ASSUME NEW docs, OfVerdicts(outcomes, docs), VerdictsDiffer,
           accepted = {} \/ accepted = results_of(accepted_raw)
    PROVE  ~ids_clash
<1>1. RawEvents(accepted_raw, docs) /\ Singles(accepted_raw)
  BY RawAreEvents, RawAreSingles
<1>2. ASSUME NEW e \in accepted, NEW f \in accepted, e # f PROVE e.candidates \cap f.candidates = {}
  BY <1>1, <1>2, ResultsPart
<1>3. ASSUME NEW e \in accepted, NEW x \in e.candidates, NEW o \in ToSet(rejected_outcomes), x = o.candidate
      PROVE  FALSE
  <2>1. PICK f \in ToSet(accepted_raw) : x \in f.candidates
    BY <1>1, <1>3, ResultsAreOfEvents
  <2>2. PICK i \in DOMAIN outcomes : outcomes[i].status = "ACCEPTED" /\ f.candidates = {outcomes[i].candidate}
    BY RawAreSingles
  <2>3. PICK j \in DOMAIN outcomes : outcomes[j].status # "ACCEPTED" /\ o = outcomes[j]
    BY RejectedDiffer
  <2>4. outcomes[i].candidate = outcomes[j].candidate
    BY <1>3, <2>1, <2>2, <2>3
  <2>5. i = j
    BY <2>4 DEF VerdictsDiffer
  <2> QED BY <2>2, <2>3, <2>5
<1>4. Cardinality({o.candidate : o \in ToSet(rejected_outcomes)}) = Len(rejected_outcomes)
  BY RejectedDiffer
<1>5. (UNION {e.candidates : e \in accepted}) \cap {o.candidate : o \in ToSet(rejected_outcomes)} = {}
  BY <1>3
<1> QED BY <1>2, <1>4, <1>5 DEF ids_clash

\* A verdict names the source of its candidate.
LEMMA VerdictHasSource ==
    ASSUME NEW c, NEW docs
    PROVE  validate(c, docs).source = c.source
<1>1. \A status, codes : Verdict(c, status, codes).source = c.source
  BY DEF Verdict
<1>2. \A event : [Verdict(c, "ACCEPTED", {}) EXCEPT !.event = event].source = c.source
  BY DEF Verdict
<1>3. \A doc, found : validate_relevance(c, doc, found).source = c.source
  BY <1>1, <1>2 DEF validate_relevance
<1>4. \A doc, found : validate_dates(c, doc, found).source = c.source
  BY <1>1, <1>3 DEF validate_dates
<1> QED BY <1>1, <1>4 DEF validate

\* The identifier of a candidate that was extracted the first time.
Numbered(c) == c.id = <<c.id[1], c.source, c.id[3], c.id[4], 0>>

\* The more of its source came before, the higher the number.
LEMMA NumbersGrow ==
    ASSUME NEW P, NEW i \in Nat, NEW k \in Nat, i < k, k \in P
    PROVE  Cardinality({j \in 1 .. i : j \in P}) # Cardinality({j \in 1 .. k : j \in P})
<1> DEFINE A == {j \in 1 .. i : j \in P}
           B == {j \in 1 .. k : j \in P}
<1>1. A \in SUBSET B /\ k \in B /\ k \notin A /\ B \in SUBSET (1 .. k)
  OBVIOUS
<1>2. IsFiniteSet(1 .. k)
  BY FS_Interval
<1> HIDE DEF A, B
<1>3. IsFiniteSet(B)
  BY <1>1, <1>2, FS_Subset
<1> QED BY <1>1, <1>3, FS_Subset DEF A, B

\* The candidates of an agent are numbered apart.
LEMMA OwnAreNumbered ==
    ASSUME NEW a \in Agents, load \in Loads
    PROVE  /\ IsInjective(own_candidates(a))
           /\ \A c, d \in ToSet(own_candidates(a)) : c.id = d.id => c = d
           /\ \A c \in ToSet(own_candidates(a)) : Numbered(c) /\ c.id[1] = a
<1> DEFINE cs == load[a].candidates
           own == own_candidates(a)
           Given == [shape : DOMAIN Shapes, source : SourceIds]
           of(s) == {j \in DOMAIN cs : cs[j].source = s}
           index(i) == Cardinality({j \in 1 .. i : cs[j].source = cs[i].source})
<1>1. cs \in Seq(Given)
  BY LoadsAssumption
<1>2. DOMAIN cs = 1 .. Len(cs) /\ Len(cs) \in Nat /\ \A i \in DOMAIN cs : cs[i].shape \in DOMAIN Shapes
  <2>1. \A x \in Given : x.shape \in DOMAIN Shapes
    OBVIOUS
  <2> HIDE DEF Given, cs
  <2>2. DOMAIN cs = 1 .. Len(cs) /\ Len(cs) \in Nat /\ \A i \in DOMAIN cs : cs[i] \in Given
    BY <1>1
  <2> QED BY <2>1, <2>2
<1>3. DOMAIN own = DOMAIN cs
  BY DEF own_candidates
<1>4. ASSUME NEW i \in DOMAIN cs
      PROVE  \E r : own[i].id = <<a, cs[i].source, r, index(i), 0>> /\ own[i].source = cs[i].source
  <2> DEFINE r == own_document(a, cs[i].source).revision
  <2>1. own[i] = Candidate(a, cs[i].shape, cs[i].source, r, index(i), 0)
    BY DEF own_candidates
  <2>2. cs[i].shape \in DOMAIN Shapes
    BY <1>2
  <2> HIDE DEF r, index, cs, own
  <2>3. own[i].id = <<a, cs[i].source, r, index(i), 0>> /\ own[i].source = cs[i].source
    BY <2>1, <2>2, CandidateSays
  <2> QED BY <2>3
<1>5. ASSUME NEW i \in DOMAIN cs, NEW k \in DOMAIN cs, i < k, cs[i].source = cs[k].source
      PROVE  index(i) # index(k)
  <2> DEFINE P == of(cs[i].source)
  <2>1. i \in Nat /\ k \in Nat /\ k \in P
    BY <1>2, <1>5
  <2>2. /\ {j \in 1 .. i : cs[j].source = cs[i].source} = {j \in 1 .. i : j \in P}
        /\ {j \in 1 .. k : cs[j].source = cs[k].source} = {j \in 1 .. k : j \in P}
    BY <1>2, <1>5
  <2> HIDE DEF P
  <2> QED BY <1>5, <2>1, <2>2, NumbersGrow
<1>6. ASSUME NEW i \in DOMAIN own, NEW k \in DOMAIN own, own[i].id = own[k].id PROVE i = k
  <2> HIDE DEF index, cs, own
  <2>1. cs[i].source = cs[k].source /\ index(i) = index(k)
    BY <1>3, <1>4, <1>6
  <2>2. ~ i < k /\ ~ k < i
    BY <1>3, <1>5, <2>1
  <2>3. i \in Nat /\ k \in Nat
    BY <1>2, <1>3
  <2> QED BY <2>2, <2>3
<1> HIDE DEF index, cs, own
<1>7. \A i \in DOMAIN own : Numbered(own[i]) /\ own[i].id[1] = a
  <2> SUFFICES ASSUME NEW i \in DOMAIN own PROVE Numbered(own[i]) /\ own[i].id[1] = a
    OBVIOUS
  <2>1. PICK r : own[i].id = <<a, cs[i].source, r, index(i), 0>> /\ own[i].source = cs[i].source
    BY <1>3, <1>4
  <2> DEFINE id == own[i].id
  <2>2. id[1] = a /\ id[2] = cs[i].source /\ id[3] = r /\ id[4] = index(i) /\ id[5] = 0
    BY <2>1
  <2> HIDE DEF id
  <2> QED BY <2>1, <2>2 DEF Numbered, id
<1>8. IsInjective(own)
  BY <1>6 DEF IsInjective
<1>9. \A c \in ToSet(own) : \E i \in DOMAIN own : c = own[i]
  BY DEF ToSet
<1> QED BY <1>6, <1>7, <1>8, <1>9 DEF own

\* The i-th verdict is on a candidate of the retried extraction that the verdict
\* before it asked for, of the same agent and source.
Follows(os, docs, i) ==
    /\ os[i].candidate[5] = 1 /\ i - 1 \in DOMAIN os
    /\ LET o == os[i - 1] IN
         /\ o.candidate[5] = 0 /\ o.retryable /\ o.source \in DOMAIN docs
         /\ o.candidate[1] = os[i].candidate[1] /\ o.source = os[i].candidate[2]

\* No candidate of a first extraction is judged twice; those of a retried one
\* are judged right after the candidate that was retried.
InTurn(os, docs) ==
    /\ \A i \in DOMAIN os : os[i].candidate[5] = 0 \/ Follows(os, docs, i)
    /\ \A i, j \in DOMAIN os : os[i].candidate[5] = 0 /\ os[i].candidate = os[j].candidate => i = j

\* Verdicts in turn differ unless two candidates of a source were retried.
LEMMA DifferUnlessRetriedTwice ==
    ASSUME NEW S, outcomes \in Seq(S), InTurn(outcomes, documents), ~retried_twice
    PROVE  VerdictsDiffer
<1> SUFFICES ASSUME NEW i \in DOMAIN outcomes, NEW j \in DOMAIN outcomes,
                    outcomes[i].candidate = outcomes[j].candidate, i # j
             PROVE  FALSE
  BY DEF VerdictsDiffer
<1>1. DOMAIN outcomes \subseteq Int
  OBVIOUS
<1>2. outcomes[i].candidate[5] # 0
  BY DEF InTurn
<1>3. Follows(outcomes, documents, i) /\ Follows(outcomes, documents, j)
  BY <1>2 DEF InTurn
<1> DEFINE o == outcomes[i - 1]
           p == outcomes[j - 1]
<1>4. /\ i - 1 \in DOMAIN outcomes /\ j - 1 \in DOMAIN outcomes
      /\ retries(o, o) /\ retries(p, p)
      /\ o.candidate[1] = p.candidate[1] /\ o.source = p.source
  BY <1>3 DEF Follows, retries
<1> HIDE DEF o, p
<1>5. CASE i < j
  <2>1. i - 1 < j - 1
    BY <1>1, <1>5
  <2> QED BY <1>4, <2>1 DEF retried_twice, o, p
<1>6. CASE j < i
  <2>1. j - 1 < i - 1
    BY <1>1, <1>6
  <2> QED BY <1>4, <2>1 DEF retried_twice, o, p
<1> QED BY <1>1, <1>5, <1>6

\* What a candidate adds to the verdicts: its own, and at most one of the
\* candidates that a retried extraction found instead.
Adds(ps, c, o, docs) ==
    \/ ps = <<o>>
    \/ \E v, r, n : /\ ps = <<o>> \o <<v>> /\ o.retryable /\ o.source \in DOMAIN docs
                    /\ v.candidate = <<c.id[1], c.source, r, n, 1>>

\* The candidate of an accepted retried extraction is numbered as such.
LEMMA FirstAcceptedIsNumbered ==
    ASSUME NEW c, NEW shapes \in Seq(DOMAIN Shapes), BySource(documents)
    PROVE  \/ first_accepted(retried(c, shapes)) = <<>>
           \/ \E v, r, n : /\ first_accepted(retried(c, shapes)) = <<v>>
                           /\ v.candidate = <<c.id[1], c.source, r, n, 1>>
<1> DEFINE cs == retried(c, shapes)
           verdicts == [i \in DOMAIN cs |-> validate(cs[i], documents)]
           good == Chosen(verdicts, accepted_at(verdicts))
<1>1. OfCandidates(cs)
  BY RetriedAreCandidates
<1>2. \A i \in DOMAIN cs : \E r, n : cs[i].id = <<c.id[1], c.source, r, n, 1>>
  <2> SUFFICES ASSUME NEW i \in DOMAIN cs PROVE \E r, n : cs[i].id = <<c.id[1], c.source, r, n, 1>>
    OBVIOUS
  <2> DEFINE r == documents[c.source].revision
  <2>1. cs[i] = Candidate(c.id[1], shapes[i], c.source, r, i, 1) /\ i \in DOMAIN shapes
    BY DEF retried
  <2>2. shapes[i] \in DOMAIN Shapes
    BY <2>1
  <2> HIDE DEF r, cs
  <2>3. cs[i].id = <<c.id[1], c.source, r, i, 1>>
    BY <2>1, <2>2, CandidateSays
  <2> QED BY <2>3
<1> HIDE DEF cs
<1>3. Len(cs) \in Nat /\ DOMAIN cs = 1 .. Len(cs) /\ \A i \in DOMAIN cs : cs[i] \in ToSet(cs)
  BY <1>1 DEF OfCandidates, ToSet
<1>4. \A i \in DOMAIN cs : verdicts[i].candidate = cs[i].id
  BY <1>1, <1>3, VerdictIsReasoned DEF OfCandidates
<1>5. verdicts \in Seq(ToSet(verdicts)) /\ ToSet(verdicts) = {verdicts[i] : i \in DOMAIN cs}
  BY <1>3, SequenceOfValues
<1>6. first_accepted(cs) = IF good = <<>> THEN <<>> ELSE <<good[1]>>
  BY DEF first_accepted
<1> HIDE DEF verdicts
<1>7. good \in Seq(ToSet(verdicts))
  BY <1>5, ChosenRange
<1> HIDE DEF good
<1>8. good # <<>> => good[1] \in ToSet(verdicts)
  BY <1>7
<1>9. good # <<>> => \E r, n : good[1].candidate = <<c.id[1], c.source, r, n, 1>>
  BY <1>2, <1>4, <1>5, <1>8
<1> QED BY <1>6, <1>9 DEF cs

\* ResearchPipeline._validate adds what the candidate at the head is due.
LEMMA ValidateAddsDue ==
    ASSUME VerdictsInv, ValidateNext
    PROVE  \E ps : /\ Adds(ps, Head(todo), validate(Head(todo), documents), documents)
                   /\ outcomes' = outcomes \o ps
<1> DEFINE c == Head(todo)
           o == validate(c, documents)
<1>1. o.source = c.source
  BY VerdictHasSource
<1>2. outcomes \in Seq(ToSet(outcomes) \cup {o})
  <2> HIDE DEF o
  <2> QED BY OwnRange DEF VerdictsInv, OfVerdicts
<1>3. \/ outcomes' = Append(outcomes, o)
      \/ /\ retries(c, o)
         /\ \E reply \in Replies : outcomes' = outcomes \o Answered(o, first_accepted(retried(c, reply.shapes)))
  <2> HIDE DEF o, c
  <2> QED BY DEF ValidateNext, o, c
<1>4. CASE outcomes' = Append(outcomes, o)
  <2> HIDE DEF o
  <2>1. outcomes' = outcomes \o <<o>>
    BY <1>2, <1>4
  <2> QED BY <2>1 DEF Adds, o
<1>5. ASSUME NEW reply \in Replies, retries(c, o),
             outcomes' = outcomes \o Answered(o, first_accepted(retried(c, reply.shapes)))
      PROVE  \E ps : Adds(ps, c, o, documents) /\ outcomes' = outcomes \o ps
  <2>1. o.retryable /\ o.source \in DOMAIN documents
    BY <1>1, <1>5 DEF retries
  <2>2. reply.shapes \in Seq(DOMAIN Shapes) /\ BySource(documents)
    BY LoadsAssumption DEF VerdictsInv
  <2> DEFINE more == first_accepted(retried(c, reply.shapes))
  <2>3. \/ more = <<>>
        \/ \E v, r, n : more = <<v>> /\ v.candidate = <<c.id[1], c.source, r, n, 1>>
    BY <2>2, FirstAcceptedIsNumbered
  <2> HIDE DEF more, o, c
  <2>4. outcomes' = outcomes \o (<<o>> \o more)
    BY <1>5 DEF Answered, more
  <2>5. more = <<>> => <<o>> \o more = <<o>>
    OBVIOUS
  <2> QED BY <2>1, <2>3, <2>4, <2>5 DEF Adds
<1> HIDE DEF o, c
<1> QED BY <1>3, <1>4, <1>5 DEF o, c

\* What is due to a candidate keeps the verdicts in turn.
LEMMA TurnGoesOn ==
    ASSUME NEW S, NEW os \in Seq(S), NEW docs, InTurn(os, docs), NEW c, Numbered(c),
           NEW o, o.candidate = c.id, o.source = c.source,
           \A i \in DOMAIN os : os[i].candidate # c.id,
           NEW ps, Adds(ps, c, o, docs)
    PROVE  /\ InTurn(os \o ps, docs)
           /\ \A i \in DOMAIN (os \o ps) : \/ i \in DOMAIN os /\ (os \o ps)[i] = os[i]
                                           \/ (os \o ps)[i].candidate = c.id
                                           \/ (os \o ps)[i].candidate[5] = 1
<1> DEFINE n == Len(os)
           rs == os \o ps
<1>1. n \in Nat /\ DOMAIN os = 1 .. n
  OBVIOUS
<1>2. c.id[5] = 0
  <2> DEFINE a == c.id[1]
             r == c.id[3]
             k == c.id[4]
             id == c.id
  <2>1. id = <<a, c.source, r, k, 0>>
    BY DEF Numbered
  <2> HIDE DEF a, r, k, id
  <2>2. id[5] = 0
    BY <2>1
  <2> QED BY <2>2 DEF id
<1>3. CASE ps = <<o>>
  <2> DEFINE T == S \cup {o}
  <2>a. os \in Seq(T) /\ <<o>> \in Seq(T) /\ Len(<<o>>) = 1 /\ <<o>>[1] = o
    OBVIOUS
  <2> DEFINE t == <<o>>
  <2> HIDE DEF T, t
  <2>b. /\ os \o t \in Seq(T) /\ Len(os \o t) = n + 1
        /\ \A i \in 1 .. n + 1 : (os \o t)[i] = IF i <= n THEN os[i] ELSE t[i - n]
    BY <2>a, ConcatProperties DEF t
  <2>1. /\ DOMAIN rs = 1 .. n + 1 /\ \A i \in 1 .. n : rs[i] = os[i]
        /\ rs[n + 1] = o
    <3>1. rs = os \o t
      BY <1>3 DEF t
    <3>2. t[1] = o
      BY <2>a DEF t
    <3> HIDE DEF rs, n
    <3> QED BY <1>1, <2>b, <3>1, <3>2
  <2> HIDE DEF rs, n
  <2>2. \A i \in DOMAIN rs : \/ i \in DOMAIN os /\ rs[i] = os[i]
                             \/ i = n + 1 /\ rs[i] = o
    BY <1>1, <2>1
  <2>3. \A i \in DOMAIN os : Follows(os, docs, i) => Follows(rs, docs, i)
    BY <1>1, <2>1 DEF Follows
  <2>4. InTurn(rs, docs)
    <3>1. \A i \in DOMAIN rs : rs[i].candidate[5] = 0 \/ Follows(rs, docs, i)
      BY <1>2, <2>2, <2>3 DEF InTurn
    <3>2. \A i, j \in DOMAIN rs : rs[i].candidate[5] = 0 /\ rs[i].candidate = rs[j].candidate => i = j
      BY <2>2 DEF InTurn
    <3> QED BY <3>1, <3>2 DEF InTurn
  <2> QED BY <2>2, <2>4 DEF rs
<1>4. CASE \E v, r, m : /\ ps = <<o>> \o <<v>> /\ o.retryable /\ o.source \in DOMAIN docs
                        /\ v.candidate = <<c.id[1], c.source, r, m, 1>>
  <2>1. PICK v, r, m : /\ ps = <<o>> \o <<v>> /\ o.retryable /\ o.source \in DOMAIN docs
                       /\ v.candidate = <<c.id[1], c.source, r, m, 1>>
    BY <1>4
  <2> DEFINE T == S \cup {o, v}
             t == <<o>>
             u == <<v>>
  <2>a. /\ os \in Seq(T) /\ t \in Seq(T) /\ Len(t) = 1 /\ t[1] = o
        /\ u \in Seq(T) /\ Len(u) = 1 /\ u[1] = v
    OBVIOUS
  <2>b. ps = t \o u
    BY <2>1
  <2> HIDE DEF T, t, u
  <2>c. /\ ps \in Seq(T) /\ Len(ps) = 2 /\ ps[1] = o /\ ps[2] = v
    <3>1. /\ t \o u \in Seq(T) /\ Len(t \o u) = Len(t) + Len(u)
          /\ \A i \in 1 .. Len(t) + Len(u) : (t \o u)[i] = IF i <= Len(t) THEN t[i] ELSE u[i - Len(t)]
      BY <2>a, ConcatProperties
    <3>2. 1 \in 1 .. Len(t) + Len(u) /\ 2 \in 1 .. Len(t) + Len(u) /\ Len(t) + Len(u) = 2
      BY <2>a
    <3>3. ps[1] = t[1] /\ ps[2] = u[1]
      BY <2>a, <2>b, <3>1, <3>2
    <3> QED BY <2>a, <2>b, <3>1, <3>2, <3>3
  <2>d. /\ os \o ps \in Seq(T) /\ Len(os \o ps) = Len(os) + Len(ps)
        /\ \A i \in 1 .. Len(os) + Len(ps) : (os \o ps)[i] = IF i <= Len(os) THEN os[i] ELSE ps[i - Len(os)]
    BY <2>a, <2>c, ConcatProperties
  <2>2. /\ DOMAIN rs = 1 .. n + 2 /\ \A i \in 1 .. n : rs[i] = os[i]
        /\ rs[n + 1] = o /\ rs[n + 2] = v
    <3>1. Len(os) + Len(ps) = n + 2
      BY <1>1, <2>c
    <3>2. rs \in Seq(T) /\ Len(rs) = n + 2 /\ \A i \in 1 .. n + 2 : rs[i] = IF i <= n THEN os[i] ELSE ps[i - n]
      BY <2>d, <3>1
    <3> HIDE DEF n, rs
    <3> QED BY <1>1, <2>c, <3>2
  <2>3. v.candidate[1] = c.id[1] /\ v.candidate[2] = c.source /\ v.candidate[5] = 1
    BY <2>1
  <2> HIDE DEF rs, n
  <2>4. \A i \in DOMAIN rs : \/ i \in DOMAIN os /\ rs[i] = os[i]
                             \/ i = n + 1 /\ rs[i] = o
                             \/ i = n + 2 /\ rs[i] = v
    BY <1>1, <2>2
  <2>5. \A i \in DOMAIN os : Follows(os, docs, i) => Follows(rs, docs, i)
    BY <1>1, <2>2 DEF Follows
  <2>6. Follows(rs, docs, n + 2)
    <3>1. (n + 2) - 1 = n + 1 /\ n + 1 \in DOMAIN rs
      BY <1>1, <2>2
    <3> QED BY <1>2, <2>1, <2>2, <2>3, <3>1 DEF Follows
  <2>7. InTurn(rs, docs)
    <3>1. \A i \in DOMAIN rs : rs[i].candidate[5] = 0 \/ Follows(rs, docs, i)
      BY <1>2, <2>4, <2>5, <2>6 DEF InTurn
    <3>2. \A i, j \in DOMAIN rs : rs[i].candidate[5] = 0 /\ rs[i].candidate = rs[j].candidate => i = j
      BY <1>2, <2>3, <2>4 DEF InTurn
    <3> QED BY <3>1, <3>2 DEF InTurn
  <2> QED BY <2>3, <2>4, <2>7 DEF rs
<1> QED BY <1>3, <1>4 DEF Adds

\* Every candidate is numbered once, and judged once unless its extraction was
\* retried; an agent is collected once.
NumberedInv ==
    /\ IsInjective(order)
    /\ IsInjective(todo)
    /\ \A c, d \in ToSet(todo) : c.id = d.id => c = d
    /\ \A c \in ToSet(todo) : Numbered(c) /\ c.id \notin judged
    /\ InTurn(outcomes, documents)

\* Nothing is numbered at the start.
LEMMA NumberedInit == Init => NumberedInv
<1> SUFFICES ASSUME Init PROVE NumberedInv
  OBVIOUS
<1>1. order = <<>> /\ todo = <<>> /\ outcomes = <<>>
  BY DEF Init
<1>2. ToSet(<<>>) = {} /\ DOMAIN <<>> = {}
  BY DEF ToSet
<1>3. IsInjective(<<>>)
  BY DEF IsInjective
<1>4. InTurn(<<>>, documents)
  BY <1>2 DEF InTurn
<1> QED BY <1>1, <1>2, <1>3, <1>4 DEF NumberedInv

\* The agents' steps number nothing; a collected agent was not collected before.
LEMMA AgentsLeaveNumbers ==
    ASSUME IInv, NumberedInv, NEW a \in Agents, Look(a) \/ Save(a) \/ Extract(a) \/ Collect(a)
    PROVE  NumberedInv'
<1>1. UNCHANGED <<documents, todo, outcomes>>
  BY DEF Look, Save, Extract, Collect, eventVars
<1>2. order' = order \/ (order' = Append(order, a) /\ a \notin collected)
  BY DEF Look, Save, Extract, Collect
<1>3. IsInjective(order')
  <2>1. order \in Seq(Agents)
    BY DEF IInv, AllAreWaitedFor
  <2> QED BY <1>2, <2>1, InjectiveAppend DEF NumberedInv, collected
<1>4. judged' = judged
  BY <1>1 DEF judged
<1> QED BY <1>1, <1>3, <1>4 DEF NumberedInv

\* Agents number apart from each other, and each of them its own candidates.
LEMMA MergeNumbers ==
    ASSUME IInv, VerdictsInv, NumberedInv, Merge
    PROVE  NumberedInv'
<1> DEFINE ss == [i \in DOMAIN order |-> own_candidates(order[i])]
           all == FlattenSeq(ss)
           S == ToSet(all)
<1>1. todo' = all /\ outcomes' = outcomes /\ order' = order /\ outcomes = <<>>
  BY DEF Merge, VerdictsInv
<1>2. load \in Loads /\ order \in Seq(Agents)
  BY DEF IInv, ReadIsStored, AllAreWaitedFor
<1>3. Len(order) \in Nat /\ DOMAIN order = 1 .. Len(order) /\ \A i \in DOMAIN order : order[i] \in Agents
  BY <1>2
<1>4. \A i \in DOMAIN order : /\ ss[i] \in Seq(ToSet(ss[i])) /\ IsInjective(ss[i])
                              /\ \A c, d \in ToSet(ss[i]) : c.id = d.id => c = d
                              /\ \A c \in ToSet(ss[i]) : Numbered(c) /\ c.id[1] = order[i]
  <2> SUFFICES ASSUME NEW i \in DOMAIN order
               PROVE  /\ ss[i] \in Seq(ToSet(ss[i])) /\ IsInjective(ss[i])
                      /\ \A c, d \in ToSet(ss[i]) : c.id = d.id => c = d
                      /\ \A c \in ToSet(ss[i]) : Numbered(c) /\ c.id[1] = order[i]
    OBVIOUS
  <2> DEFINE a == order[i]
  <2>1. ss[i] = own_candidates(a) /\ a \in Agents
    BY <1>3
  <2> HIDE DEF a, ss
  <2>2. OfCandidates(own_candidates(a))
    BY <1>2, <2>1, OwnAreCandidates
  <2>3. /\ IsInjective(own_candidates(a))
        /\ \A c, d \in ToSet(own_candidates(a)) : c.id = d.id => c = d
        /\ \A c \in ToSet(own_candidates(a)) : Numbered(c) /\ c.id[1] = a
    BY <1>2, <2>1, OwnAreNumbered
  <2> QED BY <2>1, <2>2, <2>3 DEF OfCandidates, a
<1>5. DOMAIN ss = 1 .. Len(order) /\ ss = [i \in 1 .. Len(order) |-> ss[i]]
  BY <1>3
<1> HIDE DEF ss
<1>6. all \in Seq(S) /\ S = UNION {ToSet(ss[i]) : i \in 1 .. Len(order)}
  BY <1>3, <1>4, <1>5, FlattenOwn
<1> HIDE DEF all
<1>7. ss \in Seq(Seq(S)) /\ Len(ss) = Len(order)
  <2>1. \A i \in 1 .. Len(order) : ss[i] \in Seq(S)
    <3> SUFFICES ASSUME NEW i \in 1 .. Len(order) PROVE ss[i] \in Seq(S)
      OBVIOUS
    <3>1. ss[i] \in Seq(ToSet(ss[i])) /\ ToSet(ss[i]) \subseteq S
      BY <1>3, <1>4, <1>6
    <3> HIDE DEF S
    <3> QED BY <3>1, OwnRange
  <2> HIDE DEF S
  <2> QED BY <1>3, <1>5, <2>1
<1> HIDE DEF S
<1>8. ASSUME NEW i \in DOMAIN order, NEW k \in DOMAIN order,
             NEW c \in ToSet(ss[i]), NEW d \in ToSet(ss[k]), c.id = d.id
      PROVE  i = k
  <2>1. order[i] = order[k]
    BY <1>4, <1>8
  <2> QED BY <2>1 DEF NumberedInv, IsInjective
<1>9. IsInjective(all)
  <2>1. \A i \in 1 .. Len(ss) : IsInjective(ss[i])
    BY <1>3, <1>4, <1>7
  <2>2. \A i, k \in 1 .. Len(ss) : i # k => ToSet(ss[i]) \cap ToSet(ss[k]) = {}
    BY <1>3, <1>7, <1>8
  <2> QED BY <1>7, <2>1, <2>2, FlattenInjective DEF all
<1>10. \A c \in S : \E i \in DOMAIN order : c \in ToSet(ss[i])
  BY <1>3, <1>6
<1>11. \A c, d \in S : c.id = d.id => c = d
  <2> TAKE c, d \in S
  <2>1. PICK i \in DOMAIN order : c \in ToSet(ss[i])
    BY <1>10
  <2>2. PICK k \in DOMAIN order : d \in ToSet(ss[k])
    BY <1>10
  <2> HAVE c.id = d.id
  <2>3. i = k
    BY <1>8, <2>1, <2>2
  <2> QED BY <1>4, <2>1, <2>2, <2>3
<1>12. \A c \in S : Numbered(c)
  BY <1>4, <1>10
<1>13. judged' = {}
  <2>1. ToSet(<<>>) = {}
    BY DEF ToSet
  <2> QED BY <1>1, <2>1 DEF judged
<1>14. InTurn(outcomes', documents')
  BY <1>1 DEF InTurn
<1>15. ToSet(todo') = S /\ IsInjective(todo')
  BY <1>1, <1>9 DEF S
<1> QED BY <1>1, <1>11, <1>12, <1>13, <1>14, <1>15 DEF NumberedInv

\* The candidate at the head is judged for the first time.
LEMMA ValidateNumbers ==
    ASSUME IInv, VerdictsInv, NumberedInv, ValidateNext
    PROVE  NumberedInv'
<1> DEFINE c == Head(todo)
           o == validate(c, documents)
           T == ToSet(outcomes)
<1>1. todo # <<>> /\ todo' = Tail(todo) /\ UNCHANGED <<order, documents>>
  BY DEF ValidateNext
<1>2. todo \in Seq(ToSet(todo)) /\ outcomes \in Seq(T)
  BY DEF VerdictsInv, OfCandidates, OfVerdicts
<1>3. /\ c \in ToSet(todo) /\ ToSet(todo) = {c} \cup ToSet(Tail(todo))
      /\ IsInjective(Tail(todo)) /\ c \notin ToSet(Tail(todo))
  <2>1. IsInjective(todo)
    BY DEF NumberedInv
  <2> QED BY <1>1, <1>2, <2>1, HeadAndTail, InjectiveTail
<1>4. Says(c) /\ BySource(documents) /\ Numbered(c) /\ c.id \notin judged
  BY <1>3 DEF VerdictsInv, OfCandidates, NumberedInv
<1>5. o.candidate = c.id /\ o.source = c.source
  BY <1>4, VerdictIsReasoned, VerdictHasSource
<1>6. PICK ps : Adds(ps, c, o, documents) /\ outcomes' = outcomes \o ps
  BY ValidateAddsDue
<1> HIDE DEF c, o, T
<1>7. \A i \in DOMAIN outcomes : outcomes[i].candidate \in judged
  BY DEF judged, ToSet
<1>8. /\ InTurn(outcomes', documents)
      /\ \A i \in DOMAIN outcomes' : \/ i \in DOMAIN outcomes /\ outcomes'[i] = outcomes[i]
                                     \/ outcomes'[i].candidate = c.id
                                     \/ outcomes'[i].candidate[5] = 1
  <2>1. InTurn(outcomes, documents) /\ \A i \in DOMAIN outcomes : outcomes[i].candidate # c.id
    BY <1>4, <1>7 DEF NumberedInv
  <2>2. /\ InTurn(outcomes \o ps, documents)
        /\ \A i \in DOMAIN (outcomes \o ps) : \/ i \in DOMAIN outcomes /\ (outcomes \o ps)[i] = outcomes[i]
                                              \/ (outcomes \o ps)[i].candidate = c.id
                                              \/ (outcomes \o ps)[i].candidate[5] = 1
    BY <1>2, <1>4, <1>5, <1>6, <2>1, TurnGoesOn
  <2> QED BY <1>6, <2>2
<1>9. ASSUME NEW d \in ToSet(Tail(todo)) PROVE Numbered(d) /\ d.id \notin judged'
  <2>1. Numbered(d) /\ d.id \notin judged /\ d.id # c.id
    BY <1>3, <1>9 DEF NumberedInv
  <2>2. d.id[5] # 1
    <3> DEFINE a == d.id[1]
               r == d.id[3]
               k == d.id[4]
               id == d.id
    <3>1. id = <<a, d.source, r, k, 0>>
      BY <2>1 DEF Numbered
    <3> HIDE DEF a, r, k, id
    <3>2. id[5] = 0
      BY <3>1
    <3> QED BY <3>2 DEF id
  <2>3. ASSUME d.id \in judged' PROVE FALSE
    <3>1. PICK p \in ToSet(outcomes') : d.id = p.candidate
      BY <2>3 DEF judged
    <3>2. PICK i \in DOMAIN outcomes' : p = outcomes'[i]
      BY DEF ToSet
    <3> QED BY <1>7, <1>8, <2>1, <2>2, <3>1, <3>2
  <2> QED BY <2>1, <2>3
<1>10. \A d, e \in ToSet(Tail(todo)) : d.id = e.id => d = e
  BY <1>3 DEF NumberedInv
<1> QED BY <1>1, <1>3, <1>8, <1>9, <1>10 DEF NumberedInv

\* Every step keeps the numbers.
LEMMA NumberedStep == IInv /\ VerdictsInv /\ NumberedInv /\ [Next]_vars => NumberedInv'
<1> SUFFICES ASSUME IInv, VerdictsInv, NumberedInv, [Next]_vars PROVE NumberedInv'
  OBVIOUS
<1>1. CASE Reconcile \/ SaveNext \/ Finish \/ Summarise \/ UNCHANGED vars
  <2>1. UNCHANGED <<order, documents, todo, outcomes>>
    BY <1>1 DEF Reconcile, SaveNext, Finish, Summarise, vars
  <2>2. judged' = judged
    BY <2>1 DEF judged
  <2> QED BY <2>1, <2>2 DEF NumberedInv
<1> QED BY <1>1, AgentsLeaveNumbers, MergeNumbers, ValidateNumbers DEF Next

\* The events to be saved differ from each other and from those that were saved.
SavesDiffer ==
    /\ to_save \in Seq(ToSet(to_save)) /\ IsInjective(to_save)
    /\ ToSet(to_save) \cap versions = {}

\* No save is refused unless two candidates of a source were retried.
SavingInv ==
    /\ pc \in {"COLLECTING", "VALIDATING"} => versions = {}
    /\ ~retried_twice /\ pc = "SAVING" => SavesDiffer
    /\ ~retried_twice => pc # "RAISED"

\* What is saved are the events of the reconciled verdicts, each once.
LEMMA ReconcileSaves ==
    ASSUME VerdictsInv, NumberedInv, SavingInv, Reconcile
    PROVE  SavingInv'
<1>1. /\ pc = "VALIDATING" /\ pc' = "SAVING" /\ versions' = versions
      /\ UNCHANGED <<outcomes, documents>>
      /\ accepted' = results_of(accepted_raw)
      /\ to_save' = SetToSeq(results_of(accepted_raw)) \o reconcile(accepted_raw).excluded
  BY DEF Reconcile, results_of
<1>2. retried_twice' <=> retried_twice
  BY <1>1 DEF retried_twice, retries
<1>3. ASSUME ~retried_twice PROVE SavesDiffer'
  <2>1. outcomes \in Seq(ToSet(outcomes)) /\ InTurn(outcomes, documents) /\ OfVerdicts(outcomes, documents)
    BY DEF VerdictsInv, OfVerdicts, NumberedInv
  <2>2. VerdictsDiffer
    BY <1>3, <2>1, DifferUnlessRetriedTwice
  <2>3. RawEvents(accepted_raw, documents) /\ Singles(accepted_raw)
    BY <2>1, <2>2, RawAreEvents, RawAreSingles
  <2> DEFINE s == SetToSeq(results_of(accepted_raw)) \o reconcile(accepted_raw).excluded
  <2>4. s \in Seq(ToSet(s)) /\ IsInjective(s)
    BY <2>3, SavedOnce
  <2>5. to_save' = s /\ versions' = {}
    BY <1>1 DEF SavingInv
  <2> HIDE DEF s
  <2> QED BY <2>4, <2>5 DEF SavesDiffer
<1> QED BY <1>1, <1>2, <1>3 DEF SavingInv

\* A saved event is not among those that are still to be saved.
LEMMA SaveNextSaves ==
    ASSUME SavingInv, SaveNext
    PROVE  SavingInv'
<1>1. pc = "SAVING" /\ to_save # <<>> /\ UNCHANGED <<outcomes, documents>>
  BY DEF SaveNext
<1>2. retried_twice' <=> retried_twice
  BY <1>1 DEF retried_twice, retries
<1>3. CASE retried_twice
  <2>1. pc' \in {"SAVING", "RAISED"}
    BY <1>1 DEF SaveNext
  <2> QED BY <1>2, <1>3, <2>1 DEF SavingInv
<1>4. CASE ~retried_twice
  <2>1. SavesDiffer
    BY <1>1, <1>4 DEF SavingInv
  <2>2. /\ Head(to_save) \in ToSet(to_save) /\ Tail(to_save) \in Seq(ToSet(to_save))
        /\ ToSet(to_save) = {Head(to_save)} \cup ToSet(Tail(to_save))
        /\ IsInjective(Tail(to_save)) /\ Head(to_save) \notin ToSet(Tail(to_save))
    BY <1>1, <2>1, HeadAndTail, InjectiveTail DEF SavesDiffer
  <2>3. Head(to_save) \notin versions
    BY <2>1, <2>2 DEF SavesDiffer
  <2>4. versions' = versions \cup {Head(to_save)} /\ to_save' = Tail(to_save) /\ pc' = pc
    BY <2>3 DEF SaveNext
  <2>5. Tail(to_save) \in Seq(ToSet(Tail(to_save)))
    BY <2>2, OwnRange
  <2>6. SavesDiffer'
    BY <2>1, <2>2, <2>4, <2>5 DEF SavesDiffer
  <2> QED BY <1>1, <1>2, <2>4, <2>6 DEF SavingInv
<1> QED BY <1>3, <1>4

\* The summary refuses no identifier.
LEMMA SummariseRefusesNone ==
    ASSUME VerdictsInv, NumberedInv, SavingInv, Summarise
    PROVE  SavingInv'
<1>1. /\ pc = "FINISHED" /\ pc' = (IF ids_clash THEN "RAISED" ELSE "SUMMARISED")
      /\ UNCHANGED <<outcomes, documents>>
  BY DEF Summarise
<1>2. retried_twice' <=> retried_twice
  BY <1>1 DEF retried_twice, retries
<1>3. ASSUME ~retried_twice PROVE ~ids_clash
  <2>1. outcomes \in Seq(ToSet(outcomes)) /\ InTurn(outcomes, documents) /\ OfVerdicts(outcomes, documents)
    BY DEF VerdictsInv, OfVerdicts, NumberedInv
  <2>2. VerdictsDiffer
    BY <1>3, <2>1, DifferUnlessRetriedTwice
  <2>3. accepted = {} \/ accepted = results_of(accepted_raw)
    BY DEF VerdictsInv, results_of
  <2> QED BY <2>1, <2>2, <2>3, SummaryAccepts
<1> QED BY <1>1, <1>2, <1>3 DEF SavingInv

\* No step lets a save or the summary be refused.
LEMMA SavingStep == VerdictsInv /\ NumberedInv /\ SavingInv /\ [Next]_vars => SavingInv'
<1> SUFFICES ASSUME VerdictsInv, NumberedInv, SavingInv, [Next]_vars PROVE SavingInv'
  OBVIOUS
<1>1. CASE Merge \/ ValidateNext
  <2>1. pc' = "VALIDATING" /\ versions' = versions /\ pc \in {"COLLECTING", "VALIDATING"}
    BY <1>1 DEF Merge, ValidateNext, eventVars
  <2> QED BY <2>1 DEF SavingInv
<1>2. CASE \/ \E a \in Agents : Look(a) \/ Save(a) \/ Extract(a) \/ Collect(a)
           \/ Finish \/ UNCHANGED vars
  <2>1. /\ UNCHANGED <<outcomes, documents, to_save, versions>>
        /\ pc' = pc \/ pc' = "FINISHED"
    BY <1>2 DEF Look, Save, Extract, Collect, Finish, vars, eventVars
  <2>2. (retried_twice' <=> retried_twice) /\ (SavesDiffer' <=> SavesDiffer)
    BY <2>1 DEF retried_twice, retries, SavesDiffer
  <2> QED BY <2>1, <2>2 DEF SavingInv
<1> QED BY <1>1, <1>2, ReconcileSaves, SaveNextSaves, SummariseRefusesNone DEF Next

\* Unless two candidates of one source were retried, every candidate has one
\* verdict, and neither the saves of the run nor its summary raise
\* (ResearchPipeline.run, AnalysisOrchestrator._research_summary): whatever the
\* agents extracted, in whatever order they finished, and however events were
\* reconciled, no event takes over a candidate that another one has.
THEOREM OneVerdict == Spec => []OneVerdictPerCandidate
<1>1. Init => NumberedInv /\ SavingInv
  <2>1. Init => SavingInv
    BY DEF Init, SavingInv
  <2> QED BY <2>1, NumberedInit
<1>2. IInv /\ VerdictsInv /\ NumberedInv /\ SavingInv /\ [Next]_vars => NumberedInv' /\ SavingInv'
  BY NumberedStep, SavingStep
<1>3. VerdictsInv /\ NumberedInv /\ SavingInv => OneVerdictPerCandidate
  <2> SUFFICES ASSUME VerdictsInv, NumberedInv, SavingInv, ~retried_twice
               PROVE  /\ pc # "RAISED"
                      /\ \A i, j \in DOMAIN outcomes : outcomes[i].candidate = outcomes[j].candidate => i = j
    BY DEF OneVerdictPerCandidate
  <2>1. outcomes \in Seq(ToSet(outcomes)) /\ InTurn(outcomes, documents)
    BY DEF VerdictsInv, OfVerdicts, NumberedInv
  <2>2. VerdictsDiffer
    BY <2>1, DifferUnlessRetriedTwice
  <2> QED BY <2>2 DEF SavingInv, VerdictsDiffer
<1> QED BY <1>1, <1>2, <1>3, BothHold, PTL DEF Spec

=============================================================================
