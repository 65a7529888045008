--------------------------- MODULE PolicyPipeline ---------------------------
(***************************************************************************)
(* The policies of one run: the extraction loop of the policy agent         *)
(* (policy_regulation/agent.py) with every answer of its extractor          *)
(* (providers/extraction/policy.py), the merge of the agents' documents,    *)
(* validation and reconciliation (research_pipeline.py), the store and the  *)
(* recommendation.                                                          *)
(*                                                                         *)
(* The extractor is one request at a time: retries of slow or busy answers, *)
(* one repair of an answer that does not parse, and for official documents  *)
(* a candidate read without a model.  The base agent (base.py) hands over    *)
(* its bundle: its status and its reasons for finding no event.  Failures    *)
(* are those of this stage.                                                  *)
(***************************************************************************)
EXTENDS PolicyRelief

CONSTANTS Reads,        \* revisions of the agent's usable documents, in order
          Protected,    \* sources read whatever the time
          HandedOver,   \* bundles of the base agent: [status, reasons]
          Offered(_),   \* the answers a document may be given: sequences of facts
          Fallback(_),  \* what can be read off a document: a set of at most one
          Elsewhere,    \* revisions other agents hold
          Earlier,      \* rows that earlier runs left, by identifier
          MaxRetries, BusyFailures, FinalFailures

source_of(r) == Snapshot[r].source

CandidateFields ==
    {"id", "extractor_id", "fingerprint", "sources", "evidence", "members", "name", "type", "terms", "notice",
     "validation", "codes", "recommendation_codes", "supersedes", "status", "budget", "lists", "other",
     "conditions", "fallback"}
QuoteFields == {"source", "revision", "quote", "start", "fields"}

\* What an extractor may say: a whole candidate with finitely many quotes.
IsCandidate(facts) ==
    /\ CandidateFields \subseteq DOMAIN facts
    /\ facts.members = {} /\ IsFiniteSet(facts.evidence) /\ facts.evidence # {}
    /\ \A e \in facts.evidence : QuoteFields \subseteq DOMAIN e
    /\ facts.lists = [l \in Lists |-> facts.lists[l]]
    /\ facts.terms = [f \in DOMAIN facts.terms |-> facts.terms[f]]
    /\ \A f \in DOMAIN facts.terms : facts.terms[f] \in Amounts
    /\ facts.conditions \in Seq(ToSet(facts.conditions))

\* An identifier is the identity of one candidate, or that of the candidates of
\* a merge.  Its rules are among those of its policy, for the same fields.
Identified(p) ==
    /\ p.id = [of |-> "one", facts |-> p.fingerprint]
    /\ p.fingerprint.name = p.name /\ p.fingerprint.type = p.type /\ p.fingerprint.lists = p.lists
    /\ p.fingerprint.terms = written(p.terms)
Joined(r) ==
    /\ r.id = [merged |-> r.fingerprint]
    /\ r.fingerprint.name = {r.name} /\ r.fingerprint.type = {r.type} /\ r.fingerprint.lists = r.lists
    /\ r.fingerprint.terms = [k \in DOMAIN r.terms |-> {r.terms[k]}]
rules(p) == {[field |-> c.field, rule |-> rendered(c)] : c \in ToSet(p.conditions)}
ruled_fields(p) == {c.field : c \in ToSet(p.conditions)}
Ruled(p) ==
    /\ p.fingerprint.conditions \subseteq rules(p)
    /\ ruled_fields(p) = {k.field : k \in p.fingerprint.conditions}
Sealed(r) ==
    /\ r.terms = [k \in DOMAIN r.terms |-> r.terms[k]]
    /\ Identified(r) \/ Joined(r)
    /\ Ruled(r)

\* What base.py says when it found no event, and what is none of its business.
event_only_reasons == {"NO_EVENT_FOUND", "NO_DISCRETE_EVENT", "EXTRACTION_NO_CANDIDATES"}
policy_reasons == {"POLICY_EXTRACTION_INCOMPLETE", "POLICY_EXTRACTION_FAILED", "NO_POLICY_CANDIDATES"}

\* An agent holds one document of a source, and rows were written by this code.
ASSUME PolicyAssumption ==
    /\ MaxRetries \in Nat /\ Today \in Int
    /\ \A found \in HandedOver : found.status \in {"COMPLETED", "PARTIAL"} /\ found.reasons \cap policy_reasons = {}
    /\ Reads \in Seq(DOMAIN Snapshot) /\ Elsewhere \subseteq DOMAIN Snapshot
    /\ \A i, j \in DOMAIN Reads : source_of(Reads[i]) = source_of(Reads[j]) => i = j
    /\ \A r \in DOMAIN Snapshot :
          /\ Snapshot[r].published \in Int
          /\ \A found \in Offered(r) : found \in Seq(ToSet(found)) /\ \A facts \in ToSet(found) : IsCandidate(facts)
          /\ IsFiniteSet(Fallback(r)) /\ \A facts \in Fallback(r) : IsCandidate(facts)
    /\ \A id \in DOMAIN Earlier : Earlier[id].id = id /\ Sealed(Earlier[id])

VARIABLES
    phase,      \* EXTRACTING, MERGING, SAVING, RECOMMENDING, DONE
    at,         \* the document the loop is at
    request,    \* [retries, repairing] of the open request, or NoRequest
    late,       \* the agent's deadline has passed
    handed,     \* what the base agent handed over
    policies,   \* candidates extracted so far
    bundle,     \* [status, cut, failures, timeouts, reasons]
    ending,     \* ghost: per source how its extraction ended
    docs,       \* source to revision, of the merged executions
    results,    \* what reconciliation returns
    rows, links, \* policy_candidates and policy_sources
    ranked      \* positions in results, by rank

vars == <<phase, at, request, late, handed, policies, bundle, ending, docs, results, rows, links, ranked>>
saving == <<handed, docs, results, rows, links, ranked>>

NoRequest == [retries |-> -1, repairing |-> FALSE]
document == Reads[at]

Init ==
    /\ phase = "EXTRACTING" /\ at = 1 /\ request = NoRequest /\ late = FALSE
    /\ policies = <<>> /\ ending = <<>>
    /\ handed \in HandedOver
    /\ bundle = [status |-> handed.status, cut |-> "NONE", failures |-> {}, timeouts |-> 0,
                 reasons |-> handed.reasons]
    /\ docs = <<>> /\ results = <<>> /\ rows = Earlier /\ links = {} /\ ranked = <<>>

-----------------------------------------------------------------------------
(* The loop over the documents.                                             *)

Age == /\ phase = "EXTRACTING" /\ ~late /\ late' = TRUE
       /\ UNCHANGED <<phase, at, request, policies, bundle, ending, saving>>

is_official_trusted_source(r) == Snapshot[r].official

\* The identifier an extraction gives, the revision and the place in its answer.
policy_extractor_id(r, i) == [revision |-> r, index |-> i]
candidate(r, i, facts) ==
    [facts EXCEPT !.id = [of |-> "extractor", facts |-> policy_extractor_id(r, i)],
                  !.extractor_id = policy_extractor_id(r, i), !.sources = {source_of(r)},
                  !.evidence = {[e EXCEPT !.source = source_of(r), !.revision = r] : e \in @}]

Waiting == phase = "EXTRACTING" /\ at <= Len(Reads) /\ request = NoRequest
Asked == phase = "EXTRACTING" /\ request # NoRequest

cut_short(code) ==
    /\ bundle' = [bundle EXCEPT !.status = "PARTIAL", !.cut = code,
                                !.failures = @ \cup {[source |-> source_of(document), code |-> code]}]
    /\ at' = Len(Reads) + 1
    /\ UNCHANGED <<phase, request, late, policies, ending, saving>>
Stopped == Waiting /\ cut_short("RUN_CANCELLED")
\* Fault: protected documents are not told from others.
Exhausted_early == Waiting /\ late /\ cut_short("AGENT_WALL_CLOCK_DEADLINE_EXHAUSTED")
Exhausted == /\ Waiting /\ late /\ source_of(document) \notin Protected
             /\ cut_short("AGENT_WALL_CLOCK_DEADLINE_EXHAUSTED")

Ask == /\ Waiting /\ (late => source_of(document) \in Protected)
       /\ request' = [retries |-> 0, repairing |-> FALSE]
       /\ UNCHANGED <<phase, at, late, policies, bundle, ending, saving>>

\* The first word on a source counts.
ends(source, how) ==
    ending' = [s \in DOMAIN ending \cup {source} |-> IF s \in DOMAIN ending THEN ending[s] ELSE how]

take(found, how) ==
    /\ policies' = policies \o [i \in DOMAIN found |-> candidate(document, i, found[i])]
    /\ ends(source_of(document), how)
    /\ request' = NoRequest /\ at' = at + 1
    /\ UNCHANGED <<phase, late, bundle, saving>>

\* Fault: a failed document does not make the bundle partial.
give_up_quietly(code) ==
    /\ bundle' = [bundle EXCEPT !.failures = @ \cup {[source |-> source_of(document), code |-> code]}]
    /\ ends(source_of(document), "FAILED")
    /\ request' = NoRequest /\ at' = at + 1
    /\ UNCHANGED <<phase, late, policies, saving>>
give_up(code) ==
    LET failure_code == IF code = "TIMEOUT" THEN "EXTRACTION_REQUEST_TIMEOUT" ELSE code IN
    /\ bundle' = [bundle EXCEPT !.status = "PARTIAL",
                     !.failures = @ \cup {[source |-> source_of(document), code |-> failure_code]},
                     !.timeouts = @ + (IF code = "TIMEOUT" THEN 1 ELSE 0)]
    /\ ends(source_of(document), "FAILED")
    /\ request' = NoRequest /\ at' = at + 1
    /\ UNCHANGED <<phase, late, policies, saving>>

-----------------------------------------------------------------------------
(* What a request may come to.                                              *)

Answered == Asked /\ \E found \in Offered(document) : take(found, "ANSWERED")

\* Fault: one retry too many.
Busy_once_more(code) ==
    /\ Asked /\ ~request.repairing
    /\ IF request.retries <= MaxRetries
       THEN /\ request' = [request EXCEPT !.retries = @ + 1]
            /\ UNCHANGED <<phase, at, late, policies, bundle, ending, saving>>
       ELSE give_up(code)
Busy(code) ==
    /\ Asked /\ ~request.repairing
    /\ IF request.retries < MaxRetries
       THEN /\ request' = [request EXCEPT !.retries = @ + 1]
            /\ UNCHANGED <<phase, at, late, policies, bundle, ending, saving>>
       ELSE give_up(code)

Failed(code) == Asked /\ ~request.repairing /\ give_up(code)

\* An answer that parses, repaired or not, may speak of another run or document.
Mismatched ==
    Asked /\ \E code \in {"CONTEXT_MISMATCH", "SOURCE_REVISION_MISMATCH"} : give_up(code)

\* Only an official document is worth a repair, one, without retries.
Unparsed ==
    /\ Asked /\ ~request.repairing
    /\ IF is_official_trusted_source(document)
       THEN /\ request' = [request EXCEPT !.repairing = TRUE]
            /\ UNCHANGED <<phase, at, late, policies, bundle, ending, saving>>
       ELSE give_up("SCHEMA_VALIDATION_FAILED")

RepairFailed ==
    /\ Asked /\ request.repairing
    /\ IF Fallback(document) = {} THEN give_up("POLICY_SCHEMA_REPAIR_FAILED")
       ELSE take(SetToSeq(Fallback(document)), "FALLBACK")

no_result_reasons ==
    IF policies # <<>> THEN bundle.reasons \ event_only_reasons
    ELSE bundle.reasons \cup
            {IF bundle.cut # "NONE" THEN "POLICY_EXTRACTION_INCOMPLETE"
             ELSE IF bundle.failures # {} THEN "POLICY_EXTRACTION_FAILED" ELSE "NO_POLICY_CANDIDATES"}

Return == /\ phase = "EXTRACTING" /\ at > Len(Reads)
          /\ phase' = "MERGING"
          /\ bundle' = [bundle EXCEPT !.reasons = no_result_reasons]
          /\ UNCHANGED <<at, request, late, policies, ending, saving>>

-----------------------------------------------------------------------------
(* The run's documents are merged by source, in the order in which the       *)
(* agents complete; then every candidate is identified, validated and       *)
(* reconciled.                                                              *)

held == {Reads[i] : i \in DOMAIN Reads} \cup Elsewhere
merged_documents ==
    {choice \in [{source_of(r) : r \in held} -> held] : \A s \in DOMAIN choice : source_of(choice[s]) = s}

validated(in_docs) ==
    [i \in DOMAIN policies |->
        validate_policy_candidate(canonicalize_policy_identity(policies[i], in_docs), in_docs)]

\* Sorted by identifiers, which are hashes: any order of them, the candidates
\* of one identifier in the order they were found.
by_identifier(found) ==
    {FlattenSeq([k \in DOMAIN ids |-> Chosen(found, {i \in DOMAIN found : found[i].id = ids[k]})]) :
        ids \in SetToSeqs({found[i].id : i \in DOMAIN found})}

Merge ==
    /\ phase = "MERGING"
    /\ docs' \in merged_documents
    /\ \E found \in {validated(docs')} : \E sorted \in by_identifier(found) : results' = reconcile(sorted, docs')
    /\ phase' = "SAVING" /\ at' = 1
    /\ UNCHANGED <<request, late, policies, bundle, ending, handed, rows, links, ranked>>

\* The row of an identifier is of other facts.
collides(p) == p.id \in DOMAIN rows /\ rows[p.id].fingerprint # p.fingerprint
save(p) ==
    /\ rows' = [id \in DOMAIN rows \cup {p.id} |-> IF id = p.id THEN p ELSE rows[id]]
    /\ links' = links \cup {<<p.id, s>> : s \in p.sources}

\* PolicyIdentityCollisionError ends the run.
Save ==
    /\ phase = "SAVING" /\ at <= Len(results)
    /\ IF collides(results[at])
       THEN phase' = "DONE" /\ UNCHANGED <<at, rows, links>>
       ELSE save(results[at]) /\ at' = at + 1 /\ UNCHANGED phase
    /\ UNCHANGED <<request, late, policies, bundle, ending, handed, docs, results, ranked>>

Recommend ==
    /\ phase = "SAVING" /\ at > Len(results)
    /\ ranked' = recommend(results)
    /\ phase' = "DONE"
    /\ UNCHANGED <<at, request, late, policies, bundle, ending, handed, docs, results, rows, links>>

Next ==
    \/ Age \/ Stopped \/ Exhausted \/ Ask \/ Answered \/ Mismatched \/ Unparsed \/ RepairFailed
    \/ \E code \in BusyFailures : Busy(code)
    \/ \E code \in FinalFailures : Failed(code)
    \/ Return \/ Merge \/ Save \/ Recommend

Spec == Init /\ [][Next]_vars

-----------------------------------------------------------------------------
(* Properties.                                                              *)

TypeOK ==
    /\ phase \in {"EXTRACTING", "MERGING", "SAVING", "DONE"}
    /\ at \in 1..(Max({Len(Reads), Len(results)}) + 1)
    /\ request \in [retries : -1..MaxRetries, repairing : BOOLEAN]
    /\ late \in BOOLEAN
    /\ \A i \in DOMAIN policies : policies[i].sources \subseteq {source_of(r) : r \in held}
    /\ bundle.status \in {"COMPLETED", "PARTIAL"} /\ handed \in HandedOver
    /\ DOMAIN ending \subseteq {source_of(r) : r \in held}
    /\ \A id \in DOMAIN rows : rows[id].id = id
    /\ ToSet(ranked) \subseteq DOMAIN results

Sources == {source_of(Reads[i]) : i \in DOMAIN Reads}

\* What the bundle says of the extraction (agent.py:63-314) is true.  Unless it
\* names a failure every document was answered, and beyond what the base agent
\* found it is PARTIAL only for a failure.  A protected document is left out only
\* if the run was cancelled or an unprotected one before it met the deadline.
\* With policies the base agent's word on events is taken back, its other reasons
\* stay; without, the reason added is the one the documents gave.
left_out(s) == s \notin DOMAIN ending
PolicyBundleTellsTheTruth ==
    phase # "EXTRACTING" =>
        /\ bundle.failures = {} => \A s \in Sources : ~left_out(s) /\ ending[s] # "FAILED"
        /\ bundle.status = "PARTIAL" <=> handed.status = "PARTIAL" \/ bundle.failures # {}
        /\ \A i \in DOMAIN Reads :
              left_out(source_of(Reads[i])) /\ source_of(Reads[i]) \in Protected =>
                 \/ bundle.cut = "RUN_CANCELLED"
                 \/ \E j \in 1..(i - 1) : left_out(source_of(Reads[j])) /\ source_of(Reads[j]) \notin Protected
        /\ bundle.reasons \ policy_reasons =
              IF policies = <<>> THEN handed.reasons ELSE handed.reasons \ event_only_reasons
        /\ bundle.reasons \cap policy_reasons =
              {reason \in policy_reasons :
                  /\ policies = <<>>
                  /\ CASE reason = "POLICY_EXTRACTION_INCOMPLETE" -> \E s \in Sources : left_out(s)
                       [] reason = "POLICY_EXTRACTION_FAILED" ->
                             /\ \A s \in Sources : ~left_out(s)
                             /\ \E s \in Sources : ending[s] = "FAILED"
                       [] reason = "NO_POLICY_CANDIDATES" ->
                             \A s \in Sources : ~left_out(s) /\ ending[s] = "ANSWERED"}

represents(p, q) == q.extractor_id = p.extractor_id \/ q.extractor_id \in p.members

\* Reconciliation (policy_validator.py) loses no candidate and doubles none:
\* each is in exactly one result, which names its sources and its evidence.
NothingExtractedVanishes ==
    phase \in {"SAVING", "DONE"} =>
        \A i \in DOMAIN policies :
            \E j \in DOMAIN results :
                /\ represents(results[j], policies[i])
                /\ policies[i].sources \subseteq results[j].sources
                /\ {e.quote : e \in policies[i].evidence} \subseteq {e.quote : e \in results[j].evidence}
                /\ \A k \in DOMAIN results \ {j} : ~represents(results[k], policies[i])

\* Everything one ranked policy was put together from.
behind(j) == {p \in ToSet(validated(docs)) : represents(results[j], p)}

\* A policy is recommended (relief/pipeline.py) only while it is open, on
\* evidence that stands in trusted documents in hand, and never while a candidate
\* of the same programme, a termination among them, contradicts what it was put
\* together from.  Where quotes are given for a date, an amount or a rate, the
\* policy states that term and one of them says its value.  Terms without such a
\* quote, coverage and fee are compared with nothing (policy_semantics.py:123).
RecommendedAreUncontested ==
    \A n \in DOMAIN ranked :
        LET p == results[ranked[n]] IN
        /\ p.status = "OPEN" /\ term(p, "start") <= Today /\ Today <= term(p, "end")
        /\ p.evidence # {}
        /\ \A e \in p.evidence :
              /\ in_hand(p, e, docs) /\ e.revision = docs[e.source]
              /\ e.start \in positions(docs[e.source], e.quote)
              /\ LET d == Snapshot[docs[e.source]] IN d.access = "OK" /\ ~d.flagged /\ d.type # "OTHER"
        /\ \A f \in NumericFields \cup DateFields :
              field_quotes(p, f) # {} => f \in DOMAIN p.terms /\ p.terms[f] \in stated(p, f)
        /\ \A q \in behind(ranked[n]), other \in ToSet(validated(docs)) :
              material_policy_conflicts(q, other, docs) = {}
        /\ ~\E q \in behind(ranked[n]) : q.notice = "TERMINATION" \/ assess_policy_semantics(q).explicitly_closed

\* Rows keep the programme they were written for (repositories.py:207-269): what
\* an identity looks at never changes under a stored identifier, and no save meets
\* another fingerprint under its identifier (PolicyIdentityCollisionError).  An
\* identity does not see whether a zero amount was stated or left out, nor the
\* rules for a field before its last one: these may be overwritten, but a row
\* keeps every rule it is known by and gets none for another field.
stored_facts(p) == <<p.name, p.type, p.lists, written(p.terms), ruled_fields(p)>>
StoredPoliciesKeepIdentity ==
    [][/\ \A id \in DOMAIN rows :
             /\ id \in DOMAIN rows' /\ stored_facts(rows'[id]) = stored_facts(rows[id])
             /\ rows[id].fingerprint.conditions \subseteq rules(rows'[id])
       /\ phase = "SAVING" /\ at \in DOMAIN results => ~collides(results[at])]_vars

\* A correction is recorded beside the notice it corrects: no two results of one
\* reconciliation share an identifier.
OneResultPerIdentifier ==
    \A i, j \in DOMAIN results : results[i].id = results[j].id => i = j

\* A policy of a city applies to its districts (region_normalizer.py:78).
DistrictsAreCovered ==
    \A i \in DOMAIN results :
        LET p == results[i] IN
        (gate(p) = "PASSED" /\ \E r \in p.lists["regions"] : IsPrefix(r, Store.region))
            => regions_match(Store.region, p.lists["regions"]) = "YES"
=============================================================================
