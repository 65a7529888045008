---------------------------- MODULE ResearchAgent ----------------------------
(***************************************************************************)
(* BaseResearchAgent.run: one agent collects its seeds, asks its search      *)
(* provider, fetches the documents found, has a selection of them extracted  *)
(* and reports.  One step per iteration of its loops.  Around it, and at any *)
(* moment: the run may be stopped (cancelled or out of time), the agent's    *)
(* own clock may run down, and every provider may time out or fail.          *)
(*                                                                         *)
(* A candidate is known by the page it was extracted from.                   *)
(***************************************************************************)
EXTENDS DocumentIntake

CONSTANTS MinDocuments, \* research_min_documents_after_discovery
          MaxRetries,   \* max_search_retries
          LimitEnabled  \* research_agent_wall_clock_limit_seconds > 0

\* Of the agent that runs: what seeded_hits and build_queries return, its
\* BUDGETS, per URL what a fetch may give (pages or exceptions), the sequences
\* of URLs a search may return, the ways the fetches of linked documents may
\* go, and what the extractor may make of a document.
Seeds == Profile[agent].seeds
Queries == Profile[agent].queries
MaxQueries == Profile[agent].max_queries
MaxDocs == Profile[agent].max_docs
MaxExtract == Profile[agent].max_extract
Answers == Profile[agent].answers
Urls == DOMAIN Answers
SearchHits == Profile[agent].search_hits
Extractions == Profile[agent].extractions

VARIABLES stage, next,      \* the loop the agent is in, and its position there
          attempt,          \* tries of the current search, 0 before the first
          stopped, clock,   \* the run's stop flag; what is left of the deadline
          prefetched,       \* pages of the seeds that were fetched, by URL
          query_records, found,
          failures, provider_failures,
          timeout_stage, skipped,
          recorded,         \* recorded_timeout_source_ids
          work, seed_sources, fetched,
          fetch_attempts,   \* document_fetch_attempt_count
          accesses,         \* history: the page or exception each attempt gave
          selected, candidates,
          result            \* status and reasons, once done

envVars == <<agent, stopped, clock>>
seedVars == <<prefetched>>
searchVars == <<query_records, found, attempt>>
fetchVars == <<failures, seed_sources, fetched, fetch_attempts, accesses>>
logVars == <<provider_failures, timeout_stage, skipped>>
extractVars == <<selected, candidates>>
vars == <<stage, next, envVars, seedVars, searchVars, fetchVars, logVars, recorded, work,
          extractVars, result>>

Exceptions == {"TimeoutError", "Exception"}
NoResult == [status |-> "none", reasons |-> {}]
Stages == {"SEED_COLLECTION", "SEARCH_DISCOVERY", "DOCUMENT_FETCH", "EVENT_EXTRACTION"}
Counters == {"document_budget", "extraction_budget", "cancellation", "optional_total_deadline"}

\* What the providers may give, and what the pages say, as the code reads it.
PageFacts(links) ==
    [source : STRING, body : STRING, access : STRING, disposition : STRING, listing : BOOLEAN,
     rows : Seq([urls : Seq(links), excluded : BOOLEAN]),
     detail_urls : Seq(links), attachment_urls : Seq(links), bok : STRING, rank : Int]
ASSUME AgentsAssumption ==
    /\ {MinDocuments, MaxRetries} \subseteq Nat /\ LimitEnabled \in BOOLEAN
    /\ \A a \in Agents :
          LET own == Profile[a] IN
          /\ {own.max_queries, own.max_docs, own.max_extract} \subseteq Nat
          /\ own.seeds \in Seq(DOMAIN own.answers) /\ IsInjective(own.seeds)
          /\ own.queries \in Seq(STRING)
          /\ \A u \in DOMAIN own.answers : own.answers[u] \subseteq DOMAIN own.page \cup Exceptions
          /\ own.search_hits \subseteq Seq(DOMAIN own.answers)
          /\ \A p \in DOMAIN own.page : own.page[p].rank \in Int
          /\ \A f \in own.linked_fetches :
                /\ f \in [DOMAIN f -> DOMAIN own.page]
                /\ \A p \in DOMAIN own.page : own.page[p] \in PageFacts(DOMAIN f)

attempted_queries == Prefix(Queries, MaxQueries)
hits == Seeds \o found
budgeted_hits == Prefix(hits, MaxDocs)
\* Fault: the first discovered documents are not protected.
protected_document_urls_seeds == ToSet(Seeds)
protected_document_urls == ToSet(Seeds) \cup ToSet(Prefix(found, MinDocuments))
protected_extraction_ids ==
    seed_sources \cup {Source(p) : p \in ToSet(Prefix(selected, MinDocuments))}

over(n, limit) == IF n > limit THEN n - limit ELSE 0

exhausted == clock = "exhausted"
reserve_reached == clock \in {"reserve", "exhausted"}

Init ==
    /\ agent \in Agents
    /\ stage = "SEED_COLLECTION" /\ next = 1 /\ attempt = 0
    /\ stopped \in BOOLEAN
    /\ clock \in (IF LimitEnabled THEN {"ample", "reserve"} ELSE {"ample"})
    /\ prefetched = <<>>
    /\ query_records = <<>> /\ found = <<>>
    /\ failures = {} /\ provider_failures = {}
    /\ timeout_stage = "none" /\ skipped = [c \in Counters |-> 0]
    /\ recorded = {}
    /\ work = NoWork /\ seed_sources = {} /\ fetched = {}
    /\ fetch_attempts = 0 /\ accesses = <<>>
    /\ selected = <<>> /\ candidates = <<>>
    /\ result = NoResult

-----------------------------------------------------------------------------
Running == stage \in Stages \cup {"AGGREGATION"}

Stop ==
    /\ Running /\ ~stopped
    /\ stopped' = TRUE
    /\ UNCHANGED <<agent, stage, next, clock, seedVars, searchVars, fetchVars, logVars, recorded, work,
                   extractVars, result>>

Tick ==
    /\ Running /\ LimitEnabled
    /\ \/ clock = "ample" /\ clock' = "reserve"
       \/ clock = "reserve" /\ clock' = "exhausted"
    /\ UNCHANGED <<agent, stage, next, stopped, seedVars, searchVars, fetchVars, logVars, recorded, work,
                   extractVars, result>>

failure_detail(code, source) == [stage |-> stage, code |-> code, source |-> source]

\* A loop gives work up: the reason, and how many pieces it counts for.
Skip(counter, code, n) ==
    /\ timeout_stage' = stage
    /\ skipped' = [skipped EXCEPT ![counter] = @ + n]
    /\ provider_failures' = provider_failures \cup {failure_detail(code, "none")}

Failing(code, source) ==
    /\ provider_failures' = provider_failures \cup {failure_detail(code, source)}
    /\ UNCHANGED <<timeout_stage, skipped>>

GoTo(s) == stage' = s /\ next' = 1
Advance == next' = next + 1 /\ UNCHANGED stage

-----------------------------------------------------------------------------
(* Seeds: a stop skips each of them, no failure ends the loop.               *)

Seed == Seeds[next]
SeedLoop == stage = "SEED_COLLECTION" /\ next <= Len(Seeds)

seed_skipped ==
    /\ SeedLoop /\ stopped
    /\ Skip("cancellation", "STOPPED", 1)
    /\ Advance
    /\ UNCHANGED <<envVars, seedVars, searchVars, fetchVars, recorded, work, extractVars, result>>

\* Fault: the failure is not recorded.
seed_raises_silently ==
    /\ SeedLoop /\ ~stopped
    /\ Answers[Seed] \cap Exceptions # {}
    /\ Advance
    /\ UNCHANGED <<envVars, seedVars, searchVars, fetchVars, logVars, recorded, work, extractVars,
                   result>>

seed_raises ==
    /\ SeedLoop /\ ~stopped
    /\ \E e \in Answers[Seed] \cap Exceptions :
          Failing(IF e = "TimeoutError" THEN "DOCUMENT_FETCH_TIMEOUT" ELSE "DOCUMENT_FETCH_FAILED", "none")
    /\ Advance
    /\ UNCHANGED <<envVars, seedVars, searchVars, fetchVars, recorded, work, extractVars, result>>

seed_fetched ==
    /\ SeedLoop /\ ~stopped
    /\ \E p \in Answers[Seed] \cap Pages :
          /\ prefetched' = Put(prefetched, Seed, p)
          /\ IF Page[p].access = "TIMEOUT"
             THEN /\ Failing("DOCUMENT_FETCH_TIMEOUT", Source(p))
                  /\ recorded' = recorded \cup {Source(p)}
             ELSE UNCHANGED <<logVars, recorded>>
    /\ Advance
    /\ UNCHANGED <<envVars, searchVars, fetchVars, work, extractVars, result>>

seeds_done ==
    /\ stage = "SEED_COLLECTION" /\ next > Len(Seeds)
    /\ GoTo("SEARCH_DISCOVERY")
    /\ UNCHANGED <<envVars, seedVars, searchVars, fetchVars, logVars, recorded, work, extractVars,
                   result>>

-----------------------------------------------------------------------------
(* Discovery.  The stop flag and the deadline's reserve for the later stages *)
(* are looked at before each query, not before each retry.                   *)

QueryLoop == stage = "SEARCH_DISCOVERY" /\ next <= Len(attempted_queries)
\* Fault: one piece, as in the other loops.
queries_left_one == 1
queries_left == Len(attempted_queries) - Len(query_records)

discovery_cut ==
    /\ QueryLoop /\ attempt = 0
    /\ \/ stopped /\ Skip("cancellation", "STOPPED", queries_left)
       \/ /\ ~stopped /\ reserve_reached
          /\ Skip("optional_total_deadline", "AGENT_WALL_CLOCK_RESERVE_REACHED", queries_left)
    /\ next' = Len(attempted_queries) + 1
    /\ UNCHANGED <<stage, envVars, seedVars, searchVars, fetchVars, recorded, work, extractVars,
                   result>>

query_starts ==
    /\ QueryLoop /\ attempt = 0 /\ ~stopped /\ ~reserve_reached
    /\ attempt' = 1
    /\ UNCHANGED <<stage, next, envVars, seedVars, query_records, found, fetchVars, logVars,
                   recorded, work, extractVars, result>>

search_retried ==
    /\ QueryLoop /\ attempt \in 1..MaxRetries
    /\ attempt' = attempt + 1
    /\ UNCHANGED <<stage, next, envVars, seedVars, query_records, found, fetchVars, logVars,
                   recorded, work, extractVars, result>>

\* Not retryable, or retried often enough.
search_failed ==
    /\ QueryLoop /\ attempt > 0
    /\ \E code \in (IF attempt > MaxRetries THEN {"SEARCH_REQUEST_TIMEOUT", "REFUSED"} ELSE {"REFUSED"}) :
          Failing(code, "none")
    /\ query_records' = Append(query_records, "FAILED")
    /\ attempt' = 0 /\ Advance
    /\ UNCHANGED <<envVars, seedVars, found, fetchVars, recorded, work, extractVars, result>>

unseeded(h) == Chosen(h, {i \in DOMAIN h : h[i] \notin ToSet(Seeds)})

\* Fault: a URL found again is kept again.
search_answered_keepsAll ==
    /\ QueryLoop /\ attempt > 0
    /\ \E h \in SearchHits :
          /\ query_records' = Append(query_records, IF h = <<>> THEN "NO_RESULTS" ELSE "COMPLETED")
          /\ found' = found \o unseeded(h)
    /\ attempt' = 0 /\ Advance
    /\ UNCHANGED <<envVars, seedVars, fetchVars, logVars, recorded, work, extractVars, result>>

search_answered ==
    /\ QueryLoop /\ attempt > 0
    /\ \E h \in SearchHits :
          /\ query_records' = Append(query_records, IF h = <<>> THEN "NO_RESULTS" ELSE "COMPLETED")
          /\ found' = Distinct(found \o unseeded(h))
    /\ attempt' = 0 /\ Advance
    /\ UNCHANGED <<envVars, seedVars, fetchVars, logVars, recorded, work, extractVars, result>>

discovery_done ==
    /\ stage = "SEARCH_DISCOVERY" /\ next > Len(attempted_queries)
    /\ GoTo("DOCUMENT_FETCH")
    /\ skipped' = [skipped EXCEPT !["document_budget"] = over(Len(hits), MaxDocs)]
    /\ UNCHANGED <<envVars, seedVars, searchVars, fetchVars, provider_failures, timeout_stage,
                   recorded, work, extractVars, result>>

-----------------------------------------------------------------------------
(* Documents.  Once the deadline is exhausted only protected hits go on.     *)

Hit == hits[next]
FetchLoop == stage = "DOCUMENT_FETCH" /\ next <= Len(budgeted_hits)
fetch_allowed == ~stopped /\ (exhausted => Hit \in protected_document_urls)

fetch_cut ==
    /\ FetchLoop
    /\ \/ stopped /\ Skip("cancellation", "STOPPED", 1)
       \/ /\ ~stopped /\ exhausted /\ Hit \notin protected_document_urls
          /\ Skip("optional_total_deadline", "AGENT_WALL_CLOCK_DEADLINE_EXHAUSTED", 1)
    /\ next' = Len(budgeted_hits) + 1
    /\ UNCHANGED <<stage, envVars, seedVars, searchVars, fetchVars, recorded, work, extractVars,
                   result>>

\* A seed already fetched is not fetched again.
answers_for(u) == IF u \in DOMAIN prefetched THEN {prefetched[u]} ELSE Answers[u]

\* Fault: the loop goes on without recording what was raised.
fetch_raises_silently ==
    /\ FetchLoop /\ fetch_allowed
    /\ \E e \in answers_for(Hit) \cap Exceptions : accesses' = Append(accesses, e)
    /\ fetch_attempts' = fetch_attempts + 1
    /\ Advance
    /\ UNCHANGED <<envVars, seedVars, searchVars, failures, logVars, seed_sources, fetched, recorded,
                   work, extractVars, result>>

fetch_raises ==
    /\ FetchLoop /\ fetch_allowed
    /\ \E e \in answers_for(Hit) \cap Exceptions :
          LET code == IF e = "TimeoutError" THEN "DOCUMENT_FETCH_TIMEOUT" ELSE "DOCUMENT_FETCH_FAILED"
          IN /\ failures' = failures \cup {[url |-> Hit, code |-> code]}
             /\ Failing(code, "none")
             /\ accesses' = Append(accesses, e)
    /\ fetch_attempts' = fetch_attempts + 1
    /\ Advance
    /\ UNCHANGED <<envVars, seedVars, searchVars, seed_sources, fetched, recorded, work,
                   extractVars, result>>

\* What a fetch of each linked document gives; an exception there is Raise.
LinkedFetches == Profile[agent].linked_fetches

\* Fault: an access that was refused is no failure.
fetch_answered_anyhow ==
    /\ FetchLoop /\ fetch_allowed
    /\ \E p \in answers_for(Hit) \cap Pages, f \in LinkedFetches :
          /\ accesses' = Append(accesses, p)
          /\ work' = take_document(work, p, f)
          /\ seed_sources' = seed_sources \cup (IF Hit \in ToSet(Seeds) THEN {Source(p)} ELSE {})
          /\ fetched' = fetched \cup (IF Fetched(p) THEN {Source(p)} ELSE {})
          /\ failures' = failures
          /\ IF Page[p].access = "TIMEOUT" /\ Source(p) \notin recorded
             THEN /\ Failing("DOCUMENT_FETCH_TIMEOUT", Source(p))
                  /\ recorded' = recorded \cup {Source(p)}
             ELSE UNCHANGED <<logVars, recorded>>
    /\ fetch_attempts' = fetch_attempts + 1
    /\ Advance
    /\ UNCHANGED <<envVars, seedVars, searchVars, extractVars, result>>

fetch_answered ==
    /\ FetchLoop /\ fetch_allowed
    /\ \E p \in answers_for(Hit) \cap Pages, f \in LinkedFetches :
          /\ accesses' = Append(accesses, p)
          /\ work' = take_document(work, p, f)
          /\ seed_sources' = seed_sources \cup (IF Hit \in ToSet(Seeds) THEN {Source(p)} ELSE {})
          /\ fetched' = fetched \cup (IF Fetched(p) THEN {Source(p)} ELSE {})
          /\ failures' = IF Fetched(p) THEN failures
                         ELSE failures \cup {[url |-> Hit, code |-> access_reason(p)]}
          /\ IF Page[p].access = "TIMEOUT" /\ Source(p) \notin recorded
             THEN /\ Failing("DOCUMENT_FETCH_TIMEOUT", Source(p))
                  /\ recorded' = recorded \cup {Source(p)}
             ELSE UNCHANGED <<logVars, recorded>>
    /\ fetch_attempts' = fetch_attempts + 1
    /\ Advance
    /\ UNCHANGED <<envVars, seedVars, searchVars, extractVars, result>>

ranks_before(i, j) ==
    LET rank(n) == Page[work.queue[n]].rank IN
    rank(i) < rank(j) \/ (rank(i) = rank(j) /\ i < j)
\* Fault: by rank alone.
comes_first_by_rank(i, j) == ranks_before(i, j)
\* The documents of the seeds first, then by rank.
comes_first(i, j) ==
    LET seeded(n) == Source(work.queue[n]) \in seed_sources IN
    IF seeded(i) = seeded(j) THEN ranks_before(i, j) ELSE seeded(i)
place(i) == Cardinality({j \in DOMAIN work.queue : comes_first(j, i)}) + 1
ranked_extraction_documents ==
    [n \in DOMAIN work.queue |-> work.queue[CHOOSE i \in DOMAIN work.queue : place(i) = n]]

\* What exceeds the budget is excluded by name.
select_documents ==
    /\ stage = "DOCUMENT_FETCH" /\ next > Len(budgeted_hits)
    /\ LET ranked == ranked_extraction_documents
           excluded == SubSeq(ranked, MaxExtract + 1, Len(ranked))
       IN /\ selected' = Prefix(ranked, MaxExtract)
          /\ skipped' = [skipped EXCEPT !["extraction_budget"] = over(Len(ranked), MaxExtract)]
          /\ work' = AllUnusable(work, excluded, "PREFILTER_BUDGET_EXCLUDED")
    /\ GoTo("EVENT_EXTRACTION")
    /\ UNCHANGED <<envVars, seedVars, searchVars, fetchVars, provider_failures, timeout_stage,
                   recorded, candidates, result>>

-----------------------------------------------------------------------------
(* Extraction.                                                               *)

Document == selected[next]
ExtractionLoop == stage = "EVENT_EXTRACTION" /\ next <= Len(selected)
extraction_allowed == ~stopped /\ (exhausted => Source(Document) \in protected_extraction_ids)

extraction_cut ==
    /\ ExtractionLoop
    /\ \/ stopped /\ Skip("cancellation", "STOPPED", 1)
       \/ /\ ~stopped /\ exhausted /\ Source(Document) \notin protected_extraction_ids
          /\ Skip("optional_total_deadline", "AGENT_WALL_CLOCK_DEADLINE_EXHAUSTED", 1)
    /\ next' = Len(selected) + 1
    /\ UNCHANGED <<stage, envVars, seedVars, searchVars, fetchVars, recorded, work, extractVars,
                   result>>

extraction_failed ==
    /\ ExtractionLoop /\ extraction_allowed
    /\ \E code \in Extractions \cap {"EXTRACTION_REQUEST_TIMEOUT", "REFUSED"} :
          /\ Failing(code, Source(Document))
          /\ work' = Judge(work, Document, "PROVIDER_ERROR", code, TRUE)
    /\ Advance
    /\ UNCHANGED <<envVars, seedVars, searchVars, fetchVars, recorded, extractVars, result>>

\* A reference-only answer may leave a finding.
extracted ==
    /\ ExtractionLoop /\ extraction_allowed
    /\ \E status \in Extractions \cap {"CANDIDATES_EXTRACTED", "REFERENCE_FINDINGS_ONLY", "NO_DISCRETE_EVENT"} :
       \E finding \in (IF status = "REFERENCE_FINDINGS_ONLY" THEN BOOLEAN ELSE {FALSE}) :
          /\ candidates' = IF status = "CANDIDATES_EXTRACTED" THEN Append(candidates, Document) ELSE candidates
          /\ work' = [Judge(work, Document, status, "", TRUE)
                         EXCEPT !.findings = IF finding THEN @ \cup {Document} ELSE @]
    /\ Advance
    /\ UNCHANGED <<envVars, seedVars, searchVars, fetchVars, logVars, recorded, selected, result>>

extraction_done ==
    /\ stage = "EVENT_EXTRACTION" /\ next > Len(selected)
    /\ GoTo("AGGREGATION")
    /\ UNCHANGED <<envVars, seedVars, searchVars, fetchVars, logVars, recorded, work, extractVars,
                   result>>

-----------------------------------------------------------------------------
(* The bundle.                                                               *)

\* Timeouts among the outcomes that no failure was recorded for yet.
late_timeouts ==
    {Source(o.page) : o \in {o \in ToSet(work.outcomes) : o.reason = "DOCUMENT_FETCH_TIMEOUT"}} \ recorded

\* Fault: a cut collection is not told from a failed one.
no_result_reasons_fetch(failed) ==
    CASE candidates # <<>> -> {}
      [] candidates = <<>> /\ hits = <<>> -> {"NO_EVENT_FOUND", "NO_RELEVANT_SEARCH_RESULTS"}
      [] candidates = <<>> /\ hits # <<>> /\ fetched = {} -> {"SEARCH_RESULTS_FETCH_FAILED"}
      [] OTHER -> {"EXTRACTION_DEGRADED"}

no_result_reasons(failed) ==
    CASE candidates # <<>> -> {}
      [] candidates = <<>> /\ hits = <<>> -> {"NO_EVENT_FOUND", "NO_RELEVANT_SEARCH_RESULTS"}
      [] candidates = <<>> /\ hits # <<>> /\ fetched = {} ->
            IF timeout_stage \in {"SEED_COLLECTION", "DOCUMENT_FETCH"} \/ stopped
            THEN {"DOCUMENT_COLLECTION_INCOMPLETE"} ELSE {"SEARCH_RESULTS_FETCH_FAILED"}
      [] OTHER ->
            IF selected = <<>> THEN {"NO_USABLE_SOURCES", "DOCUMENTS_REJECTED_BY_QUALITY"}
            ELSE IF failed THEN {"EXTRACTION_DEGRADED"}
            ELSE IF work.findings # {} THEN {"REFERENCE_FINDINGS_ONLY"}
            ELSE {"NO_DISCRETE_EVENT", "EXTRACTION_NO_CANDIDATES"}

aggregate ==
    /\ stage = "AGGREGATION"
    /\ LET late == {[stage |-> "DOCUMENT_FETCH", code |-> "DOCUMENT_FETCH_TIMEOUT", source |-> s] :
                       s \in late_timeouts}
           all == provider_failures \cup late
       IN /\ provider_failures' = all
          /\ recorded' = recorded \cup late_timeouts
          /\ result' = [status |-> IF failures # {} \/ all # {} \/ selected = <<>>
                                   THEN "PARTIAL" ELSE "COMPLETED",
                        reasons |-> no_result_reasons(all # {})]
    /\ GoTo("done")
    /\ UNCHANGED <<envVars, seedVars, searchVars, fetchVars, timeout_stage, skipped, work, extractVars>>

\* Anything the loops do not catch: the repositories, a linked document's
\* fetch, an exception of a provider that is not a provider error.
Raise ==
    /\ Running /\ stage # "SEED_COLLECTION"
    /\ GoTo("raised")
    /\ UNCHANGED <<envVars, seedVars, searchVars, fetchVars, logVars, recorded, work, extractVars,
                   result>>

Ended == stage \in {"done", "raised"} /\ UNCHANGED vars

Seeding == seed_skipped \/ seed_raises \/ seed_fetched \/ seeds_done
Searching == discovery_cut \/ query_starts \/ search_retried \/ search_failed \/ search_answered
                \/ discovery_done
Fetching == fetch_cut \/ fetch_raises \/ fetch_answered \/ select_documents
Extracting == extraction_cut \/ extraction_failed \/ extracted \/ extraction_done
Working == Seeding \/ Searching \/ Fetching \/ Extracting \/ aggregate

Next == Working \/ Raise \/ Stop \/ Tick \/ Ended

Spec == Init /\ [][Next]_vars

-----------------------------------------------------------------------------
(* Properties.                                                               *)

\* What is recorded of a failure and of a document.
Codes == {"STOPPED", "AGENT_WALL_CLOCK_RESERVE_REACHED", "AGENT_WALL_CLOCK_DEADLINE_EXHAUSTED",
          "DOCUMENT_FETCH_TIMEOUT", "DOCUMENT_FETCH_FAILED", "FETCH_FAILED",
          "SEARCH_REQUEST_TIMEOUT", "EXTRACTION_REQUEST_TIMEOUT", "REFUSED"}
Statuses == {"SOURCE_CONTENT_UNUSABLE", "DUPLICATE_SOURCE", "STRUCTURED_LIST_TRAVERSED", "PROVIDER_ERROR",
             "CANDIDATES_EXTRACTED", "REFERENCE_FINDINGS_ONLY", "NO_DISCRETE_EVENT"}
Reasons == Codes \cup {"", "DETAIL_FETCH_FAILED", "EXCLUDED_ROW", "UNSUPPORTED_ROUTE",
                       "PREFILTER_BUDGET_EXCLUDED"}
Outcome == [page : Pages, status : Statuses, reason : Reasons, attempted : BOOLEAN]
Sources == {Source(p) : p \in Pages} \cup {"none"}

\* Types of the state.
TypeOK ==
    /\ stage \in Stages \cup {"AGGREGATION", "done", "raised"}
    /\ next \in Nat \ {0} /\ attempt \in 0..(MaxRetries + 1)
    /\ stopped \in BOOLEAN /\ clock \in {"ample", "reserve", "exhausted"}
    /\ DOMAIN prefetched \subseteq ToSet(Seeds) /\ Range(prefetched) \subseteq Pages
    /\ query_records \in Seq({"FAILED", "NO_RESULTS", "COMPLETED"})
    /\ Len(query_records) <= Len(attempted_queries)
    /\ found \in Seq(Urls \ ToSet(Seeds)) /\ IsInjective(found)
    /\ failures \subseteq [url : Urls, code : Codes]
    /\ provider_failures \subseteq [stage : Stages, code : Codes, source : Sources]
    /\ timeout_stage \in Stages \cup {"none"}
    /\ skipped \in [Counters -> Nat]
    /\ work.queue \in Seq(Pages) /\ work.outcomes \in Seq(Outcome)
    /\ work.seen \subseteq work.saved /\ work.saved \subseteq Pages
    /\ \A s \in DOMAIN work.documents : Source(work.documents[s]) = s
    /\ selected \in Seq(Pages) /\ Len(selected) <= MaxExtract
    /\ ToSet(candidates) \subseteq ToSet(selected)
    /\ fetch_attempts <= Len(budgeted_hits) /\ Len(accesses) = fetch_attempts
    /\ result.status \in {"none", "COMPLETED", "PARTIAL"}

Done == stage = "done"
attempted_documents ==
    Chosen(work.outcomes, {i \in DOMAIN work.outcomes : work.outcomes[i].attempted})
Attempted(p) == \E o \in ToSet(attempted_documents) : o.page = p

\* Everything the budgets allow for was tried.
NothingCut ==
    /\ Len(query_records) = Len(attempted_queries)
    /\ fetch_attempts = Len(budgeted_hits)
    /\ Len(attempted_documents) = Len(selected)

\* A COMPLETED bundle hides nothing: every query was answered and no seed
\* timed out, the access to every document of the budget gave its content, and
\* every selected document was extracted.
CompletedMeansWhole ==
    result.status = "COMPLETED" =>
        /\ NothingCut
        /\ "FAILED" \notin ToSet(query_records)
        /\ ToSet(Seeds) = DOMAIN prefetched
        /\ \A u \in DOMAIN prefetched : Page[prefetched[u]].access # "TIMEOUT"
        /\ \A i \in DOMAIN budgeted_hits : accesses[i] \in Pages /\ Fetched(accesses[i])
        /\ \A o \in ToSet(attempted_documents) : o.status # "PROVIDER_ERROR"

\* Work that a stop or the deadline cut is owned up to: the stage and the
\* number of skipped pieces are reported, all the queries not asked among them.
CutsAreReported ==
    Done /\ ~NothingCut =>
        /\ timeout_stage # "none"
        /\ result.status = "PARTIAL"
        /\ skipped["cancellation"] + skipped["optional_total_deadline"]
              >= Len(attempted_queries) - Len(query_records)
        /\ skipped["cancellation"] + skipped["optional_total_deadline"] > 0

\* Official seeds stay useful when discovery fails or the deadline is over:
\* unless the run is stopped, the document of a seed that may be extracted is,
\* or only documents of seeds were.
SeedsRemainUseful ==
    Done /\ ~stopped =>
        \A i \in DOMAIN Seeds :
            LET p == prefetched[Seeds[i]] IN
            (i <= MaxDocs /\ Seeds[i] \in DOMAIN prefetched /\ Fetched(p) /\ Page[p].disposition = "EXTRACT")
                => \/ Attempted(p)
                   \/ \A j \in DOMAIN selected : Source(selected[j]) \in seed_sources

\* The agent's own deadline leaves the protected minimum alone: seeds and the
\* first discovered documents are fetched, and the first selected extracted.
ProtectedWorkIsTried ==
    Done /\ ~stopped =>
        /\ fetch_attempts >= Len(Prefix(budgeted_hits, Len(Seeds) + MinDocuments))
        /\ \A p \in ToSet(Prefix(selected, MinDocuments)) : Attempted(p)

\* The reasons for an empty result are true.
ReasonsTellTheTruth ==
    /\ "SEARCH_RESULTS_FETCH_FAILED" \in result.reasons =>
          fetch_attempts = Len(budgeted_hits) /\ work.seen = {}
    /\ "NO_USABLE_SOURCES" \in result.reasons => work.queue = <<>> \/ MaxExtract = 0
    /\ "NO_DISCRETE_EVENT" \in result.reasons =>
          /\ NothingCut
          /\ \A o \in ToSet(attempted_documents) :
                o.status \in {"NO_DISCRETE_EVENT", "REFERENCE_FINDINGS_ONLY"}

\* No snapshot of a document is extracted twice, whatever ways lead to it; of
\* the documents a Bank of Korea page is recovered from this is not so.
ExtractedOnce ==
    \A i, j \in DOMAIN work.queue :
        work.queue[i] = work.queue[j] /\ ~IsBok(work.queue[i]) => i = j

\* Every document the local agent stored, a listing's links among them, is
\* accounted for by an outcome or extracted.
StoredMeansAccountedFor ==
    AgentType = "LOCAL_EVENT" => \A p \in work.saved :
        \/ p \in ToSet(work.queue)
        \/ \E o \in ToSet(work.outcomes) : o.page = p

\* A rate decision in the macro agent's hands is not lost: on whatever way its
\* page was come by, as a hit, a link, an attachment or a recovery, a decision on
\* a page that may be extracted is extracted or has become a finding.
DecisionsAreKept ==
    AgentType = "MACRO" => \A p \in work.saved :
        Fetched(p) /\ BokUsable(p) /\ (Usable(p) \/ LowPriority(p)) =>
            p \in ToSet(work.queue) \cup work.findings
=============================================================================
