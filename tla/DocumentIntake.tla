--------------------------- MODULE DocumentIntake ---------------------------
(***************************************************************************)
(* What becomes of one fetched document in BaseResearchAgent.run: it is     *)
(* stored, checked against the documents already seen, and then extracted,  *)
(* traversed for linked documents, recovered (Bank of Korea pages) or       *)
(* dropped.  Pure operators on a work record:                               *)
(*   saved      documents handed to the source repository                   *)
(*   documents  the documents in hand, one per source                       *)
(*   seen       snapshot fingerprints met so far                            *)
(*   scheduled  detail URLs a listing has scheduled so far                  *)
(*   queue      documents to extract, in the order they were found          *)
(*   outcomes   the recorded outcome of each document, oldest first         *)
(*   findings   documents a reference finding was made from                 *)
(* A page stands for one snapshot of a source document: Page[p] holds what  *)
(* the routing reads of it.  Its fingerprint, which covers the original URL  *)
(* and the redirects as well as final URL (source) and body, is the page     *)
(* itself.  URLs are canonical and absolute, rows in the order of their      *)
(* relevance; the quality gate's disposition and the Bank of Korea facts     *)
(* ("NO": not a page of the bank) are data of the page.                      *)
(***************************************************************************)
EXTENDS Selections, SequencesExt

CONSTANTS Agents,
          Profile,         \* per agent its type, and page: what each page holds,
                           \* [source, body, access, disposition, listing, rows,
                           \*  detail_urls, attachment_urls, bok, rank]
          DetailLimit,     \* 6 in the code
          AttachmentLimit, \* 3 in the code
          ChildLimit,      \* settings.max_local_child_pages
          Traversal        \* the fetcher can fetch linked documents

VARIABLE agent             \* the agent that runs

AgentType == Profile[agent].type
Page == Profile[agent].page
Pages == DOMAIN Page

ASSUME IntakeLimits == /\ {DetailLimit, AttachmentLimit, ChildLimit} \subseteq Nat
                       /\ Traversal \in BOOLEAN

Prefix(s, n) == SubSeq(s, 1, IF n < Len(s) THEN n ELSE Len(s))
\* The first occurrence of each member.
Distinct(s) == Chosen(s, {i \in DOMAIN s : \A j \in 1 .. (i - 1) : s[j] # s[i]})
Put(f, x, y) == [z \in DOMAIN f \cup {x} |-> IF z = x THEN y ELSE f[z]]

NoWork == [saved |-> {}, documents |-> <<>>, seen |-> {}, scheduled |-> {},
           queue |-> <<>>, outcomes |-> <<>>, findings |-> {}]

Source(p) == Page[p].source
Fetched(p) == Page[p].access = "OK"
Usable(p) == Page[p].disposition \in {"EXTRACT", "EXTRACT_AND_TRAVERSE"}
LowPriority(p) == Page[p].disposition = "LOW_PRIORITY_EXTRACT"
IsBok(p) == Page[p].bok # "NO"
BokUsable(p) == Page[p].bok \in {"HOLD", "CHANGE"}

access_reason(p) == IF Page[p].access = "TIMEOUT" THEN "DOCUMENT_FETCH_TIMEOUT" ELSE "FETCH_FAILED"
\* A linked document that timed out is UNAVAILABLE like any other failure.
local_access_reason(p) == "DETAIL_FETCH_FAILED"

Judge(work, p, status, reason, attempted) ==
    [work EXCEPT !.outcomes =
        Append(@, [page |-> p, status |-> status, reason |-> reason, attempted |-> attempted])]
Unusable(work, p, reason) == Judge(work, p, "SOURCE_CONTENT_UNUSABLE", reason, FALSE)
AllUnusable(work, pages, reason) ==
    [work EXCEPT !.outcomes = @ \o [i \in DOMAIN pages |->
        [page |-> pages[i], status |-> "SOURCE_CONTENT_UNUSABLE", reason |-> reason, attempted |-> FALSE]]]
Save(work, p) == [work EXCEPT !.saved = @ \cup {p}]
Hold(work, p) == [work EXCEPT !.documents = Put(@, Source(p), p)]
\* Fault: the fingerprint is not remembered.
See_forgets(work, p) == work
See(work, p) == [work EXCEPT !.seen = @ \cup {p}]
Enqueue(work, p) == [work EXCEPT !.queue = Append(@, p)]

----------------------------------------------------------------------------
(* Linked documents.  f gives, for each URL, the page a fetch of it returns. *)

fetch_with_attachments(p, f) ==
    LET urls == Prefix(Page[p].attachment_urls, AttachmentLimit) IN [i \in DOMAIN urls |-> f[urls[i]]]

\* Detail pages, each with its attachments, until there are enough documents.
fetch_with_detail_pages(urls, f) ==
    LET details == Distinct(urls)
        family(u) == <<f[u]>> \o (IF Fetched(f[u]) THEN fetch_with_attachments(f[u], f) ELSE <<>>)
        found(n) == FlattenSeq([i \in 1 .. n |-> family(details[i])])
        enough == {n \in 0 .. Len(details) : Len(found(n)) >= ChildLimit}
    IN found(Min(enough \cup {Len(details)}))

\* A linked document of any other page: duplicates and unusable ones leave no outcome.
other_child(work, p) ==
    LET w == Save(work, p) IN
    CASE ~Fetched(p) -> Unusable(w, p, local_access_reason(p))
      [] Fetched(p) /\ p \in w.seen -> Hold(w, p)
      [] Fetched(p) /\ p \notin w.seen ->
            IF Usable(p) \/ LowPriority(p) THEN Enqueue(See(Hold(w, p), p), p) ELSE See(Hold(w, p), p)

\* A linked document of a local listing.
local_child(work, p) ==
    LET w == Save(work, p) IN
    CASE ~Fetched(p) -> Unusable(w, p, local_access_reason(p))
      [] Fetched(p) /\ p \in w.seen -> Judge(Hold(w, p), p, "DUPLICATE_SOURCE", "", FALSE)
      [] Fetched(p) /\ p \notin w.seen ->
            IF Usable(p) \/ LowPriority(p) THEN Enqueue(See(Hold(w, p), p), p)
            ELSE Unusable(See(Hold(w, p), p), p, "")

----------------------------------------------------------------------------
(* Listings of the local agent: rows that are stale or irrelevant are        *)
(* excluded, the links of the others scheduled once per run.                 *)

is_local_listing(p) ==
    AgentType = "LOCAL_EVENT" /\ (Page[p].disposition = "ROUTE_TO_DETAIL" \/ Page[p].listing)

kept_rows(p) == Chosen(Page[p].rows, {i \in DOMAIN Page[p].rows : ~Page[p].rows[i].excluded})
excluded_rows(p) == Chosen(Page[p].rows, {i \in DOMAIN Page[p].rows : Page[p].rows[i].excluded})
ranked_urls(p) ==
    LET kept == Distinct(FlattenSeq([i \in DOMAIN kept_rows(p) |-> kept_rows(p)[i].urls]))
    IN IF kept = <<>> THEN Distinct(Page[p].detail_urls) ELSE kept

local_listing(work, p, f) ==
    LET ranked == ranked_urls(p)
        fresh == Chosen(ranked, {i \in DOMAIN ranked : ranked[i] \notin work.scheduled})
        noted == AllUnusable(work, [i \in DOMAIN excluded_rows(p) |-> p], "EXCLUDED_ROW")
        related == IF Traversal THEN fetch_with_detail_pages(Prefix(fresh, DetailLimit), f) ELSE <<>>
        taken == FoldLeft(local_child, [noted EXCEPT !.scheduled = @ \cup ToSet(fresh)], related)
    IN Judge(taken, p, "STRUCTURED_LIST_TRAVERSED", "", FALSE)

----------------------------------------------------------------------------
(* Pages of the other agents that route to linked documents.                 *)

routes_and_traverses(p) ==
    /\ AgentType # "LOCAL_EVENT"
    /\ Page[p].disposition \in {"ROUTE_TO_DETAIL", "TRAVERSE_LIST", "FETCH_ATTACHMENTS", "EXTRACT_AND_TRAVERSE"}
    /\ ~(AgentType = "MACRO" /\ IsBok(p))

traverse(work, p, f) ==
    LET related == IF Page[p].detail_urls # <<>>
                   THEN fetch_with_detail_pages(Prefix(Page[p].detail_urls, DetailLimit), f)
                   ELSE fetch_with_attachments(p, f)
    IN IF ~Traversal \/ Page[p].detail_urls \o Page[p].attachment_urls = <<>>
       THEN Unusable(work, p, "UNSUPPORTED_ROUTE")
       ELSE Judge(FoldLeft(other_child, work, related), p, "STRUCTURED_LIST_TRAVERSED", "", FALSE)

----------------------------------------------------------------------------
(* Bank of Korea pages without decision facts: the first linked document     *)
(* with usable facts takes the page's place.                                 *)

\* Fault: the search goes on, and its last document counts.
try_recovery_last(search, q) ==
    IF ~Fetched(q) THEN [search EXCEPT !.work = Save(@, q)]
    ELSE [search EXCEPT !.work = Hold(Save(@, q), q),
                        !.page = IF q \in search.good THEN q ELSE @,
                        !.found = q \in search.good]
try_recovery(search, q) ==
    CASE search.found -> search
      [] ~search.found /\ ~Fetched(q) -> [search EXCEPT !.work = Save(@, q)]
      [] ~search.found /\ Fetched(q) ->
            [search EXCEPT !.work = Hold(Save(@, q), q),
                           !.page = IF q \in search.good THEN q ELSE @,
                           !.found = q \in search.good]

search_from(work, p, good) == [work |-> work, page |-> p, found |-> FALSE, good |-> good]
recover(work, p, pages, good) == FoldLeft(try_recovery, search_from(work, p, good), pages)

bok_detail(work, p, f) ==
    LET urls == Prefix(Page[p].detail_urls, AttachmentLimit)
    IN IF BokUsable(p) THEN search_from(work, p, {})
       ELSE recover(work, p, [i \in DOMAIN urls |-> f[urls[i]]], {q \in Pages : BokUsable(q)})

bok_attachment(work, p, f) ==
    IF ~IsBok(p) \/ BokUsable(p) \/ ~Traversal THEN search_from(work, p, {})
    ELSE recover(work, p, fetch_with_attachments(p, f),
                 {q \in Pages : (Usable(q) \/ LowPriority(q)) /\ BokUsable(q)})

bok_recovery(work, p, f) ==
    IF AgentType # "MACRO" \/ ~IsBok(p) THEN search_from(work, p, {})
    ELSE LET detail == bok_detail(work, p, f) IN bok_attachment(detail.work, detail.page, f)

\* The end of the way for a page that may be extracted.
settle(work, p) ==
    LET macroBok == AgentType = "MACRO" /\ IsBok(p)
        usable == Usable(p) /\ (macroBok => BokUsable(p))
    IN CASE macroBok /\ Page[p].bok = "HOLD" ->
                [Judge(work, p, "REFERENCE_FINDINGS_ONLY", "", FALSE) EXCEPT !.findings = @ \cup {p}]
         [] ~(macroBok /\ Page[p].bok = "HOLD") /\ (usable \/ LowPriority(p)) -> Enqueue(work, p)
         [] OTHER -> Unusable(work, p, "")

----------------------------------------------------------------------------
\* A document fetched for a hit, from the repository call to the end of the iteration.
take_document(work, p, f) ==
    LET w == Save(work, p)
        new == See(Hold(w, p), p)
        rest(x) == LET r == bok_recovery(x, p, f) IN settle(r.work, r.page)
    IN CASE ~Fetched(p) -> Unusable(w, p, access_reason(p))
         [] Fetched(p) /\ p \in work.seen -> Judge(Hold(w, p), p, "DUPLICATE_SOURCE", "", FALSE)
         [] Fetched(p) /\ p \notin work.seen /\ is_local_listing(p) -> local_listing(new, p, f)
         [] Fetched(p) /\ p \notin work.seen /\ routes_and_traverses(p) ->
                IF Usable(p) THEN rest(traverse(new, p, f)) ELSE traverse(new, p, f)
         [] OTHER -> rest(new)
=============================================================================
