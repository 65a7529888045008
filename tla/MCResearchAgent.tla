--------------------------- MODULE MCResearchAgent ---------------------------
(* Agents of three kinds over small webs of pages. *)
EXTENDS ResearchAgent

page(source, body, disposition, rank) ==
    [source |-> source, body |-> body, access |-> "OK", disposition |-> disposition,
     listing |-> FALSE, rows |-> <<>>, detail_urls |-> <<>>, attachment_urls |-> <<>>,
     bok |-> "NO", rank |-> rank]
timeout(source) == [page(source, "", "REJECT", 9) EXCEPT !.access = "TIMEOUT"]
refused(source) == [page(source, "", "REJECT", 9) EXCEPT !.access = "HTTP_ERROR"]

\* A policy agent: a seed "s", a page "a" with a linked document "d", and a
\* page "b" that may be extracted with low priority, refused, or unusable.
PolicyPage ==
    [S |-> page("s", "S", "EXTRACT", 4),
     Slate |-> timeout("s"),
     A |-> [page("a", "A", "EXTRACT_AND_TRAVERSE", 1) EXCEPT !.detail_urls = <<"d">>],
     Alate |-> timeout("a"),
     B |-> page("b", "B", "LOW_PRIORITY_EXTRACT", 2),
     Bno |-> refused("b"),
     Bnav |-> page("b", "nav", "REFERENCE_ONLY", 2),
     D |-> page("d", "D", "EXTRACT", 3),
     Dlate |-> timeout("d")]
PolicyAnswers ==
    [s |-> {"S", "Slate", "Exception"},
     a |-> {"A", "Alate", "TimeoutError"},
     b |-> {"B", "Bno", "Bnav"},
     d |-> {"D", "Dlate"}]
PolicyHits == {<<>>, <<"a">>, <<"d", "b">>}
PolicyExtractions == {"EXTRACTION_REQUEST_TIMEOUT", "CANDIDATES_EXTRACTED", "NO_DISCRETE_EVENT"}
OtherExtractions == {"REFUSED", "CANDIDATES_EXTRACTED", "REFERENCE_FINDINGS_ONLY"}

\* The local agent: two listings share the link "d", one of them has a stale
\* row; "e" hangs on a row that is kept; "d" has an attachment.
LocalPage ==
    [L |-> [page("l", "L", "ROUTE_TO_DETAIL", 9) EXCEPT
              !.rows = <<[urls |-> <<"d">>, excluded |-> FALSE], [urls |-> <<"old">>, excluded |-> TRUE]>>,
              !.detail_urls = <<"d", "old">>],
     M |-> [page("m", "M", "EXTRACT", 8) EXCEPT
              !.listing = TRUE, !.detail_urls = <<"e", "d">>,
              !.rows = <<[urls |-> <<"e", "d">>, excluded |-> FALSE]>>],
     D |-> [page("d", "D", "EXTRACT_AND_TRAVERSE", 1) EXCEPT !.attachment_urls = <<"x">>],
     Dlate |-> timeout("d"),
     E |-> page("e", "E", "LOW_PRIORITY_EXTRACT", 2),
     Enav |-> page("e", "nav", "REFERENCE_ONLY", 9),
     X |-> page("x", "X", "EXTRACT", 3),
     Xno |-> refused("x"),
     Old |-> page("old", "Old", "EXTRACT", 4)]
LocalAnswers ==
    [l |-> {"L"}, m |-> {"M", "TimeoutError"}, d |-> {"D", "Dlate"}, e |-> {"E", "Enav"},
     x |-> {"X", "Xno"}, old |-> {"Old"}]
LocalHits == {<<"l", "m">>, <<"m", "d">>, <<"d", "l", "e">>}

\* The macro agent: a Bank of Korea list page "l" without decision facts, the
\* decision it links to, which may be a page that only routes further, and the
\* decision's attachment; "c" is a decision on a page for reference, met through
\* "l" or through the page "n" of another site.
MacroPage ==
    [L |-> [page("l", "L", "TRAVERSE_LIST", 9) EXCEPT !.bok = "NONE", !.detail_urls = <<"d", "c">>],
     D |-> [page("d", "D", "EXTRACT", 1) EXCEPT !.bok = "CHANGE"],
     Dbare |-> [page("d", "Dbare", "EXTRACT", 1) EXCEPT !.bok = "NONE", !.attachment_urls = <<"x">>],
     Dnav |-> [page("d", "nav", "ROUTE_TO_DETAIL", 1) EXCEPT !.bok = "CHANGE"],
     Dno |-> refused("d"),
     X |-> [page("x", "X", "LOW_PRIORITY_EXTRACT", 2) EXCEPT !.bok = "HOLD"],
     C |-> [page("c", "C", "REFERENCE_ONLY", 4) EXCEPT !.bok = "HOLD"],
     N |-> [page("n", "N", "EXTRACT_AND_TRAVERSE", 3) EXCEPT !.detail_urls = <<"c">>]]
MacroAnswers == [l |-> {"L"}, d |-> {"D", "Dbare", "Dnav", "Dno"}, x |-> {"X"}, c |-> {"C"}, n |-> {"N", "Exception"}]
MacroHits == {<<"l", "d">>, <<"n", "l">>, <<"d", "n">>}

LinkedUrls(web) ==
    UNION {ToSet(web[p].detail_urls) \cup ToSet(web[p].attachment_urls)
              \cup UNION {ToSet(row.urls) : row \in ToSet(web[p].rows)} : p \in DOMAIN web}
fetches_of(web, answers) ==
    {f \in [LinkedUrls(web) -> DOMAIN web] : \A u \in LinkedUrls(web) : f[u] \in answers[u]}

profile(type, pages, answers, found_urls, max_docs, max_extract) ==
    [type |-> type, page |-> pages, answers |-> answers, seeds |-> <<>>,
     queries |-> <<"q1">>, max_queries |-> 1, search_hits |-> found_urls,
     linked_fetches |-> fetches_of(pages, answers), extractions |-> OtherExtractions,
     max_docs |-> max_docs, max_extract |-> max_extract]
Profiles ==
    [policy |-> [profile("POLICY_REGULATION", PolicyPage, PolicyAnswers, PolicyHits, 3, 2)
                    EXCEPT !.seeds = <<"s">>, !.extractions = PolicyExtractions],
     local |-> profile("LOCAL_EVENT", LocalPage, LocalAnswers, LocalHits, 4, 2),
     macro |-> [profile("MACRO", MacroPage, MacroAnswers, MacroHits, 3, 3)
                    EXCEPT !.queries = <<"q1", "q2">>, !.max_queries = 2,
                           !.extractions = {"REFUSED", "CANDIDATES_EXTRACTED"}]]
AllAgents == DOMAIN Profiles
=============================================================================
