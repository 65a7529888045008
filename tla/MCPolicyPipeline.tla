-------------------------- MODULE MCPolicyPipeline --------------------------
(***************************************************************************)
(* Two documents of one authority, the first official and with two other    *)
(* revisions at another agent, one without a quote and one that tries to    *)
(* instruct its reader.  The pool holds one programme in the forms that     *)
(* must be told apart: open, without dates, with another end, terminated,   *)
(* corrected, with a limit quoted rightly and wrongly and one of zero, with *)
(* a quote that is nowhere, closed by its own quote, for others than the     *)
(* store by one rule, by two for the same field or by a contrary one, and   *)
(* as another type.                                                         *)
(***************************************************************************)
EXTENDS PolicyPipeline

Day == 10
Figures == {0, 5, 6, 20, 25}

Quotes ==
    "period" :> [years |-> {}, says |-> [start |-> {0}, end |-> {20}], closed |-> FALSE, exhausted |-> FALSE]
    @@ "limit" :> [years |-> {}, says |-> [limit |-> {5}], closed |-> FALSE, exhausted |-> FALSE]
    @@ "nowhere" :> [years |-> {}, says |-> <<>>, closed |-> FALSE, exhausted |-> FALSE]
    @@ "closing" :> [years |-> {}, says |-> <<>>, closed |-> TRUE, exhausted |-> FALSE]
    @@ "text" :> [years |-> {}, says |-> [end |-> {20}], closed |-> FALSE, exhausted |-> FALSE]

Snapshots ==
    "r1" :> [source |-> "s1", authority |-> "SEMAS", host |-> "semas", years |-> {}, access |-> "OK",
             flagged |-> FALSE, type |-> "OFFICIAL", official |-> TRUE, published |-> 1,
             body |-> [period |-> {1}, limit |-> {2, 3}, closing |-> {4}, text |-> {0}]]
    @@ "r1b" :> [source |-> "s1", authority |-> "SEMAS", host |-> "semas", years |-> {}, access |-> "OK",
                 flagged |-> FALSE, type |-> "OFFICIAL", official |-> TRUE, published |-> 2,
                 body |-> [limit |-> {2}, closing |-> {4}, text |-> {0}]]
    @@ "r1c" :> [source |-> "s1", authority |-> "SEMAS", host |-> "semas", years |-> {}, access |-> "OK",
                 flagged |-> TRUE, type |-> "OFFICIAL", official |-> TRUE, published |-> 2,
                 body |-> [period |-> {1}, limit |-> {2, 3}, closing |-> {4}, text |-> {0}]]
    @@ "r2" :> [source |-> "s2", authority |-> "SEMAS", host |-> "bank", years |-> {}, access |-> "OK",
                flagged |-> FALSE, type |-> "NEWS", official |-> FALSE, published |-> 3,
                body |-> [period |-> {6}, limit |-> {7}, closing |-> {8}]]

cite(quote, n, fields) == [source |-> "", revision |-> "", quote |-> quote, start |-> n, fields |-> fields]
Dated == cite("period", 1, {"start", "end"})

Open ==
    [id |-> <<>>, fingerprint |-> <<>>, extractor_id |-> <<>>, sources |-> {}, evidence |-> {Dated},
     provider |-> "agency", name |-> "fund", type |-> "GRANT", notice |-> "ORIGINAL", years |-> {},
     lists |-> [regions |-> {<<"11">>}, purpose |-> {}, inclusions |-> {}, exclusions |-> {}],
     terms |-> [start |-> 0, end |-> 20], other |-> <<>>, conditions |-> <<>>, budget |-> "AVAILABLE",
     status |-> "OPEN", fallback |-> FALSE, validation |-> "NEW", codes |-> {},
     recommendation_codes |-> {}, supersedes |-> <<>>, members |-> {}]
District == [Open EXCEPT !.lists["regions"] = {<<"11", "680">>}]
Undated == [District EXCEPT !.terms = <<>>, !.evidence = {cite("limit", 2, {})}, !.status = "STATUS_UNCONFIRMED"]
Longer == [District EXCEPT !.terms = [start |-> 0, end |-> 25], !.evidence = {cite("limit", 2, {})}]
Terminated == [District EXCEPT !.notice = "TERMINATION"]
Corrected == [District EXCEPT !.notice = "CORRECTION"]
Limited == [District EXCEPT !.terms = @ @@ [limit |-> 5], !.evidence = @ \cup {cite("limit", 3, {"limit"})}]
Misquoted == [Limited EXCEPT !.terms["limit"] = 6]
Nowhere == [District EXCEPT !.evidence = @ \cup {cite("nowhere", 9, {})}]
Closing == [District EXCEPT !.evidence = @ \cup {cite("closing", 4, {})}]
Zeroed == [District EXCEPT !.terms = @ @@ [limit |-> 0]]
age(op, value) == [field |-> "age", op |-> op, value |-> value]
Elders == [District EXCEPT !.conditions = <<age("GE", 9)>>]
Middle == [District EXCEPT !.conditions = <<age("LE", 60), age("GE", 9)>>]
Juniors == [District EXCEPT !.conditions = <<age("LE", 9)>>]
Guarantee == [District EXCEPT !.type = "CREDIT_GUARANTEE", !.name = "guarantee"]
Recovered == [District EXCEPT !.fallback = TRUE, !.terms = [end |-> 20], !.status = "STATUS_UNCONFIRMED",
                              !.evidence = {cite("text", 0, {"end"})}]

Pool == {District, Undated, Longer, Terminated, Corrected, Limited, Misquoted, Nowhere, Closing, Zeroed,
         Elders, Middle, Juniors, Guarantee}
Pairs == {<<a, b>> : a \in {District, Undated}, b \in {District, Undated, Longer, Terminated, Elders, Middle}}
Several(r) == {<<>>} \cup {<<a>> : a \in Pool} \cup Pairs
Correcting(r) == IF r = "r1" THEN {<<District, Corrected>>} ELSE {<<Guarantee>>}
Citywide(r) == {<<Open>>}

BothDocuments == <<"r2", "r1">>
NoneOrText(r) == {Recovered}

\* Bundles of base.py: COMPLETED without an event, PARTIAL for lack of answers,
\* and with events (no reasons) after an access that failed.
Bundles ==
    {[status |-> "COMPLETED", reasons |-> {"NO_DISCRETE_EVENT", "EXTRACTION_NO_CANDIDATES"}],
     [status |-> "PARTIAL", reasons |-> {"EXTRACTION_DEGRADED"}],
     [status |-> "PARTIAL", reasons |-> {}]}
OneBundle == {[status |-> "COMPLETED", reasons |-> {"REFERENCE_FINDINGS_ONLY"}]}

\* An earlier run stored the programme alone and merged with its undated notice.
Then == "s1" :> "r1" @@ "s2" :> "r2"
From(r, n, facts) ==
    validate_policy_candidate(canonicalize_policy_identity(candidate(r, n, facts), Then), Then)
EarlierRows ==
    LET stored == ToSet(reconcile(<<From("r1", 1, District)>>, Then))
                    \cup ToSet(reconcile(<<From("r1", 1, District), From("r2", 1, Undated)>>, Then))
                    \cup ToSet(reconcile(<<From("r2", 1, Middle)>>, Then))
    IN [id \in {p.id : p \in stored} |-> CHOOSE p \in stored : p.id = id]

Shop == [region |-> <<"11", "680">>, industry |-> "CAFE", facts |-> [age |-> 5], minimum_cash |-> 9]
Base == [burn |-> 12, interest |-> 4, lowest |-> 2]
Simulated(terms) ==
    [burn |-> IF terms.inflow > 4 THEN -1 ELSE 12 + terms.inflow, interest |-> larger(0, 4 - terms.discount)]
=============================================================================
