-------------------------- MODULE PolicyValidation --------------------------
(***************************************************************************)
(* Validation and reconciliation of policy candidates (policy_validator.py, *)
(* policy_semantics.py).                                                    *)
(*                                                                         *)
(* A document's body maps each quote in it to the positions it stands at;   *)
(* a quote says, per field, which values it states (the empty set: a field  *)
(* it names without a number that can be read).                             *)
(***************************************************************************)
EXTENDS PolicyIdentity, Selections

CONSTANT Today       \* as_of_date

positions(r, q) == IF q \in DOMAIN Snapshot[r].body THEN Snapshot[r].body[q] ELSE {}

-----------------------------------------------------------------------------
(* What the quotes say of the fields they are given for.                    *)

NumericFields == {"limit", "rate", "discount", "grace", "maturity"}

field_quotes(p, field) == {e.quote : e \in {e \in p.evidence : field \in e.fields}}
quote_says(q, field) == IF field \in DOMAIN Quote[q].says THEN Quote[q].says[field] ELSE {}
stated(p, field) == UNION {quote_says(q, field) : q \in field_quotes(p, field)}

missing_code(field) ==
    CASE field = "limit" -> "POLICY_FIELD_VALUE_MISSING"
      [] field \in DateFields -> "POLICY_APPLICATION_STATUS_UNRESOLVED"
      [] OTHER -> "POLICY_REQUIRED_TERM_MISSING"

field_codes(p, field) ==
    CASE field_quotes(p, field) = {} -> {}
      [] field_quotes(p, field) # {} /\ field \notin DOMAIN p.terms -> {missing_code(field)}
      [] field_quotes(p, field) # {} /\ field \in DOMAIN p.terms ->
            IF p.terms[field] \in stated(p, field) THEN {}
            ELSE IF field \in NumericFields /\ stated(p, field) = {} THEN {"POLICY_NUMERIC_UNIT_AMBIGUOUS"}
            ELSE {"POLICY_FIELD_EVIDENCE_MISMATCH"}

collateral_codes(p) ==
    CASE field_quotes(p, "collateral") = {} -> {}
      [] field_quotes(p, "collateral") # {} /\ "collateral" \notin DOMAIN p.other -> {"POLICY_REQUIRED_TERM_MISSING"}
      [] OTHER -> IF stated(p, "collateral") # {} THEN {} ELSE {"POLICY_FIELD_EVIDENCE_MISMATCH"}

budget_codes(p) ==
    IF /\ \E e \in p.evidence : Quote[e.quote].exhausted
       /\ p.budget \notin {"EXHAUSTED", "UNTIL_EXHAUSTED", "CLOSED"}
    THEN {"POLICY_BUDGET_STATUS_MISMATCH"} ELSE {}

assess_policy_semantics(p) ==
    [codes |-> UNION {field_codes(p, f) : f \in NumericFields \cup DateFields}
                  \cup collateral_codes(p) \cup budget_codes(p),
     explicitly_closed |-> \E e \in p.evidence : Quote[e.quote].closed]

-----------------------------------------------------------------------------
(* One candidate against the documents in hand.                              *)

source_codes(p, docs) ==
    LET documents == {Snapshot[r] : r \in related(p, docs)} IN
    {c \in {"POLICY_SOURCE_MISSING"} : documents = {}}
        \cup {c \in {"POLICY_SOURCE_SET_MISMATCH"} : ~(p.sources \subseteq DOMAIN docs)}
        \cup {c \in {"POLICY_SOURCE_UNAVAILABLE"} : \E d \in documents : d.access # "OK"}
        \cup {c \in {"POLICY_SOURCE_SECURITY_REJECTED"} : \E d \in documents : d.flagged}
        \cup {c \in {"POLICY_SOURCE_UNTRUSTED"} : \E d \in documents : d.type = "OTHER"}

in_hand(p, e, docs) == e.source \in p.sources \cap DOMAIN docs
unique(e, docs) == Cardinality(positions(docs[e.source], e.quote)) = 1

\* A quote that stands once in the document in hand is bound to it anew.
rebound(e, docs) ==
    IF ~unique(e, docs) THEN e
    ELSE [e EXCEPT !.revision = docs[e.source],
                   !.start = CHOOSE n \in positions(docs[e.source], e.quote) : TRUE]

evidence_codes(p, e, docs) ==
    IF ~in_hand(p, e, docs) THEN {"POLICY_EVIDENCE_SOURCE_MISSING"}
    ELSE LET bound == rebound(e, docs)
             places == positions(docs[e.source], e.quote)
         IN {c \in {"POLICY_REVISION_MISMATCH"} : bound.revision # docs[e.source]}
              \cup {c \in {"POLICY_QUOTE_NOT_FOUND"} : bound.start \notin places /\ places = {}}
              \cup {c \in {"POLICY_OFFSET_AMBIGUOUS"} : bound.start \notin places /\ places # {}}

ended(p) == "end" \in DOMAIN p.terms /\ p.terms["end"] < Today
closed(p) == p.notice = "TERMINATION" \/ assess_policy_semantics(p).explicitly_closed \/ ended(p)

application_status(p) ==
    LET starts == "start" \in DOMAIN p.terms IN
    CASE closed(p) -> "CLOSED"
      [] ~closed(p) /\ p.fallback -> "STATUS_UNCONFIRMED"
      [] ~closed(p) /\ ~p.fallback /\ p.budget \in {"EXHAUSTED", "BUDGET_EXHAUSTED", "CLOSED"} -> "BUDGET_EXHAUSTED"
      [] OTHER -> IF starts /\ p.terms["start"] > Today THEN "SCHEDULED"
                  ELSE IF starts /\ "end" \in DOMAIN p.terms THEN "OPEN" ELSE "STATUS_UNCONFIRMED"

recommendation_codes(p) ==
    {c \in {"POLICY_CLOSED"} : p.status = "CLOSED"}
        \cup {c \in {"POLICY_BUDGET_EXHAUSTED"} : p.status = "BUDGET_EXHAUSTED"}
        \cup {c \in {"POLICY_NOT_YET_OPEN"} : p.status = "SCHEDULED"}
        \cup {c \in {"POLICY_STATUS_UNCONFIRMED"} : p.status = "STATUS_UNCONFIRMED"}
        \cup {c \in {"POLICY_BUDGET_UNKNOWN"} : p.budget \in {"UNKNOWN", "BUDGET_UNKNOWN"}}

validate_policy_candidate(p, docs) ==
    LET codes == source_codes(p, docs) \cup UNION {evidence_codes(p, e, docs) : e \in p.evidence}
        semantic == assess_policy_semantics(p).codes
        dated == [p EXCEPT !.evidence = {IF in_hand(p, e, docs) THEN rebound(e, docs) ELSE e : e \in @},
                           !.status = application_status(p)]
    IN [dated EXCEPT !.recommendation_codes = recommendation_codes(dated),
                     !.codes = codes \cup semantic,
                     !.validation = IF codes # {} THEN "REJECTED"
                                    ELSE IF closed(p) THEN "CLOSED"
                                    ELSE IF semantic # {} THEN "PARTIALLY_VALIDATED" ELSE "VALIDATED"]

-----------------------------------------------------------------------------
(* Reconciliation.  policies is a sequence in the order of the identifiers;  *)
(* these are hashes, so that any order may come up.                         *)

joins(group, p, docs) == \A i \in DOMAIN group : policies_semantically_equivalent(p, group[i], docs)

with_another(groups, p, docs) ==
    LET open == {i \in DOMAIN groups : joins(groups[i], p, docs)}
    IN IF open = {} THEN Append(groups, <<p>>) ELSE [groups EXCEPT ![Min(open)] = Append(@, p)]
grouped(policies, docs) ==
    LET groups[n \in 0 .. Len(policies)] ==
            IF n = 0 THEN <<>> ELSE with_another(groups[n - 1], policies[n], docs)
    IN groups[Len(policies)]

is_notice(p) == p.notice \in {"CORRECTION", "TERMINATION"}

\* Year in the label, official sources, evidence, latest publication.
strength(p, docs) ==
    LET documents == {Snapshot[r] : r \in related(p, docs)} IN
    <<IF p.years # {} \/ (\E d \in documents : d.years # {}) THEN 1 ELSE 0,
      Cardinality({s \in p.sources \cap DOMAIN docs : Snapshot[docs[s]].official}),
      Cardinality(p.evidence),
      IF documents = {} THEN 0 ELSE Max({d.published : d \in documents})>>
stronger(a, b) == \E i \in DOMAIN a : a[i] > b[i] /\ \A j \in 1..(i - 1) : a[j] = b[j]
\* Of equally strong ones the first.
by_strength(originals, docs) ==
    LET better(i, j) == stronger(strength(originals[i], docs), strength(originals[j], docs))
    IN {q \in (DOMAIN originals) \X (DOMAIN originals) : better(q[1], q[2]) \/ (q[1] < q[2] /\ ~better(q[2], q[1]))}
canonical_policy_primary(originals, docs) == Arranged(originals, by_strength(originals, docs))[1]

first_informative(values, unknown, default) ==
    LET known == Chosen(values, {i \in DOMAIN values : values[i] \notin unknown})
    IN IF known = <<>> THEN default ELSE known[1]
\* What is stated first stays.
over(merged, f) == [k \in DOMAIN merged \cup DOMAIN f |-> IF k \in DOMAIN merged THEN merged[k] ELSE f[k]]
overlay(functions) == FoldLeft(over, <<>>, functions)
ordered_unique(s) == Chosen(s, {i \in DOMAIN s : \A j \in 1..(i - 1) : s[j] # s[i]})

merge_consistent_policy_fields(primary, originals) ==
    [primary EXCEPT
        !.lists = [l \in Lists |-> UNION {p.lists[l] : p \in ToSet(originals)}],
        !.terms = overlay([i \in DOMAIN originals |-> originals[i].terms]),
        !.other = overlay([i \in DOMAIN originals |-> originals[i].other]),
        !.conditions = ordered_unique(FlattenSeq([i \in DOMAIN originals |-> originals[i].conditions])),
        !.budget = first_informative([i \in DOMAIN originals |-> originals[i].budget],
                                       {"UNKNOWN", "BUDGET_UNKNOWN"}, @),
        !.status = first_informative([i \in DOMAIN originals |-> originals[i].status],
                                       {"UNKNOWN", "STATUS_UNCONFIRMED"}, @)]

reconciled_status(primary, originals) ==
    LET statuses == {p.validation : p \in originals} IN
    IF Cardinality({<<p.validation, p.codes>> : p \in originals}) = 1 THEN primary.validation
    ELSE IF statuses \subseteq {"VALIDATED", "PARTIALLY_VALIDATED"} THEN "PARTIALLY_VALIDATED" ELSE "CONFLICTED"
source_conflict(originals) ==
    IF Cardinality({<<p.validation, p.codes>> : p \in originals}) > 1 THEN {"SOURCE_CONFLICT"} ELSE {}

\* Fault: of the others only their evidence is taken over.
merge_originals_primary(originals, docs) ==
    [canonical_policy_primary(originals, docs) EXCEPT
        !.evidence = UNION {p.evidence : p \in ToSet(originals)}]
merge_originals(originals, docs) ==
    LET all == ToSet(originals)
        primary == canonical_policy_primary(originals, docs)
        merged == [merge_consistent_policy_fields(primary, originals) EXCEPT
                     !.sources = UNION {p.sources : p \in all},
                     !.evidence = UNION {p.evidence : p \in all},
                     !.validation = reconciled_status(primary, all),
                     !.codes = UNION {p.codes : p \in all} \cup source_conflict(all),
                     !.recommendation_codes =
                         UNION {p.recommendation_codes : p \in all} \cup source_conflict(all)]
        fingerprint == semantic_policy_merge_fingerprint(all, docs)
    IN IF Len(originals) = 1 THEN merged
       ELSE [merged EXCEPT !.fingerprint = fingerprint, !.id = [merged |-> fingerprint],
                           !.members = {p.extractor_id : p \in all}]

\* By the day the programme starts, or ends: undated ones first.
notice_day(p) ==
    IF "start" \in DOMAIN p.terms THEN p.terms["start"]
    ELSE IF "end" \in DOMAIN p.terms THEN p.terms["end"] ELSE -1000
by_notice_day(notices) ==
    LET earlier(i, j) == notice_day(notices[i]) < notice_day(notices[j])
    IN {q \in (DOMAIN notices) \X (DOMAIN notices) : earlier(q[1], q[2]) \/ (q[1] < q[2] /\ ~earlier(q[2], q[1]))}

link_notice(result, p) ==
    LET linked == IF result = <<>> THEN p ELSE [p EXCEPT !.supersedes = Last(result).id]
    IN Append(result, IF p.notice = "TERMINATION" /\ p.codes = {}
                      THEN [linked EXCEPT !.validation = "CLOSED"] ELSE linked)

reconcile_group(group, docs) ==
    LET told == {i \in DOMAIN group : is_notice(group[i])}
        originals == Chosen(group, (DOMAIN group) \ told)
        notices == Chosen(group, told)
        kept == IF originals = <<>> THEN <<>> ELSE <<merge_originals(originals, docs)>>
    IN FoldLeft(link_notice, kept, Arranged(notices, by_notice_day(notices)))

conflicts_by_source(policies, s, docs) ==
    UNION {IF s \in p.sources \cup q.sources THEN material_policy_conflicts(p, q, docs) ELSE {} :
              p, q \in ToSet(policies)}

\* Fault: only the first of a policy's sources is looked at.
contested_first(p, policies, docs) ==
    conflicts_by_source(policies, CHOOSE s \in p.sources : TRUE, docs) # {}
contested(p, policies, docs) == \E s \in p.sources : conflicts_by_source(policies, s, docs) # {}
marked(p, policies, docs) ==
    IF ~contested(p, policies, docs) THEN p
    ELSE [p EXCEPT !.validation = "CONFLICTED", !.codes = @ \cup {"SOURCE_CONFLICT"},
                   !.recommendation_codes = @ \cup {"SOURCE_CONFLICT"}]

\* A contradiction marks every policy that shares a source with either side.
reconcile(policies, docs) ==
    LET groups == grouped(policies, docs)
        result == FlattenSeq([i \in DOMAIN groups |-> reconcile_group(groups[i], docs)])
    IN [i \in DOMAIN result |-> marked(result[i], policies, docs)]
=============================================================================
