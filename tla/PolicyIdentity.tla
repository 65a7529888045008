--------------------------- MODULE PolicyIdentity ---------------------------
(***************************************************************************)
(* When two policy candidates speak of one programme (policy_identity.py).  *)
(*                                                                         *)
(* A candidate keeps what it states in partial functions: terms (dates,     *)
(* amounts and rates, the field's name to its value) and other (repayment    *)
(* method and collateral, which are part of an identity and are never       *)
(* compared); a field that is not stated is not in the domain.  conditions  *)
(* is a list of rules [field, op, value].  Names, providers, list entries   *)
(* and the words of rules are in their normalized form.                     *)
(* docs maps the sources in hand to a revision, Snapshot a revision to its  *)
(* document.                                                                *)
(***************************************************************************)
EXTENDS Integers, SequencesExt, FiniteSetsExt

CONSTANTS Snapshot,  \* per revision: [source, authority, host, years, ...]
          Quote,     \* per quote: [years, says, closed, exhausted]
          Falsy      \* the values of rules that are false in Python: zero, no value

Terms == {"start", "end", "limit", "rate", "discount", "coverage", "fee", "grace", "maturity"}
DateFields == {"start", "end"}
Lists == {"regions", "purpose", "inclusions", "exclusions"}

related(p, docs) == {docs[s] : s \in p.sources \cap DOMAIN docs}

\* The one official authority behind the sources, else their one host, else
\* the label of the candidate.
policy_provider_authority(p, docs) ==
    LET authorities == {Snapshot[r].authority : r \in related(p, docs)} \ {""}
        hosts == {Snapshot[r].host : r \in related(p, docs)} \ {""}
    IN CASE Cardinality(authorities) = 1 -> authorities
         [] Cardinality(authorities) # 1 /\ Cardinality(hosts) = 1 -> hosts
         [] OTHER -> {p.provider}

program_years(p, docs) ==
    LET preferred == p.years \cup UNION {Snapshot[r].years : r \in related(p, docs)}
    IN IF preferred # {} THEN preferred ELSE UNION {Quote[e.quote].years : e \in p.evidence}

status_class(p) ==
    IF p.status \in {"CLOSED", "BUDGET_EXHAUSTED"} \/ p.notice = "TERMINATION" THEN "CLOSED"
    ELSE IF p.status \in {"OPEN", "SCHEDULED"} THEN p.status ELSE "UNKNOWN"

\* A false value is written as nothing.
rendered(c) == [op |-> c.op, value |-> {c.value} \ Falsy]
\* Of several rules for one field the last.
eligibility_map(p) ==
    LET rules(f) == {i \in DOMAIN p.conditions : p.conditions[i].field = f}
    IN [f \in {c.field : c \in ToSet(p.conditions)} |-> rendered(p.conditions[Max(rules(f))])]
known_rules(p) == {[field |-> f, rule |-> eligibility_map(p)[f]] : f \in DOMAIN eligibility_map(p)}

\* Amounts and rates of zero are written like those not stated.
written(terms) ==
    [f \in {f \in DOMAIN terms : f \in DateFields \/ terms[f] # 0} |-> terms[f]]

\* Fault: who may apply is left out.
semantic_policy_identity_parts_brief(p, docs) ==
    [authority |-> policy_provider_authority(p, docs), name |-> p.name, type |-> p.type,
     years |-> program_years(p, docs), lists |-> p.lists, class |-> status_class(p),
     terms |-> written(p.terms), other |-> p.other, conditions |-> {}]
\* The notice's kind and the budget are not part of an identity.
semantic_policy_identity_parts(p, docs) ==
    [authority |-> policy_provider_authority(p, docs), name |-> p.name, type |-> p.type,
     years |-> program_years(p, docs), lists |-> p.lists, class |-> status_class(p),
     terms |-> written(p.terms), other |-> p.other, conditions |-> known_rules(p)]

canonicalize_policy_identity(p, docs) ==
    [p EXCEPT !.fingerprint = semantic_policy_identity_parts(p, docs),
              !.id = [of |-> "one", facts |-> semantic_policy_identity_parts(p, docs)]]

populated(functions) ==
    LET keys == UNION {DOMAIN f : f \in functions}
    IN [k \in keys |-> {f[k] : f \in {f \in functions : k \in DOMAIN f}}]

\* Unlike the identity of one candidate, that of a merge writes a zero out.
semantic_policy_merge_fingerprint(ps, docs) ==
    [authority |-> UNION {policy_provider_authority(p, docs) : p \in ps},
     name |-> {p.name : p \in ps}, type |-> {p.type : p \in ps},
     years |-> UNION {program_years(p, docs) : p \in ps},
     lists |-> [l \in Lists |-> UNION {p.lists[l] : p \in ps}],
     class |-> {status_class(p) : p \in ps},
     terms |-> populated({p.terms : p \in ps}), other |-> populated({p.other : p \in ps}),
     conditions |-> UNION {known_rules(p) : p \in ps}]

-----------------------------------------------------------------------------
compatible_sets(left, right) == left = {} \/ right = {} \/ left = right
differing(left, right) == {k \in DOMAIN left \cap DOMAIN right : left[k] # right[k]}
compatible_classes(p, q) == "UNKNOWN" \in {status_class(p), status_class(q)} \/ status_class(p) = status_class(q)
same_programme(p, q, docs) ==
    p.name = q.name /\ policy_provider_authority(p, docs) = policy_provider_authority(q, docs)

\* What one of the two leaves open never tells them apart: the relation is not
\* transitive.
policies_semantically_equivalent(p, q, docs) ==
    /\ p.type = q.type
    /\ same_programme(p, q, docs)
    /\ compatible_sets(program_years(p, docs), program_years(q, docs))
    /\ \A l \in Lists : compatible_sets(p.lists[l], q.lists[l])
    /\ compatible_classes(p, q)
    /\ differing(p.terms, q.terms) = {} /\ differing(eligibility_map(p), eligibility_map(q)) = {}

\* Purposes and exclusions tell programmes apart without being a conflict.
material_policy_conflicts(p, q, docs) ==
    IF ~same_programme(p, q, docs) THEN {}
    ELSE differing(p.terms, q.terms)
           \cup {f \in {"policy_type"} : p.type # q.type}
           \cup {f \in {"program_year"} : ~compatible_sets(program_years(p, docs), program_years(q, docs))}
           \cup {f \in {"region"} : ~compatible_sets(p.lists["regions"], q.lists["regions"])}
           \cup {f \in {"application_status"} : ~compatible_classes(p, q)}
           \cup {f \in {"eligible_business_category"} :
                   \/ differing(eligibility_map(p), eligibility_map(q)) # {}
                   \/ ~compatible_sets(p.lists["inclusions"], q.lists["inclusions"])}
=============================================================================
