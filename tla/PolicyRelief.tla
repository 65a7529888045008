---------------------------- MODULE PolicyRelief ----------------------------
(***************************************************************************)
(* Eligibility, benefit and ranking of the validated policies               *)
(* (relief/pipeline.py, eligibility_rules.py, region_normalizer.py).        *)
(*                                                                         *)
(* A store keeps its facts as a partial function.  The monthly simulation    *)
(* is an operator of the model: of the modified store it knows what is paid *)
(* in, drawn, discounted and deferred.                                      *)
(***************************************************************************)
EXTENDS PolicyValidation

CONSTANTS Store,          \* [region, industry, facts, loans, cash, minimum_cash]
          Baseline,       \* [burn, interest, lowest]: the burn day (or -1), the interest paid
          Simulate(_),    \* [burn, interest] of the modified store
          Amounts         \* the days, amounts and rates terms may say; 0 is what is left out

HorizonEnd == 28
SizeTerms == {"SME"}
AllowedFields == {"industry", "age", "revenue", "employees"}
Methods == {"BULLET", "EQUAL_PRINCIPAL", "AMORTIZING"}

Operators == {"EQ", "NE", "IN", "NOT_IN", "GE", "GT", "LE", "LT", "EXISTS"}

larger(a, b) == IF a > b THEN a ELSE b
smaller(a, b) == IF a < b THEN a ELSE b

-----------------------------------------------------------------------------
(* Regions.  A label's code is a sequence, <<"11">> for a city and <<"11",   *)
(* "680">> for its district; the canonical identifier is written "KR-"       *)
(* followed by the code without a separator; what cannot be read is <<>>.  *)

\* Cut at the hyphens.
canonical_region_id(code) == <<"KR", code>>

\* Text that begins with a region's identifier and a hyphen.
below(region, other) == IsStrictPrefix(other, region)

regions_match(code, declared) ==
    IF declared = {} THEN "YES"
    ELSE LET known == {canonical_region_id(d) : d \in declared \ {<<>>}}
             store == canonical_region_id(code)
         IN CASE code = <<>> \/ known = {} -> "UNKNOWN"
              [] code # <<>> /\ store \in known -> "YES"
              [] OTHER -> IF \E r \in known : below(store, r) \/ below(r, store) THEN "YES" ELSE "NO"

-----------------------------------------------------------------------------
(* Eligibility.                                                             *)

compare(actual, op, expected) ==
    CASE op = "EQ" -> actual = expected
      [] op = "NE" -> actual # expected
      [] op = "IN" -> actual \in expected
      [] op = "NOT_IN" -> actual \notin expected
      [] op = "GE" -> actual >= expected
      [] op = "GT" -> actual > expected
      [] op = "LT" -> actual < expected
      [] op = "LE" -> actual <= expected

condition_status(c) ==
    CASE c.field \notin AllowedFields \/ c.op \notin Operators -> "NEEDS_INFORMATION"
      [] c.field \in AllowedFields /\ c.op = "EXISTS" ->
            IF (c.field \in DOMAIN Store.facts) = c.value THEN "PASSED" ELSE "INELIGIBLE"
      [] OTHER -> IF c.field \notin DOMAIN Store.facts THEN "NEEDS_INFORMATION"
                  ELSE IF compare(Store.facts[c.field], c.op, c.value) THEN "PASSED" ELSE "INELIGIBLE"

\* The first in the list that does not pass.
conditions_status(conditions) ==
    LET halting == {i \in DOMAIN conditions : condition_status(conditions[i]) # "PASSED"}
    IN IF halting = {} THEN "ELIGIBLE_ON_DECLARED_RULES" ELSE condition_status(conditions[Min(halting)])

evaluate_policy_eligibility_detailed(p) ==
    LET region == regions_match(Store.region, p.lists["regions"])
        included == p.lists["inclusions"] \ SizeTerms
    IN CASE p.budget = "CLOSED" -> "CLOSED"
         [] p.budget # "CLOSED" /\ region = "UNKNOWN" -> "NEEDS_INFORMATION"
         [] p.budget # "CLOSED" /\ region = "NO" -> "INELIGIBLE"
         [] OTHER -> IF \/ Store.industry \in p.lists["exclusions"] \ SizeTerms
                        \/ included # {} /\ Store.industry \notin included
                     THEN "INELIGIBLE" ELSE conditions_status(p.conditions)

\* Fault: a candidate that is only partially validated passes.
gate_partly(p) ==
    CASE p.validation = "CLOSED" -> "CLOSED"
      [] p.validation \notin {"CLOSED", "VALIDATED", "PARTIALLY_VALIDATED"} -> "NOT_VALIDATED"
      [] OTHER -> IF p.status \in {"BUDGET_EXHAUSTED", "SCHEDULED", "STATUS_UNCONFIRMED"} THEN p.status
                  ELSE IF p.budget \in {"UNKNOWN", "BUDGET_UNKNOWN"} THEN "BUDGET_UNKNOWN" ELSE "PASSED"
gate(p) ==
    CASE p.validation = "CLOSED" -> "CLOSED"
      [] p.validation \notin {"CLOSED", "VALIDATED"} -> "NOT_VALIDATED"
      [] OTHER -> IF p.status \in {"BUDGET_EXHAUSTED", "SCHEDULED", "STATUS_UNCONFIRMED"} THEN p.status
                  ELSE IF p.budget \in {"UNKNOWN", "BUDGET_UNKNOWN"} THEN "BUDGET_UNKNOWN" ELSE "PASSED"

eligibility(p) ==
    IF gate(p) # "PASSED" THEN gate(p)
    ELSE CASE "end" \in DOMAIN p.terms /\ Today > p.terms["end"] -> "CLOSED"
           [] ~("end" \in DOMAIN p.terms /\ Today > p.terms["end"])
                /\ "start" \in DOMAIN p.terms /\ Today < p.terms["start"] -> "NOT_OPEN"
           [] OTHER -> evaluate_policy_eligibility_detailed(p)

-----------------------------------------------------------------------------
(* Benefit and rank.                                                        *)

term(p, field) == IF field \in DOMAIN p.terms THEN p.terms[field] ELSE 0
required_funding == larger(0, Store.minimum_cash - Baseline.lowest)

\* Days, money and points are numbers, whatever is simulated.
ASSUME ReliefAssumption ==
    /\ Amounts \subseteq Int /\ 0 \in Amounts
    /\ {Store.minimum_cash, Baseline.lowest, Baseline.burn, Baseline.interest} \subseteq Int
    /\ \A funded \in [inflow : Amounts \cup {required_funding}, loan : BOOLEAN, deferred : Amounts, discount : Amounts] :
          {Simulate(funded).burn, Simulate(funded).interest} \subseteq Int

\* The draw never exceeds the gap; a loan is drawn only with its rate, its
\* maturity and a known method.
funding(p) == smaller(term(p, "limit"), required_funding)
drawn(p) == /\ p.type = "LOAN_SUPPORT" /\ funding(p) > 0
            /\ "rate" \in DOMAIN p.terms /\ term(p, "maturity") # 0
            /\ "method" \in DOMAIN p.other /\ p.other["method"] \in Methods
apply_funding_terms(p) ==
    [inflow |-> IF p.type = "GRANT" \/ drawn(p) THEN funding(p) ELSE 0,
     loan |-> drawn(p),
     deferred |-> IF p.type = "REPAYMENT_DEFERRAL" THEN term(p, "grace") ELSE 0,
     discount |-> term(p, "discount")]

runway_extension_days(p) ==
    LET burn == Simulate(apply_funding_terms(p)).burn IN
    IF Baseline.burn = -1 THEN 0
    ELSE larger(0, (IF burn = -1 THEN HorizonEnd ELSE burn) - Baseline.burn)
interest_savings(p) == larger(0, Baseline.interest - Simulate(apply_funding_terms(p)).interest)

\* In thirds of a point; interest is counted in units of 100,000.
score(p) ==
    300 + (IF Baseline.burn # -1 /\ ("start" \in DOMAIN p.terms => p.terms["start"] <= Baseline.burn)
           THEN 60 ELSE 0)
        + smaller(90, runway_extension_days(p)) + smaller(60, 3 * interest_savings(p))
        - (IF "collateral" \in DOMAIN p.other /\ p.other["collateral"] THEN 30 ELSE 0)
        + smaller(30, 3 * term(p, "grace"))

\* By falling score; equal scores by identifier, a hash: in any order.
by_score(places, policies) ==
    LET better(i, j) == score(policies[places[i]]) > score(policies[places[j]])
    IN {q \in (DOMAIN places) \X (DOMAIN places) : better(q[1], q[2]) \/ (q[1] < q[2] /\ ~better(q[2], q[1]))}
recommend(policies) ==
    LET eligible == Chosen([i \in DOMAIN policies |-> i],
                           {i \in DOMAIN policies : eligibility(policies[i]) = "ELIGIBLE_ON_DECLARED_RULES"})
    IN Arranged(eligible, by_score(eligible, policies))
=============================================================================
