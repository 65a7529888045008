---------------------------- MODULE BokDecision ----------------------------
(***************************************************************************)
(* What a document of the central bank decides (source_snapshot/bok.py).    *)
(*                                                                         *)
(* A document is [dated, clauses]; a clause is what the patterns find in    *)
(* it: [language, kinds, rates, changes, start], with language for a base   *)
(* rate named in the context of a decision, kinds for the words of holding, *)
(* raising and lowering, changes for its pairs "from ... to ...".           *)
(***************************************************************************)
EXTENDS Integers, FiniteSets, SequencesExt

the(S) == CHOOSE x \in S : TRUE

deciding(clause) == clause.language /\ Cardinality(clause.kinds) = 1

\* Why a deciding clause is no candidate, "" if it is one.
clause_failure(clause) ==
    IF clause.kinds = {"HOLD"}
    THEN CASE clause.rates = {} -> "BOK_CURRENT_RATE_MISSING"
           [] Cardinality(clause.rates) = 1 -> ""
           [] OTHER -> "BOK_CURRENT_RATE_AMBIGUOUS"
    ELSE CASE Cardinality(clause.changes) = 1 -> ""
           [] clause.changes = {} /\ Cardinality(clause.rates) < 2 -> "BOK_RATE_CHANGE_VALUES_INCOMPLETE"
           [] OTHER -> "BOK_RATE_CHANGE_VALUES_AMBIGUOUS"

decision(clause) ==
    IF clause.kinds = {"HOLD"} THEN [kind |-> "HOLD", rate |-> the(clause.rates), from |-> <<>>]
    ELSE [kind |-> the(clause.kinds), rate |-> the(clause.changes)[2], from |-> <<the(clause.changes)[1]>>]

ambiguity(decisions) ==
    IF Cardinality(decisions) <= 1 THEN {}
    ELSE IF \E d \in decisions : d.kind # "HOLD" THEN {"BOK_RATE_CHANGE_VALUES_AMBIGUOUS"}
    ELSE {"BOK_CURRENT_RATE_AMBIGUOUS"}

\* The assessment without an official figure: [usable, reasons, rate].
bok_decision(document) ==
    LET read == {c \in document.clauses : deciding(c)}
        decisions == {decision(c) : c \in {c \in read : clause_failure(c) = ""}}
        failures == {clause_failure(c) : c \in read} \ {""}
        reasons == (IF document.dated THEN {} ELSE {"BOK_DECISION_DATE_MISSING"})
                   \cup (IF \E c \in document.clauses : c.language THEN {} ELSE {"BOK_DECISION_LANGUAGE_MISSING"})
                   \cup (IF decisions # {} THEN ambiguity(decisions)
                         ELSE IF failures = {} THEN {"BOK_CURRENT_RATE_MISSING"} ELSE failures)
    IN [usable |-> reasons = {}, reasons |-> reasons,
        rate |-> IF reasons = {} THEN <<the(decisions).rate>> ELSE <<>>]

\* parse_bok_decision with the rate the data provider gives.
assess_bok(document, official) ==
    LET said == bok_decision(document)
    IN IF said.usable /\ said.rate[1] # official
       THEN [said EXCEPT !.usable = FALSE, !.reasons = {"BOK_RATE_OFFICIAL_DATA_CONFLICT"}]
       ELSE said
=============================================================================
