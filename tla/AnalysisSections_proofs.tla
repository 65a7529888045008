------------------------ MODULE AnalysisSections_proofs ------------------------
(***************************************************************************)
(* Proofs about AnalysisSections for any stores, requests, answers and      *)
(* coefficients: what the overall status of a result may be relied on for,  *)
(* what evidence its figures rest on and what they add up to.               *)
(***************************************************************************)
EXTENDS AnalysisSections, SequenceLemmas

Statuses == {"NOT_STARTED", "COMPLETED", "PARTIAL", "FAILED", "SKIPPED"}
Stages == {"OFFICIAL_DATA", "RESEARCH", "BASELINE", "SIGNALS", "TREND", "SCENARIOS", "POLICIES",
           "RESULT", "DONE", "RAISED"}
BeforeFinance == {"OFFICIAL_DATA", "RESEARCH", "BASELINE", "SIGNALS", "TREND"}
AfterFinance == {"POLICIES", "RESULT", "DONE"}

Typed == stage \in Stages /\ sections \in [Sections -> Statuses] /\ DOMAIN scenarios = Scenarios

\* A section that is not marked incomplete misses nothing.
DataIsWhole ==
    /\ sections["OFFICIAL_DATA"] \notin {"PARTIAL", "FAILED"} => official.missing = {} /\ DOMAIN official.errors = {}
    /\ sections["RESEARCH"] # "PARTIAL" => ~research.errors /\ ~research.partial
    /\ sections["BASELINE"] = "COMPLETED" => base.status = "COMPLETED"
    /\ stage \in {"SIGNALS", "TREND", "SCENARIOS"} \cup AfterFinance =>
          sections["BASELINE"] \in {"COMPLETED", "PARTIAL", "FAILED"}

\* The layers stored are the trend and the scenarios calculated, in order.
Calculated(names) ==
    /\ stored = {"TREND"} \cup names
    /\ trend_scenario # <<>>
    /\ \A name \in Scenarios : name \in names <=> scenarios[name] # <<>>

LayersAreStored ==
    /\ stage \in BeforeFinance => stored = {} /\ trend_scenario = <<>> /\ \A name \in Scenarios : scenarios[name] = <<>>
    /\ stage = "SCENARIOS" =>
          Calculated({}) \/ Calculated({"BASELINE"}) \/ Calculated({"BASELINE", "LOW_IMPACT"})
    /\ stage \in AfterFinance =>
          \/ sections["FINANCE"] \in {"FAILED", "SKIPPED"} /\ stored # Layers
          \/ sections["FINANCE"] = "COMPLETED" /\ Calculated(Scenarios)
    /\ stage \in {"RESULT", "DONE"} =>
          \/ sections["POLICIES"] \in {"COMPLETED", "PARTIAL"}
          \/ scenarios["BASELINE"] = <<>>

\* The result is put together from what the run has got.
ResultWith(incompletes, events) ==
    result = <<[status |-> overall_status(sections),
                incomplete |-> IF overall_status(sections) = "PARTIAL" THEN incompletes ELSE {},
                comparisons |-> comparisons, events |-> events]>>

ResultIsAssembled ==
    /\ stage # "DONE" => result = <<>>
    /\ stage = "DONE" => \E events : ResultWith(incomplete(sections), events)

IInv == Typed /\ DataIsWhole /\ LayersAreStored /\ ResultIsAssembled

-----------------------------------------------------------------------------
LEMMA InvInit == Init => IInv
<1> SUFFICES ASSUME Init PROVE IInv
  OBVIOUS
<1>1. Typed
  BY DEF Init, Typed, Stages, Statuses, Sections
<1>2. DataIsWhole
  BY DEF Init, DataIsWhole, Sections, settled, Nothing, NoResearch, AfterFinance
<1>3. LayersAreStored
  BY DEF Init, LayersAreStored, AfterFinance
<1>4. ResultIsAssembled
  BY DEF Init, ResultIsAssembled
<1> QED BY <1>1, <1>2, <1>3, <1>4 DEF IInv

-----------------------------------------------------------------------------
(* Every action keeps the invariant.                                        *)

\* What the data section reports of the bundle it collected.
LEMMA BundleStatus ==
    ASSUME NEW asked, NEW answers,
           official_bundle(asked, answers).status \notin {"PARTIAL", "FAILED"}
    PROVE  /\ official_bundle(asked, answers).missing = {}
           /\ DOMAIN official_bundle(asked, answers).errors = {}
<1>1. CASE asked = <<>>
  BY <1>1 DEF official_bundle, settled, Nothing
<1>2. CASE asked # <<>>
  <2> DEFINE got == FoldLeft(collect, Nothing,
                             [k \in DOMAIN asked |-> [request |-> asked[k], answer |-> answers[k]]])
  <2>1. official_bundle(asked, answers) = judged(asked, got)
    BY <1>2 DEF official_bundle
  <2> HIDE DEF got
  <2>2. /\ judged(asked, got).status = bundle_status(asked, got)
        /\ judged(asked, got).missing = got.missing
        /\ judged(asked, got).errors = got.errors
    BY DEF judged, settled
  <2>3. bundle_status(asked, got) \notin {"PARTIAL", "FAILED"} => got.missing = {} /\ DOMAIN got.errors = {}
    BY DEF bundle_status
  <2> QED BY <2>1, <2>2, <2>3
<1> QED BY <1>1, <1>2

LEMMA BundleStatuses ==
    ASSUME NEW asked, NEW answers
    PROVE  official_bundle(asked, answers).status \in Statuses
<1>1. CASE asked = <<>>
  BY <1>1 DEF official_bundle, settled, Statuses
<1>2. CASE asked # <<>>
  <2> DEFINE got == FoldLeft(collect, Nothing,
                             [k \in DOMAIN asked |-> [request |-> asked[k], answer |-> answers[k]]])
  <2>1. official_bundle(asked, answers) = judged(asked, got)
    BY <1>2 DEF official_bundle
  <2> HIDE DEF got
  <2>2. judged(asked, got).status = bundle_status(asked, got)
    BY DEF judged, settled
  <2>3. bundle_status(asked, got) \in Statuses
    BY DEF bundle_status, Statuses
  <2> QED BY <2>1, <2>2, <2>3
<1> QED BY <1>1, <1>2

LEMMA OfficialDataStep == IInv /\ OfficialDataSection => IInv'
<1> SUFFICES ASSUME IInv, OfficialDataSection PROVE IInv'
  OBVIOUS
<1> USE DEF IInv
<1>1. /\ stage = "OFFICIAL_DATA" /\ stage' = "RESEARCH"
      /\ sections' = [sections EXCEPT !["OFFICIAL_DATA"] = official'.status]
      /\ UNCHANGED <<research, base, trend_scenario, scenarios, stored, result>>
  BY DEF OfficialDataSection, finish, go
<1>2. PICK answers : official' = official_bundle(requests, answers)
  BY DEF OfficialDataSection
<1>3. official'.status \in Statuses
  BY <1>2, BundleStatuses
<1>4. official'.status \notin {"PARTIAL", "FAILED"} => official'.missing = {} /\ DOMAIN official'.errors = {}
  BY <1>2, BundleStatus
<1>5. Typed'
  BY <1>1, <1>3 DEF Typed, Stages, Sections
<1>6. DataIsWhole'
  BY <1>1, <1>3, <1>4 DEF Typed, DataIsWhole, Sections, AfterFinance
<1>7. LayersAreStored'
  BY <1>1 DEF LayersAreStored, BeforeFinance, AfterFinance
<1>8. ResultIsAssembled'
  BY <1>1 DEF ResultIsAssembled
<1> QED BY <1>5, <1>6, <1>7, <1>8

LEMMA ResearchStep == IInv /\ ResearchSection => IInv'
<1> SUFFICES ASSUME IInv, ResearchSection PROVE IInv'
  OBVIOUS
<1> USE DEF IInv
<1>1. /\ stage = "RESEARCH" /\ stage' = "BASELINE"
      /\ sections' = [sections EXCEPT !["RESEARCH"] =
                          IF research'.errors \/ research'.partial THEN "PARTIAL" ELSE "COMPLETED"]
      /\ UNCHANGED <<official, base, trend_scenario, scenarios, stored, result>>
  BY DEF ResearchSection, finish, go
<1>5. Typed'
  BY <1>1 DEF Typed, Stages, Statuses, Sections
<1>6. DataIsWhole'
  BY <1>1 DEF Typed, DataIsWhole, Sections, AfterFinance
<1>7. LayersAreStored'
  BY <1>1 DEF LayersAreStored, BeforeFinance, AfterFinance
<1>8. ResultIsAssembled'
  BY <1>1 DEF ResultIsAssembled
<1> QED BY <1>5, <1>6, <1>7, <1>8

LEMMA BaselineStep == IInv /\ BaselineSection => IInv'
<1> SUFFICES ASSUME IInv, BaselineSection PROVE IInv'
  OBVIOUS
<1> USE DEF IInv
<1>1. /\ stage = "BASELINE" /\ stage' = "SIGNALS"
      /\ sections' = [sections EXCEPT !["BASELINE"] =
                          IF base'.status \in {"COMPLETED", "PARTIAL"} THEN base'.status ELSE "FAILED"]
      /\ UNCHANGED <<official, research, trend_scenario, scenarios, stored, result>>
  BY DEF BaselineSection, finish, go
<1>5. Typed'
  BY <1>1 DEF Typed, Stages, Statuses, Sections
<1>6. DataIsWhole'
  BY <1>1 DEF Typed, DataIsWhole, Sections, AfterFinance
<1>7. LayersAreStored'
  BY <1>1 DEF LayersAreStored, BeforeFinance, AfterFinance
<1>8. ResultIsAssembled'
  BY <1>1 DEF ResultIsAssembled
<1> QED BY <1>5, <1>6, <1>7, <1>8

LEMMA SignalsStep == IInv /\ SignalsSection => IInv'
<1> SUFFICES ASSUME IInv, SignalsSection PROVE IInv'
  OBVIOUS
<1> USE DEF IInv
<1>1. /\ stage = "SIGNALS" /\ stage' = "TREND"
      /\ sections' = [sections EXCEPT !["SIGNALS"] = "COMPLETED"]
      /\ UNCHANGED <<official, research, base, trend_scenario, scenarios, stored, result>>
  BY DEF SignalsSection, finish, go
<1>5. Typed'
  BY <1>1 DEF Typed, Stages, Statuses, Sections
<1>6. DataIsWhole'
  BY <1>1 DEF Typed, DataIsWhole, Sections, AfterFinance
<1>7. LayersAreStored'
  BY <1>1 DEF LayersAreStored, BeforeFinance, AfterFinance
<1>8. ResultIsAssembled'
  BY <1>1 DEF ResultIsAssembled
<1> QED BY <1>5, <1>6, <1>7, <1>8

LEMMA NoBaselineStep == IInv /\ NoBaseline => IInv'
<1> SUFFICES ASSUME IInv, NoBaseline PROVE IInv'
  OBVIOUS
<1> USE DEF IInv
<1>1. /\ stage = "SIGNALS" /\ stage' = "POLICIES"
      /\ sections' = [sections EXCEPT !["SIGNALS"] = "SKIPPED", !["FINANCE"] = "SKIPPED"]
      /\ UNCHANGED <<official, research, base, trend_scenario, scenarios, stored, result>>
  BY DEF NoBaseline, go
<1>5. Typed'
  BY <1>1 DEF Typed, Stages, Statuses, Sections
<1>6. DataIsWhole'
  BY <1>1 DEF Typed, DataIsWhole, Sections, AfterFinance
<1>7. LayersAreStored'
  <2>1. stored' = {} /\ sections'["FINANCE"] = "SKIPPED"
    BY <1>1 DEF LayersAreStored, BeforeFinance, Typed, Sections
  <2> QED BY <1>1, <2>1 DEF LayersAreStored, BeforeFinance, AfterFinance, Layers
<1>8. ResultIsAssembled'
  BY <1>1 DEF ResultIsAssembled
<1> QED BY <1>5, <1>6, <1>7, <1>8

LEMMA TrendStep == IInv /\ TrendScenario => IInv'
<1> SUFFICES ASSUME IInv, TrendScenario PROVE IInv'
  OBVIOUS
<1> USE DEF IInv
<1>1. /\ stage = "TREND"
      /\ UNCHANGED <<official, research, base, scenarios, result>>
      /\ stored = {} /\ \A name \in Scenarios : scenarios[name] = <<>>
  BY DEF TrendScenario, LayersAreStored, BeforeFinance
<1>2. CASE trend_scenario' # <<>> /\ stored' = stored \cup {"TREND"} /\ stage' = "SCENARIOS" /\ UNCHANGED sections
  <2>1. Typed'
    BY <1>1, <1>2 DEF Typed, Stages
  <2>2. DataIsWhole'
    BY <1>1, <1>2 DEF DataIsWhole, AfterFinance
  <2>3. Calculated({})'
    BY <1>1, <1>2 DEF Calculated
  <2>4. LayersAreStored'
    BY <1>2, <2>3 DEF LayersAreStored, BeforeFinance, AfterFinance
  <2>5. ResultIsAssembled'
    BY <1>1, <1>2 DEF ResultIsAssembled
  <2> QED BY <2>1, <2>2, <2>4, <2>5
<1>3. CASE /\ sections' = [sections EXCEPT !["FINANCE"] = "FAILED"]
           /\ stage' = "POLICIES" /\ UNCHANGED stored
  <2>1. Typed'
    BY <1>1, <1>3 DEF Typed, Stages, Statuses, Sections
  <2>2. DataIsWhole'
    BY <1>1, <1>3 DEF Typed, DataIsWhole, Sections, AfterFinance
  <2>3. stored' = {} /\ sections'["FINANCE"] = "FAILED"
    BY <1>1, <1>3 DEF Typed, Sections
  <2>4. LayersAreStored'
    BY <1>3, <2>3 DEF LayersAreStored, BeforeFinance, AfterFinance, Layers
  <2>5. ResultIsAssembled'
    BY <1>1, <1>3 DEF ResultIsAssembled
  <2> QED BY <2>1, <2>2, <2>4, <2>5
<1> QED BY <1>2, <1>3 DEF TrendScenario, finish, go

\* The layers are calculated in their order.
LEMMA NextInOrder ==
    ASSUME NEW names \in {{}, {"BASELINE"}, {"BASELINE", "LOW_IMPACT"}}, Calculated(names)
    PROVE  /\ names = {} => next_scenario = "BASELINE"
           /\ names = {"BASELINE"} => next_scenario = "LOW_IMPACT"
           /\ names = {"BASELINE", "LOW_IMPACT"} => next_scenario = "HIGH_IMPACT"
<1> DEFINE First(i) == /\ scenarios[Order[i]] = <<>>
                       /\ \A j \in 1 .. i - 1 : scenarios[Order[j]] # <<>>
<1>1. /\ DOMAIN Order = {1, 2, 3}
      /\ Order[1] = "BASELINE" /\ Order[2] = "LOW_IMPACT" /\ Order[3] = "HIGH_IMPACT"
      /\ Scenarios = {"BASELINE", "LOW_IMPACT", "HIGH_IMPACT"}
  BY DEF Order, Scenarios
<1>2. First(1) <=> scenarios["BASELINE"] = <<>>
  BY <1>1
<1>3. First(2) <=> scenarios["LOW_IMPACT"] = <<>> /\ scenarios["BASELINE"] # <<>>
  <2>1. 1 .. 2 - 1 = {1}
    OBVIOUS
  <2> QED BY <1>1, <2>1
<1>4. First(3) <=> /\ scenarios["HIGH_IMPACT"] = <<>>
                   /\ scenarios["BASELINE"] # <<>> /\ scenarios["LOW_IMPACT"] # <<>>
  <2>1. 1 .. 3 - 1 = {1, 2}
    OBVIOUS
  <2> QED BY <1>1, <2>1
<1>5. next_scenario = Order[CHOOSE i \in DOMAIN Order : First(i)]
  BY DEF next_scenario
<1> HIDE DEF First
<1>6. CASE names = {}
  <2>1. First(1) /\ ~First(2) /\ ~First(3)
    BY <1>1, <1>2, <1>3, <1>4, <1>6 DEF Calculated
  <2>2. (CHOOSE i \in DOMAIN Order : First(i)) = 1
    BY <1>1, <2>1
  <2> QED BY <1>1, <1>5, <1>6, <2>2
<1>7. CASE names = {"BASELINE"}
  <2>1. ~First(1) /\ First(2) /\ ~First(3)
    BY <1>1, <1>2, <1>3, <1>4, <1>7 DEF Calculated
  <2>2. (CHOOSE i \in DOMAIN Order : First(i)) = 2
    BY <1>1, <2>1
  <2> QED BY <1>1, <1>5, <1>7, <2>2
<1>8. CASE names = {"BASELINE", "LOW_IMPACT"}
  <2>1. ~First(1) /\ ~First(2) /\ First(3)
    BY <1>1, <1>2, <1>3, <1>4, <1>8 DEF Calculated
  <2>2. (CHOOSE i \in DOMAIN Order : First(i)) = 3
    BY <1>1, <2>1
  <2> QED BY <1>1, <1>5, <1>8, <2>2
<1> QED BY <1>6, <1>7, <1>8

LEMMA ScenarioStep == IInv /\ NextScenario => IInv'
<1> SUFFICES ASSUME IInv, NextScenario PROVE IInv'
  OBVIOUS
<1> USE DEF IInv
<1>1. /\ stage = "SCENARIOS"
      /\ UNCHANGED <<official, research, base, trend_scenario, result>>
  BY DEF NextScenario
<1>2. PICK name \in {next_scenario} :
         /\ scenarios' = [scenarios EXCEPT ![name] = financial_scenario(store, base, adjusted(name), features.months)]
         /\ \/ /\ scenarios'[name] # <<>>
               /\ stored' = stored \cup {name}
               /\ IF name = Order[Len(Order)] THEN finish("FINANCE", "COMPLETED") /\ go("POLICIES")
                  ELSE UNCHANGED <<sections, stage>>
            \/ finish("FINANCE", "FAILED") /\ go("POLICIES") /\ UNCHANGED stored
  BY DEF NextScenario
<1>3. PICK names \in {{}, {"BASELINE"}, {"BASELINE", "LOW_IMPACT"}} : Calculated(names)
  BY <1>1 DEF LayersAreStored
<1>4. /\ names = {} => name = "BASELINE"
      /\ names = {"BASELINE"} => name = "LOW_IMPACT"
      /\ names = {"BASELINE", "LOW_IMPACT"} => name = "HIGH_IMPACT"
  BY <1>2, <1>3, NextInOrder
<1>5. name \in Scenarios /\ DOMAIN scenarios = Scenarios /\ Order[Len(Order)] = "HIGH_IMPACT"
  BY <1>3, <1>4 DEF Typed, Scenarios, Order
<1>6. DOMAIN scenarios' = Scenarios /\ \A other \in Scenarios \ {name} : scenarios'[other] = scenarios[other]
  BY <1>2, <1>5
<1>7. CASE finish("FINANCE", "FAILED") /\ go("POLICIES") /\ UNCHANGED stored
  <2> USE DEF finish, go
  <2>1. Typed'
    BY <1>6, <1>7 DEF Typed, Stages, Statuses, Sections
  <2>2. DataIsWhole'
    BY <1>1, <1>7 DEF Typed, DataIsWhole, Sections, AfterFinance
  <2>3. stored' # Layers
    BY <1>3, <1>7 DEF Calculated, Layers, Scenarios
  <2>4. sections'["FINANCE"] = "FAILED"
    BY <1>7 DEF Typed, Sections
  <2>5. LayersAreStored'
    BY <1>7, <2>3, <2>4 DEF LayersAreStored, BeforeFinance, AfterFinance
  <2>6. ResultIsAssembled'
    BY <1>1, <1>7 DEF ResultIsAssembled
  <2> QED BY <2>1, <2>2, <2>5, <2>6
<1>8. CASE scenarios'[name] # <<>> /\ stored' = stored \cup {name}
  <2>1. Calculated(names \cup {name})'
    <3>1. stored' = {"TREND"} \cup (names \cup {name}) /\ trend_scenario' # <<>>
      BY <1>1, <1>3, <1>8 DEF Calculated
    <3>2. \A other \in Scenarios : other \in names \cup {name} <=> scenarios'[other] # <<>>
      BY <1>3, <1>6, <1>8 DEF Calculated
    <3> QED BY <3>1, <3>2 DEF Calculated
  <2>2. CASE /\ name = "HIGH_IMPACT"
             /\ finish("FINANCE", "COMPLETED") /\ go("POLICIES")
    <3> USE DEF finish, go
    <3>1. Typed'
      BY <1>6, <2>2 DEF Typed, Stages, Statuses, Sections
    <3>2. DataIsWhole'
      BY <1>1, <2>2 DEF Typed, DataIsWhole, Sections, AfterFinance
    <3>3. names \cup {name} = Scenarios
      BY <1>3, <1>4, <2>2 DEF Scenarios
    <3>4. sections'["FINANCE"] = "COMPLETED"
      BY <2>2 DEF Typed, Sections
    <3>5. Calculated(Scenarios)'
      BY <2>1, <3>3
    <3>6. LayersAreStored'
      BY <2>2, <3>4, <3>5 DEF LayersAreStored, BeforeFinance, AfterFinance
    <3>7. ResultIsAssembled'
      BY <1>1, <2>2 DEF ResultIsAssembled
    <3> QED BY <3>1, <3>2, <3>6, <3>7
  <2>3. CASE name # "HIGH_IMPACT" /\ UNCHANGED <<sections, stage>>
    <3>1. Typed'
      BY <1>6, <2>3 DEF Typed
    <3>2. DataIsWhole'
      BY <1>1, <2>3 DEF DataIsWhole
    <3>3. names \cup {name} \in {{"BASELINE"}, {"BASELINE", "LOW_IMPACT"}}
      BY <1>3, <1>4, <2>3
    <3>4. Calculated({"BASELINE"})' \/ Calculated({"BASELINE", "LOW_IMPACT"})'
      BY <2>1, <3>3
    <3>5. LayersAreStored'
      BY <1>1, <2>3, <3>4 DEF LayersAreStored, BeforeFinance, AfterFinance
    <3>6. ResultIsAssembled'
      BY <1>1, <2>3 DEF ResultIsAssembled
    <3> QED BY <3>1, <3>2, <3>5, <3>6
  <2>4. \/ finish("FINANCE", "FAILED") /\ go("POLICIES") /\ UNCHANGED stored
        \/ name = "HIGH_IMPACT" /\ finish("FINANCE", "COMPLETED") /\ go("POLICIES")
        \/ name # "HIGH_IMPACT" /\ UNCHANGED <<sections, stage>>
    BY <1>2, <1>5
  <2> QED BY <1>7, <2>2, <2>3, <2>4
<1> QED BY <1>2, <1>7, <1>8

LEMMA PoliciesStep == IInv /\ (PoliciesSection \/ NoFinance) => IInv'
<1> SUFFICES ASSUME IInv, PoliciesSection \/ NoFinance PROVE IInv'
  OBVIOUS
<1> USE DEF IInv
<1>1. /\ stage = "POLICIES" /\ stage' = "RESULT"
      /\ UNCHANGED <<official, research, base, trend_scenario, scenarios, stored, result>>
  BY DEF PoliciesSection, NoFinance, go
<1>2. PICK status \in {"PARTIAL", "COMPLETED", "SKIPPED"} :
         /\ sections' = [sections EXCEPT !["POLICIES"] = status]
         /\ status = "SKIPPED" => scenarios["BASELINE"] = <<>>
  BY DEF PoliciesSection, NoFinance, finish
<1>3. sections'["FINANCE"] = sections["FINANCE"] /\ sections'["POLICIES"] = status
  BY <1>2 DEF Typed, Sections
<1>5. Typed'
  BY <1>1, <1>2 DEF Typed, Stages, Statuses, Sections
<1>6. DataIsWhole'
  BY <1>1, <1>2 DEF Typed, DataIsWhole, Sections, AfterFinance
<1>7. LayersAreStored'
  <2>1. \/ sections["FINANCE"] \in {"FAILED", "SKIPPED"} /\ stored # Layers
        \/ sections["FINANCE"] = "COMPLETED" /\ Calculated(Scenarios)
    BY <1>1 DEF LayersAreStored, AfterFinance
  <2>2. Calculated(Scenarios) => Calculated(Scenarios)'
    BY <1>1 DEF Calculated
  <2> QED BY <1>1, <1>2, <1>3, <2>1, <2>2 DEF LayersAreStored, BeforeFinance, AfterFinance
<1>8. ResultIsAssembled'
  BY <1>1 DEF ResultIsAssembled
<1> QED BY <1>5, <1>6, <1>7, <1>8

LEMMA AssembleStep == IInv /\ Assemble => IInv'
<1> SUFFICES ASSUME IInv, Assemble PROVE IInv'
  OBVIOUS
<1> USE DEF IInv
<1>1. /\ stage = "RESULT" /\ stage' = "DONE"
      /\ UNCHANGED <<sections, official, research, base, trend_scenario, scenarios, stored>>
  BY DEF Assemble, go
<1>2. Typed'
  BY <1>1 DEF Typed, Stages
<1>3. DataIsWhole'
  BY <1>1 DEF DataIsWhole, AfterFinance
<1>4. LayersAreStored'
  <2>1. Calculated(Scenarios) => Calculated(Scenarios)'
    BY <1>1 DEF Calculated
  <2> QED BY <1>1, <2>1 DEF LayersAreStored, BeforeFinance, AfterFinance
<1>5. ResultIsAssembled'
  <2>1. /\ comparisons' = comparisons /\ incomplete(sections)' = incomplete(sections)
        /\ overall_status(sections)' = overall_status(sections)
    BY <1>1 DEF comparisons, incomplete, overall_status
  <2>2. PICK told :
           result' = <<[status |-> overall_status(sections),
                        incomplete |-> IF overall_status(sections) = "PARTIAL" THEN incomplete(sections) ELSE {},
                        comparisons |-> comparisons, events |-> told]>>
    BY DEF Assemble
  <2>3. ResultWith(incomplete(sections), told)'
    BY <2>1, <2>2 DEF ResultWith
  <2> QED BY <1>1, <2>1, <2>3 DEF ResultIsAssembled
<1> QED BY <1>2, <1>3, <1>4, <1>5

LEMMA RaiseStep == IInv /\ Raise => IInv'
<1> SUFFICES ASSUME IInv, Raise PROVE IInv'
  OBVIOUS
<1> USE DEF IInv
<1>1. /\ stage \in {"OFFICIAL_DATA", "RESEARCH", "BASELINE", "SIGNALS", "POLICIES", "RESULT"}
      /\ stage' = "RAISED"
      /\ UNCHANGED <<sections, official, research, base, result>>
  BY DEF Raise, go
<1>2. Typed'
  BY DEF Typed, Stages, Raise, go
<1>3. DataIsWhole'
  BY <1>1 DEF DataIsWhole, AfterFinance
<1>4. LayersAreStored'
  BY <1>1 DEF LayersAreStored, BeforeFinance, AfterFinance
<1>5. ResultIsAssembled'
  BY <1>1 DEF ResultIsAssembled
<1> QED BY <1>2, <1>3, <1>4, <1>5

LEMMA Stutter == IInv /\ UNCHANGED vars => IInv'
<1> SUFFICES ASSUME IInv, UNCHANGED vars PROVE IInv'
  OBVIOUS
<1> USE DEF IInv, vars
<1>1. Typed'
  BY DEF Typed
<1>2. DataIsWhole'
  BY DEF DataIsWhole
<1>3. LayersAreStored'
  BY DEF LayersAreStored, Calculated
<1>4. ResultIsAssembled'
  <2>1. comparisons' = comparisons /\ incomplete(sections)' = incomplete(sections)
        /\ overall_status(sections)' = overall_status(sections)
    BY DEF comparisons, incomplete, overall_status
  <2> QED BY <2>1 DEF ResultIsAssembled, ResultWith
<1> QED BY <1>1, <1>2, <1>3, <1>4

\* The sections keep the invariant that a result is judged by.
THEOREM Invariance == Spec => []IInv
<1>1. IInv /\ [Next]_vars => IInv'
  <2> SUFFICES ASSUME IInv, [Next]_vars PROVE IInv'
    OBVIOUS
  <2> QED BY OfficialDataStep, ResearchStep, BaselineStep, SignalsStep, NoBaselineStep, TrendStep,
             ScenarioStep, PoliciesStep, AssembleStep, RaiseStep, Stutter DEF Next
<1> QED BY InvInit, <1>1, PTL DEF Spec

-----------------------------------------------------------------------------
(* What the status of a result means.                                       *)

\* Three layers over their bases are three comparisons.
LEMMA ThreeComparisons ==
    ASSUME Calculated(Scenarios)
    PROVE  Cardinality(comparisons) = 3
<1> DEFINE first == [from |-> "TREND", to |-> "OFFICIAL",
                     by |-> forecast_comparison(trend_scenario[1], scenarios["BASELINE"][1])]
           second == [from |-> "OFFICIAL", to |-> "AI_LOW_IMPACT",
                      by |-> forecast_comparison(scenarios["BASELINE"][1], scenarios["LOW_IMPACT"][1])]
           third == [from |-> "OFFICIAL", to |-> "AI_HIGH_IMPACT",
                     by |-> forecast_comparison(scenarios["BASELINE"][1], scenarios["HIGH_IMPACT"][1])]
<1>1. /\ trend_scenario # <<>> /\ scenarios["BASELINE"] # <<>>
      /\ scenarios["LOW_IMPACT"] # <<>> /\ scenarios["HIGH_IMPACT"] # <<>>
  BY DEF Calculated, Scenarios
<1>2. comparisons = {first} \cup {second} \cup {third}
  BY <1>1 DEF comparisons, made
<1>3. first.to = "OFFICIAL" /\ second.to = "AI_LOW_IMPACT" /\ third.to = "AI_HIGH_IMPACT"
  OBVIOUS
<1>4. first # second /\ second # third /\ first # third
  BY <1>3
<1> HIDE DEF first, second, third
<1>5. IsFiniteSet({first}) /\ Cardinality({first}) = 1
  BY FS_Singleton
<1>6. /\ IsFiniteSet({first} \cup {second})
      /\ Cardinality({first} \cup {second}) = 2
  BY <1>4, <1>5, FS_AddElement
<1>7. Cardinality({first} \cup {second} \cup {third}) = 3
  <2>1. third \notin {first} \cup {second}
    BY <1>4
  <2> QED BY <1>6, <2>1, FS_AddElement
<1> QED BY <1>2, <1>7

LEMMA StatusFollows == IInv => OverallStatusTellsTheTruth
<1> SUFFICES ASSUME IInv, NEW r \in Range(result)
             PROVE  /\ r.status = "COMPLETED" =>
                          /\ official.missing = {} /\ DOMAIN official.errors = {}
                          /\ ~research.errors /\ ~research.partial
                          /\ base.status = "COMPLETED"
                          /\ sections["POLICIES"] = "COMPLETED"
                    /\ r.status = "FAILED" <=> stored # Layers
                    /\ r.status = "PARTIAL" => r.incomplete # {}
                    /\ r.status # "FAILED" => Cardinality(r.comparisons) = 3
  BY DEF OverallStatusTellsTheTruth
<1>1. result # <<>>
  BY DEF Range
<1>2. stage = "DONE"
  BY <1>1 DEF IInv, ResultIsAssembled
<1>3. PICK events : ResultWith(incomplete(sections), events)
  BY <1>2 DEF IInv, ResultIsAssembled
<1>4. r = result[1]
  BY <1>3 DEF ResultWith, Range
<1>5. /\ r.status = overall_status(sections)
      /\ r.incomplete = IF overall_status(sections) = "PARTIAL" THEN incomplete(sections) ELSE {}
      /\ r.comparisons = comparisons
  BY <1>3, <1>4 DEF ResultWith
<1>6. /\ \/ sections["FINANCE"] \in {"FAILED", "SKIPPED"} /\ stored # Layers
         \/ sections["FINANCE"] = "COMPLETED" /\ Calculated(Scenarios)
      /\ sections["POLICIES"] \in {"COMPLETED", "PARTIAL"} \/ scenarios["BASELINE"] = <<>>
      /\ sections["BASELINE"] \in {"COMPLETED", "PARTIAL", "FAILED"}
  BY <1>2 DEF IInv, LayersAreStored, DataIsWhole, AfterFinance
<1>7. Calculated(Scenarios) => stored = Layers /\ scenarios["BASELINE"] # <<>>
  BY DEF Calculated, Layers, Scenarios
<1>8. CASE sections["FINANCE"] \in {"FAILED", "SKIPPED"} /\ stored # Layers
  BY <1>5, <1>8 DEF overall_status
<1>9. CASE sections["FINANCE"] = "COMPLETED" /\ Calculated(Scenarios)
  <2>1. r.status \in {"PARTIAL", "COMPLETED"} /\ stored = Layers
    BY <1>5, <1>7, <1>9 DEF overall_status
  <2>2. Cardinality(r.comparisons) = 3
    BY <1>5, <1>9, ThreeComparisons
  <2>3. ASSUME r.status = "COMPLETED"
        PROVE  \A s \in Sections \ {"SIGNALS"} : sections[s] \notin {"PARTIAL", "FAILED"}
    BY <1>5, <1>9, <2>3 DEF overall_status
  <2>4. ASSUME r.status = "COMPLETED"
        PROVE  /\ official.missing = {} /\ DOMAIN official.errors = {}
               /\ ~research.errors /\ ~research.partial
               /\ base.status = "COMPLETED" /\ sections["POLICIES"] = "COMPLETED"
    <3>1. /\ sections["OFFICIAL_DATA"] \notin {"PARTIAL", "FAILED"} /\ sections["RESEARCH"] # "PARTIAL"
          /\ sections["BASELINE"] = "COMPLETED" /\ sections["POLICIES"] = "COMPLETED"
      BY <1>6, <1>7, <1>9, <2>3, <2>4 DEF Sections
    <3> QED BY <3>1 DEF IInv, DataIsWhole
  <2>5. ASSUME r.status = "PARTIAL"
        PROVE  r.incomplete # {}
    <3>1. \E s \in Sections \ {"SIGNALS"} : sections[s] \in {"PARTIAL", "FAILED"}
      BY <1>5, <1>9, <2>5 DEF overall_status
    <3> QED BY <1>5, <2>5, <3>1 DEF incomplete
  <2> QED BY <2>1, <2>2, <2>4, <2>5
<1> QED BY <1>6, <1>8, <1>9

\* Whatever the store, the requests, the answers and the coefficients: a
\* completed result misses nothing, a failed one lacks a layer in the store
\* and only such a one does, a partial one names what is incomplete, and all
\* but a failed one have their three comparisons (AnalysisOrchestrator.run).
THEOREM StatusTellsTheTruth == Spec => []OverallStatusTellsTheTruth
<1> QED BY Invariance, StatusFollows, PTL
-----------------------------------------------------------------------------
(* What the run has got at each stage follows from its inputs.              *)

\* An observation all of whose days lie within the analysis date.
InTime(o) ==
    /\ o.observed \in Int /\ o.released \in Int /\ o.available \in Int /\ o.n \in Int /\ o.value \in Int
    /\ o.observed <= AsOf /\ o.released <= AsOf /\ o.available <= AsOf

SoundObservations(S) == IsFiniteSet(S) /\ \A o \in S : InTime(o)

InputsAreSound ==
    /\ store \in Stores /\ requests \in RequestLists
    /\ SoundObservations(official.observations) /\ SoundOutcome(research)

Unforecast == features = NoFeatures /\ trend = NoForecast /\ base = NoForecast
Forecast ==
    /\ ~forecast_raises(store)
    /\ features = official_features(official, store.horizon, research.events)
    /\ trend = forecast(store, <<>>) /\ base = forecast(store, features.months)

FiguresFollow ==
    /\ Unforecast \/ Forecast
    /\ stage \in {"OFFICIAL_DATA", "RESEARCH", "BASELINE"} => Unforecast
    /\ signals \in {{}, all_signals(research.events, store, Len(base.months))}
    /\ stage \in {"OFFICIAL_DATA", "RESEARCH", "BASELINE", "SIGNALS"} => signals = {}

\* A layer is calculated after the one it is compared with.
LayersFollow ==
    /\ trend_scenario \in {<<>>, financial_scenario(store, trend, adjusted("BASELINE"), <<>>)}
    /\ \A name \in Scenarios :
          scenarios[name] \in {<<>>, financial_scenario(store, base, adjusted(name), features.months)}
    /\ trend_scenario = <<>> => scenarios["BASELINE"] = <<>>
    /\ scenarios["BASELINE"] = <<>> => \A name \in Scenarios : scenarios[name] = <<>>

told_of_events == {[event |-> e.id, terminal |-> terminal(e)] : e \in research.events}

ResultFollows ==
    \A r \in Range(result) : stage = "DONE" /\ r.comparisons = comparisons /\ r.events = told_of_events

FiguresInv == InputsAreSound /\ FiguresFollow /\ LayersFollow /\ ResultFollows

-----------------------------------------------------------------------------
(* Small facts about finite sets.                                           *)

LEMMA FiniteImage ==
    ASSUME NEW S, IsFiniteSet(S), NEW f
    PROVE  IsFiniteSet({f[x] : x \in S})
<1> DEFINE Good == {T \in SUBSET S : IsFiniteSet({f[x] : x \in T})}
<1>1. {} \in Good
  BY FS_EmptySet
<1>2. ASSUME NEW T \in SUBSET S, NEW x \in S \ T, T \in Good PROVE T \cup {x} \in Good
  <2>1. {f[y] : y \in T \cup {x}} = {f[y] : y \in T} \cup {f[x]}
    OBVIOUS
  <2>2. IsFiniteSet({f[y] : y \in T} \cup {f[x]})
    BY <1>2, FS_AddElement
  <2> QED BY <2>1, <2>2
<1>3. S \in Good
  <2> HIDE DEF Good
  <2> QED BY <1>1, <1>2, SetInduction
<1> QED BY <1>3

\* A set of whole numbers that is not empty and has an upper bound has a
\* greatest one.
LEMMA GreatestBelow ==
    ASSUME NEW v \in Nat, NEW T \in SUBSET (0 .. v), 0 \in T
    PROVE  \E r \in T : r + 1 \notin T
<1>1. CASE \A r \in T : r + 1 \in T
  <2>1. \A r \in 0 .. v : r < v /\ r \in T => r + 1 \in T
    BY <1>1
  <2>2. \A r \in 0 .. v : r \in T
    BY <2>1, PrefixInduction
  <2> QED BY <1>1, <2>2
<1> QED BY <1>1

-----------------------------------------------------------------------------
(* Observations.                                                            *)

LEMMA PartOfSound ==
    ASSUME NEW S, SoundObservations(S), NEW T \in SUBSET S
    PROVE  SoundObservations(T)
<1> QED BY FS_Subset DEF SoundObservations

LEMMA LatestOf ==
    ASSUME NEW S, SoundObservations(S), S # {}
    PROVE  latest(S) \in S /\ \A p \in S : ~earlier(latest(S), p)
<1> DEFINE R == {pair \in S \X S : earlier(pair[1], pair[2])}
<1>1. \A o, p \in S : <<o, p>> \in R <=> earlier(o, p)
  OBVIOUS
<1>2. \A o \in S : ~earlier(o, o)
  BY DEF SoundObservations, InTime, earlier
<1>3. \A o, p, q \in S : earlier(o, p) /\ earlier(p, q) => earlier(o, q)
  <2> SUFFICES ASSUME NEW o \in S, NEW p \in S, NEW q \in S, earlier(o, p), earlier(p, q)
               PROVE  earlier(o, q)
    OBVIOUS
  <2>1. InTime(o) /\ InTime(p) /\ InTime(q)
    BY DEF SoundObservations
  <2> QED BY <2>1 DEF InTime, earlier
<1> HIDE DEF R
<1>4. \A o \in S : <<o, o>> \notin R
  BY <1>1, <1>2
<1>5. \A o, p, q \in S : <<o, p>> \in R /\ <<p, q>> \in R => <<o, q>> \in R
  BY <1>1, <1>3
<1>6. \E m \in S : \A p \in S : <<m, p>> \notin R
  BY <1>4, <1>5, MaximalMember DEF SoundObservations
<1>7. \E m \in S : \A p \in S : ~earlier(m, p)
  BY <1>1, <1>6
<1> QED BY <1>7 DEF latest

\* No day comes after the latest observation's.
LEMMA LatestDay ==
    ASSUME NEW S, SoundObservations(S), NEW o \in S
    PROVE  o.observed <= latest(S).observed
<1>1. latest(S) \in S /\ ~earlier(latest(S), o)
  BY LatestOf
<1> QED BY <1>1 DEF SoundObservations, InTime, earlier

LEMMA WholeRoot ==
    ASSUME NEW v \in Nat
    PROVE  root(v) \in Int
<1> DEFINE T == {r \in 0 .. v : r * r <= v}
<1>1. 0 \in T
  OBVIOUS
<1>2. PICK r \in T : r + 1 \notin T
  BY <1>1, GreatestBelow
<1>3. (r + 1) * (r + 1) > v
  <2>1. CASE r + 1 \in 0 .. v
    BY <1>2, <2>1
  <2>2. CASE r + 1 > v
    <3>1. (r + 1) * (r + 1) >= r + 1
      <4>1. r \in Nat
        OBVIOUS
      <4> QED BY <4>1
    <3> QED BY <2>2, <3>1
  <2> QED BY <2>1, <2>2
<1>4. \E s \in 0 .. v : s * s <= v /\ (s + 1) * (s + 1) > v
  BY <1>3
<1>5. root(v) \in 0 .. v
  <2> DEFINE Root(s) == s * s <= v /\ (s + 1) * (s + 1) > v
  <2>1. \E s \in 0 .. v : Root(s)
    BY <1>4
  <2>2. root(v) = CHOOSE s \in 0 .. v : Root(s)
    BY DEF root
  <2> HIDE DEF Root
  <2> QED BY <2>1, <2>2
<1> QED BY <1>5

LEMMA SumOfNaturals ==
    ASSUME NEW f, NEW S, IsFiniteSet(S), \A x \in S : f[x] \in Nat
    PROVE  SumFunctionOnSet(f, S) \in Nat
<1> DEFINE Good == {T \in SUBSET S : SumFunctionOnSet(f, T) \in Nat}
<1>1. {} \in Good
  BY SumNothing
<1>2. ASSUME NEW T \in SUBSET S, NEW x \in S \ T, T \in Good PROVE T \cup {x} \in Good
  <2>1. IsFiniteSet(T)
    BY FS_Subset
  <2>2. SumFunctionOnSet(f, T \cup {x}) = f[x] + SumFunctionOnSet(f, T)
    BY <2>1, SumAdd
  <2> QED BY <1>2, <2>2
<1>3. S \in Good
  <2> HIDE DEF Good
  <2> QED BY <1>1, <1>2, SetInduction
<1> QED BY <1>3

-----------------------------------------------------------------------------
(* What the official data section collects.                                 *)

ObservationFields == {"indicator", "value", "unit", "frequency", "observed", "released", "available",
                      "revision", "n", "quality"}

\* An item of an answer, of which its parts may be absent.
SoundItem(i) ==
    i.observed \in Int /\ i.value \in Seq(Int) /\ i.released \in Seq(Int) /\ i.available \in Seq(Int)

LEMMA MonthDaysWhole ==
    /\ \A m \in Int : first_day(m) \in Int /\ last_day(m) \in Int /\ month_of(m) \in Int
    /\ \A m \in Int, lag \in Int : available_at(m, lag) \in Int
    /\ \A day \in Int : first_day(month_of(day)) <= day
BY DEF first_day, last_day, month_of, available_at, MonthDays

LEMMA ItemIsSound ==
    ASSUME NEW i, NEW v \in Int, NEW unit, NEW month \in Int, NEW known \in Int
    PROVE  SoundItem(item(i, v, unit, month, known))
BY MonthDaysWhole DEF SoundItem, item

\* The items an answer's row is read as.
LEMMA ItemsOfRow ==
    ASSUME NEW provider, NEW row, SoundRow(provider, row)
    PROVE  /\ normalize(provider, row) \in Seq(ToSet(normalize(provider, row)))
           /\ \A i \in ToSet(normalize(provider, row)) : SoundItem(i)
<1> SUFFICES \E s : /\ normalize(provider, row) = s /\ s \in Seq(ToSet(s))
                    /\ \A i \in ToSet(s) : SoundItem(i)
  OBVIOUS
<1>n. /\ <<>> \in Seq(ToSet(<<>>)) /\ \A i \in ToSet(<<>>) : SoundItem(i)
  BY DEF ToSet
<1>o. ASSUME NEW i, SoundItem(i)
      PROVE  <<i>> \in Seq(ToSet(<<i>>)) /\ \A j \in ToSet(<<i>>) : SoundItem(j)
  <2>1. ToSet(<<i>>) = {i}
    BY DEF ToSet
  <2> QED BY <1>o, <2>1
<1>v. \A s \in Seq(Int) : s # <<>> => s[1] \in Int
  OBVIOUS
<1>1. CASE provider = "ECOS"
  <2> DEFINE i == CHOOSE i \in registered("ECOS", row.series) : TRUE
  <2>1. normalize(provider, row) = ecos(row)
    BY <1>1 DEF normalize
  <2>2. row.month \in Int /\ row.value \in Seq(Int)
    BY <1>1 DEF SoundRow
  <2>3. CASE registered("ECOS", row.series) = {} \/ row.dated # "A_DATE" \/ row.value = <<>>
    BY <1>n, <2>1, <2>3 DEF ecos
  <2>4. CASE registered("ECOS", row.series) # {} /\ row.value # <<>> /\ row.dated = "A_DATE"
    <3>1. i \in registered("ECOS", row.series)
      BY <2>4
    <3>2. Indicator[i].lag \in Int
      BY <3>1, OfficialAssumption DEF registered
    <3>3. ecos(row) = <<item(i, row.value[1], Indicator[i].unit, row.month, available_at(row.month, Indicator[i].lag))>>
      BY <2>4 DEF ecos
    <3> HIDE DEF i
    <3>4. row.value[1] \in Int /\ available_at(row.month, Indicator[i].lag) \in Int
      BY <1>v, <2>2, <2>4, <3>2, MonthDaysWhole
    <3>5. SoundItem(item(i, row.value[1], Indicator[i].unit, row.month, available_at(row.month, Indicator[i].lag)))
      BY <2>2, <3>4, ItemIsSound
    <3> QED BY <1>o, <2>1, <3>3, <3>5
  <2> QED BY <2>3, <2>4
<1>2. CASE provider = "KOSIS"
  <2> DEFINE i == CHOOSE i \in national(row) : TRUE
  <2>1. normalize(provider, row) = kosis(row)
    BY <1>2 DEF normalize
  <2>2. row.month \in Int /\ row.value \in Seq(Int) /\ row.changed \in Seq(Int)
    BY <1>2 DEF SoundRow
  <2>3. CASE national(row) = {} \/ row.dated # "A_DATE"
    BY <1>n, <2>1, <2>3 DEF kosis
  <2>4. CASE national(row) # {} /\ row.dated = "A_DATE"
    <3>1. row.changed # <<>> /\ row.value # <<>>
      BY <2>4 DEF national
    <3>2. kosis(row) = <<item(i, row.value[1], Indicator[i].unit, row.month, row.changed[1])>>
      BY <2>4 DEF kosis
    <3> HIDE DEF i
    <3>3. row.value[1] \in Int /\ row.changed[1] \in Int
      BY <1>v, <2>2, <3>1
    <3>4. SoundItem(item(i, row.value[1], Indicator[i].unit, row.month, row.changed[1]))
      BY <2>2, <3>3, ItemIsSound
    <3> QED BY <1>o, <2>1, <3>2, <3>4
  <2> QED BY <2>3, <2>4
<1>3. CASE provider = "CUSTOMS"
  <2> DEFINE day == available_at(row.month, CustomsLag)
             worth == item(<<"VALUE", row.series>>, row.value[1], "VALUE", row.month, day)
             weighs == item(<<"WEIGHT", row.series>>, row.weight[1], "WEIGHT", row.month, day)
             priced == item(<<"PRICE", row.series>>, row.value[1] \div row.weight[1], "PRICE", row.month, day)
  <2>1. normalize(provider, row) = customs(row)
    BY <1>3 DEF normalize
  <2>2. row.month \in Int /\ row.value \in Seq(Int) /\ row.weight \in Seq(Int)
    BY <1>3 DEF SoundRow
  <2>3. \/ customs(row) = <<>>
        \/ /\ row.value # <<>> /\ row.weight # <<>>
           /\ customs(row) = <<worth, weighs>> \o (IF row.weight[1] > 0 THEN <<priced>> ELSE <<>>)
    BY DEF customs
  <2>4. CASE customs(row) = <<>>
    BY <1>n, <2>1, <2>4
  <2>5. CASE /\ row.value # <<>> /\ row.weight # <<>>
             /\ customs(row) = <<worth, weighs>> \o (IF row.weight[1] > 0 THEN <<priced>> ELSE <<>>)
    <3>1. row.value[1] \in Int /\ row.weight[1] \in Int /\ day \in Int
      <4>1. CustomsLag \in Int
        BY DEF CustomsLag
      <4>2. available_at(row.month, CustomsLag) \in Int
        BY <2>2, <4>1, MonthDaysWhole
      <4> QED BY <1>v, <2>2, <2>5, <4>2
    <3>2. SoundItem(worth) /\ SoundItem(weighs)
      <4> HIDE DEF day
      <4> QED BY <2>2, <3>1, ItemIsSound
    <3>3. row.weight[1] > 0 => SoundItem(priced)
      <4> HIDE DEF day
      <4>1. row.weight[1] > 0 => row.value[1] \div row.weight[1] \in Int
        BY <3>1
      <4> QED BY <2>2, <3>1, <4>1, ItemIsSound
    <3> HIDE DEF worth, weighs, priced
    <3>4. CASE row.weight[1] > 0
      <4>1. <<worth, weighs>> \in Seq({worth, weighs, priced}) /\ <<priced>> \in Seq({worth, weighs, priced})
        OBVIOUS
      <4>2. customs(row) \in Seq({worth, weighs, priced})
        BY <2>5, <3>4, <4>1, ConcatProperties
      <4>3. \A i \in {worth, weighs, priced} : SoundItem(i)
        BY <3>2, <3>3, <3>4
      <4>4. ToSet(customs(row)) \subseteq {worth, weighs, priced} /\ customs(row) \in Seq(ToSet(customs(row)))
        BY <4>2, OwnRange
      <4> QED BY <2>1, <4>3, <4>4
    <3>5. CASE ~(row.weight[1] > 0)
      <4>1. <<worth, weighs>> \in Seq({worth, weighs}) /\ <<>> \in Seq({worth, weighs})
        OBVIOUS
      <4>2. customs(row) \in Seq({worth, weighs})
        BY <2>5, <3>5, <4>1, ConcatProperties
      <4>3. ToSet(customs(row)) \subseteq {worth, weighs} /\ customs(row) \in Seq(ToSet(customs(row)))
        BY <4>2, OwnRange
      <4> QED BY <2>1, <3>2, <4>3
    <3> QED BY <3>4, <3>5
  <2> QED BY <2>3, <2>4, <2>5
<1>4. CASE provider \notin {"ECOS", "KOSIS", "CUSTOMS"}
  <2>1. normalize(provider, row) = <<row>>
    BY <1>4 DEF normalize
  <2>2. SoundItem(row)
    BY <1>4 DEF SoundRow, SoundItem
  <2> QED BY <1>o, <2>1, <2>2
<1> QED BY <1>1, <1>2, <1>3, <1>4

LEMMA ItemsOfAnswer ==
    ASSUME NEW r, NEW answer, answer.rows \in Seq(Range(answer.rows)),
           \A row \in Range(answer.rows) : SoundRow(r.provider, row)
    PROVE  /\ process(r, answer) \in Seq(ToSet(process(r, answer)))
           /\ \A i \in ToSet(process(r, answer)) : SoundItem(i)
<1> DEFINE rows == answer.rows
           n == Len(rows)
           read == [k \in DOMAIN rows |-> normalize(r.provider, rows[k])]
           items == FlattenSeq(read)
           mine == {k \in DOMAIN items : items[k].indicator = r.indicator}
<1>1. n \in Nat /\ DOMAIN rows = 1 .. n /\ \A k \in 1 .. n : rows[k] \in Range(rows)
  BY DEF Range
<1>2. ASSUME NEW k \in 1 .. n
      PROVE  read[k] \in Seq(ToSet(read[k])) /\ \A i \in ToSet(read[k]) : SoundItem(i)
  <2>1. read[k] = normalize(r.provider, rows[k])
    BY <1>1
  <2> QED BY <1>1, <2>1, ItemsOfRow
<1>3. DOMAIN read = 1 .. n /\ read = [k \in 1 .. n |-> read[k]]
  BY <1>1
<1>4. process(r, answer) = <<>> \/ process(r, answer) = Chosen(items, mine)
  BY DEF process
<1> HIDE DEF read, n
<1>5. items \in Seq(ToSet(items)) /\ ToSet(items) = UNION {ToSet(read[k]) : k \in 1 .. n}
  BY <1>1, <1>2, <1>3, FlattenOwn
<1> HIDE DEF items, mine
<1>6. Chosen(items, mine) \in Seq(ToSet(items))
  BY <1>5, ChosenRange
<1>7. <<>> \in Seq(ToSet(items))
  OBVIOUS
<1>8. process(r, answer) \in Seq(ToSet(items))
  BY <1>4, <1>6, <1>7
<1> QED BY <1>2, <1>5, <1>8, OwnRange

Observed(S) == SoundObservations(S) /\ \A o \in S : DOMAIN o = ObservationFields

LEMMA WholeMean ==
    ASSUME NEW S, SoundObservations(S), S # {}
    PROVE  mean(S) \in Int /\ variance(S) \in Nat
<1>1. IsFiniteSet(S) /\ \A o \in S : o.value \in Int
  BY DEF SoundObservations, InTime
<1>2. Cardinality(S) \in Nat /\ Cardinality(S) > 0
  BY <1>1, FS_CardinalityType, FS_EmptySet
<1>3. mean(S) \in Int
  <2> DEFINE f == [o \in S |-> o.value]
  <2>1. SumFunctionOnSet(f, S) \in Int
    BY <1>1, SumType
  <2>2. mean(S) = SumFunctionOnSet(f, S) \div Cardinality(S)
    BY DEF mean, SumFunction
  <2> HIDE DEF f
  <2> QED BY <1>2, <2>1, <2>2
<1>4. variance(S) \in Nat
  <2> DEFINE f == [o \in S |-> (o.value - mean(S)) * (o.value - mean(S))]
  <2>1. \A d \in Int : d * d \in Nat
    OBVIOUS
  <2>2. \A o \in S : f[o] \in Nat
    BY <1>1, <1>3, <2>1
  <2>3. variance(S) = SumFunctionOnSet(f, S) \div Cardinality(S)
    BY DEF variance, SumFunction
  <2> HIDE DEF f
  <2>4. SumFunctionOnSet(f, S) \in Nat
    BY <1>1, <2>2, SumOfNaturals
  <2> QED BY <1>2, <2>3, <2>4
<1> QED BY <1>3, <1>4

\* A month's observation stands for its days.
LEMMA MonthlyIsSound ==
    ASSUME NEW S, Observed(S), NEW method
    PROVE  Observed(to_monthly(S, method))
<1> DEFINE daily == {o \in S : o.frequency = "DAILY"}
           of(m) == {o \in daily : month_of(o.observed) = m}
           drawn(m) == [latest(of(m)) EXCEPT !.value = transformed(of(m), method), !.frequency = "MONTHLY",
                                             !.observed = first_day(m)]
           months == {month_of(o.observed) : o \in daily}
           as_months == [m \in months |-> drawn(m)]
           numbers == [o \in daily |-> month_of(o.observed)]
<1>1. to_monthly(S, method) = (S \ daily) \cup {as_months[m] : m \in months}
  BY DEF to_monthly
<1>2. IsFiniteSet(daily) /\ IsFiniteSet(S \ daily)
  BY FS_Subset DEF Observed, SoundObservations
<1>3. IsFiniteSet(months)
  <2>1. months = {numbers[o] : o \in daily}
    OBVIOUS
  <2> HIDE DEF numbers, daily, months
  <2> QED BY <1>2, <2>1, FiniteImage
<1>4. IsFiniteSet({as_months[m] : m \in months})
  <2> HIDE DEF as_months, months
  <2> QED BY <1>3, FiniteImage
<1>5. ASSUME NEW m \in months PROVE InTime(drawn(m)) /\ DOMAIN drawn(m) = ObservationFields
  <2>1. PICK o \in daily : month_of(o.observed) = m
    OBVIOUS
  <2>2. o \in of(m) /\ of(m) \in SUBSET S
    BY <2>1
  <2>3. SoundObservations(of(m))
    BY <2>2, PartOfSound DEF Observed
  <2>4. latest(of(m)) \in of(m)
    BY <2>2, <2>3, LatestOf
  <2>5. InTime(latest(of(m))) /\ DOMAIN latest(of(m)) = ObservationFields
    BY <2>2, <2>4 DEF Observed, SoundObservations
  <2>6. o.observed \in Int /\ o.observed <= AsOf
    BY DEF Observed, SoundObservations, InTime
  <2>7. first_day(m) \in Int /\ first_day(m) <= AsOf
    <3>1. m \in Int /\ first_day(m) <= o.observed
      BY <2>1, <2>6, MonthDaysWhole
    <3>2. first_day(m) \in Int
      BY <3>1, MonthDaysWhole
    <3> QED BY <2>6, <3>1, <3>2, OfficialAssumption
  <2>8. transformed(of(m), method) \in Int
    <3>1. mean(of(m)) \in Int /\ root(variance(of(m))) \in Int
      BY <2>2, <2>3, WholeMean, WholeRoot
    <3>2. latest(of(m)).value \in Int
      BY <2>5 DEF InTime
    <3> HIDE DEF of
    <3> QED BY <3>1, <3>2 DEF transformed
  <2> HIDE DEF of
  <2> QED BY <2>5, <2>7, <2>8 DEF InTime, ObservationFields
<1>6. \A o \in {as_months[m] : m \in months} : InTime(o) /\ DOMAIN o = ObservationFields
  <2> HIDE DEF drawn, months
  <2> QED BY <1>5
<1>7. IsFiniteSet((S \ daily) \cup {as_months[m] : m \in months})
  <2> HIDE DEF as_months, daily, months
  <2> QED BY <1>2, <1>4, FS_Union
<1> HIDE DEF as_months, months
<1> QED BY <1>1, <1>6, <1>7 DEF Observed, SoundObservations

accepted(i) == rejection(i) = ""

LEMMA ObservationIsSound ==
    ASSUME NEW i, SoundItem(i), accepted(i), NEW place \in Int, NEW revision
    PROVE  InTime(observation(i, place, revision)) /\ DOMAIN observation(i, place, revision) = ObservationFields
<1>1. /\ i.released # <<>> /\ i.value # <<>>
      /\ ~(i.observed > AsOf \/ i.released[1] > AsOf \/ known_on(i)[1] > AsOf)
  BY DEF accepted, rejection
<1>2. known_on(i) \in Seq(Int) /\ known_on(i) # <<>>
  BY <1>1 DEF known_on, SoundItem
<1>3. i.observed \in Int /\ i.released[1] \in Int /\ i.value[1] \in Int /\ known_on(i)[1] \in Int
  <2>1. \A t \in Seq(Int) : t # <<>> => t[1] \in Int
    OBVIOUS
  <2> QED BY <1>1, <1>2, <2>1 DEF SoundItem
<1> QED BY <1>1, <1>3, OfficialAssumption DEF observation, InTime, ObservationFields

\* What a request's answer adds to the observations.
LEMMA ObservationsOfItems ==
    ASSUME NEW r, NEW items, items \in Seq(ToSet(items)), \A i \in ToSet(items) : SoundItem(i), NEW revision
    PROVE  SoundObservations(observed(r, items, revision))
<1> DEFINE valid == {k \in DOMAIN items : accepted(items[k])}
           given == [k \in valid |-> observation(items[k], k, revision)]
           all == {given[k] : k \in valid}
           S == IF r.monthly THEN to_monthly(all, r.transform) ELSE all
           marked == [o \in S |-> [o EXCEPT !.quality = "STALE"]]
<1>1. DOMAIN items = 1 .. Len(items) /\ Len(items) \in Nat /\ \A k \in DOMAIN items : items[k] \in ToSet(items)
  BY DEF ToSet
<1>2. IsFiniteSet(valid)
  <2>1. IsFiniteSet(1 .. Len(items))
    BY <1>1, FS_Interval
  <2>2. valid \in SUBSET (1 .. Len(items))
    BY <1>1
  <2> QED BY <2>1, <2>2, FS_Subset
<1>3. ASSUME NEW k \in valid PROVE InTime(given[k]) /\ DOMAIN given[k] = ObservationFields
  <2>1. given[k] = observation(items[k], k, revision)
    OBVIOUS
  <2>2. k \in DOMAIN items /\ accepted(items[k])
    OBVIOUS
  <2> HIDE DEF given, valid
  <2>3. SoundItem(items[k]) /\ k \in Int
    BY <1>1, <2>2
  <2> QED BY <2>1, <2>2, <2>3, ObservationIsSound
<1>4. Observed(all)
  <2>1. IsFiniteSet(all)
    <3> HIDE DEF given, valid
    <3> QED BY <1>2, FiniteImage
  <2> HIDE DEF given, valid
  <2> QED BY <1>3, <2>1 DEF Observed, SoundObservations
<1>5. observed(r, items, revision) = {marked[o] : o \in S} \/ observed(r, items, revision) = S
  <2>1. observed(r, items, revision) = IF S # {} /\ stale(r, S) THEN {[o EXCEPT !.quality = "STALE"] : o \in S} ELSE S
    BY DEF observed, accepted
  <2> HIDE DEF S
  <2>2. {[o EXCEPT !.quality = "STALE"] : o \in S} = {marked[o] : o \in S}
    OBVIOUS
  <2> HIDE DEF marked
  <2> QED BY <2>1, <2>2
<1> HIDE DEF all
<1>6. Observed(S)
  BY <1>4, MonthlyIsSound
<1>7. SoundObservations({marked[o] : o \in S})
  <2> HIDE DEF S
  <2>1. IsFiniteSet({marked[o] : o \in S})
    <3> HIDE DEF marked
    <3> QED BY <1>6, FiniteImage DEF Observed, SoundObservations
  <2>2. ASSUME NEW o \in S PROVE InTime(marked[o])
    <3>1. InTime(o) /\ DOMAIN o = ObservationFields
      BY <1>6 DEF Observed, SoundObservations
    <3>2. marked[o] = [o EXCEPT !.quality = "STALE"]
      OBVIOUS
    <3> QED BY <3>1, <3>2 DEF InTime, ObservationFields
  <2> HIDE DEF marked
  <2> QED BY <2>1, <2>2 DEF SoundObservations
<1> HIDE DEF S, marked
<1> QED BY <1>5, <1>6, <1>7 DEF Observed

Collecting == INSTANCE SequenceLemmas WITH Op <- collect

LEMMA CollectKeeps ==
    ASSUME NEW so_far, DOMAIN so_far = DOMAIN Nothing, SoundObservations(so_far.observations), NEW asked,
           asked.answer.rows \in Seq(Range(asked.answer.rows)),
           \A row \in Range(asked.answer.rows) : SoundRow(asked.request.provider, row)
    PROVE  /\ SoundObservations(collect(so_far, asked).observations)
           /\ DOMAIN collect(so_far, asked) = DOMAIN Nothing
<1> DEFINE items == process(asked.request, asked.answer)
           S == observed(asked.request, items, asked.answer.revision)
<1>1. items \in Seq(ToSet(items)) /\ \A i \in ToSet(items) : SoundItem(i)
  BY ItemsOfAnswer
<1>2. collect(so_far, asked) = collected(so_far, asked.request, asked.answer, items, S)
  BY DEF collect, collect_items
<1> HIDE DEF items
<1>3. SoundObservations(S)
  BY <1>1, ObservationsOfItems
<1> HIDE DEF S
<1>4. ASSUME NEW r, NEW errors, NEW code
      PROVE  /\ lost(so_far, r, errors, code).observations = so_far.observations
             /\ DOMAIN lost(so_far, r, errors, code) = DOMAIN Nothing
  BY DEF lost, Nothing
<1>5. SoundObservations(so_far.observations \cup S)
  <2>1. IsFiniteSet(so_far.observations \cup S)
    BY <1>3, FS_Union DEF SoundObservations
  <2> QED BY <1>3, <2>1 DEF SoundObservations
<1> DEFINE got == collected(so_far, asked.request, asked.answer, items, S)
<1>6. /\ DOMAIN got = DOMAIN Nothing
      /\ got.observations \in {so_far.observations, so_far.observations \cup S}
  <2>1. \/ \E errors, code : got = lost(so_far, asked.request, errors, code)
        \/ \E errors, results :
              got = [so_far EXCEPT !.observations = @ \cup S, !.errors = errors, !.results = results]
    BY DEF collected
  <2>2. CASE \E errors, code : got = lost(so_far, asked.request, errors, code)
    <3> HIDE DEF got
    <3> QED BY <1>4, <2>2
  <2>3. CASE \E errors, results :
                got = [so_far EXCEPT !.observations = @ \cup S, !.errors = errors, !.results = results]
    <3> HIDE DEF got
    <3> QED BY <2>3 DEF Nothing
  <2> QED BY <2>1, <2>2, <2>3
<1> HIDE DEF got
<1> QED BY <1>2, <1>5, <1>6 DEF got

\* The observations of a run come from answers its requests may get.
LEMMA BundleIsSound ==
    ASSUME NEW asked \in RequestLists, NEW answers,
           \A k \in DOMAIN asked : answers[k] \in AnswersTo(asked[k])
    PROVE  SoundObservations(official_bundle(asked, answers).observations)
<1> DEFINE s == [k \in DOMAIN asked |-> [request |-> asked[k], answer |-> answers[k]]]
           got == FoldLeft(collect, Nothing, s)
           n == Len(asked)
<1>1. SoundObservations(Nothing.observations) /\ DOMAIN Nothing = DOMAIN Nothing
  BY FS_EmptySet DEF Nothing, SoundObservations
<1>2. CASE asked = <<>>
  BY <1>1, <1>2 DEF official_bundle, settled
<1>3. CASE asked # <<>>
  <2>1. official_bundle(asked, answers).observations = got.observations
    BY <1>3 DEF official_bundle, judged, settled
  <2>2. /\ n \in Nat /\ DOMAIN asked = 1 .. n
        /\ \A k \in 1 .. n : /\ answers[k].rows \in Seq(Range(answers[k].rows))
                             /\ \A row \in Range(answers[k].rows) : SoundRow(asked[k].provider, row)
    <3>1. SoundRequests(asked)
      BY InputsAssumption
    <3>2. n \in Nat /\ DOMAIN asked = 1 .. n /\ \A k \in 1 .. n : asked[k] \in Range(asked)
      BY <3>1 DEF SoundRequests, Range
    <3>3. ASSUME NEW k \in 1 .. n
          PROVE  /\ answers[k].rows \in Seq(Range(answers[k].rows))
                 /\ \A row \in Range(answers[k].rows) : SoundRow(asked[k].provider, row)
      <4>1. answers[k] \in AnswersTo(asked[k]) /\ asked[k] \in Range(asked)
        BY <3>2
      <4> QED BY <3>1, <4>1 DEF SoundRequests
    <3> QED BY <3>2, <3>3
  <2> HIDE DEF n
  <2>3. s \in Seq(ToSet(s)) /\ Len(s) = n /\ \A k \in 1 .. n : s[k] = [request |-> asked[k], answer |-> answers[k]]
    <3>1. DOMAIN s = 1 .. n /\ s = [k \in 1 .. n |-> s[k]]
      BY <2>2
    <3>2. s \in Seq(ToSet(s)) /\ Len(s) = n
      <4> HIDE DEF s
      <4> QED BY <2>2, <3>1, SequenceOfValues
    <3> QED BY <2>2, <3>2
  <2> HIDE DEF s
  <2>4. PICK f : /\ Collecting!Folds(f, Nothing, s, Len(s))
                 /\ Collecting!FoldLeft(collect, Nothing, s) = f[Len(s)]
    BY <2>3, Collecting!FoldSteps
  <2>e. FoldLeft(collect, Nothing, s) = Collecting!FoldLeft(collect, Nothing, s)
    BY DEF FoldLeft, MapThenFoldSet, Max, Collecting!FoldLeft, Collecting!MapThenFoldSet, Collecting!Max
  <2> DEFINE Good == {k \in 0 .. n : SoundObservations(f[k].observations) /\ DOMAIN f[k] = DOMAIN Nothing}
  <2>5. 0 \in Good
    BY <1>1, <2>2, <2>4 DEF Collecting!Folds
  <2>6. ASSUME NEW k \in 0 .. n, k < n, k \in Good PROVE k + 1 \in Good
    <3>1. k + 1 \in 1 .. n /\ k + 1 \in 0 .. n
      BY <2>2, <2>6
    <3>2. f[k + 1] = collect(f[k], s[k + 1])
      BY <2>3, <2>4, <2>6 DEF Collecting!Folds
    <3>3. s[k + 1].request = asked[k + 1] /\ s[k + 1].answer = answers[k + 1]
      BY <2>3, <3>1
    <3>4. /\ SoundObservations(collect(f[k], s[k + 1]).observations)
          /\ DOMAIN collect(f[k], s[k + 1]) = DOMAIN Nothing
      BY <2>2, <2>6, <3>1, <3>3, CollectKeeps
    <3> QED BY <3>1, <3>2, <3>4
  <2>7. \A k \in 0 .. n : k \in Good
    <3> HIDE DEF Good
    <3> QED BY <2>2, <2>5, <2>6, PrefixInduction
  <2>8. SoundObservations(f[n].observations)
    BY <2>2, <2>7
  <2> QED BY <2>1, <2>3, <2>4, <2>e, <2>8
<1> QED BY <1>2, <1>3

-----------------------------------------------------------------------------
(* Every action keeps what follows from the inputs.                         *)

Early == {"OFFICIAL_DATA", "RESEARCH", "BASELINE", "SIGNALS"}

LEMMA FiguresInit == Init => FiguresInv
<1> SUFFICES ASSUME Init PROVE FiguresInv
  OBVIOUS
<1>1. InputsAreSound
  <2>1. SoundObservations(official.observations)
    BY FS_EmptySet DEF Init, settled, Nothing, SoundObservations
  <2>2. SoundOutcome(research)
    BY FS_EmptySet DEF Init, NoResearch, SoundOutcome
  <2> QED BY <2>1, <2>2 DEF Init, InputsAreSound
<1>2. FiguresFollow
  BY DEF Init, FiguresFollow, Unforecast
<1>3. LayersFollow
  <2>1. "BASELINE" \in Scenarios /\ trend_scenario = <<>> /\ \A name \in Scenarios : scenarios[name] = <<>>
    BY DEF Init, Scenarios
  <2> QED BY <2>1 DEF LayersFollow
<1>4. ResultFollows
  BY DEF Init, ResultFollows, Range
<1> QED BY <1>1, <1>2, <1>3, <1>4 DEF FiguresInv

\* What a run has got stays as it is while it goes on.
LEMMA RestKeeps ==
    ASSUME FiguresInv,
           UNCHANGED <<store, requests, official, research, features, trend, base, signals,
                       trend_scenario, scenarios, result>>,
           stage' = stage \/ (stage' \notin Early /\ result = <<>>)
    PROVE  FiguresInv'
<1>1. InputsAreSound'
  BY DEF FiguresInv, InputsAreSound
<1>2. FiguresFollow'
  BY DEF FiguresInv, FiguresFollow, Unforecast, Forecast, Early
<1>3. LayersFollow'
  BY DEF FiguresInv, LayersFollow, adjusted
<1>4. ResultFollows'
  <2>1. comparisons' = comparisons /\ told_of_events' = told_of_events
    BY DEF comparisons, told_of_events, terminal
  <2>2. result = <<>> => Range(result) = {}
    BY DEF Range
  <2> QED BY <2>1, <2>2 DEF FiguresInv, ResultFollows
<1> QED BY <1>1, <1>2, <1>3, <1>4 DEF FiguresInv

LEMMA NoResultYet == IInv /\ stage # "DONE" => result = <<>> /\ Range(result) = {}
BY DEF IInv, ResultIsAssembled, Range

\* A reference put aside takes no event with it.
LEMMA StillSound ==
    ASSUME NEW outcome \in Outcomes, NEW bundle
    PROVE  SoundOutcome(cross_validated(outcome, bundle))
<1>1. SoundOutcome(outcome)
  BY InputsAssumption
<1>2. ASSUME NEW findings, NEW changed, changed = [outcome EXCEPT !.findings = findings]
      PROVE  DOMAIN changed = DOMAIN outcome /\ changed.events = outcome.events
  BY <1>1, <1>2 DEF SoundOutcome, NoResearch
<1>3. \/ cross_validated(outcome, bundle) = outcome
      \/ \E findings : cross_validated(outcome, bundle) = [outcome EXCEPT !.findings = findings]
  BY DEF cross_validated
<1>4. PICK changed : changed = cross_validated(outcome, bundle)
  OBVIOUS
<1>5. changed = outcome \/ (DOMAIN changed = DOMAIN outcome /\ changed.events = outcome.events)
  BY <1>2, <1>3, <1>4
<1>6. SoundOutcome(changed)
  BY <1>1, <1>5 DEF SoundOutcome
<1> QED BY <1>4, <1>6

LEMMA FiguresInData == IInv /\ FiguresInv /\ OfficialDataSection => FiguresInv'
<1> SUFFICES ASSUME IInv, FiguresInv, OfficialDataSection PROVE FiguresInv'
  OBVIOUS
<1>1. /\ stage = "OFFICIAL_DATA" /\ stage' = "RESEARCH"
      /\ UNCHANGED <<store, requests, research, features, trend, base, signals, trend_scenario, scenarios, result>>
  BY DEF OfficialDataSection, go
<1>2. InputsAreSound'
  <2>1. PICK answers : /\ \A k \in DOMAIN requests : answers[k] \in AnswersTo(requests[k])
                       /\ official' = official_bundle(requests, answers)
    BY DEF OfficialDataSection
  <2>2. SoundObservations(official'.observations)
    BY <2>1, BundleIsSound DEF FiguresInv, InputsAreSound
  <2> QED BY <1>1, <2>2 DEF FiguresInv, InputsAreSound
<1>3. FiguresFollow'
  BY <1>1 DEF FiguresInv, FiguresFollow, Unforecast
<1>4. LayersFollow'
  BY <1>1 DEF FiguresInv, LayersFollow, adjusted
<1>5. ResultFollows'
  BY <1>1, NoResultYet DEF ResultFollows
<1> QED BY <1>2, <1>3, <1>4, <1>5 DEF FiguresInv

LEMMA FiguresInResearch == IInv /\ FiguresInv /\ ResearchSection => FiguresInv'
<1> SUFFICES ASSUME IInv, FiguresInv, ResearchSection PROVE FiguresInv'
  OBVIOUS
<1>1. /\ stage = "RESEARCH" /\ stage' = "BASELINE"
      /\ UNCHANGED <<store, requests, official, features, trend, base, signals, trend_scenario, scenarios, result>>
  BY DEF ResearchSection, go
<1>2. InputsAreSound'
  <2>1. SoundOutcome(research')
    BY StillSound DEF ResearchSection
  <2> QED BY <1>1, <2>1 DEF FiguresInv, InputsAreSound
<1>3. FiguresFollow'
  BY <1>1 DEF FiguresInv, FiguresFollow, Unforecast
<1>4. LayersFollow'
  BY <1>1 DEF FiguresInv, LayersFollow, adjusted
<1>5. ResultFollows'
  BY <1>1, NoResultYet DEF ResultFollows
<1> QED BY <1>2, <1>3, <1>4, <1>5 DEF FiguresInv

LEMMA FiguresInBaseline == IInv /\ FiguresInv /\ BaselineSection => FiguresInv'
<1> SUFFICES ASSUME IInv, FiguresInv, BaselineSection PROVE FiguresInv'
  OBVIOUS
<1>1. /\ stage = "BASELINE" /\ stage' = "SIGNALS"
      /\ UNCHANGED <<store, requests, official, research, signals, trend_scenario, scenarios, result>>
      /\ trend_scenario = <<>> /\ signals = {} /\ \A name \in Scenarios : scenarios[name] = <<>>
  BY DEF BaselineSection, go, IInv, LayersAreStored, BeforeFinance, FiguresInv, FiguresFollow
<1>2. InputsAreSound'
  BY <1>1 DEF FiguresInv, InputsAreSound
<1>3. FiguresFollow'
  <2>1. Forecast'
    BY <1>1 DEF BaselineSection, Forecast
  <2> QED BY <1>1, <2>1 DEF FiguresFollow
<1>4. LayersFollow'
  <2>1. "BASELINE" \in Scenarios /\ trend_scenario' = <<>> /\ \A name \in Scenarios : scenarios'[name] = <<>>
    BY <1>1 DEF Scenarios
  <2> QED BY <2>1 DEF LayersFollow
<1>5. ResultFollows'
  BY <1>1, NoResultYet DEF ResultFollows
<1> QED BY <1>2, <1>3, <1>4, <1>5 DEF FiguresInv

LEMMA FiguresInSignals == IInv /\ FiguresInv /\ SignalsSection => FiguresInv'
<1> SUFFICES ASSUME IInv, FiguresInv, SignalsSection PROVE FiguresInv'
  OBVIOUS
<1>1. /\ stage = "SIGNALS" /\ stage' = "TREND"
      /\ UNCHANGED <<store, requests, official, research, features, trend, base, trend_scenario, scenarios, result>>
      /\ trend_scenario = <<>> /\ \A name \in Scenarios : scenarios[name] = <<>>
      /\ signals' = all_signals(research.events, store, Len(base.months))
  BY DEF SignalsSection, go, IInv, LayersAreStored, BeforeFinance
<1>2. InputsAreSound'
  BY <1>1 DEF FiguresInv, InputsAreSound
<1>3. FiguresFollow'
  BY <1>1 DEF FiguresInv, FiguresFollow, Unforecast, Forecast
<1>4. LayersFollow'
  <2>1. "BASELINE" \in Scenarios /\ trend_scenario' = <<>> /\ \A name \in Scenarios : scenarios'[name] = <<>>
    BY <1>1 DEF Scenarios
  <2> QED BY <2>1 DEF LayersFollow
<1>5. ResultFollows'
  BY <1>1, NoResultYet DEF ResultFollows
<1> QED BY <1>2, <1>3, <1>4, <1>5 DEF FiguresInv

LEMMA FiguresInTrend == IInv /\ FiguresInv /\ TrendScenario => FiguresInv'
<1> SUFFICES ASSUME IInv, FiguresInv, TrendScenario PROVE FiguresInv'
  OBVIOUS
<1>1. /\ stage = "TREND" /\ stage' \in {"SCENARIOS", "POLICIES"}
      /\ UNCHANGED <<store, requests, official, research, features, trend, base, signals, scenarios, result>>
      /\ \A name \in Scenarios : scenarios[name] = <<>>
      /\ trend_scenario' = financial_scenario(store, trend, adjusted("BASELINE"), <<>>)
  BY DEF TrendScenario, go, IInv, LayersAreStored, BeforeFinance
<1>2. InputsAreSound'
  BY <1>1 DEF FiguresInv, InputsAreSound
<1>3. FiguresFollow'
  BY <1>1 DEF FiguresInv, FiguresFollow, Unforecast, Forecast
<1>4. LayersFollow'
  <2>1. adjusted("BASELINE")' = adjusted("BASELINE")
    BY <1>1 DEF adjusted
  <2>2. "BASELINE" \in Scenarios
    BY DEF Scenarios
  <2> QED BY <1>1, <2>1, <2>2 DEF LayersFollow
<1>5. ResultFollows'
  BY <1>1, NoResultYet DEF ResultFollows
<1> QED BY <1>2, <1>3, <1>4, <1>5 DEF FiguresInv

LEMMA FiguresInScenario == IInv /\ FiguresInv /\ NextScenario => FiguresInv'
<1> SUFFICES ASSUME IInv, FiguresInv, NextScenario PROVE FiguresInv'
  OBVIOUS
<1>1. /\ stage = "SCENARIOS" /\ stage' \in {"SCENARIOS", "POLICIES"}
      /\ UNCHANGED <<store, requests, official, research, features, trend, base, signals, trend_scenario, result>>
  BY DEF NextScenario, go
<1>2. PICK name \in {next_scenario} :
         scenarios' = [scenarios EXCEPT ![name] = financial_scenario(store, base, adjusted(name), features.months)]
  BY DEF NextScenario
<1>3. PICK names \in {{}, {"BASELINE"}, {"BASELINE", "LOW_IMPACT"}} : Calculated(names)
  BY <1>1 DEF IInv, LayersAreStored
<1>4. /\ names = {} => name = "BASELINE"
      /\ names = {"BASELINE"} => name = "LOW_IMPACT"
      /\ names = {"BASELINE", "LOW_IMPACT"} => name = "HIGH_IMPACT"
  BY <1>2, <1>3, NextInOrder
<1>5. name \in Scenarios /\ DOMAIN scenarios = Scenarios
  BY <1>3, <1>4 DEF IInv, Typed, Scenarios
<1>6. InputsAreSound'
  BY <1>1 DEF FiguresInv, InputsAreSound
<1>7. FiguresFollow'
  BY <1>1 DEF FiguresInv, FiguresFollow, Unforecast, Forecast
<1>8. LayersFollow'
  <2>1. \A other : adjusted(other)' = adjusted(other)
    BY <1>1 DEF adjusted
  <2>2. \A other \in Scenarios :
           scenarios'[other] = IF other = name THEN financial_scenario(store, base, adjusted(name), features.months)
                               ELSE scenarios[other]
    BY <1>2, <1>5
  <2>3. \A other \in Scenarios :
           scenarios'[other] \in {<<>>, financial_scenario(store, base, adjusted(other), features.months)'}
    BY <1>1, <2>1, <2>2 DEF FiguresInv, LayersFollow
  <2>4. trend_scenario' # <<>>
    BY <1>1, <1>3 DEF Calculated
  <2>5. scenarios'["BASELINE"] = <<>> => \A other \in Scenarios : scenarios'[other] = <<>>
    <3>1. CASE names = {}
      <4>1. name = "BASELINE" /\ \A other \in Scenarios : scenarios[other] = <<>>
        BY <1>3, <1>4, <3>1 DEF Calculated
      <4> QED BY <1>5, <2>2, <4>1
    <3>2. CASE names # {}
      <4>1. name # "BASELINE" /\ scenarios["BASELINE"] # <<>> /\ "BASELINE" \in Scenarios
        BY <1>3, <1>4, <3>2 DEF Calculated, Scenarios
      <4> QED BY <2>2, <4>1
    <3> QED BY <3>1, <3>2
  <2>6. trend_scenario' \in {<<>>, financial_scenario(store, trend, adjusted("BASELINE"), <<>>)'}
    BY <1>1, <2>1 DEF FiguresInv, LayersFollow
  <2> QED BY <2>3, <2>4, <2>5, <2>6 DEF LayersFollow
<1>9. ResultFollows'
  BY <1>1, NoResultYet DEF ResultFollows
<1> QED BY <1>6, <1>7, <1>8, <1>9 DEF FiguresInv

LEMMA FiguresInAssemble == IInv /\ FiguresInv /\ Assemble => FiguresInv'
<1> SUFFICES ASSUME IInv, FiguresInv, Assemble PROVE FiguresInv'
  OBVIOUS
<1>1. /\ stage = "RESULT" /\ stage' = "DONE"
      /\ UNCHANGED <<store, requests, official, research, features, trend, base, signals, trend_scenario, scenarios>>
  BY DEF Assemble, go
<1>2. InputsAreSound'
  BY <1>1 DEF FiguresInv, InputsAreSound
<1>3. FiguresFollow'
  BY <1>1 DEF FiguresInv, FiguresFollow, Unforecast, Forecast
<1>4. LayersFollow'
  BY <1>1 DEF FiguresInv, LayersFollow, adjusted
<1>5. ResultFollows'
  <2>1. comparisons' = comparisons /\ told_of_events' = told_of_events
    BY <1>1 DEF comparisons, told_of_events, terminal
  <2>2. PICK r : result' = <<r>> /\ r.comparisons = comparisons /\ r.events = told_of_events
    BY DEF Assemble, told_of_events
  <2>3. Range(result') = {r}
    BY <2>2 DEF Range
  <2> QED BY <1>1, <2>1, <2>2, <2>3 DEF ResultFollows
<1> QED BY <1>2, <1>3, <1>4, <1>5 DEF FiguresInv

LEMMA FiguresInOthers ==
    IInv /\ FiguresInv /\ (NoBaseline \/ PoliciesSection \/ NoFinance \/ Raise \/ UNCHANGED vars) => FiguresInv'
<1> SUFFICES ASSUME IInv, FiguresInv, NoBaseline \/ PoliciesSection \/ NoFinance \/ Raise \/ UNCHANGED vars
             PROVE  FiguresInv'
  OBVIOUS
<1>1. UNCHANGED <<store, requests, official, research, features, trend, base, signals,
                  trend_scenario, scenarios, result>>
  BY DEF NoBaseline, PoliciesSection, NoFinance, Raise, vars
<1>2. stage' = stage \/ (stage' \notin Early /\ stage # "DONE")
  BY DEF NoBaseline, PoliciesSection, NoFinance, Raise, vars, go, Early
<1> QED BY <1>1, <1>2, NoResultYet, RestKeeps

\* The figures, the layers and the result follow from the inputs of the run.
THEOREM FiguresInvariance == Spec => []FiguresInv
<1>1. IInv /\ FiguresInv /\ [Next]_vars => FiguresInv'
  <2> SUFFICES ASSUME IInv, FiguresInv, [Next]_vars PROVE FiguresInv'
    OBVIOUS
  <2> QED BY FiguresInData, FiguresInResearch, FiguresInBaseline, FiguresInSignals, FiguresInTrend,
             FiguresInScenario, FiguresInAssemble, FiguresInOthers DEF Next
<1> QED BY FiguresInit, Invariance, <1>1, PTL DEF Spec

-----------------------------------------------------------------------------
(* Figures known in time.                                                   *)

\* The property's condition, over any observations collected.
BridgesOver(S, e, o) ==
    /\ bridged_type(e) /\ e.tier = "OFFICIAL_PRIMARY" /\ ~e.foreign /\ e.official.evidenced
    /\ o.revision = e.id /\ o.observed = e.start /\ o.value = e.official.value[1]
    /\ \A p \in current(S, o.indicator) : p.observed < e.start

unrefused(S, e) == bridge_refusal(S, e) = ""

LEMMA Unrefused ==
    ASSUME NEW S, NEW e, unrefused(S, e)
    PROVE  /\ e.tier = "OFFICIAL_PRIMARY" /\ ~e.foreign /\ e.official.evidenced /\ e.official.value # <<>>
           /\ current(S, EventIndicators[e.type]) # {}
           /\ ~(e.start <= latest(current(S, EventIndicators[e.type])).observed)
           /\ ~(e.start > AsOf)
<1> DEFINE series == current(S, EventIndicators[e.type])
<1>1. e.tier = "OFFICIAL_PRIMARY" /\ ~e.foreign
  BY DEF unrefused, bridge_refusal
<1>2. e.official.value # <<>> /\ e.official.evidenced /\ series # {}
  BY <1>1 DEF unrefused, bridge_refusal
<1>3. ~(e.start <= latest(series).observed) /\ ~(e.start > AsOf)
  BY <1>1, <1>2 DEF unrefused, bridge_refusal
<1> QED BY <1>1, <1>2, <1>3

\* A bridge adds at most the event's observation, and that only over a series
\* that has not reached it.
LEMMA BridgeStep ==
    ASSUME NEW so_far, NEW e, SoundEvent(e), SoundObservations(so_far.observations),
           NEW S \in SUBSET so_far.observations
    PROVE  /\ SoundObservations(bridge(so_far, e).observations)
           /\ so_far.observations \subseteq bridge(so_far, e).observations
           /\ \A o \in bridge(so_far, e).observations :
                 o \in so_far.observations \/ BridgesOver(S, e, o)
<1> DEFINE got == bridge(so_far, e)
           series == current(so_far.observations, EventIndicators[e.type])
<1>1. \/ got.observations = so_far.observations
      \/ /\ bridged_type(e) /\ unrefused(so_far.observations, e)
         /\ got.observations = so_far.observations \cup {synthetic(e)}
  <2>1. CASE ~bridged_type(e) \/ semantic_identity(e) \in so_far.seen
    BY <2>1 DEF bridge
  <2>2. CASE bridged_type(e) /\ semantic_identity(e) \notin so_far.seen
    <3>1. got.observations =
             so_far.observations \cup (IF unrefused(so_far.observations, e) THEN {synthetic(e)} ELSE {})
      BY <2>2 DEF bridge, unrefused
    <3> HIDE DEF got
    <3> QED BY <2>2, <3>1
  <2> QED BY <2>1, <2>2
<1>2. CASE got.observations = so_far.observations
  <2> HIDE DEF got
  <2> QED BY <1>2 DEF got
<1>3. CASE /\ bridged_type(e) /\ unrefused(so_far.observations, e)
           /\ got.observations = so_far.observations \cup {synthetic(e)}
  <2>1. /\ e.tier = "OFFICIAL_PRIMARY" /\ ~e.foreign /\ e.official.evidenced /\ e.official.value # <<>>
        /\ series # {} /\ ~(e.start <= latest(series).observed) /\ ~(e.start > AsOf)
    BY <1>3, Unrefused
  <2>2. series \in SUBSET so_far.observations
    BY DEF current
  <2>3. SoundObservations(series)
    BY <2>2, PartOfSound
  <2>4. latest(series) \in series /\ \A p \in series : p.observed <= latest(series).observed
    BY <2>1, <2>3, LatestOf, LatestDay
  <2>5. /\ \A p \in series : p.observed \in Int
        /\ e.start \in Int /\ e.n \in Int /\ e.official.value \in Seq(Int)
    BY <2>3 DEF SoundObservations, InTime, SoundEvent
  <2> DEFINE o == synthetic(e)
  <2>6. /\ o.indicator = EventIndicators[e.type] /\ o.value = e.official.value[1] /\ o.observed = e.start
        /\ o.released = e.start /\ o.available = e.start /\ o.revision = e.id /\ o.n = -e.n
    BY DEF synthetic
  <2> HIDE DEF o, series
  <2>7. \A p \in series : p.observed < e.start
    BY <2>1, <2>4, <2>5
  <2>8. current(S, o.indicator) \subseteq series
    BY <2>6 DEF current, series
  <2>9. BridgesOver(S, e, o)
    BY <1>3, <2>1, <2>6, <2>7, <2>8 DEF BridgesOver
  <2>10. InTime(o)
    <3>1. e.official.value[1] \in Int
      BY <2>1, <2>5
    <3> QED BY <2>1, <2>5, <2>6, <3>1, OfficialAssumption DEF InTime
  <2>11. SoundObservations(so_far.observations \cup {o})
    <3>1. IsFiniteSet(so_far.observations \cup {o})
      BY FS_AddElement DEF SoundObservations
    <3> QED BY <2>10, <3>1 DEF SoundObservations
  <2> HIDE DEF got
  <2>12. got.observations = so_far.observations \cup {o}
    BY <1>3 DEF o
  <2> QED BY <2>9, <2>11, <2>12 DEF got
<1> QED BY <1>1, <1>2, <1>3

\* Events are told apart by their numbers.
SoundEvents(events) ==
    /\ IsFiniteSet(events) /\ \A e \in events : SoundEvent(e)
    /\ \A e, f \in events : e.id = f.id \/ e.n = f.n => e = f

LEMMA EventsInOrder ==
    ASSUME NEW events, SoundEvents(events)
    PROVE  by_start(events) \in Seq(events)
<1> DEFINE s == SetToSeq(events)
           R == {pair \in (DOMAIN s) \X (DOMAIN s) : starts_before(s[pair[1]], s[pair[2]])}
<1>1. s \in Seq(events) /\ IsInjective(s)
  BY SetAsSequence DEF SoundEvents
<1>2. by_start(events) = Arranged(s, R)
  BY DEF by_start
<1> HIDE DEF s
<1>3. /\ DOMAIN s = 1 .. Len(s) /\ \A i \in 1 .. Len(s) : s[i] \in events
      /\ \A i, j \in 1 .. Len(s) : <<i, j>> \in R <=> starts_before(s[i], s[j])
      /\ \A i, j \in 1 .. Len(s) : s[i] = s[j] => i = j
  BY <1>1 DEF IsInjective
<1> HIDE DEF R
<1>4. \A e \in events : e.start \in Int /\ e.n \in Int
  BY DEF SoundEvents, SoundEvent
<1>5. /\ \A e \in events : ~starts_before(e, e)
      /\ \A e, f \in events : e # f => starts_before(e, f) \/ starts_before(f, e)
  <2>1. \A e, f \in events : e # f => e.n # f.n
    BY DEF SoundEvents
  <2> QED BY <1>4, <2>1 DEF starts_before
<1>6. \A e, f, g \in events : starts_before(e, f) /\ starts_before(f, g) => starts_before(e, g)
  BY <1>4 DEF starts_before
<1>7. Orders(R, Len(s))
  BY <1>3, <1>5, <1>6 DEF Orders
<1> QED BY <1>1, <1>2, <1>7, ArrangedRange

Bridging == INSTANCE SequenceLemmas WITH Op <- bridge

LEMMA Bridged ==
    ASSUME NEW S, SoundObservations(S), NEW events, SoundEvents(events)
    PROVE  LET B == apply_official_event_bridge(S, events).observations
           IN /\ SoundObservations(B)
              /\ \A o \in B : o \in S \/ \E e \in events : BridgesOver(S, e, o)
<1> DEFINE s == by_start(events)
           start == [observations |-> S, seen |-> {}, decisions |-> {}]
           n == Len(s)
<1>1. s \in Seq(events)
  BY EventsInOrder
<1>2. apply_official_event_bridge(S, events) = FoldLeft(bridge, start, s)
  BY DEF apply_official_event_bridge
<1> HIDE DEF s
<1>3. n \in Nat /\ \A k \in 1 .. n : s[k] \in events
  BY <1>1
<1>4. start.observations = S
  OBVIOUS
<1> HIDE DEF start
<1>5. PICK f : Bridging!Folds(f, start, s, Len(s)) /\ Bridging!FoldLeft(bridge, start, s) = f[Len(s)]
  BY <1>1, Bridging!FoldSteps
<1>6. FoldLeft(bridge, start, s) = Bridging!FoldLeft(bridge, start, s)
  BY DEF FoldLeft, MapThenFoldSet, Max, Bridging!FoldLeft, Bridging!MapThenFoldSet, Bridging!Max
<1> DEFINE Kept(B) == /\ SoundObservations(B) /\ S \subseteq B
                      /\ \A o \in B : o \in S \/ \E e \in events : BridgesOver(S, e, o)
           Good == {k \in 0 .. n : Kept(f[k].observations)}
<1>7. 0 \in Good
  BY <1>3, <1>4, <1>5 DEF Bridging!Folds
<1>8. ASSUME NEW k \in 0 .. n, k < n, k \in Good PROVE k + 1 \in Good
  <2>1. k + 1 \in 1 .. n /\ k + 1 \in 0 .. n
    BY <1>3, <1>8
  <2>2. f[k + 1] = bridge(f[k], s[k + 1])
    BY <1>5, <1>8 DEF Bridging!Folds
  <2>3. Kept(f[k].observations)
    BY <1>8
  <2>4. s[k + 1] \in events /\ SoundEvent(s[k + 1])
    BY <1>3, <2>1 DEF SoundEvents
  <2>5. /\ SoundObservations(bridge(f[k], s[k + 1]).observations)
        /\ f[k].observations \subseteq bridge(f[k], s[k + 1]).observations
        /\ \A o \in bridge(f[k], s[k + 1]).observations :
              o \in f[k].observations \/ BridgesOver(S, s[k + 1], o)
    BY <2>3, <2>4, BridgeStep
  <2>6. Kept(bridge(f[k], s[k + 1]).observations)
    BY <2>3, <2>4, <2>5
  <2> HIDE DEF Kept
  <2> QED BY <2>1, <2>2, <2>6
<1>9. \A k \in 0 .. n : k \in Good
  <2> HIDE DEF Good, n
  <2> QED BY <1>3, <1>7, <1>8, PrefixInduction
<1>10. Kept(f[n].observations)
  BY <1>3, <1>9
<1> QED BY <1>2, <1>5, <1>6, <1>10

LEMMA UsedOnes ==
    ASSUME NEW S, SoundObservations(S), S # {}
    PROVE  latest(S) \in used(S) /\ used(S) \subseteq S
<1>1. latest(S) \in S
  BY LatestOf
<1>2. ASSUME S # {latest(S)} PROVE latest(S \ {latest(S)}) \in S
  <2>1. S \ {latest(S)} # {}
    BY <1>1, <1>2
  <2>2. SoundObservations(S \ {latest(S)})
    BY PartOfSound
  <2> QED BY <2>1, <2>2, LatestOf
<1> QED BY <1>1, <1>2 DEF used

\* The observations a month's features rest on.
LEMMA SourcesAreValid ==
    ASSUME NEW bridged, SoundObservations(bridged.observations), NEW months, NEW step \in 1 .. months,
           NEW o \in features_of(bridged, months).months[step].sources
    PROVE  o \in bridged.observations /\ o.quality = "VALID"
<1> DEFINE valid == {p \in bridged.observations : p.quality = "VALID"}
           series == by_series(valid)
<1>1. features_of(bridged, months).months[step] = month_features(series, step)
  BY DEF features_of
<1>2. month_features(series, step).sources = UNION {used(series[i]) : i \in DOMAIN series}
  BY DEF month_features
<1>3. PICK i \in DOMAIN series : o \in used(series[i])
  BY <1>1, <1>2
<1>4. series[i] \in SUBSET valid /\ series[i] # {}
  BY DEF by_series
<1>5. SoundObservations(series[i])
  BY <1>4, PartOfSound
<1>6. o \in valid
  <2> HIDE DEF series
  <2> QED BY <1>3, <1>4, <1>5, UsedOnes
<1> QED BY <1>6

LEMMA EventsAreSound == FiguresInv => SoundEvents(research.events) /\ SoundObservations(official.observations)
BY DEF FiguresInv, InputsAreSound, SoundOutcome, SoundEvents

LEMMA FiguresAreKnown == FiguresInv => KnownInTime
<1> SUFFICES ASSUME FiguresInv, NEW o \in FeatureSources
             PROVE  /\ o.quality = "VALID"
                    /\ o.observed <= AsOf /\ o.released <= AsOf /\ o.available <= AsOf
                    /\ o \in official.observations \/ \E e \in research.events : bridges(e, o)
  BY DEF KnownInTime
<1>1. CASE Unforecast
  <2>1. features.months = <<>>
    BY <1>1, Zenon DEF Unforecast, NoFeatures
  <2> QED BY <2>1 DEF FeatureSources
<1>2. CASE Forecast
  <2> DEFINE bridged == apply_official_event_bridge(official.observations, research.events)
  <2>1. features = features_of(bridged, store.horizon)
    BY <1>2 DEF Forecast, official_features
  <2>2. /\ SoundObservations(bridged.observations)
        /\ \A p \in bridged.observations :
              p \in official.observations \/ \E e \in research.events : BridgesOver(official.observations, e, p)
    BY EventsAreSound, Bridged
  <2> HIDE DEF bridged
  <2>3. DOMAIN features.months = 1 .. store.horizon
    BY <2>1 DEF features_of
  <2>4. PICK step \in 1 .. store.horizon : o \in features_of(bridged, store.horizon).months[step].sources
    BY <2>1, <2>3 DEF FeatureSources
  <2>5. o \in bridged.observations /\ o.quality = "VALID"
    BY <2>2, <2>4, SourcesAreValid
  <2>6. InTime(o)
    BY <2>2, <2>5 DEF SoundObservations
  <2>7. ASSUME NEW e \in research.events, BridgesOver(official.observations, e, o) PROVE bridges(e, o)
    BY <2>7 DEF BridgesOver, bridges
  <2> QED BY <2>2, <2>5, <2>6, <2>7 DEF InTime
<1> QED BY <1>1, <1>2 DEF FiguresInv, FiguresFollow

-----------------------------------------------------------------------------
(* Whole numbers, and the powers of a ratio.                                *)

LEMMA Numbers ==
    /\ \A x, y \in Int : part(x, y) \in Int /\ most(x, y) \in Int /\ least(x, y) \in Int
    /\ \A x, y \in Int : most(x, y) >= x /\ most(x, y) >= y /\ least(x, y) <= x /\ least(x, y) <= y
    /\ \A x \in Int : at_least_zero(x) \in Nat /\ magnitude(x) \in Nat
    /\ \A x, low, high \in Int : clip(x, low, high) \in Int
    /\ \A x, low, high \in Int : low <= high => low <= clip(x, low, high) /\ clip(x, low, high) <= high
    /\ \A x, bound \in Int : within(x, bound) \in Int
    /\ \A x \in Int : part(0, x) = 0 /\ part(x, Whole) = x
BY DEF part, most, least, at_least_zero, magnitude, clip, within, Whole

LEMMA PartType == \A x, y \in Int : part(x, y) \in Int
BY Numbers

\* The first n powers, each a part of the one before.
Rises(p, by, n) == p[0] = Whole /\ \A i \in 0 .. n : i < n => p[i + 1] = part(p[i], by)

LEMMA PowersExist ==
    ASSUME NEW by \in Int, NEW n \in Nat
    PROVE  \E p \in [0 .. n -> Int] : Rises(p, by, n)
<1> DEFINE Good == {m \in 0 .. n : \E p \in [0 .. m -> Int] : Rises(p, by, m)}
<1>1. 0 \in Good
  <2>1. [i \in 0 .. 0 |-> Whole] \in [0 .. 0 -> Int] /\ Rises([i \in 0 .. 0 |-> Whole], by, 0)
    BY DEF Rises, Whole
  <2> QED BY <2>1
<1>2. ASSUME NEW m \in 0 .. n, m < n, m \in Good PROVE m + 1 \in Good
  <2>1. PICK p \in [0 .. m -> Int] : Rises(p, by, m)
    BY <1>2
  <2>2. m \in Nat /\ m + 1 \in 0 .. n
    BY <1>2
  <2> DEFINE g == [i \in 0 .. (m + 1) |-> IF i = m + 1 THEN part(p[m], by) ELSE p[i]]
  <2>3. g \in [0 .. (m + 1) -> Int]
    <3>1. part(p[m], by) \in Int
      <4>1. p[m] \in Int
        BY <2>2
      <4> QED BY <4>1, PartType
    <3>2. ASSUME NEW i \in 0 .. (m + 1), i # m + 1 PROVE p[i] \in Int
      BY <2>2, <3>2
    <3> QED BY <3>1, <3>2
  <2>4. (\A i \in 0 .. m : g[i] = p[i]) /\ g[m + 1] = part(p[m], by)
    BY <2>2
  <2> HIDE DEF g
  <2>5. Rises(g, by, m + 1)
    <3>1. g[0] = Whole
      BY <2>1, <2>2, <2>4 DEF Rises
    <3>2. ASSUME NEW i \in 0 .. (m + 1), i < m + 1 PROVE g[i + 1] = part(g[i], by)
      <4>1. CASE i = m
        BY <2>2, <2>4, <4>1
      <4>2. CASE i # m
        <5>1. i \in 0 .. m /\ i + 1 \in 0 .. m /\ i < m
          BY <2>2, <3>2, <4>2
        <5> QED BY <2>1, <2>4, <5>1 DEF Rises
      <4> QED BY <4>1, <4>2
    <3> QED BY <3>1, <3>2 DEF Rises
  <2> QED BY <2>2, <2>3, <2>5
<1>3. \A m \in 0 .. n : m \in Good
  <2> HIDE DEF Good
  <2> QED BY <1>1, <1>2, PrefixInduction
<1> QED BY <1>3

LEMMA PowersRise ==
    ASSUME NEW by \in Int, NEW n \in Nat
    PROVE  powers(by, n) \in [0 .. n -> Int] /\ Rises(powers(by, n), by, n)
<1> DEFINE step(p, i) == IF i = 0 THEN Whole ELSE part(p[i - 1], by)
           Solves(p) == p = [i \in 0 .. n |-> step(p, i)]
<1>1. PICK p \in [0 .. n -> Int] : Rises(p, by, n)
  BY PowersExist
<1>2. Solves(p)
  <2>1. ASSUME NEW i \in 0 .. n PROVE p[i] = step(p, i)
    <3>1. CASE i = 0
      BY <1>1, <3>1 DEF Rises
    <3>2. CASE i # 0
      <4>1. i - 1 \in 0 .. n /\ i - 1 < n /\ (i - 1) + 1 = i
        BY <3>2
      <4> QED BY <1>1, <3>2, <4>1 DEF Rises
    <3> QED BY <3>1, <3>2
  <2> HIDE DEF step
  <2> QED BY <2>1
<1>3. powers(by, n) = CHOOSE q : Solves(q)
  BY DEF powers
<1> HIDE DEF Solves
<1>4. Solves(powers(by, n))
  BY <1>2, <1>3
<1> DEFINE q == powers(by, n)
<1> HIDE DEF q
<1>5. \A i \in 0 .. n : q[i] = step(q, i)
  <2>1. q = [i \in 0 .. n |-> step(q, i)]
    BY <1>4 DEF Solves, q
  <2> HIDE DEF step
  <2> QED BY <2>1
<1>6. Rises(q, by, n)
  <2>1. q[0] = Whole
    BY <1>5
  <2>2. ASSUME NEW i \in 0 .. n, i < n PROVE q[i + 1] = part(q[i], by)
    <3>1. i + 1 \in 0 .. n /\ i + 1 # 0 /\ (i + 1) - 1 = i
      BY <2>2
    <3> QED BY <1>5, <3>1
  <2> QED BY <2>1, <2>2 DEF Rises
<1>7. q \in [0 .. n -> Int]
  <2>1. DOMAIN q = 0 .. n /\ q = [i \in 0 .. n |-> q[i]]
    <3>1. q = [i \in 0 .. n |-> step(q, i)]
      BY <1>4 DEF Solves, q
    <3> HIDE DEF step
    <3> QED BY <3>1
  <2> DEFINE Good == {i \in 0 .. n : q[i] \in Int}
  <2>2. 0 \in Good
    BY <1>6 DEF Rises, Whole
  <2>3. ASSUME NEW i \in 0 .. n, i < n, i \in Good PROVE i + 1 \in Good
    <3>1. i + 1 \in 0 .. n /\ q[i + 1] = part(q[i], by)
      BY <1>6, <2>3 DEF Rises
    <3>2. q[i] \in Int
      BY <2>3
    <3>3. q[i + 1] \in Int
      BY <3>1, <3>2, PartType
    <3> QED BY <3>1, <3>3
  <2>4. \A i \in 0 .. n : i \in Good
    <3> HIDE DEF Good
    <3> QED BY <2>2, <2>3, PrefixInduction
  <2> QED BY <2>1, <2>4
<1> QED BY <1>6, <1>7 DEF q

\* What grows is more than one from the first power on.
LEMMA GrowthIsMore ==
    ASSUME NEW monthly \in Nat \ {0}, NEW n \in Nat \ {0}
    PROVE  growth(monthly, n) \in Int /\ growth(monthly, n) > Whole
<1> DEFINE p == powers(Whole + monthly, n)
<1>1. Whole + monthly \in Int
  BY DEF Whole
<1>2. p \in [0 .. n -> Int] /\ Rises(p, Whole + monthly, n)
  BY <1>1, PowersRise
<1> HIDE DEF p
<1> DEFINE Good == {i \in 0 .. n : p[i] >= Whole /\ (i > 0 => p[i] > Whole)}
<1>3. 0 \in Good
  BY <1>2 DEF Rises, Whole
<1>4. ASSUME NEW i \in 0 .. n, i < n, i \in Good PROVE i + 1 \in Good
  <2>1. i + 1 \in 0 .. n /\ p[i] \in Int /\ p[i] >= Whole /\ p[i + 1] = part(p[i], Whole + monthly)
    BY <1>2, <1>4 DEF Rises
  <2>2. ASSUME NEW x \in Int, x >= Whole PROVE part(x, Whole + monthly) > Whole
    <3>1. PICK y \in Int : y = x * monthly
      OBVIOUS
    <3>2. y >= x
      BY <2>2, <3>1 DEF Whole
    <3>3. x * (Whole + monthly) = x * Whole + y
      BY <3>1 DEF Whole
    <3>4. (x * Whole + y) \div Whole >= x + 1
      BY <2>2, <3>2 DEF Whole
    <3>5. (x * Whole + y) \div Whole \in Int
      BY DEF Whole
    <3> QED BY <2>2, <3>3, <3>4, <3>5 DEF part, Whole
  <2>3. p[i + 1] > Whole /\ p[i + 1] >= Whole
    <3>1. p[i + 1] \in Int /\ p[i + 1] > Whole
      BY <1>2, <2>1, <2>2
    <3> QED BY <3>1 DEF Whole
  <2> QED BY <2>1, <2>3
<1>5. \A i \in 0 .. n : i \in Good
  <2> HIDE DEF Good
  <2> QED BY <1>3, <1>4, PrefixInduction
<1>6. growth(monthly, n) = p[n]
  BY DEF growth, p
<1> QED BY <1>2, <1>5, <1>6

-----------------------------------------------------------------------------
(* A store's forecast.                                                      *)

Models == {"RECENT_MEAN", "RECENT_TREND", "DAMPED_TREND", "SEASONAL_NAIVE", "ETS_DAMPED", "SARIMA"}
Fits == {"ETS_DAMPED", "SARIMA"}

LEMMA LastOnes ==
    ASSUME NEW values \in Seq(Nat), values # <<>>, NEW n \in Nat \ {0}
    PROVE  /\ final(values, n) \in Seq(Nat) /\ Len(final(values, n)) = least(n, Len(values))
           /\ \A i \in 1 .. least(n, Len(values)) : final(values, n)[i] \in Nat
<1> DEFINE L == Len(values)
           m == most(1, L - n + 1)
<1>1. L \in Nat \ {0} /\ m \in 1 .. L /\ L - m + 1 = least(n, L)
  <2>1. L \in Nat \ {0}
    OBVIOUS
  <2> HIDE DEF L
  <2> QED BY <2>1 DEF most, least
<1>2. final(values, n) = SubSeq(values, m, L)
  BY DEF final
<1>3. \A i \in m .. L : values[i] \in Nat
  BY <1>1
<1> HIDE DEF L, m
<1>4. SubSeq(values, m, L) \in Seq(Nat) /\ Len(SubSeq(values, m, L)) = least(n, L)
  BY <1>1, <1>3, SubSeqProperties
<1>5. least(n, L) \in Nat
  BY <1>1 DEF least
<1>6. \A i \in 1 .. least(n, L) : SubSeq(values, m, L)[i] \in Nat
  <2> DEFINE s == SubSeq(values, m, L)
  <2> HIDE DEF s
  <2>1. s \in Seq(Nat) /\ Len(s) = least(n, L)
    BY <1>4 DEF s
  <2>2. \A i \in 1 .. least(n, L) : s[i] \in Nat
    BY <2>1
  <2> QED BY <2>2 DEF s
<1> QED BY <1>2, <1>4, <1>6 DEF L

LEMMA TotalType ==
    ASSUME NEW values \in Seq(Nat)
    PROVE  total(values) \in Int
<1>1. IsFiniteSet(1 .. Len(values)) /\ DOMAIN values = 1 .. Len(values) /\ \A i \in 1 .. Len(values) : values[i] \in Int
  BY FS_Interval
<1>2. total(values) = SumFunctionOnSet(values, 1 .. Len(values))
  BY <1>1 DEF total, SumFunction
<1> QED BY <1>1, <1>2, SumType

LEMMA SumOfPowers ==
    ASSUME NEW by \in Int, NEW n \in Nat, NEW T \in SUBSET (0 .. n)
    PROVE  SumFunctionOnSet(powers(by, n), T) \in Int
<1>1. IsFiniteSet(T)
  <2>1. IsFiniteSet(0 .. n)
    BY FS_Interval
  <2> QED BY <2>1, FS_Subset
<1>2. \A i \in T : powers(by, n)[i] \in Int
  BY PowersRise
<1> QED BY <1>1, <1>2, SumType

LEMMA DampedSumType == \A step \in Nat : damped_sum(step) \in Int
<1> TAKE step \in Nat
<1>1. 1 .. step \in SUBSET (0 .. step) /\ Damping \in Int
  BY DEF Damping
<1>2. SumFunctionOnSet(powers(Damping, step), 1 .. step) \in Int
  BY <1>1, SumOfPowers
<1> QED BY <1>2 DEF damped_sum

LEMMA AtLeastZero == \A x \in Int : at_least_zero(x) \in Nat
BY Numbers

LEMMA Least == \A x, y \in Int : least(x, y) = IF y >= x THEN x ELSE y
BY DEF least

LEMMA WholeQuotient == \A x \in Int, y \in Nat \ {0} : x \div y \in Int
OBVIOUS

LEMMA MeanForecast ==
    ASSUME NEW values \in Seq(Nat), values # <<>>, NEW horizon \in Nat
    PROVE  recent_mean(values, horizon) \in [1 .. horizon -> Nat]
<1> DEFINE window == final(values, 6)
<1>1. window \in Seq(Nat) /\ Len(window) \in Nat \ {0}
  <2>1. Len(values) \in Nat \ {0}
    OBVIOUS
  <2> QED BY <2>1, LastOnes DEF least
<1>2. recent_mean(values, horizon) = [step \in 1 .. horizon |-> at_least_zero(total(window) \div Len(window))]
  BY DEF recent_mean
<1> HIDE DEF window
<1>3. at_least_zero(total(window) \div Len(window)) \in Nat
  <2>1. total(window) \div Len(window) \in Int
    BY <1>1, TotalType, WholeQuotient
  <2> QED BY <2>1, Numbers
<1> QED BY <1>2, <1>3

LEMMA TrendForecast ==
    ASSUME NEW values \in Seq(Nat), Len(values) >= 2, NEW horizon \in Nat
    PROVE  recent_trend(values, horizon) \in [1 .. horizon -> Nat]
<1> DEFINE window == final(values, 6)
           n == Len(window)
           rise == window[n] - window[1]
           said(step) == at_least_zero(window[n] + (rise * step) \div (n - 1))
<1>1. n \in Nat /\ n >= 2 /\ window[n] \in Int /\ window[1] \in Int
  <2>1. Len(values) \in Nat /\ values # <<>>
    OBVIOUS
  <2>2. n = least(6, Len(values)) /\ \A i \in 1 .. least(6, Len(values)) : window[i] \in Nat
    <3>1. 6 \in Nat \ {0}
      OBVIOUS
    <3> QED BY <2>1, <3>1, LastOnes
  <2>3. least(6, Len(values)) \in Nat /\ least(6, Len(values)) >= 2
    BY <2>1 DEF least
  <2> HIDE DEF window, n
  <2> QED BY <2>2, <2>3
<1>2. recent_trend(values, horizon) = [step \in 1 .. horizon |-> said(step)]
  BY DEF recent_trend
<1>3. ASSUME NEW step \in 1 .. horizon PROVE said(step) \in Nat
  <2> HIDE DEF n, window
  <2>1. rise * step \in Int /\ n - 1 \in Nat \ {0}
    BY <1>1
  <2>2. window[n] + (rise * step) \div (n - 1) \in Int
    <3>1. (rise * step) \div (n - 1) \in Int
      <4> HIDE DEF rise
      <4> QED BY <2>1, WholeQuotient
    <3> HIDE DEF rise
    <3> QED BY <1>1, <3>1
  <2> HIDE DEF rise
  <2> QED BY <2>2, Numbers
<1> HIDE DEF said
<1> QED BY <1>2, <1>3

LEMMA DampedForecast ==
    ASSUME NEW values \in Seq(Nat), values # <<>>, NEW horizon \in Nat
    PROVE  damped_trend(values, horizon) \in [1 .. horizon -> Nat]
<1> DEFINE window == final(values, 12)
           n == Len(window)
           slope == (window[n] - window[1]) \div most(1, n - 1)
           said(step) == at_least_zero(window[n] + part(slope, damped_sum(step)))
<1>1. n \in Nat \ {0} /\ window[n] \in Int /\ window[1] \in Int
  <2>1. Len(values) \in Nat \ {0}
    OBVIOUS
  <2>2. n = least(12, Len(values)) /\ \A i \in 1 .. least(12, Len(values)) : window[i] \in Nat
    BY <2>1, LastOnes
  <2>3. least(12, Len(values)) \in Nat \ {0}
    BY <2>1 DEF least
  <2> HIDE DEF window, n
  <2> QED BY <2>2, <2>3
<1>2. damped_trend(values, horizon) = [step \in 1 .. horizon |-> said(step)]
  BY DEF damped_trend
<1> HIDE DEF n, window
<1>3. slope \in Int
  <2>1. most(1, n - 1) \in Nat \ {0} /\ window[n] - window[1] \in Int
    BY <1>1 DEF most
  <2> QED BY <2>1, WholeQuotient
<1> HIDE DEF slope
<1>4. ASSUME NEW step \in 1 .. horizon PROVE said(step) \in Nat
  <2>1. damped_sum(step) \in Int
    BY DampedSumType
  <2>2. part(slope, damped_sum(step)) \in Int
    BY <1>3, <2>1, PartType
  <2>3. window[n] + part(slope, damped_sum(step)) \in Int
    BY <1>1, <2>2
  <2> QED BY <2>3, Numbers
<1> HIDE DEF said
<1> QED BY <1>2, <1>4

LEMMA SeasonalForecast ==
    ASSUME NEW values \in Seq(Nat), Len(values) >= 12, NEW horizon \in Nat
    PROVE  seasonal_naive(values, horizon) \in [1 .. horizon -> Nat]
<1> DEFINE season == final(values, 12)
           said(step) == at_least_zero(season[((step - 1) % 12) + 1])
<1>1. \A i \in 1 .. 12 : season[i] \in Nat
  <2>1. Len(values) \in Nat /\ values # <<>>
    OBVIOUS
  <2>2. \A i \in 1 .. least(12, Len(values)) : season[i] \in Nat
    BY <2>1, LastOnes
  <2>3. least(12, Len(values)) = 12
    BY <2>1, Least
  <2> HIDE DEF season
  <2> QED BY <2>2, <2>3
<1>2. seasonal_naive(values, horizon) = [step \in 1 .. horizon |-> said(step)]
  BY DEF seasonal_naive
<1> HIDE DEF season
<1>3. ASSUME NEW step \in 1 .. horizon PROVE said(step) \in Nat
  <2>1. ((step - 1) % 12) + 1 \in 1 .. 12
    OBVIOUS
  <2>2. PICK i : i = ((step - 1) % 12) + 1
    OBVIOUS
  <2>3. season[i] \in Nat
    BY <1>1, <2>1, <2>2
  <2>4. season[i] \in Int /\ said(step) = at_least_zero(season[i])
    BY <2>2, <2>3
  <2> QED BY <2>4, AtLeastZero
<1> HIDE DEF said
<1> QED BY <1>2, <1>3

\* A model's forecast: of a fit, that it may have raised.
LEMMA PredictType ==
    ASSUME NEW values \in Seq(Nat), NEW model \in Models, Len(values) >= MinHistory[model], NEW horizon \in Nat,
           model \in Fits => Fitted(model, values, horizon) = <<>>
                             \/ Fitted(model, values, horizon) \in [1 .. horizon -> Nat]
    PROVE  \/ predict(model, values, horizon) \in [1 .. horizon -> Nat]
           \/ model \in Fits /\ predict(model, values, horizon) = <<>>
<1>1. Len(values) \in Nat /\ MinHistory[model] \in Nat \ {0} /\ Len(values) > 0 /\ values # <<>>
  BY DEF Models, MinHistory
<1>2. CASE model = "RECENT_MEAN"
  BY <1>1, <1>2, MeanForecast DEF predict
<1>3. CASE model = "RECENT_TREND"
  <2>1. Len(values) >= 2
    BY <1>1, <1>3 DEF MinHistory
  <2> QED BY <1>3, <2>1, TrendForecast DEF predict
<1>4. CASE model = "DAMPED_TREND"
  BY <1>1, <1>4, DampedForecast DEF predict
<1>5. CASE model = "SEASONAL_NAIVE"
  <2>1. Len(values) >= 12
    BY <1>1, <1>5 DEF MinHistory
  <2> QED BY <1>5, <2>1, SeasonalForecast DEF predict
<1>6. CASE model \in Fits
  <2>1. predict(model, values, horizon) = Fitted(model, values, horizon)
    BY <1>6 DEF predict, Fits
  <2> QED BY <1>6, <2>1
<1> QED BY <1>2, <1>3, <1>4, <1>5, <1>6 DEF Models, Fits

\* The forecast of a part of a store's history.
LEMMA PredictionOf ==
    ASSUME NEW s \in Stores, NEW n \in 1 .. Len(s.history), NEW model \in Models, n >= MinHistory[model],
           NEW horizon \in {1, s.horizon}
    PROVE  \/ predict(model, SubSeq(s.history, 1, n), horizon) \in [1 .. horizon -> Nat]
           \/ predict(model, SubSeq(s.history, 1, n), horizon) = <<>>
<1> DEFINE values == SubSeq(s.history, 1, n)
<1>1. SoundStore(s) /\ SoundFits(s)
  BY InputsAssumption
<1>2. values \in Seq(Nat) /\ Len(values) = n
  <2>1. s.history \in Seq(Nat) /\ Len(s.history) \in Nat
    BY <1>1 DEF SoundStore
  <2>2. \A i \in 1 .. n : s.history[i] \in Nat
    BY <2>1
  <2>3. 1 \in Nat /\ n \in Nat /\ n - 1 + 1 = n
    BY <2>1
  <2> QED BY <2>1, <2>2, <2>3, SubSeqProperties
<1>3. model \in Fits => Fitted(model, values, horizon) = <<>> \/ Fitted(model, values, horizon) \in [1 .. horizon -> Nat]
  BY <1>1 DEF SoundFits, Fits
<1>4. horizon \in Nat
  BY <1>1 DEF SoundStore
<1> HIDE DEF values
<1>5. \/ predict(model, values, horizon) \in [1 .. horizon -> Nat]
      \/ predict(model, values, horizon) = <<>>
  BY <1>2, <1>3, <1>4, PredictType
<1> QED BY <1>5 DEF values

LEMMA WholeError ==
    ASSUME NEW fold, fold.actual \in Nat, fold.said[1] \in Nat
    PROVE  magnitude(fold.actual - fold.said[1]) \in Int /\ smape(fold) \in Int
<1>1. PICK a \in Nat : a = fold.actual
  OBVIOUS
<1>2. PICK b \in Nat : b = fold.said[1]
  OBVIOUS
<1>3. magnitude(a) \in Nat /\ magnitude(b) \in Nat /\ magnitude(a - b) \in Nat
  BY DEF magnitude
<1>4. PICK size \in Nat : size = magnitude(a) + magnitude(b)
  BY <1>3
<1>5. PICK x \in Int : x = 2 * Whole * magnitude(a - b)
  BY <1>3 DEF Whole
<1>6. size # 0 => x \div size \in Int
  BY WholeQuotient
<1>7. smape(fold) = IF size = 0 THEN 0 ELSE x \div size
  BY <1>1, <1>2, <1>4, <1>5 DEF smape
<1> QED BY <1>1, <1>2, <1>3, <1>6, <1>7

SoundMetric(m) ==
    m.failed \in BOOLEAN /\ m.tested \in BOOLEAN /\ m.mae \in Int /\ m.smape \in Int /\ m.model \in Models

LEMMA MeasuredType ==
    ASSUME NEW model \in Models, NEW S, IsFiniteSet(S), NEW folds, DOMAIN folds = S,
           \A split \in S : folds[split].actual \in Nat
                            /\ (folds[split].said \in [1 .. 1 -> Nat] \/ folds[split].said = <<>>)
    PROVE  SoundMetric(measured(model, folds)) /\ measured(model, folds).model = model
<1> DEFINE refused == \E split \in DOMAIN folds : folds[split].said = <<>>
           mean_of(f) == SumFunction(f) \div Cardinality(DOMAIN folds)
           first == [split \in DOMAIN folds |-> magnitude(folds[split].actual - folds[split].said[1])]
           second == [split \in DOMAIN folds |-> smape(folds[split])]
<1>1. CASE DOMAIN folds = {} \/ refused
  <2>1. measured(model, folds) = [model |-> model, failed |-> refused, tested |-> FALSE, mae |-> 0, smape |-> 0]
    BY <1>1 DEF measured
  <2>2. refused \in BOOLEAN
    OBVIOUS
  <2> HIDE DEF refused
  <2> QED BY <2>1, <2>2 DEF SoundMetric
<1>2. CASE DOMAIN folds # {} /\ ~refused
  <2>1. measured(model, folds) = [model |-> model, failed |-> FALSE, tested |-> TRUE, mae |-> mean_of(first),
                                  smape |-> mean_of(second)]
    BY <1>2 DEF measured
  <2>2. ASSUME NEW split \in S
        PROVE  magnitude(folds[split].actual - folds[split].said[1]) \in Int /\ smape(folds[split]) \in Int
    <3>1. folds[split].actual \in Nat /\ folds[split].said[1] \in Nat
      BY <1>2
    <3> QED BY <3>1, WholeError
  <2>3. Cardinality(S) \in Nat \ {0}
    BY <1>2, FS_CardinalityType, FS_EmptySet
  <2>4. mean_of(first) \in Int
    <3>1. DOMAIN first = S /\ \A split \in S : first[split] \in Int
      BY <2>2
    <3> HIDE DEF first
    <3>2. SumFunction(first) \in Int
      BY <3>1, SumType DEF SumFunction
    <3> QED BY <2>3, <3>2, WholeQuotient
  <2>5. mean_of(second) \in Int
    <3>1. DOMAIN second = S /\ \A split \in S : second[split] \in Int
      BY <2>2
    <3> HIDE DEF second
    <3>2. SumFunction(second) \in Int
      BY <3>1, SumType DEF SumFunction
    <3> QED BY <2>3, <3>2, WholeQuotient
  <2> HIDE DEF first, second, mean_of
  <2> QED BY <2>1, <2>4, <2>5 DEF SoundMetric
<1> QED BY <1>1, <1>2

LEMMA MetricType ==
    ASSUME NEW s \in Stores, NEW model \in Models
    PROVE  SoundMetric(metric(model, s.history)) /\ metric(model, s.history).model = model
<1> DEFINE values == s.history
           S == splits(model, values)
           folds == [split \in S |-> [actual |-> values[split + 1],
                                      said |-> predict(model, SubSeq(values, 1, split), 1)]]
<1>1. values \in Seq(Nat) /\ Len(values) \in Nat
  BY InputsAssumption DEF SoundStore
<1>2. MinHistory[model] \in Nat \ {0}
  BY DEF Models, MinHistory
<1>3. IsFiniteSet(S) /\ \A split \in S : split \in 1 .. Len(values) /\ split + 1 \in 1 .. Len(values) /\ split >= MinHistory[model]
  <2>1. PICK low \in Int : low = most(most(MinHistory[model], 4), Len(values) - most(1, BacktestWindows))
    <3>1. most(MinHistory[model], 4) \in Int /\ Len(values) - most(1, BacktestWindows) \in Int
      <4>1. most(1, BacktestWindows) \in Int
        BY ForecastAssumption DEF most
      <4> QED BY <1>1, <1>2, <4>1 DEF most
    <3> QED BY <3>1, Numbers
  <2>2. S = low .. Len(values) - 1
    BY <2>1 DEF splits
  <2>3. low >= MinHistory[model] /\ low >= 1
    <3>1. most(MinHistory[model], 4) \in Int /\ most(MinHistory[model], 4) >= MinHistory[model]
      BY <1>2 DEF most
    <3>2. Len(values) - most(1, BacktestWindows) \in Int
      <4>1. most(1, BacktestWindows) \in Int
        BY ForecastAssumption DEF most
      <4> QED BY <1>1, <4>1
    <3>3. low >= most(MinHistory[model], 4)
      BY <2>1, <3>1, <3>2, Numbers
    <3> QED BY <1>2, <3>1, <3>3
  <2>4. IsFiniteSet(low .. Len(values) - 1)
    BY <1>1, FS_Interval
  <2> HIDE DEF S
  <2> QED BY <1>1, <1>2, <2>2, <2>3, <2>4
<1> HIDE DEF S
<1>4. ASSUME NEW split \in S
      PROVE  folds[split].actual \in Nat /\ (folds[split].said \in [1 .. 1 -> Nat] \/ folds[split].said = <<>>)
  <2>1. values[split + 1] \in Nat
    BY <1>1, <1>3, <1>4
  <2>2. \/ predict(model, SubSeq(values, 1, split), 1) \in [1 .. 1 -> Nat]
        \/ predict(model, SubSeq(values, 1, split), 1) = <<>>
    BY <1>3, <1>4, PredictionOf
  <2> QED BY <2>1, <2>2
<1>5. metric(model, values) = measured(model, folds)
  BY DEF metric, S
<1>6. DOMAIN folds = S
  OBVIOUS
<1> HIDE DEF folds
<1>7. SoundMetric(measured(model, folds)) /\ measured(model, folds).model = model
  BY <1>3, <1>4, <1>6, MeasuredType
<1> QED BY <1>5, <1>7

LEMMA FourAreFinite == \A a, b, c, d : IsFiniteSet({a, b, c, d})
<1> TAKE a, b, c, d
<1>1. IsFiniteSet({a})
  BY FS_Singleton
<1>2. IsFiniteSet({a} \cup {b})
  BY <1>1, FS_AddElement
<1>3. IsFiniteSet({a} \cup {b} \cup {c})
  BY <1>2, FS_AddElement
<1>4. IsFiniteSet({a} \cup {b} \cup {c} \cup {d})
  BY <1>3, FS_AddElement
<1>5. {a} \cup {b} \cup {c} \cup {d} = {a, b, c, d}
  OBVIOUS
<1> QED BY <1>4, <1>5

\* Metrics are ranked in a strict order.
LEMMA RankedInOrder ==
    /\ \A a : SoundMetric(a) => ~ranked_before(a, a)
    /\ \A a, b, c : SoundMetric(a) /\ SoundMetric(b) /\ SoundMetric(c) /\ ranked_before(a, b) /\ ranked_before(b, c)
                       => ranked_before(a, c)
<1>1. \A model \in Models : ModelPriority[model] \in Int
  BY DEF Models, ModelPriority
<1>2. ASSUME NEW a, SoundMetric(a) PROVE ~ranked_before(a, a)
  BY <1>1, <1>2 DEF SoundMetric, ranked_before
<1>3. ASSUME NEW a, NEW b, NEW c, SoundMetric(a), SoundMetric(b), SoundMetric(c),
             ranked_before(a, b), ranked_before(b, c)
      PROVE  ranked_before(a, c)
  <2>1. /\ ModelPriority[a.model] \in Int /\ ModelPriority[b.model] \in Int /\ ModelPriority[c.model] \in Int
    BY <1>1, <1>3 DEF SoundMetric
  <2> QED BY <1>3, <2>1 DEF SoundMetric, ranked_before
<1> QED BY <1>2, <1>3

LEMMA SelectedWorks ==
    ASSUME NEW metrics, IsFiniteSet(metrics), \A m \in metrics : SoundMetric(m), \E m \in metrics : ~m.failed
    PROVE  selected(metrics) \in metrics /\ ~selected(metrics).failed
<1> DEFINE working == {m \in metrics : ~m.failed}
           first == CHOOSE m \in working : \A other \in working : ~ranked_before(other, m)
           simple == {m \in working : m.model = "RECENT_MEAN" /\ m.tested}
           one == CHOOSE m \in simple : TRUE
           R == {pair \in working \X working : ranked_before(pair[2], pair[1])}
<1>1. \A a, b \in working : <<a, b>> \in R <=> ranked_before(b, a)
  OBVIOUS
<1>2. IsFiniteSet(working) /\ working # {} /\ \A m \in working : SoundMetric(m)
  BY FS_Subset
<1> HIDE DEF R, working
<1>3. \A a \in working : <<a, a>> \notin R
  BY <1>1, <1>2, RankedInOrder
<1>4. \A a, b, c \in working : <<a, b>> \in R /\ <<b, c>> \in R => <<a, c>> \in R
  BY <1>1, <1>2, RankedInOrder
<1>5. \E m \in working : \A other \in working : <<m, other>> \notin R
  BY <1>2, <1>3, <1>4, MaximalMember
<1>6. \E m \in working : \A other \in working : ~ranked_before(other, m)
  BY <1>1, <1>5
<1>7. first \in working
  BY <1>6
<1>8. simple # {} => one \in working
  <2>1. \A m \in simple : m \in working
    OBVIOUS
  <2>2. simple # {} => one \in simple
    <3> HIDE DEF simple
    <3> QED OBVIOUS
  <2> QED BY <2>1, <2>2
<1>9. selected(metrics) = first \/ (simple # {} /\ selected(metrics) = one)
  BY DEF selected, working
<1>10. selected(metrics) \in working
  BY <1>7, <1>8, <1>9
<1> QED BY <1>10 DEF working

LEMMA CandidatesFit ==
    ASSUME NEW n \in Nat, n >= 6
    PROVE  IsFiniteSet(candidates(n)) /\ \A model \in candidates(n) : model \in Models /\ n >= MinHistory[model]
<1>1. /\ MinHistory["RECENT_MEAN"] = 2 /\ MinHistory["RECENT_TREND"] = 4 /\ MinHistory["DAMPED_TREND"] = 8
      /\ MinHistory["SEASONAL_NAIVE"] = 12 /\ MinHistory["ETS_DAMPED"] = 18 /\ MinHistory["SARIMA"] = 24
  BY DEF MinHistory
<1>2. CASE n < 12
  <2>1. candidates(n) = {"RECENT_MEAN", "RECENT_TREND", "RECENT_MEAN", "RECENT_MEAN"}
    BY <1>2 DEF candidates
  <2>2. \A model \in candidates(n) : model \in Models /\ n >= MinHistory[model]
    BY <1>1, <2>1 DEF Models
  <2>3. IsFiniteSet({"RECENT_MEAN", "RECENT_TREND", "RECENT_MEAN", "RECENT_MEAN"})
    BY FourAreFinite, Zenon
  <2> QED BY <2>1, <2>2, <2>3
<1>3. CASE ~(n < 12) /\ n < 24
  <2>1. candidates(n) = {"RECENT_MEAN", "SEASONAL_NAIVE", "DAMPED_TREND", "RECENT_MEAN"}
    BY <1>3 DEF candidates
  <2>2. \A model \in candidates(n) : model \in Models /\ n >= MinHistory[model]
    BY <1>1, <1>3, <2>1 DEF Models
  <2>3. IsFiniteSet({"RECENT_MEAN", "SEASONAL_NAIVE", "DAMPED_TREND", "RECENT_MEAN"})
    BY FourAreFinite, Zenon
  <2> QED BY <2>1, <2>2, <2>3
<1>4. CASE ~(n < 12) /\ ~(n < 24)
  <2>1. candidates(n) = {"RECENT_MEAN", "SEASONAL_NAIVE", "ETS_DAMPED", "SARIMA"}
    BY <1>4 DEF candidates
  <2>2. \A model \in candidates(n) : model \in Models /\ n >= MinHistory[model]
    BY <1>1, <1>4, <2>1 DEF Models
  <2>3. IsFiniteSet({"RECENT_MEAN", "SEASONAL_NAIVE", "ETS_DAMPED", "SARIMA"})
    BY FourAreFinite, Zenon
  <2> QED BY <2>1, <2>2, <2>3
<1> QED BY <1>2, <1>3, <1>4

\* What is forecast, each month of the horizon has got.
LEMMA PointsOfForecast ==
    ASSUME NEW s \in Stores, ~forecast_raises(s), ~(s.history = <<>> /\ s.declared = <<>>)
    PROVE  before_features(s).points \in [1 .. s.horizon -> Nat]
<1> DEFINE values == s.history
           n == Len(values)
           of == {metric(m, values) : m \in candidates(n)}
<1>1. values \in Seq(Nat) /\ n \in Nat /\ s.declared \in Seq(Nat) /\ s.horizon \in Nat \ {0}
  BY InputsAssumption DEF SoundStore
<1>2. CASE n < 6
  <2> DEFINE point == IF s.declared \in {<<>>, <<0>>} THEN values[Len(values)] ELSE s.declared[1]
  <2>1. point \in Nat
    <3>1. CASE s.declared \in {<<>>, <<0>>}
      <4>1. values # <<>>
        BY <3>1 DEF forecast_raises
      <4>2. n \in 1 .. n
        BY <1>1, <4>1
      <4> QED BY <1>1, <3>1, <4>2
    <3>2. CASE s.declared \notin {<<>>, <<0>>}
      <4>1. Len(s.declared) \in Nat \ {0}
        BY <1>1, <3>2
      <4> QED BY <1>1, <3>2, <4>1
    <3> QED BY <3>1, <3>2
  <2>2. before_features(s) = assumed(s, values)
    BY <1>2 DEF before_features
  <2>3. assumed(s, values).points = [step \in 1 .. s.horizon |-> point]
    BY DEF assumed
  <2> HIDE DEF point
  <2> QED BY <2>1, <2>2, <2>3
<1>3. CASE n >= 6
  <2>1. before_features(s) = best_of(s, values, of)
    BY <1>1, <1>3 DEF before_features, modelled
  <2>2. before_features(s).points # <<>>
    BY <1>3 DEF forecast_raises
  <2>3. IsFiniteSet(candidates(n)) /\ \A model \in candidates(n) : model \in Models /\ n >= MinHistory[model]
    <3> HIDE DEF n
    <3> QED BY <1>1, <1>3, CandidatesFit
  <2>4. \A model \in candidates(n) : SoundMetric(metric(model, values)) /\ metric(model, values).model = model
    BY <2>3, MetricType
  <2>5. IsFiniteSet(of)
    <3> DEFINE f == [model \in candidates(n) |-> metric(model, values)]
    <3>1. of = {f[model] : model \in candidates(n)}
      OBVIOUS
    <3> HIDE DEF f, of
    <3> QED BY <2>3, <3>1, FiniteImage
  <2>6. CASE \A m \in of : m.failed
    <3>1. before_features(s) = untestable(recent_mean(values, s.horizon))
      BY <2>1, <2>6 DEF best_of
    <3>2. recent_mean(values, s.horizon) \in [1 .. s.horizon -> Nat]
      <4>1. values # <<>>
        BY <1>3
      <4> QED BY <1>1, <4>1, MeanForecast
    <3> QED BY <3>1, <3>2 DEF untestable
  <2>7. CASE \E m \in of : ~m.failed
    <3>1. PICK chosen : chosen = selected(of)
      OBVIOUS
    <3>2. before_features(s) = by_model(s, values, of, chosen)
      BY <2>1, <2>7, <3>1 DEF best_of
    <3>3. chosen \in of
      <4>1. \A m \in of : SoundMetric(m)
        BY <2>4
      <4> HIDE DEF of
      <4> QED BY <2>5, <2>7, <3>1, <4>1, SelectedWorks
    <3>4. chosen.model \in Models /\ n >= MinHistory[chosen.model]
      BY <2>3, <2>4, <3>3
    <3>5. before_features(s).points = predict(chosen.model, values, s.horizon)
      BY <3>2 DEF by_model
    <3>6. SubSeq(values, 1, n) = values
      BY <1>1
    <3>7. n \in 1 .. Len(s.history)
      BY <1>1, <1>3
    <3> HIDE DEF n, values, of
    <3>8. \/ predict(chosen.model, SubSeq(values, 1, n), s.horizon) \in [1 .. s.horizon -> Nat]
          \/ predict(chosen.model, SubSeq(values, 1, n), s.horizon) = <<>>
      BY <3>4, <3>7, PredictionOf DEF values
    <3> QED BY <2>2, <3>5, <3>6, <3>8
  <2> QED BY <2>6, <2>7
<1> QED BY <1>1, <1>2, <1>3

\* The months of the two forecasts, over the points before the features.
MonthsOver(P) ==
    /\ store.horizon \in Nat \ {0} /\ P \in [1 .. store.horizon -> Nat]
    /\ DOMAIN features.months = 1 .. store.horizon
    /\ DOMAIN trend.months = 1 .. store.horizon /\ DOMAIN base.months = 1 .. store.horizon
    /\ Len(trend.months) = store.horizon /\ Len(base.months) = store.horizon
    /\ \A step \in 1 .. store.horizon :
          /\ trend.months[step].point = part(P[step], Whole)
          /\ base.months[step].point = part(P[step], features.months[step].revenue)

LEMMA MonthsWithFeatures ==
    ASSUME NEW before, NEW n \in Nat, NEW P, DOMAIN P = 1 .. n, before.points = P, NEW given
    PROVE  /\ DOMAIN with_features(before, given).months = 1 .. n /\ Len(with_features(before, given).months) = n
           /\ \A step \in 1 .. n :
                 with_features(before, given).months[step].point
                    = part(P[step], IF step \in DOMAIN given THEN given[step].revenue ELSE Whole)
<1> DEFINE point(step) == part(P[step], IF step \in DOMAIN given THEN given[step].revenue ELSE Whole)
           width(step) == part(before.width, IF step \in DOMAIN given THEN given[step].revenue ELSE Whole)
           month(step) == [point |-> point(step), lower |-> at_least_zero(point(step) - width(step)),
                           upper |-> point(step) + width(step)]
<1>1. with_features(before, given).months = [step \in 1 .. n |-> month(step)]
  BY DEF with_features
<1>2. \A step : month(step).point = point(step)
  OBVIOUS
<1> HIDE DEF month
<1>3. PICK months : months = [step \in 1 .. n |-> month(step)]
  OBVIOUS
<1>4. DOMAIN months = 1 .. n /\ Len(months) = n /\ \A step \in 1 .. n : months[step].point = point(step)
  BY <1>2, <1>3
<1> QED BY <1>1, <1>3, <1>4

LEMMA ForecastMonths ==
    ASSUME FiguresInv
    PROVE  (base.months = <<>> /\ trend.months = <<>>) \/ \E P : MonthsOver(P)
<1>1. CASE Unforecast
  BY <1>1, Zenon DEF Unforecast, NoForecast
<1>2. CASE Forecast /\ store.history = <<>> /\ store.declared = <<>>
  <2>1. trend = forecast(store, <<>>) /\ base = forecast(store, features.months)
    BY <1>2 DEF Forecast
  <2>2. \A given : forecast(store, given).months = <<>>
    BY <1>2 DEF forecast
  <2> QED BY <2>1, <2>2
<1>3. CASE Forecast /\ ~(store.history = <<>> /\ store.declared = <<>>)
  <2> DEFINE P == before_features(store).points
             n == store.horizon
  <2>1. store \in Stores /\ n \in Nat \ {0}
    BY InputsAssumption DEF FiguresInv, InputsAreSound, SoundStore
  <2>2. P \in [1 .. n -> Nat]
    BY <1>3, <2>1, PointsOfForecast DEF Forecast
  <2>3. /\ trend = with_features(before_features(store), <<>>)
        /\ base = with_features(before_features(store), features.months)
    BY <1>3 DEF Forecast, forecast
  <2>4. DOMAIN features.months = 1 .. n
    <3>1. features = features_of(apply_official_event_bridge(official.observations, research.events), n)
      BY <1>3 DEF Forecast, official_features
    <3> QED BY <3>1 DEF features_of
  <2>5. /\ DOMAIN trend.months = 1 .. n /\ Len(trend.months) = n
        /\ \A step \in 1 .. n : trend.months[step].point = part(P[step], Whole)
    <3>1. DOMAIN <<>> = {}
      OBVIOUS
    <3>2. DOMAIN P = 1 .. n /\ before_features(store).points = P
      BY <2>2
    <3> HIDE DEF P, n
    <3> QED BY <2>1, <2>3, <3>1, <3>2, MonthsWithFeatures
  <2>6. /\ DOMAIN base.months = 1 .. n /\ Len(base.months) = n
        /\ \A step \in 1 .. n : base.months[step].point = part(P[step], features.months[step].revenue)
    <3>1. DOMAIN P = 1 .. n /\ before_features(store).points = P
      BY <2>2
    <3> HIDE DEF P, n
    <3> QED BY <2>1, <2>3, <2>4, <3>1, MonthsWithFeatures
  <2>7. MonthsOver(P)
    <3> HIDE DEF P
    <3> QED BY <2>1, <2>2, <2>4, <2>5, <2>6 DEF MonthsOver
  <2> QED BY <2>7
<1> QED BY <1>1, <1>2, <1>3 DEF FiguresInv, FiguresFollow

-----------------------------------------------------------------------------
(* The signals of the events.                                               *)

SoundSignal(s) == s.raw \in Int /\ s.n \in Int

LEMMA SignalIsSound ==
    ASSUME NEW e, SoundEvent(e), NEW i \in e.impacts, NEW s, NEW step \in Int
    PROVE  SoundSignal(signal(e, i, s, step))
<1> DEFINE month == forecast_month(step)
<1>1. month \in Int /\ MonthDays \in Nat \ {0} /\ Whole \in Nat \ {0}
  BY SignalAssumption DEF forecast_month, MonthDays, Whole
<1> HIDE DEF month
<1>2. /\ e.n \in Int /\ e.start \in Int /\ e.end \in Seq(Int) /\ e.severity \in Int /\ e.near \in Int /\ e.hours \in Int
      /\ Evidence[e.tier] \in Int /\ i.direction \in Int
  BY SignalAssumption DEF SoundEvent
<1>3. overlap(e, month) \in Int
  <2> DEFINE from == most(first_day(month), e.start)
             to == IF e.end = <<>> THEN last_day(month) ELSE least(last_day(month), e.end[1])
  <2>1. first_day(month) \in Int /\ last_day(month) \in Int
    BY <1>1 DEF first_day, last_day
  <2>2. from \in Int
    BY <1>2, <2>1 DEF most
  <2>3. to \in Int
    <3>1. e.end # <<>> => e.end[1] \in Int
      BY <1>2
    <3> QED BY <2>1, <3>1 DEF least
  <2>4. overlap(e, month) = IF from > to THEN 0 ELSE ((to - from + 1) * Whole) \div MonthDays
    BY DEF overlap
  <2> HIDE DEF from, to
  <2>5. (to - from + 1) * Whole \in Int
    BY <1>1, <2>2, <2>3
  <2>6. ((to - from + 1) * Whole) \div MonthDays \in Int
    BY <1>1, <2>5, WholeQuotient
  <2> QED BY <2>4, <2>6
<1>4. time_decay(e, month) \in Int
  <2>1. month - month_of(e.start) \in Int
    BY <1>1, <1>2, WholeQuotient DEF month_of
  <2>2. PICK d \in Int : d = month - month_of(e.start)
    BY <2>1
  <2>3. 100 + 15 * most(0, d) \in Nat \ {0}
    BY DEF most
  <2>4. (100 * Whole) \div (100 + 15 * most(0, d)) \in Int
    BY <1>1, <2>3, WholeQuotient
  <2> QED BY <2>2, <2>4 DEF time_decay
<1>5. relevance(e, s) \in Int
  BY <1>1 DEF relevance
<1>6. exposure(e, s, month) \in Int
  <2> DEFINE near == IF e.domain = "LOCAL" THEN e.near ELSE Whole
  <2>1. near \in Int
    BY <1>1, <1>2
  <2>2. exposure(e, s, month) = part(part(part(near, overlap(e, month)), relevance(e, s)), e.hours)
    BY DEF exposure
  <2> HIDE DEF near
  <2>3. part(near, overlap(e, month)) \in Int
    BY <1>3, <2>1, PartType
  <2>4. part(part(near, overlap(e, month)), relevance(e, s)) \in Int
    BY <1>5, <2>3, PartType
  <2> QED BY <1>2, <2>2, <2>4, PartType
<1>7. raw_signal(e, i, s, month) \in Int
  <2>1. part(Evidence[e.tier], e.severity) \in Int
    BY <1>2, PartType
  <2>2. part(exposure(e, s, month), part(Evidence[e.tier], e.severity)) \in Int
    BY <1>6, <2>1, PartType
  <2>3. PICK scored \in Int :
           scored = part(part(exposure(e, s, month), part(Evidence[e.tier], e.severity)), time_decay(e, month))
    BY <1>4, <2>2, PartType
  <2>4. raw_signal(e, i, s, month) = IF i.axis = "INTEREST_COST" /\ ~variable_debt(s) THEN 0 ELSE i.direction * scored
    BY <2>3 DEF raw_signal
  <2>5. i.direction * scored \in Int
    BY <1>2, <2>3
  <2> QED BY <2>4, <2>5
<1>8. signal(e, i, s, step).raw = raw_signal(e, i, s, month) /\ signal(e, i, s, step).n = e.n
  BY DEF signal, month
<1> QED BY <1>2, <1>7, <1>8 DEF SoundSignal

LEMMA EventOfSignal == \A e, i, s, step : signal(e, i, s, step).event = e.id
<1> TAKE e, i, s, step
<1>1. \E cause : signal(e, i, s, step) =
                    [event |-> e.id, step |-> step, axis |-> i.axis, cause |-> cause, n |-> e.n,
                     raw |-> raw_signal(e, i, s, forecast_month(step))]
  BY Zenon DEF signal
<1>2. \A cause, raw : [event |-> e.id, step |-> step, axis |-> i.axis, cause |-> cause, n |-> e.n,
                       raw |-> raw].event = e.id
  OBVIOUS
<1> QED BY <1>1, <1>2

\* What the events signal before one cause is told once.
signals_of(events, s, months) ==
    UNION {{signal(e, i, s, step) : i \in e.impacts, step \in 1 .. months} : e \in {e \in events : signalling(e)}}

LEMMA SignalsAreSound ==
    ASSUME NEW events, IsFiniteSet(events), \A e \in events : SoundEvent(e), NEW s, NEW months \in Nat
    PROVE  /\ IsFiniteSet(signals_of(events, s, months))
           /\ \A t \in signals_of(events, s, months) :
                 SoundSignal(t) /\ \E e \in events : signalling(e) /\ t.event = e.id
<1> DEFINE telling == {e \in events : signalling(e)}
           own == [e \in telling |-> {signal(e, i, s, step) : i \in e.impacts, step \in 1 .. months}]
<1>1. IsFiniteSet(telling)
  BY FS_Subset
<1>2. signals_of(events, s, months) = UNION {own[e] : e \in telling}
  BY DEF signals_of
<1>3. ASSUME NEW e \in telling
      PROVE  /\ IsFiniteSet(own[e])
             /\ \A t \in own[e] : SoundSignal(t) /\ t.event = e.id
  <2> DEFINE pairs == e.impacts \X (1 .. months)
             f == [pair \in pairs |-> signal(e, pair[1], s, pair[2])]
  <2>1. SoundEvent(e) /\ IsFiniteSet(e.impacts)
    BY DEF SoundEvent
  <2>2. IsFiniteSet(pairs)
    <3>1. IsFiniteSet(1 .. months)
      BY FS_Interval
    <3> QED BY <2>1, <3>1, FS_Product
  <2>3. own[e] = {f[pair] : pair \in pairs}
    <3>1. own[e] = {signal(e, i, s, step) : i \in e.impacts, step \in 1 .. months}
      OBVIOUS
    <3>2. ASSUME NEW i \in e.impacts, NEW step \in 1 .. months
          PROVE  signal(e, i, s, step) \in {f[pair] : pair \in pairs}
      <4>1. <<i, step>> \in pairs /\ f[<<i, step>>] = signal(e, i, s, step)
        OBVIOUS
      <4> HIDE DEF f, pairs
      <4> QED BY <4>1
    <3>3. ASSUME NEW pair \in pairs
          PROVE  f[pair] \in {signal(e, i, s, step) : i \in e.impacts, step \in 1 .. months}
      <4>1. pair[1] \in e.impacts /\ pair[2] \in 1 .. months /\ f[pair] = signal(e, pair[1], s, pair[2])
        OBVIOUS
      <4> HIDE DEF f, pairs
      <4> QED BY <4>1
    <3> HIDE DEF f, pairs, own
    <3> QED BY <3>1, <3>2, <3>3
  <2>4. IsFiniteSet({f[pair] : pair \in pairs})
    <3> HIDE DEF f, pairs
    <3> QED BY <2>2, FiniteImage
  <2>5. ASSUME NEW t \in own[e] PROVE SoundSignal(t) /\ t.event = e.id
    <3>1. PICK i \in e.impacts, step \in 1 .. months : t = signal(e, i, s, step)
      OBVIOUS
    <3>2. SoundSignal(signal(e, i, s, step))
      BY <2>1, SignalIsSound
    <3>3. signal(e, i, s, step).event = e.id
      BY EventOfSignal
    <3> QED BY <3>1, <3>2, <3>3
  <2> HIDE DEF f, pairs, own
  <2> QED BY <2>3, <2>4, <2>5
<1> HIDE DEF own, telling
<1>4. IsFiniteSet({own[e] : e \in telling})
  BY <1>1, FiniteImage
<1>5. IsFiniteSet(UNION {own[e] : e \in telling})
  BY <1>3, <1>4, FS_UNION
<1>6. \A t \in UNION {own[e] : e \in telling} : SoundSignal(t) /\ \E e \in telling : t.event = e.id
  BY <1>3
<1> QED BY <1>2, <1>5, <1>6 DEF telling

LEMMA StrongestOf ==
    ASSUME NEW S, IsFiniteSet(S), S # {}, \A t \in S : SoundSignal(t)
    PROVE  strongest(S) \in S
<1> DEFINE R == {pair \in S \X S : outdone(pair[1], pair[2])}
<1>1. \A s, t \in S : <<s, t>> \in R <=> outdone(s, t)
  OBVIOUS
<1>2. \A s \in S : ~outdone(s, s)
  BY DEF SoundSignal, outdone, magnitude
<1>3. ASSUME NEW s \in S, NEW t \in S, NEW u \in S, outdone(s, t), outdone(t, u) PROVE outdone(s, u)
  <2>1. magnitude(s.raw) \in Int /\ magnitude(t.raw) \in Int /\ magnitude(u.raw) \in Int
    BY DEF SoundSignal, magnitude
  <2>2. s.n \in Int /\ t.n \in Int /\ u.n \in Int
    BY DEF SoundSignal
  <2> QED BY <1>3, <2>1, <2>2 DEF outdone
<1> HIDE DEF R
<1>4. \A s \in S : <<s, s>> \notin R
  BY <1>1, <1>2
<1>5. \A s, t, u \in S : <<s, t>> \in R /\ <<t, u>> \in R => <<s, u>> \in R
  BY <1>1, <1>3
<1>6. \E s \in S : \A t \in S : <<s, t>> \notin R
  BY <1>4, <1>5, MaximalMember
<1>7. \E s \in S : \A t \in S : ~outdone(s, t)
  BY <1>1, <1>6
<1> QED BY <1>7 DEF strongest

LEMMA StrongestOfCause ==
    ASSUME NEW S, IsFiniteSet(S), \A t \in S : SoundSignal(t), NEW s \in S
    PROVE  strongest(same_cause(S, s)) \in same_cause(S, s)
<1>1. same_cause(S, s) \in SUBSET S /\ s \in same_cause(S, s)
  BY DEF same_cause
<1>2. IsFiniteSet(same_cause(S, s)) /\ same_cause(S, s) # {} /\ \A t \in same_cause(S, s) : SoundSignal(t)
  BY <1>1, FS_Subset
<1> QED BY <1>2, StrongestOf

LEMMA CausesOnce ==
    ASSUME NEW S, IsFiniteSet(S), \A t \in S : SoundSignal(t)
    PROVE  /\ dedupe_causes(S) \in SUBSET S
           /\ \A s, t \in dedupe_causes(S) : s.step = t.step /\ s.axis = t.axis /\ s.cause = t.cause => s = t
<1>1. \A s \in S : strongest(same_cause(S, s)) \in same_cause(S, s)
  BY StrongestOfCause
<1>2. dedupe_causes(S) \in SUBSET S
  BY <1>1 DEF dedupe_causes, same_cause
<1>3. ASSUME NEW s \in dedupe_causes(S), NEW t \in dedupe_causes(S),
             s.step = t.step /\ s.axis = t.axis /\ s.cause = t.cause
      PROVE  s = t
  <2>1. PICK u \in S : s = strongest(same_cause(S, u))
    BY DEF dedupe_causes
  <2>2. PICK v \in S : t = strongest(same_cause(S, v))
    BY DEF dedupe_causes
  <2>3. s \in same_cause(S, u) /\ t \in same_cause(S, v)
    BY <1>1, <2>1, <2>2
  <2>4. u.step = v.step /\ u.axis = v.axis /\ u.cause = v.cause
    BY <1>3, <2>3 DEF same_cause
  <2>5. same_cause(S, u) = same_cause(S, v)
    BY <2>4 DEF same_cause
  <2> QED BY <2>1, <2>2, <2>5
<1> QED BY <1>2, <1>3

\* The signals of a run are sound ones of its events.
LEMMA SignalsOfRun ==
    ASSUME FiguresInv
    PROVE  /\ IsFiniteSet(signals) /\ \A s \in signals : SoundSignal(s)
           /\ \A s \in signals : \E e \in research.events : signalling(e) /\ s.event = e.id
           /\ OneSignalPerCause
<1>1. PICK months : months = Len(base.months)
  OBVIOUS
<1>2. months \in Nat
  BY <1>1, ForecastMonths DEF MonthsOver
<1>3. IsFiniteSet(research.events) /\ \A e \in research.events : SoundEvent(e)
  BY DEF FiguresInv, InputsAreSound, SoundOutcome
<1>4. CASE signals = {}
  BY <1>4, FS_EmptySet DEF OneSignalPerCause
<1>5. CASE signals = all_signals(research.events, store, months)
  <2>1. PICK S : S = signals_of(research.events, store, months)
    OBVIOUS
  <2>2. signals = dedupe_causes(S)
    BY <1>5, <2>1 DEF all_signals, signals_of
  <2>3. /\ IsFiniteSet(S)
        /\ \A t \in S : SoundSignal(t) /\ \E e \in research.events : signalling(e) /\ t.event = e.id
    BY <1>2, <1>3, <2>1, SignalsAreSound
  <2>4. /\ dedupe_causes(S) \in SUBSET S
        /\ \A s, t \in dedupe_causes(S) : s.step = t.step /\ s.axis = t.axis /\ s.cause = t.cause => s = t
    BY <2>3, CausesOnce
  <2>5. OneSignalPerCause
    BY <2>2, <2>4 DEF OneSignalPerCause
  <2>6. IsFiniteSet(signals)
    BY <2>2, <2>3, <2>4, FS_Subset
  <2> QED BY <2>2, <2>3, <2>4, <2>5, <2>6
<1> QED BY <1>1, <1>4, <1>5 DEF FiguresInv, FiguresFollow

\* A signal of nothing adds nothing to a shock.
shock_of(S, axis, beta) == SumFunction([s \in {s \in S : s.axis = axis} |-> part(s.raw, beta)])

LEMMA ShockWithout ==
    ASSUME NEW S, IsFiniteSet(S), \A s \in S : SoundSignal(s), NEW U \in SUBSET S, \A s \in S \ U : s.raw = 0,
           NEW axis, NEW beta \in Int
    PROVE  shock_of(U, axis, beta) = shock_of(S, axis, beta)
<1> DEFINE A == {s \in S : s.axis = axis}
           B == {s \in U : s.axis = axis}
           f == [s \in A |-> part(s.raw, beta)]
           g == [s \in B |-> part(s.raw, beta)]
<1>1. IsFiniteSet(A) /\ IsFiniteSet(B) /\ B \in SUBSET A
  BY FS_Subset
<1>2. \A s \in A : f[s] \in Int
  <2>1. \A s \in A : s.raw \in Int
    BY DEF SoundSignal
  <2> HIDE DEF A
  <2> QED BY <2>1, PartType
<1>3. \A s \in A \ B : f[s] = 0
  <2>1. \A s \in A \ B : s.raw = 0 /\ f[s] = part(0, beta)
    OBVIOUS
  <2>2. part(0, beta) = 0
    BY DEF part, Whole
  <2> HIDE DEF f, A, B
  <2> QED BY <2>1, <2>2
<1>4. \A s \in B : g[s] = f[s]
  BY <1>1
<1>5. DOMAIN f = A /\ DOMAIN g = B
  OBVIOUS
<1>6. shock_of(U, axis, beta) = SumFunction(g) /\ shock_of(S, axis, beta) = SumFunction(f)
  BY DEF shock_of
<1> HIDE DEF f, g, A, B
<1>7. SumFunctionOnSet(f, A) = SumFunctionOnSet(f, B)
  BY <1>1, <1>2, <1>3, SumDrop
<1>8. SumFunctionOnSet(g, B) = SumFunctionOnSet(f, B)
  <2>1. \A s \in B : f[s] \in Int /\ g[s] = f[s]
    BY <1>1, <1>2, <1>4
  <2> QED BY <1>1, <2>1, SumSame
<1> QED BY <1>5, <1>6, <1>7, <1>8 DEF SumFunction

LEMMA AdjustWithout ==
    ASSUME NEW S, IsFiniteSet(S), \A s \in S : SoundSignal(s), NEW U \in SUBSET S, \A s \in S \ U : s.raw = 0,
           NEW scenario \in Scenarios
    PROVE  adjust(scenario, U) = adjust(scenario, S)
<1>1. CASE scenario = "BASELINE"
  BY <1>1 DEF adjust
<1>2. CASE scenario # "BASELINE"
  <2> DEFINE beta(axis) == Coefficients[scenario][axis].beta
  <2>1. ASSUME NEW axis \in Axes PROVE shock_of(U, axis, beta(axis)) = shock_of(S, axis, beta(axis))
    <3>1. beta(axis) \in Int
      BY <1>2, SignalAssumption
    <3> HIDE DEF beta
    <3> QED BY <3>1, ShockWithout
  <2>2. /\ shock_of(U, "REVENUE_DEMAND", beta("REVENUE_DEMAND")) = shock_of(S, "REVENUE_DEMAND", beta("REVENUE_DEMAND"))
        /\ shock_of(U, "INGREDIENT_COST", beta("INGREDIENT_COST")) = shock_of(S, "INGREDIENT_COST", beta("INGREDIENT_COST"))
        /\ shock_of(U, "PLATFORM_COST", beta("PLATFORM_COST")) = shock_of(S, "PLATFORM_COST", beta("PLATFORM_COST"))
        /\ shock_of(U, "OPERATING_COST", beta("OPERATING_COST")) = shock_of(S, "OPERATING_COST", beta("OPERATING_COST"))
        /\ shock_of(U, "COMPETITION", beta("COMPETITION")) = shock_of(S, "COMPETITION", beta("COMPETITION"))
        /\ shock_of(U, "UNCERTAINTY", beta("UNCERTAINTY")) = shock_of(S, "UNCERTAINTY", beta("UNCERTAINTY"))
        /\ shock_of(U, "INTEREST_COST", beta("INTEREST_COST")) = shock_of(S, "INTEREST_COST", beta("INTEREST_COST"))
    BY <2>1 DEF Axes
  <2> QED BY <2>2, Zenon DEF shock_of, adjust
<1> QED BY <1>1, <1>2

\* An event the result does not call financially applied has no signal, or
\* signals of nothing.
LEMMA UnappliedSignalNothing ==
    ASSUME FiguresInv, NEW e \in research.events, terminal(e) # "FINANCIALLY_APPLIED",
           NEW s \in signals, s.event = e.id
    PROVE  s.raw = 0
<1>1. PICK f \in research.events : signalling(f) /\ s.event = f.id
  BY SignalsOfRun
<1>2. f = e
  BY <1>1 DEF FiguresInv, InputsAreSound, SoundOutcome
<1>3. e.signal_enabled
  BY <1>1, <1>2 DEF signalling
<1> QED BY <1>3 DEF terminal

LEMMA UnappliedChangesNothing == FiguresInv => UnappliedEventsChangeNothing
<1> SUFFICES ASSUME FiguresInv, NEW r \in Range(result), NEW told \in r.events, told.terminal # "FINANCIALLY_APPLIED"
             PROVE  adjustments({s \in signals : s.event # told.event}, Len(base.months))
                       = adjustments(signals, Len(base.months))
  BY DEF UnappliedEventsChangeNothing
<1> DEFINE others == {s \in signals : s.event # told.event}
           U(step) == {s \in others : s.step = step}
           S(step) == {s \in signals : s.step = step}
<1>1. PICK e \in research.events : told = [event |-> e.id, terminal |-> terminal(e)]
  BY DEF FiguresInv, ResultFollows, told_of_events
<1>2. told.event = e.id /\ terminal(e) # "FINANCIALLY_APPLIED"
  BY <1>1
<1>3. \A s \in signals \ others : s.raw = 0
  BY <1>2, UnappliedSignalNothing
<1>4. ASSUME NEW scenario \in Scenarios, NEW step PROVE adjust(scenario, U(step)) = adjust(scenario, S(step))
  <2>1. IsFiniteSet(S(step)) /\ \A s \in S(step) : SoundSignal(s)
    BY SignalsOfRun, FS_Subset
  <2>2. U(step) \in SUBSET S(step) /\ \A s \in S(step) \ U(step) : s.raw = 0
    BY <1>3
  <2> HIDE DEF U, S
  <2> QED BY <2>1, <2>2, AdjustWithout
<1>5. adjustments(others, Len(base.months)) = adjustments(signals, Len(base.months))
  BY <1>4 DEF adjustments
<1> QED BY <1>5

\* A figure of the forecast was published by the analysis date or is a
\* decision of the bank that the series has not caught up with; one cause
\* moves an axis once a month; and an event that the result does not call
\* financially applied could be left out of every scenario
\* (official_data_pipeline.py, official_event_bridge.py, research_signal.py).
THEOREM RestOnEvidence == Spec => []FiguresRestOnEvidence
<1>1. FiguresInv => FiguresRestOnEvidence
  BY FiguresAreKnown, SignalsOfRun, UnappliedChangesNothing DEF FiguresRestOnEvidence
<1> QED BY FiguresInvariance, <1>1, PTL

-----------------------------------------------------------------------------
(* What the observations make of a month.                                   *)

LEMMA ChangeOfSeries ==
    ASSUME NEW S, SoundObservations(S), S # {}
    PROVE  level_delta(S) \in Int /\ recent_change(S) \in Int
<1> DEFINE last == latest(S)
           rest == S \ {last}
           previous == latest(rest)
<1>1. last \in S /\ last.value \in Int
  <2>1. last \in S
    BY LatestOf
  <2> QED BY <2>1 DEF SoundObservations, InTime
<1>2. ASSUME S # {last} PROVE previous.value \in Int
  <2>1. rest # {} /\ rest \in SUBSET S
    BY <1>1, <1>2
  <2>2. SoundObservations(rest)
    BY <2>1, PartOfSound
  <2> HIDE DEF rest
  <2>3. previous \in rest
    BY <2>1, <2>2, LatestOf
  <2> QED BY <2>2, <2>3 DEF SoundObservations, InTime
<1>3. level_delta(S) = IF S = {last} THEN 0 ELSE last.value - previous.value
  BY DEF level_delta
<1>4. recent_change(S) = IF S = {last} THEN 0
                         ELSE IF previous.value = 0 THEN 0 ELSE (level_delta(S) * Whole) \div magnitude(previous.value)
  BY DEF recent_change
<1> HIDE DEF last, previous, rest
<1>5. level_delta(S) \in Int
  BY <1>1, <1>2, <1>3
<1>6. ASSUME S # {last}, previous.value # 0
      PROVE  (level_delta(S) * Whole) \div magnitude(previous.value) \in Int
  <2>1. magnitude(previous.value) \in Nat \ {0}
    BY <1>2, <1>6 DEF magnitude
  <2>2. level_delta(S) * Whole \in Int
    BY <1>5 DEF Whole
  <2> QED BY <2>1, <2>2, WholeQuotient
<1> QED BY <1>4, <1>5, <1>6

LEMMA WithinType == \A x, bound \in Int : within(x, bound) \in Int
BY DEF within, clip

LEMMA DecayedSumType == \A step \in Nat \ {0} : decayed_sum(step) \in Int
<1> TAKE step \in Nat \ {0}
<1>1. 0 .. step - 1 \in SUBSET (0 .. step) /\ Decay \in Int
  BY DEF Decay
<1>2. SumFunctionOnSet(powers(Decay, step), 0 .. step - 1) \in Int
  BY <1>1, SumOfPowers
<1> QED BY <1>2 DEF decayed_sum

LEMMA ChangeOfMonth ==
    ASSUME NEW S, SoundObservations(S), S # {}, NEW step \in Nat \ {0}
    PROVE  interest_delta(S, step) \in Int /\ \A role \in CostRoles : cumulative_change(S, role, step) \in Int
<1>1. level_delta(S) \in Int /\ recent_change(S) \in Int /\ decayed_sum(step) \in Int
  BY ChangeOfSeries, DecayedSumType
<1>2. \A role \in CostRoles \cup {"INTEREST_RATE"} : RoleHorizonCaps[role] \in Int
  BY DEF CostRoles, RoleHorizonCaps
<1>3. part(level_delta(S) * unit_scale(latest(S).unit), decayed_sum(step)) \in Int
  <2>1. unit_scale(latest(S).unit) \in Int
    BY DEF unit_scale
  <2>2. level_delta(S) * unit_scale(latest(S).unit) \in Int
    BY <1>1, <2>1
  <2> QED BY <1>1, <2>2, PartType
<1>4. interest_delta(S, step) \in Int
  BY <1>2, <1>3, WithinType DEF interest_delta
<1>5. part(within(recent_change(S), PerPeriodRelativeCap), decayed_sum(step)) \in Int
  <2>1. PerPeriodRelativeCap \in Int
    BY DEF PerPeriodRelativeCap
  <2>2. within(recent_change(S), PerPeriodRelativeCap) \in Int
    BY <1>1, <2>1, WithinType
  <2> QED BY <1>1, <2>2, PartType
<1>6. \A role \in CostRoles : cumulative_change(S, role, step) \in Int
  BY <1>2, <1>5, WithinType DEF cumulative_change
<1> QED BY <1>4, <1>6

\* The months' features are whole numbers, the revenue's within its cap.
SoundFeature(f) ==
    /\ f.revenue \in Int /\ 9000 <= f.revenue /\ f.revenue <= 11000
    /\ f.domestic \in Int /\ f.imported \in Int /\ f.rate \in Int

Neutral == [revenue |-> Whole, domestic |-> Whole, imported |-> Whole, rate |-> 0, sources |-> {}]

change_of(series, role, step) ==
    SumFunction([i \in {i \in DOMAIN series : role_of(i) = role} |-> cumulative_change(series[i], role, step)])
count_of(series, role) == Cardinality({i \in DOMAIN series : role_of(i) = role})
multiplier_of(series, role, step) ==
    clip(Whole + average(change_of(series, role, step), count_of(series, role)),
         Whole - RoleHorizonCaps[role], Whole + RoleHorizonCaps[role])
moving_of(series) ==
    {i \in {i \in DOMAIN series : role_of(i) = "INTEREST_RATE"} : Cardinality(series[i]) > 1}
rate_of(series, step) == SumFunction([i \in moving_of(series) |-> interest_delta(series[i], step)])

LEMMA AverageType == \A x \in Int, n \in Nat : average(x, n) \in Int
<1> TAKE x \in Int, n \in Nat
<1>1. n # 0 => x \div n \in Int
  BY WholeQuotient
<1> QED BY <1>1 DEF average

LEMMA MultiplierType ==
    ASSUME NEW series, IsFiniteSet(DOMAIN series), \A i \in DOMAIN series : SoundObservations(series[i]) /\ series[i] # {},
           NEW step \in Nat \ {0}, NEW role \in CostRoles
    PROVE  /\ multiplier_of(series, role, step) \in Int
           /\ Whole - RoleHorizonCaps[role] <= multiplier_of(series, role, step)
           /\ multiplier_of(series, role, step) <= Whole + RoleHorizonCaps[role]
           /\ DOMAIN series = {} => multiplier_of(series, role, step) = Whole
<1> DEFINE R == {i \in DOMAIN series : role_of(i) = role}
           f == [i \in R |-> cumulative_change(series[i], role, step)]
<1>1. IsFiniteSet(R) /\ R \in SUBSET (DOMAIN series)
  BY FS_Subset
<1>2. \A i \in R : f[i] \in Int
  <2>1. \A i \in R : cumulative_change(series[i], role, step) \in Int
    BY ChangeOfMonth
  <2> HIDE DEF R
  <2> QED BY <2>1
<1>3. DOMAIN f = R /\ change_of(series, role, step) = SumFunction(f) /\ count_of(series, role) = Cardinality(R)
  BY DEF change_of, count_of
<1>4. R = {} => SumFunctionOnSet(f, R) = 0
  BY SumNothing
<1>5. DOMAIN series = {} => R = {}
  OBVIOUS
<1> HIDE DEF R, f
<1>6. SumFunctionOnSet(f, R) \in Int
  BY <1>1, <1>2, SumType
<1>7. Cardinality(R) \in Nat /\ (R = {} => Cardinality(R) = 0)
  BY <1>1, FS_CardinalityType, FS_EmptySet
<1>8. PICK x \in Int : x = Whole + average(change_of(series, role, step), count_of(series, role))
  <2>1. average(change_of(series, role, step), count_of(series, role)) \in Int
    BY <1>3, <1>6, <1>7, AverageType DEF SumFunction
  <2> QED BY <2>1 DEF Whole
<1>9. DOMAIN series = {} => x = Whole
  BY <1>3, <1>5, <1>7, <1>8 DEF average, Whole
<1>10. RoleHorizonCaps[role] \in Nat
  BY DEF CostRoles, RoleHorizonCaps
<1>11. multiplier_of(series, role, step) = clip(x, Whole - RoleHorizonCaps[role], Whole + RoleHorizonCaps[role])
  BY <1>8 DEF multiplier_of
<1> QED BY <1>9, <1>10, <1>11 DEF clip, Whole

LEMMA RateType ==
    ASSUME NEW series, IsFiniteSet(DOMAIN series), \A i \in DOMAIN series : SoundObservations(series[i]) /\ series[i] # {},
           NEW step \in Nat \ {0}
    PROVE  /\ average(rate_of(series, step), Cardinality(moving_of(series))) \in Int
           /\ DOMAIN series = {} => average(rate_of(series, step), Cardinality(moving_of(series))) = 0
<1> DEFINE M == moving_of(series)
           f == [i \in M |-> interest_delta(series[i], step)]
<1>1. IsFiniteSet(M) /\ M \in SUBSET (DOMAIN series)
  BY FS_Subset DEF moving_of
<1>2. \A i \in M : f[i] \in Int
  <2>1. \A i \in M : interest_delta(series[i], step) \in Int
    BY <1>1, ChangeOfMonth
  <2> HIDE DEF M
  <2> QED BY <2>1
<1>3. DOMAIN f = M /\ rate_of(series, step) = SumFunction(f)
  BY DEF rate_of
<1> HIDE DEF M, f
<1>4. SumFunctionOnSet(f, M) \in Int
  BY <1>1, <1>2, SumType
<1>5. Cardinality(M) \in Nat /\ (M = {} => Cardinality(M) = 0)
  BY <1>1, FS_CardinalityType, FS_EmptySet
<1>6. average(rate_of(series, step), Cardinality(M)) \in Int
  BY <1>3, <1>4, <1>5, AverageType DEF SumFunction
<1>7. DOMAIN series = {} => M = {}
  BY <1>1
<1> QED BY <1>5, <1>6, <1>7 DEF M, average

LEMMA FeaturesOfSeries ==
    ASSUME NEW valid, SoundObservations(valid), NEW step \in Nat \ {0}
    PROVE  /\ SoundFeature(month_features(by_series(valid), step))
           /\ month_features(by_series(valid), step).sources = {} => month_features(by_series(valid), step) = Neutral
<1> DEFINE series == by_series(valid)
           sources == UNION {used(series[i]) : i \in DOMAIN series}
<1>1. IsFiniteSet(DOMAIN series)
  <2> DEFINE f == [o \in valid |-> o.indicator]
  <2>1. DOMAIN series = {f[o] : o \in valid}
    BY DEF by_series
  <2>2. IsFiniteSet(valid)
    BY DEF SoundObservations
  <2> HIDE DEF f, series
  <2> QED BY <2>1, <2>2, FiniteImage
<1>2. ASSUME NEW i \in DOMAIN series PROVE SoundObservations(series[i]) /\ series[i] # {}
  <2>1. series[i] \in SUBSET valid /\ series[i] # {}
    BY DEF by_series
  <2> HIDE DEF series
  <2> QED BY <2>1, PartOfSound
<1> HIDE DEF series, sources
<1>3. month_features(series, step) =
        [revenue |-> multiplier_of(series, "REVENUE_DEMAND", step),
         domestic |-> multiplier_of(series, "DOMESTIC_INGREDIENT_COST", step),
         imported |-> multiplier_of(series, "IMPORTED_INGREDIENT_COST", step),
         rate |-> average(rate_of(series, step), Cardinality(moving_of(series))), sources |-> sources]
  BY Zenon DEF month_features, multiplier_of, change_of, count_of, rate_of, moving_of, sources
<1>4. ASSUME sources = {} PROVE DOMAIN series = {}
  <2>1. \A i \in DOMAIN series : used(series[i]) # {}
    BY DEF used
  <2> QED BY <1>4, <2>1 DEF sources
<1>5. "REVENUE_DEMAND" \in CostRoles /\ "DOMESTIC_INGREDIENT_COST" \in CostRoles /\ "IMPORTED_INGREDIENT_COST" \in CostRoles
  BY DEF CostRoles
<1>6. \A role \in CostRoles :
         /\ multiplier_of(series, role, step) \in Int
         /\ Whole - RoleHorizonCaps[role] <= multiplier_of(series, role, step)
         /\ multiplier_of(series, role, step) <= Whole + RoleHorizonCaps[role]
         /\ DOMAIN series = {} => multiplier_of(series, role, step) = Whole
  BY <1>1, <1>2, MultiplierType
<1>7. /\ average(rate_of(series, step), Cardinality(moving_of(series))) \in Int
      /\ DOMAIN series = {} => average(rate_of(series, step), Cardinality(moving_of(series))) = 0
  BY <1>1, <1>2, RateType
<1>8. Whole - RoleHorizonCaps["REVENUE_DEMAND"] = 9000 /\ Whole + RoleHorizonCaps["REVENUE_DEMAND"] = 11000
  BY DEF RoleHorizonCaps, Whole
<1>9. PICK F, a, b, c, d :
         /\ F = month_features(series, step) /\ a = multiplier_of(series, "REVENUE_DEMAND", step)
         /\ b = multiplier_of(series, "DOMESTIC_INGREDIENT_COST", step)
         /\ c = multiplier_of(series, "IMPORTED_INGREDIENT_COST", step)
         /\ d = average(rate_of(series, step), Cardinality(moving_of(series)))
  OBVIOUS
<1>10. F = [revenue |-> a, domestic |-> b, imported |-> c, rate |-> d, sources |-> sources]
  BY <1>3, <1>9
<1>11. a \in Int /\ 9000 <= a /\ a <= 11000 /\ b \in Int /\ c \in Int /\ d \in Int
  <2>1. a \in Int /\ 9000 <= a /\ a <= 11000
    BY <1>5, <1>6, <1>8, <1>9
  <2>2. b \in Int /\ c \in Int /\ d \in Int
    BY <1>5, <1>6, <1>7, <1>9
  <2> QED BY <2>1, <2>2
<1>12. DOMAIN series = {} => a = Whole /\ b = Whole /\ c = Whole /\ d = 0
  BY <1>5, <1>6, <1>7, <1>9
<1>13. SoundFeature(F)
  BY <1>10, <1>11 DEF SoundFeature
<1>14. F.sources = {} => F = Neutral
  BY <1>4, <1>10, <1>12 DEF Neutral
<1> QED BY <1>9, <1>13, <1>14 DEF series

LEMMA FeaturesOfRun ==
    ASSUME FiguresInv, NEW P, MonthsOver(P), NEW step \in 1 .. store.horizon
    PROVE  /\ SoundFeature(features.months[step])
           /\ features.months[step].sources = {} => features.months[step] = Neutral
<1>1. Forecast
  <2>1. ASSUME Unforecast PROVE DOMAIN features.months = {}
    <3>1. features.months = <<>>
      BY <2>1, Zenon DEF Unforecast, NoFeatures
    <3> QED BY <3>1
  <2>2. DOMAIN features.months # {}
    BY DEF MonthsOver
  <2> QED BY <2>1, <2>2 DEF FiguresInv, FiguresFollow
<1> DEFINE bridged == apply_official_event_bridge(official.observations, research.events)
           valid == {o \in bridged.observations : o.quality = "VALID"}
<1>2. features = features_of(bridged, store.horizon)
  BY <1>1 DEF Forecast, official_features
<1>3. SoundObservations(bridged.observations)
  BY EventsAreSound, Bridged
<1> HIDE DEF bridged
<1>4. SoundObservations(valid)
  BY <1>3, PartOfSound
<1>5. features.months[step] = month_features(by_series(valid), step)
  BY <1>2 DEF features_of
<1>6. step \in Nat \ {0}
  BY DEF MonthsOver
<1> HIDE DEF valid
<1> QED BY <1>4, <1>5, <1>6, FeaturesOfSeries

LEMMA PartRises ==
    ASSUME NEW p \in Nat, NEW x \in Int, NEW y \in Int, x <= y
    PROVE  part(p, x) <= part(p, y)
<1>1. p * x \in Int /\ p * y \in Int /\ p * (y - x) >= 0
  BY DEF Whole
<1>2. p * y = p * x + p * (y - x)
  OBVIOUS
<1>3. PICK a, b \in Int : a = p * x /\ b = p * y /\ a <= b
  BY <1>1, <1>2
<1>4. a \div Whole <= b \div Whole
  BY <1>3 DEF Whole
<1> QED BY <1>3, <1>4 DEF part

LEMMA CapHolds == FiguresInv => WithinTheCap
<1> SUFFICES ASSUME FiguresInv, NEW step \in DOMAIN base.months
             PROVE  /\ part(trend.months[step].point, Whole - RoleHorizonCaps.REVENUE_DEMAND) <= base.months[step].point
                    /\ base.months[step].point <= part(trend.months[step].point, Whole + RoleHorizonCaps.REVENUE_DEMAND)
  BY DEF WithinTheCap
<1>1. PICK P : MonthsOver(P)
  BY ForecastMonths
<1>2. step \in 1 .. store.horizon
  BY <1>1 DEF MonthsOver
<1>3. PICK p \in Nat : p = P[step]
  BY <1>1, <1>2 DEF MonthsOver
<1>4. trend.months[step].point = p
  <2>1. part(p, Whole) = p
    BY DEF part, Whole
  <2> QED BY <1>1, <1>2, <1>3, <2>1 DEF MonthsOver
<1>5. PICK x \in Int : 9000 <= x /\ x <= 11000 /\ base.months[step].point = part(p, x)
  <2>1. SoundFeature(features.months[step])
    BY <1>1, <1>2, FeaturesOfRun
  <2> QED BY <1>1, <1>2, <1>3, <2>1 DEF MonthsOver, SoundFeature
<1>6. part(p, 9000) <= part(p, x) /\ part(p, x) <= part(p, 11000)
  <2>1. 9000 \in Int /\ 11000 \in Int
    OBVIOUS
  <2> QED BY <1>5, <2>1, PartRises
<1>7. Whole - RoleHorizonCaps.REVENUE_DEMAND = 9000 /\ Whole + RoleHorizonCaps.REVENUE_DEMAND = 11000
  BY DEF RoleHorizonCaps, Whole
<1> QED BY <1>4, <1>5, <1>6, <1>7

-----------------------------------------------------------------------------
(* A month's adjustments.                                                   *)

LEMMA ShockType ==
    ASSUME NEW S, IsFiniteSet(S), \A s \in S : SoundSignal(s), NEW axis, NEW beta \in Int
    PROVE  shock_of(S, axis, beta) \in Int /\ ((\A s \in S : s.raw = 0) => shock_of(S, axis, beta) = 0)
<1> DEFINE A == {s \in S : s.axis = axis}
           f == [s \in A |-> part(s.raw, beta)]
<1>1. IsFiniteSet(A) /\ DOMAIN f = A /\ shock_of(S, axis, beta) = SumFunction(f)
  BY FS_Subset DEF shock_of
<1>2. \A s \in A : f[s] \in Int
  <2>1. \A s \in A : s.raw \in Int
    BY DEF SoundSignal
  <2> HIDE DEF A
  <2> QED BY <2>1, PartType
<1>3. ASSUME \A s \in S : s.raw = 0 PROVE \A s \in A : f[s] = 0
  <2>1. \A s \in A : f[s] = part(0, beta)
    BY <1>3
  <2>2. part(0, beta) = 0
    BY DEF part, Whole
  <2> QED BY <2>1, <2>2
<1> HIDE DEF f, A
<1>4. SumFunctionOnSet(f, A) \in Int
  BY <1>1, <1>2, SumType
<1>5. (\A s \in S : s.raw = 0) => SumFunctionOnSet(f, A) = 0
  BY <1>1, <1>3, SumOfZeros
<1> QED BY <1>1, <1>4, <1>5 DEF SumFunction

bounded_by(rule, x) == raised(clip(x, rule.low, rule.high))

LEMMA BoundedType ==
    ASSUME NEW rule, rule.low \in Int, rule.high \in Int, rule.low <= 0, 0 <= rule.high, NEW x \in Int
    PROVE  bounded_by(rule, x) \in Int /\ bounded_by(rule, 0) = Whole
<1>1. \A y \in Int : raised(y) \in Int
  <2> TAKE y \in Int
  <2>1. y * y \in Int /\ 2 * Whole \in Nat \ {0}
    BY DEF Whole
  <2>2. (y * y) \div (2 * Whole) \in Int
    BY <2>1, WholeQuotient
  <2> QED BY <2>2 DEF raised, Whole
<1>2. clip(x, rule.low, rule.high) \in Int /\ clip(0, rule.low, rule.high) = 0
  BY DEF clip
<1>3. raised(0) = Whole
  BY DEF raised, Whole
<1> QED BY <1>1, <1>2, <1>3 DEF bounded_by

SoundAdjustment(a) == a.revenue \in Int /\ a.variable \in Int /\ a.fixed \in Int /\ a.rate \in Int

LEMMA AdjustType ==
    ASSUME NEW S, IsFiniteSet(S), \A s \in S : SoundSignal(s), NEW scenario \in Scenarios
    PROVE  /\ SoundAdjustment(adjust(scenario, S))
           /\ (\A s \in S : s.raw = 0) => adjust(scenario, S) = untouched
<1>1. CASE scenario = "BASELINE"
  BY <1>1 DEF adjust, untouched, SoundAdjustment, Whole
<1>2. CASE scenario # "BASELINE"
  <2> DEFINE rule(axis) == Coefficients[scenario][axis]
             shock(axis) == shock_of(S, axis, rule(axis).beta)
             demand == shock("REVENUE_DEMAND") - shock("COMPETITION") - magnitude(shock("UNCERTAINTY"))
             multiplier(axis) == bounded_by(rule(axis), shock(axis))
  <2>1. adjust(scenario, S) =
          [revenue |-> bounded_by(rule("REVENUE_DEMAND"), demand),
           variable |-> part(multiplier("INGREDIENT_COST"), multiplier("PLATFORM_COST")),
           fixed |-> multiplier("OPERATING_COST"), rate |-> most(0, shock("INTEREST_COST"))]
    BY <1>2, Zenon DEF adjust, bounded_by, shock_of
  <2>2. \A axis \in Axes : /\ rule(axis).beta \in Int /\ rule(axis).low \in Int /\ rule(axis).high \in Int
                           /\ rule(axis).low <= 0 /\ 0 <= rule(axis).high
    BY <1>2, SignalAssumption
  <2>3. ASSUME NEW axis \in Axes
        PROVE  shock(axis) \in Int /\ ((\A s \in S : s.raw = 0) => shock(axis) = 0)
    <3>1. rule(axis).beta \in Int
      BY <2>2
    <3> HIDE DEF rule
    <3> QED BY <3>1, ShockType
  <2> HIDE DEF rule, shock
  <2>4. ASSUME NEW axis \in Axes
        PROVE  multiplier(axis) \in Int /\ ((\A s \in S : s.raw = 0) => multiplier(axis) = Whole)
    BY <2>2, <2>3, BoundedType
  <2>5. /\ "REVENUE_DEMAND" \in Axes /\ "COMPETITION" \in Axes /\ "UNCERTAINTY" \in Axes /\ "INGREDIENT_COST" \in Axes
        /\ "PLATFORM_COST" \in Axes /\ "OPERATING_COST" \in Axes /\ "INTEREST_COST" \in Axes
    BY DEF Axes
  <2>6. demand \in Int /\ ((\A s \in S : s.raw = 0) => demand = 0)
    BY <2>3, <2>5 DEF magnitude
  <2> HIDE DEF demand, multiplier
  <2>7. PICK r : r = bounded_by(rule("REVENUE_DEMAND"), demand)
    OBVIOUS
  <2>8. r \in Int /\ ((\A s \in S : s.raw = 0) => r = Whole)
    BY <2>2, <2>5, <2>6, <2>7, BoundedType
  <2>9. PICK v : v = part(multiplier("INGREDIENT_COST"), multiplier("PLATFORM_COST"))
    OBVIOUS
  <2>10. v \in Int /\ ((\A s \in S : s.raw = 0) => v = Whole)
    <3>1. part(Whole, Whole) = Whole
      BY DEF part, Whole
    <3> QED BY <2>4, <2>5, <2>9, <3>1, PartType
  <2>11. PICK f : f = multiplier("OPERATING_COST")
    OBVIOUS
  <2>12. f \in Int /\ ((\A s \in S : s.raw = 0) => f = Whole)
    BY <2>4, <2>5, <2>11
  <2>13. PICK d : d = most(0, shock("INTEREST_COST"))
    OBVIOUS
  <2>14. d \in Int /\ ((\A s \in S : s.raw = 0) => d = 0)
    BY <2>3, <2>5, <2>13 DEF most
  <2>15. adjust(scenario, S) = [revenue |-> r, variable |-> v, fixed |-> f, rate |-> d]
    BY <2>1, <2>7, <2>9, <2>11, <2>13
  <2> QED BY <2>8, <2>10, <2>12, <2>14, <2>15 DEF untouched, SoundAdjustment
<1> QED BY <1>1, <1>2

\* The adjustments of a run's scenario.
LEMMA AdjustedMonths ==
    ASSUME FiguresInv, NEW P, MonthsOver(P), NEW name \in Scenarios
    PROVE  /\ DOMAIN adjusted(name) = 1 .. store.horizon /\ Len(adjusted(name)) = store.horizon
           /\ \A step \in 1 .. store.horizon : SoundAdjustment(adjusted(name)[step])
           /\ (\A s \in signals : s.raw = 0) => adjusted(name) = [step \in 1 .. store.horizon |-> untouched]
<1> DEFINE n == store.horizon
           S(step) == {s \in signals : s.step = step}
           A == [step \in 1 .. n |-> adjust(name, S(step))]
<1>1. n \in Nat /\ Len(base.months) = n
  BY DEF MonthsOver
<1>2. adjusted(name) = A
  BY <1>1 DEF adjusted, adjustments
<1>3. DOMAIN A = 1 .. n /\ Len(A) = n /\ \A step \in 1 .. n : A[step] = adjust(name, S(step))
  BY <1>1
<1>4. ASSUME NEW step \in 1 .. n
      PROVE  /\ SoundAdjustment(adjust(name, S(step)))
             /\ (\A s \in signals : s.raw = 0) => adjust(name, S(step)) = untouched
  <2>1. IsFiniteSet(S(step)) /\ (\A s \in S(step) : SoundSignal(s)) /\ \A s \in S(step) : s \in signals
    BY SignalsOfRun, FS_Subset
  <2> HIDE DEF S
  <2> QED BY <2>1, AdjustType
<1>5. (\A s \in signals : s.raw = 0) => A = [step \in 1 .. n |-> untouched]
  BY <1>4
<1> HIDE DEF A, S
<1> QED BY <1>2, <1>3, <1>4, <1>5

-----------------------------------------------------------------------------
(* Loans.                                                                   *)

Payments == [opening : Int, rate : Int, interest : Int, principal : Int, closing : Int]
Regular(loan) == loan.repayment \in {"AMORTIZING", "BULLET"} /\ loan.grace_end = <<>> /\ loan.next_payment = <<>>

principals(payments, k) == SumFunctionOnSet([j \in 1 .. k |-> payments[j].principal], 1 .. k)

\* What is left of a loan and what was repaid is what was borrowed; and one
\* without a pause is in the period of the month until it is repaid.
PaidTo(loan, st, k) ==
    /\ DOMAIN st = {"balance", "active", "payments", "raised"}
    /\ st.raised \in BOOLEAN
    /\ ~st.raised =>
          /\ st.balance \in Nat /\ st.active \in 0 .. k
          /\ st.payments \in Seq(Payments) /\ Len(st.payments) = k
          /\ k > 0 => st.payments[k].closing = st.balance
          /\ st.balance + principals(st.payments, k) = loan.balance
          /\ Regular(loan) => st.balance = 0 \/ (st.active = k /\ k < loan.remaining)

\* A month's payment may follow.
Follows(loan, st, k, p, n) ==
    /\ p \in Payments /\ p.closing \in Nat /\ p.closing = st.balance - p.principal
    /\ n \in 0 .. k + 1
    /\ Regular(loan) => p.closing = 0 \/ (n = k + 1 /\ k + 1 < loan.remaining)

LEMMA PrincipalsFollow ==
    ASSUME NEW k \in Nat, NEW s \in Seq(Payments), Len(s) = k, NEW p \in Payments
    PROVE  principals(s, k) \in Int /\ principals(Append(s, p), k + 1) = p.principal + principals(s, k)
<1> DEFINE t == Append(s, p)
           f == [j \in 1 .. k |-> s[j].principal]
           g == [j \in 1 .. k + 1 |-> t[j].principal]
<1>1. t[k + 1] = p /\ \A j \in 1 .. k : t[j] = s[j]
  OBVIOUS
<1>2. \A j \in 1 .. k : s[j] \in Payments
  OBVIOUS
<1> HIDE DEF t
<1>3. IsFiniteSet(1 .. k)
  BY FS_Interval
<1>4. \A j \in 1 .. k : f[j] \in Int /\ g[j] = f[j]
  BY <1>1, <1>2 DEF Payments
<1>5. g[k + 1] = p.principal /\ p.principal \in Int
  BY <1>1 DEF Payments
<1>6. principals(s, k) = SumFunctionOnSet(f, 1 .. k) /\ principals(t, k + 1) = SumFunctionOnSet(g, 1 .. k + 1)
  BY DEF principals
<1> HIDE DEF f, g
<1>7. SumFunctionOnSet(f, 1 .. k) \in Int
  BY <1>3, <1>4, SumType
<1>8. SumFunctionOnSet(g, 1 .. k) = SumFunctionOnSet(f, 1 .. k)
  BY <1>3, <1>4, SumSame
<1>9. 1 .. k + 1 = (1 .. k) \cup {k + 1} /\ k + 1 \notin 1 .. k
  OBVIOUS
<1>10. \A j \in (1 .. k) \cup {k + 1} : g[j] \in Int
  BY <1>4, <1>5
<1>11. SumFunctionOnSet(g, (1 .. k) \cup {k + 1}) = g[k + 1] + SumFunctionOnSet(g, 1 .. k)
  BY <1>3, <1>9, <1>10, SumAdd
<1> QED BY <1>5, <1>6, <1>7, <1>8, <1>9, <1>11 DEF t

LEMMA PaymentAdded ==
    ASSUME NEW loan, SoundLoan(loan), NEW k \in Nat, NEW st, PaidTo(loan, st, k), ~st.raised,
           NEW p, NEW n, Follows(loan, st, k, p, n)
    PROVE  PaidTo(loan, [st EXCEPT !.payments = Append(@, p), !.balance = p.closing, !.active = n], k + 1)
<1> DEFINE next == [st EXCEPT !.payments = Append(@, p), !.balance = p.closing, !.active = n]
<1>1. /\ DOMAIN next = {"balance", "active", "payments", "raised"}
      /\ next.raised = st.raised /\ next.payments = Append(st.payments, p)
      /\ next.balance = p.closing /\ next.active = n
  BY DEF PaidTo
<1> HIDE DEF next
<1>2. /\ st.balance \in Nat /\ st.payments \in Seq(Payments) /\ Len(st.payments) = k
      /\ st.balance + principals(st.payments, k) = loan.balance
  BY DEF PaidTo
<1>3. p \in Payments /\ p.principal \in Int
  BY DEF Follows, Payments
<1>4. /\ principals(st.payments, k) \in Int
      /\ principals(Append(st.payments, p), k + 1) = p.principal + principals(st.payments, k)
  BY <1>2, <1>3, PrincipalsFollow
<1>5. /\ next.payments \in Seq(Payments) /\ Len(next.payments) = k + 1
      /\ next.payments[k + 1] = p
  BY <1>1, <1>2, <1>3
<1>6. next.balance + principals(next.payments, k + 1) = loan.balance
  BY <1>1, <1>2, <1>3, <1>4 DEF Follows
<1>7. next.raised \in BOOLEAN
  BY <1>1 DEF PaidTo
<1>8. /\ next.balance \in Nat /\ next.active \in 0 .. k + 1
      /\ Regular(loan) => next.balance = 0 \/ (next.active = k + 1 /\ k + 1 < loan.remaining)
  BY <1>1 DEF Follows
<1>9. next.payments[k + 1].closing = next.balance
  BY <1>1, <1>5
<1>10. PaidTo(loan, next, k + 1)
  BY <1>1, <1>5, <1>6, <1>7, <1>8, <1>9 DEF PaidTo
<1> QED BY <1>10 DEF next

LEMMA LevelPrincipalType ==
    ASSUME NEW balance \in Nat, NEW monthly \in Nat, NEW left \in Nat \ {0}
    PROVE  level_principal(balance, monthly, left) \in Int
<1> DEFINE interest == part(balance, monthly)
           factor == growth(monthly, left)
<1>1. level_principal(balance, monthly, left) =
        IF monthly = 0 THEN balance \div left
        ELSE least(balance, (interest * factor) \div (factor - Whole) - interest)
  BY DEF level_principal
<1>2. balance \div left \in Int
  BY WholeQuotient
<1>3. interest \in Int
  BY PartType
<1>4. ASSUME monthly # 0 PROVE factor \in Int /\ factor - Whole \in Nat \ {0}
  <2>1. growth(monthly, left) \in Int /\ growth(monthly, left) > Whole
    BY <1>4, GrowthIsMore
  <2> QED BY <2>1 DEF Whole
<1> HIDE DEF interest, factor
<1>5. ASSUME monthly # 0 PROVE least(balance, (interest * factor) \div (factor - Whole) - interest) \in Int
  <2>1. interest * factor \in Int
    BY <1>3, <1>4, <1>5
  <2>2. (interest * factor) \div (factor - Whole) \in Int
    BY <1>4, <1>5, <2>1, WholeQuotient
  <2>3. (interest * factor) \div (factor - Whole) - interest \in Int
    BY <1>3, <2>2
  <2> QED BY <2>3, Least
<1> QED BY <1>1, <1>2, <1>5

\* What the contract asks for, in a period there is.
LEMMA ContractualType ==
    ASSUME NEW loan, SoundLoan(loan), NEW balance \in Nat, NEW active \in 1 .. loan.remaining, NEW monthly \in Nat,
           loan.repayment = "CUSTOM_SCHEDULE" => active <= Len(loan.custom)
    PROVE  /\ contractual(loan, balance, active, monthly) \in Int
           /\ interest_due(loan, balance, active, monthly) \in Int
<1>1. loan.remaining \in Nat \ {0} /\ loan.balance \in Nat /\ loan.repayment \in Repayments
  BY DEF SoundLoan
<1>2. loan.repayment = "CUSTOM_SCHEDULE" => loan.custom[active].principal \in Int /\ loan.custom[active].interest \in Int
  <2>1. loan.custom \in Seq(Range(loan.custom))
    BY DEF SoundLoan
  <2>2. Len(loan.custom) \in Nat
    BY <2>1
  <2>3. loan.repayment = "CUSTOM_SCHEDULE" => active \in 1 .. Len(loan.custom)
    BY <1>1, <2>2
  <2> QED BY <2>3 DEF SoundLoan
<1>3. interest_due(loan, balance, active, monthly) \in Int
  <2>1. part(balance, monthly) \in Int
    BY PartType
  <2> QED BY <1>2, <2>1 DEF interest_due
<1>4. CASE loan.repayment = "BULLET"
  BY <1>3, <1>4 DEF contractual
<1>5. CASE loan.repayment = "EQUAL_PRINCIPAL"
  <2>1. loan.balance \div loan.remaining \in Int
    BY <1>1, WholeQuotient
  <2> QED BY <1>3, <1>5, <2>1 DEF contractual, least
<1>6. CASE loan.repayment = "AMORTIZING"
  <2>1. loan.remaining - active + 1 \in Nat \ {0}
    BY <1>1
  <2>2. level_principal(balance, monthly, loan.remaining - active + 1) \in Int
    BY <2>1, LevelPrincipalType
  <2> QED BY <1>3, <1>6, <2>2 DEF contractual
<1>7. CASE loan.repayment = "CUSTOM_SCHEDULE"
  BY <1>2, <1>3, <1>7 DEF contractual
<1> QED BY <1>1, <1>4, <1>5, <1>6, <1>7 DEF Repayments

LEMMA RateInType ==
    ASSUME NEW loan, SoundLoan(loan), NEW step, NEW delta \in Int
    PROVE  rate_in(loan, step, delta) \in Nat /\ rate_in(loan, step, delta) \div 12 \in Nat
<1> DEFINE more == IF loan.rate_type = "VARIABLE"
                        /\ step >= (IF loan.renewal = <<>> THEN 1 ELSE loan.renewal[1]) THEN delta ELSE 0
<1>1. more \in Int
  OBVIOUS
<1>2. rate_in(loan, step, delta) = at_least_zero(loan.rate + more)
  BY DEF rate_in
<1> HIDE DEF more
<1>3. loan.rate + more \in Int
  BY <1>1 DEF SoundLoan
<1>4. rate_in(loan, step, delta) \in Nat
  BY <1>2, <1>3, AtLeastZero
<1>5. \A x \in Nat : x \div 12 \in Nat
  OBVIOUS
<1> QED BY <1>4, <1>5

\* A month more keeps what a schedule promises.
LEMMA PayKeeps ==
    ASSUME NEW loan, SoundLoan(loan), NEW delta \in Int, NEW k \in Nat, NEW st, PaidTo(loan, st, k), ~st.raised, NEW step
    PROVE  PaidTo(loan, pay(loan, delta, 0, st, step), k + 1)
<1> DEFINE rate == rate_in(loan, step, delta)
           monthly == rate \div 12
           waiting == loan.next_payment # <<>> /\ forecast_month(step) < loan.next_payment[1]
           active == st.active + 1
           principal == IF in_grace(loan, step, active, 0) THEN 0
                        ELSE least(contractual(loan, st.balance, active, monthly), st.balance)
           interest == interest_due(loan, st.balance, active, monthly)
           nothing == payment(st.balance, rate, 0, 0)
           asked == payment(st.balance, rate, interest, principal)
           add(p, n) == [st EXCEPT !.payments = Append(@, p), !.balance = p.closing, !.active = n]
           idle == st.balance <= 0 \/ waiting
           over == st.balance > 0 /\ ~waiting /\ active > loan.remaining
           lacking == loan.repayment = "CUSTOM_SCHEDULE" /\ active > Len(loan.custom)
<1>1. /\ idle => pay(loan, delta, 0, st, step) = add(nothing, st.active)
      /\ over => pay(loan, delta, 0, st, step) = add(nothing, active)
      /\ ~idle /\ ~over /\ lacking => pay(loan, delta, 0, st, step) = [st EXCEPT !.raised = TRUE]
      /\ ~idle /\ ~over /\ ~lacking => pay(loan, delta, 0, st, step) = add(asked, active)
  <2>1. idle => ~over
    <3>1. st.balance \in Nat
      BY DEF PaidTo
    <3> QED BY <3>1
  <2> QED BY <2>1, Zenon DEF pay
<1>2. /\ st.balance \in Nat /\ st.active \in 0 .. k /\ loan.remaining \in Nat \ {0}
      /\ Regular(loan) => st.balance = 0 \/ (st.active = k /\ k < loan.remaining)
  BY DEF PaidTo, SoundLoan
<1>3. rate \in Nat /\ monthly \in Nat
  BY RateInType
<1>4. active \in 1 .. k + 1 /\ active = st.active + 1
  BY <1>2
<1>5. Regular(loan) => ~waiting
  BY DEF Regular
<1> HIDE DEF rate, monthly, waiting, active
<1>6. nothing \in Payments /\ nothing.closing = st.balance /\ nothing.principal = 0
  BY <1>2, <1>3 DEF payment, Payments
<1>7. CASE idle
  <2>1. Follows(loan, st, k, nothing, st.active)
    BY <1>2, <1>5, <1>6, <1>7 DEF Follows
  <2>2. PaidTo(loan, add(nothing, st.active), k + 1)
    <3> HIDE DEF nothing
    <3> QED BY <2>1, PaymentAdded
  <2> HIDE DEF nothing, add, asked, idle, over, lacking
  <2> QED BY <1>1, <1>7, <2>2
<1>8. CASE over
  <2>1. Regular(loan) => FALSE
    BY <1>2, <1>4, <1>8
  <2>2. Follows(loan, st, k, nothing, active)
    BY <1>2, <1>4, <1>6, <2>1 DEF Follows
  <2>3. PaidTo(loan, add(nothing, active), k + 1)
    <3> HIDE DEF nothing
    <3> QED BY <2>2, PaymentAdded
  <2> HIDE DEF nothing, add, asked, idle, over, lacking
  <2> QED BY <1>1, <1>8, <2>3
<1>9. CASE ~idle /\ ~over /\ lacking
  <2>1. pay(loan, delta, 0, st, step) = [st EXCEPT !.raised = TRUE]
    <3> HIDE DEF nothing, add, asked, idle, over, lacking
    <3> QED BY <1>1, <1>9
  <2> QED BY <2>1 DEF PaidTo
<1>10. CASE ~idle /\ ~over /\ ~lacking
  <2>1. st.balance > 0 /\ active \in 1 .. loan.remaining
    BY <1>2, <1>4, <1>10
  <2>2. loan.repayment = "CUSTOM_SCHEDULE" => active <= Len(loan.custom)
    <3>1. Len(loan.custom) \in Nat
      BY DEF SoundLoan
    <3> QED BY <1>2, <1>4, <1>10, <3>1
  <2>3. contractual(loan, st.balance, active, monthly) \in Int /\ interest \in Int
    BY <1>2, <1>3, <2>1, <2>2, ContractualType
  <2>4. principal \in Int /\ principal <= st.balance
    BY <1>2, <2>3 DEF least
  <2>5. Regular(loan) /\ active = loan.remaining => principal = st.balance
    <3>1. Regular(loan) => ~in_grace(loan, step, active, 0)
      BY <1>4 DEF Regular, in_grace
    <3>2. Regular(loan) /\ active = loan.remaining => contractual(loan, st.balance, active, monthly) = st.balance
      BY DEF Regular, contractual
    <3> QED BY <1>2, <3>1, <3>2 DEF least
  <2> HIDE DEF principal, interest
  <2>6. asked \in Payments /\ asked.closing = st.balance - principal /\ asked.principal = principal
    BY <1>2, <1>3, <2>3, <2>4 DEF payment, Payments
  <2> HIDE DEF asked
  <2>7. asked.closing \in Nat
    BY <1>2, <2>4, <2>6
  <2>8. Regular(loan) => asked.closing = 0 \/ (active = k + 1 /\ k + 1 < loan.remaining)
    BY <1>2, <1>4, <2>1, <2>4, <2>5, <2>6
  <2>9. Follows(loan, st, k, asked, active)
    BY <1>4, <2>6, <2>7, <2>8 DEF Follows
  <2>10. PaidTo(loan, add(asked, active), k + 1)
    BY <2>9, PaymentAdded
  <2> HIDE DEF nothing, add, idle, over, lacking
  <2> QED BY <1>1, <1>10, <2>10
<1> QED BY <1>7, <1>8, <1>9, <1>10

Repaying == INSTANCE SequenceLemmas WITH Op <- repay

LEMMA ScheduleSettles ==
    ASSUME NEW loan, SoundLoan(loan), NEW n \in Nat \ {0}, NEW delta \in Int, NEW paid,
           paid = calculate_loan_schedule(loan, n, delta, 0), paid # <<>>
    PROVE  paid \in Seq(Payments) /\ Len(paid) = n /\ settles(loan, paid)
<1> DEFINE due(step) == [loan |-> loan, delta |-> delta, grace |-> 0, step |-> step]
           s == [step \in 1 .. n |-> due(step)]
           start == unpaid(loan)
<1>1. s \in Seq({due(step) : step \in 1 .. n}) /\ Len(s) = n
  <2> DEFINE D == {due(step) : step \in 1 .. n}
  <2>1. \A step \in 1 .. n : due(step) \in D
    OBVIOUS
  <2> HIDE DEF due, D
  <2>2. s \in Seq(D) /\ Len(s) = n
    BY <2>1
  <2> QED BY <2>2 DEF D
<1>2. paid = schedule_of(FoldLeft(repay, start, s))
  BY DEF calculate_loan_schedule
<1>3. \A step \in 1 .. n : s[step].loan = loan /\ s[step].delta = delta /\ s[step].grace = 0
  OBVIOUS
<1>4. PaidTo(loan, start, 0)
  <2>1. /\ DOMAIN start = {"balance", "active", "payments", "raised"} /\ start.raised = FALSE
        /\ start.balance = loan.balance /\ start.active = 0 /\ start.payments = <<>>
    BY DEF unpaid
  <2>2. principals(<<>>, 0) = 0
    <3>1. 1 .. 0 = {}
      OBVIOUS
    <3> QED BY <3>1, SumNothing DEF principals
  <2>3. loan.balance \in Nat /\ loan.remaining \in Nat \ {0}
    BY DEF SoundLoan
  <2>4. <<>> \in Seq(Payments) /\ Len(<<>>) = 0
    OBVIOUS
  <2> HIDE DEF start
  <2>5. start.active \in 0 .. 0 /\ start.balance + principals(start.payments, 0) = loan.balance
    BY <2>1, <2>2, <2>3
  <2>6. /\ start.payments \in Seq(Payments) /\ Len(start.payments) = 0
        /\ start.active = 0 /\ 0 < loan.remaining /\ ~(0 > 0)
    BY <2>1, <2>3, <2>4
  <2>7. start.balance \in Nat /\ start.raised \in BOOLEAN
    BY <2>1, <2>3
  <2> QED BY <2>1, <2>5, <2>6, <2>7, Zenon DEF PaidTo
<1> HIDE DEF s, start
<1>5. PICK f : Repaying!Folds(f, start, s, Len(s)) /\ Repaying!FoldLeft(repay, start, s) = f[Len(s)]
  BY <1>1, Repaying!FoldSteps
<1>6. FoldLeft(repay, start, s) = Repaying!FoldLeft(repay, start, s)
  BY DEF FoldLeft, MapThenFoldSet, Max, Repaying!FoldLeft, Repaying!MapThenFoldSet, Repaying!Max
<1> DEFINE Good == {k \in 0 .. n : PaidTo(loan, f[k], k)}
<1>7. 0 \in Good
  <2>1. f[0] = start
    BY <1>1, <1>5 DEF Repaying!Folds
  <2> QED BY <1>4, <2>1
<1>8. ASSUME NEW k \in 0 .. n, k < n, k \in Good PROVE k + 1 \in Good
  <2>1. k + 1 \in 1 .. n /\ k + 1 \in 0 .. n /\ k \in Nat
    BY <1>8
  <2>2. f[k + 1] = repay(f[k], s[k + 1])
    BY <1>1, <1>5, <1>8 DEF Repaying!Folds
  <2>3. PaidTo(loan, f[k], k)
    BY <1>8
  <2>4. PICK step : step = s[k + 1].step
    OBVIOUS
  <2>5. f[k + 1] = IF f[k].raised THEN f[k] ELSE pay(loan, delta, 0, f[k], step)
    BY <1>3, <2>1, <2>2, <2>4 DEF repay
  <2>6. CASE f[k].raised
    BY <2>1, <2>3, <2>5, <2>6 DEF PaidTo
  <2>7. CASE ~f[k].raised
    <3>1. PaidTo(loan, pay(loan, delta, 0, f[k], step), k + 1)
      BY <2>1, <2>3, <2>7, PayKeeps
    <3> QED BY <2>1, <2>5, <2>7, <3>1
  <2> QED BY <2>6, <2>7
<1>9. \A k \in 0 .. n : k \in Good
  <2> HIDE DEF Good
  <2> QED BY <1>7, <1>8, PrefixInduction
<1>10. PaidTo(loan, f[n], n)
  BY <1>9
<1>11. ~f[n].raised /\ paid = f[n].payments
  BY <1>1, <1>2, <1>5, <1>6 DEF schedule_of
<1>12. /\ f[n].balance \in Nat /\ paid \in Seq(Payments) /\ Len(paid) = n
       /\ paid[n].closing = f[n].balance
       /\ f[n].balance + principals(paid, n) = loan.balance
       /\ Regular(loan) => f[n].balance = 0 \/ n < loan.remaining
  BY <1>10, <1>11 DEF PaidTo
<1>13. SumFunction([step \in DOMAIN paid |-> paid[step].principal]) = principals(paid, n)
  <2>1. DOMAIN paid = 1 .. n
    BY <1>12
  <2> QED BY <2>1 DEF SumFunction, principals
<1>14. settles(loan, paid)
  <2>1. PICK left : left = paid[Len(paid)].closing
    OBVIOUS
  <2>2. left = f[n].balance
    BY <1>12, <2>1
  <2>3. left \in Nat /\ left >= 0 /\ left + SumFunction([step \in DOMAIN paid |-> paid[step].principal]) = loan.balance
    BY <1>12, <1>13, <2>2
  <2>4. Regular(loan) /\ loan.remaining <= Len(paid) => left = 0
    <3>1. loan.remaining \in Nat
      BY DEF SoundLoan
    <3> QED BY <1>12, <2>2, <3>1
  <2> QED BY <2>1, <2>3, <2>4 DEF settles, Regular
<1> QED BY <1>12, <1>14

-----------------------------------------------------------------------------
(* A layer's months.                                                        *)

SoundMonths(A, given, n) ==
    /\ n \in Nat \ {0} /\ DOMAIN A = 1 .. n /\ Len(A) = n
    /\ \A step \in 1 .. n : SoundAdjustment(A[step]) /\ SoundFeature(feature(given, step))

LEMMA MonthsOfLayer ==
    ASSUME FiguresInv, NEW P, MonthsOver(P), NEW name \in Scenarios
    PROVE  /\ SoundMonths(adjusted(name), <<>>, store.horizon)
           /\ SoundMonths(adjusted(name), features.months, store.horizon)
<1>1. store.horizon \in Nat \ {0} /\ DOMAIN features.months = 1 .. store.horizon
  BY DEF MonthsOver
<1>2. \A step \in 1 .. store.horizon : SoundFeature(feature(<<>>, step))
  BY DEF feature, SoundFeature, Whole
<1>3. \A step \in 1 .. store.horizon : SoundFeature(feature(features.months, step))
  <2>1. \A step \in 1 .. store.horizon : SoundFeature(features.months[step])
    BY FeaturesOfRun
  <2> QED BY <1>1, <2>1 DEF feature
<1>4. /\ DOMAIN adjusted(name) = 1 .. store.horizon /\ Len(adjusted(name)) = store.horizon
      /\ \A step \in 1 .. store.horizon : SoundAdjustment(adjusted(name)[step])
  BY AdjustedMonths
<1> QED BY <1>1, <1>2, <1>3, <1>4 DEF SoundMonths

LEMMA DeltaType ==
    ASSUME NEW s, NEW A, NEW given, NEW n, SoundMonths(A, given, n), NEW step \in 1 .. n
    PROVE  combined_rate_delta(s, A, given, step) \in Int
<1>1. A[step].rate \in Int /\ feature(given, step).rate \in Int
  BY DEF SoundMonths, SoundAdjustment, SoundFeature
<1>2. PICK a, b \in Int : a = A[step].rate /\ b = feature(given, step).rate
  BY <1>1
<1> QED BY <1>2 DEF combined_rate_delta

\* None of the loans' schedules has raised.
Payable(schedules) == \A delta \in DOMAIN schedules : \A k \in DOMAIN schedules[delta] : schedules[delta][k] # <<>>

LEMMA SchedulesSettle ==
    ASSUME NEW s, SoundStore(s), NEW A, NEW given, NEW n, SoundMonths(A, given, n),
           NEW schedules, schedules = loan_schedules(s, A, given), Payable(schedules),
           NEW delta \in DOMAIN schedules
    PROVE  /\ DOMAIN schedules[delta] = DOMAIN s.loans
           /\ \A k \in DOMAIN s.loans : /\ schedules[delta][k] \in Seq(Payments) /\ Len(schedules[delta][k]) = n
                                        /\ settles(s.loans[k], schedules[delta][k])
<1>1. n \in Nat \ {0} /\ DOMAIN A = 1 .. n /\ Len(A) = n
  BY DEF SoundMonths
<1>2. DOMAIN schedules = {combined_rate_delta(s, A, given, step) : step \in 1 .. n}
  BY <1>1 DEF loan_schedules
<1>3. delta \in Int
  BY <1>2, DeltaType
<1>4. schedules[delta] = [k \in DOMAIN s.loans |-> calculate_loan_schedule(s.loans[k], n, delta, 0)]
  BY <1>1, <1>2 DEF loan_schedules
<1>5. ASSUME NEW k \in DOMAIN s.loans
      PROVE  /\ schedules[delta][k] \in Seq(Payments) /\ Len(schedules[delta][k]) = n
             /\ settles(s.loans[k], schedules[delta][k])
  <2>1. SoundLoan(s.loans[k])
    BY DEF SoundStore, Range
  <2>2. PICK paid : paid = schedules[delta][k]
    OBVIOUS
  <2>3. paid = calculate_loan_schedule(s.loans[k], n, delta, 0) /\ paid # <<>>
    BY <1>4, <2>2 DEF Payable
  <2>4. paid \in Seq(Payments) /\ Len(paid) = n /\ settles(s.loans[k], paid)
    BY <1>1, <1>3, <2>1, <2>3, ScheduleSettles
  <2> QED BY <2>2, <2>4
<1> QED BY <1>4, <1>5

\* A layer that is calculated.
LEMMA LayerOf ==
    ASSUME NEW s, NEW over, NEW A, NEW given, NEW layer, layer = financial_scenario(s, over, A, given), layer # <<>>
    PROVE  /\ over.months # <<>> /\ s.history # <<>> /\ Len(A) = Len(over.months)
           /\ Payable(loan_schedules(s, A, given))
           /\ layer[1].flows = month_by_month(s, over, A, given, loan_schedules(s, A, given))
<1> DEFINE schedules == loan_schedules(s, A, given)
           lacking == \/ over.months = <<>> \/ s.history = <<>> \/ Len(A) # Len(over.months)
                      \/ \E delta \in DOMAIN schedules : \E k \in DOMAIN schedules[delta] : schedules[delta][k] = <<>>
<1>1. layer = IF lacking THEN <<>> ELSE <<scenario_of(s, month_by_month(s, over, A, given, schedules), given)>>
  BY DEF financial_scenario, scenario_with
<1>2. ~lacking
  <2> HIDE DEF lacking
  <2> QED BY <1>1
<1>3. layer[1] = scenario_of(s, month_by_month(s, over, A, given, schedules), given)
  <2> HIDE DEF lacking, schedules
  <2> QED BY <1>1, <1>2
<1>4. Payable(schedules)
  BY <1>2 DEF Payable
<1> QED BY <1>2, <1>3, <1>4 DEF scenario_of

LEMMA LoansAreSettled == IInv /\ FiguresInv => LoansSettle
<1> SUFFICES ASSUME IInv, FiguresInv, NEW name \in DOMAIN scenarios, calculated(name),
                    NEW schedule \in Range(loan_schedules(store, adjusted(name), features.months)),
                    NEW k \in DOMAIN schedule
             PROVE  settles(store.loans[k], schedule[k])
  BY DEF LoansSettle
<1> DEFINE A == adjusted(name)
           schedules == loan_schedules(store, A, features.months)
<1>1. name \in Scenarios
  BY DEF IInv, Typed
<1>2. scenarios[name] = financial_scenario(store, base, A, features.months) /\ scenarios[name] # <<>>
  BY <1>1 DEF FiguresInv, LayersFollow, calculated
<1>3. base.months # <<>> /\ Payable(schedules)
  <2> HIDE DEF A
  <2> QED BY <1>2, LayerOf
<1>4. PICK P : MonthsOver(P)
  BY <1>3, ForecastMonths
<1>5. SoundMonths(A, features.months, store.horizon)
  BY <1>1, <1>4, MonthsOfLayer
<1>6. SoundStore(store)
  BY InputsAssumption DEF FiguresInv, InputsAreSound
<1>7. PICK delta \in DOMAIN schedules : schedule = schedules[delta]
  BY DEF Range
<1>8. /\ DOMAIN schedules[delta] = DOMAIN store.loans
      /\ \A j \in DOMAIN store.loans : settles(store.loans[j], schedules[delta][j])
  <2> HIDE DEF A
  <2> QED BY <1>3, <1>5, <1>6, SchedulesSettle
<1> QED BY <1>7, <1>8

-----------------------------------------------------------------------------
(* Layers differ for a cause.                                               *)

LEMMA SameMonths ==
    ASSUME NEW s, NEW over, NEW other, NEW A, NEW given, NEW others,
           \A step \in DOMAIN A : /\ over.months[step].point = other.months[step].point
                                  /\ feature(given, step) = feature(others, step)
    PROVE  month_by_month(s, over, A, given, loan_schedules(s, A, given))
              = month_by_month(s, other, A, others, loan_schedules(s, A, others))
<1>1. \A step \in DOMAIN A : combined_rate_delta(s, A, given, step) = combined_rate_delta(s, A, others, step)
  BY DEF combined_rate_delta
<1>2. loan_schedules(s, A, given) = loan_schedules(s, A, others)
  BY <1>1 DEF loan_schedules
<1>3. PICK schedules : schedules = loan_schedules(s, A, given)
  OBVIOUS
<1>4. \A step \in DOMAIN A :
         entries_of(s, over, A, given, schedules, step) = entries_of(s, other, A, others, schedules, step)
  BY <1>1 DEF entries_of
<1>5. [step \in DOMAIN A |-> [store |-> s, entries |-> entries_of(s, over, A, given, schedules, step)]]
        = [step \in DOMAIN A |-> [store |-> s, entries |-> entries_of(s, other, A, others, schedules, step)]]
  BY <1>4
<1>6. month_by_month(s, over, A, given, schedules) = month_by_month(s, other, A, others, schedules)
  BY <1>5 DEF month_by_month
<1> QED BY <1>2, <1>3, <1>6

LEMMA SameWithoutFigures ==
    ASSUME FiguresInv, FeatureSources = {}, trend_scenario # <<>>, calculated("BASELINE")
    PROVE  scenarios["BASELINE"][1].flows = trend_scenario[1].flows
<1> DEFINE A == adjusted("BASELINE")
<1>1. "BASELINE" \in Scenarios
  BY DEF Scenarios
<1>2. /\ trend_scenario = financial_scenario(store, trend, A, <<>>)
      /\ scenarios["BASELINE"] = financial_scenario(store, base, A, features.months)
      /\ scenarios["BASELINE"] # <<>>
  BY <1>1 DEF FiguresInv, LayersFollow, calculated
<1> HIDE DEF A
<1>3. /\ base.months # <<>>
      /\ scenarios["BASELINE"][1].flows = month_by_month(store, base, A, features.months, loan_schedules(store, A, features.months))
  BY <1>2, LayerOf
<1>4. trend_scenario[1].flows = month_by_month(store, trend, A, <<>>, loan_schedules(store, A, <<>>))
  BY <1>2, LayerOf
<1>5. PICK P : MonthsOver(P)
  BY <1>3, ForecastMonths
<1>6. DOMAIN A = 1 .. store.horizon
  BY <1>1, <1>5, AdjustedMonths DEF A
<1>7. ASSUME NEW step \in 1 .. store.horizon
      PROVE  /\ base.months[step].point = trend.months[step].point
             /\ feature(features.months, step) = feature(<<>>, step)
  <2>1. DOMAIN features.months = 1 .. store.horizon
    BY <1>5 DEF MonthsOver
  <2>2. features.months[step].sources = {}
    BY <2>1 DEF FeatureSources
  <2>3. features.months[step] = Neutral
    BY <1>5, <2>2, FeaturesOfRun
  <2>4. feature(features.months, step) = Neutral /\ feature(<<>>, step) = Neutral
    <3>1. step \notin DOMAIN <<>>
      OBVIOUS
    <3> QED BY <2>1, <2>3, <3>1 DEF feature, Neutral
  <2>5. features.months[step].revenue = Whole
    BY <2>3 DEF Neutral
  <2> QED BY <1>5, <2>4, <2>5 DEF MonthsOver
<1>8. month_by_month(store, base, A, features.months, loan_schedules(store, A, features.months))
        = month_by_month(store, trend, A, <<>>, loan_schedules(store, A, <<>>))
  <2>1. PICK given, others : given = features.months /\ others = <<>>
    OBVIOUS
  <2>2. \A step \in DOMAIN A : /\ base.months[step].point = trend.months[step].point
                               /\ feature(given, step) = feature(others, step)
    BY <1>6, <1>7, <2>1
  <2>3. month_by_month(store, base, A, given, loan_schedules(store, A, given))
          = month_by_month(store, trend, A, others, loan_schedules(store, A, others))
    BY <2>2, SameMonths
  <2> QED BY <2>1, <2>3
<1> QED BY <1>3, <1>4, <1>8

LEMMA SameWithoutSignals ==
    ASSUME FiguresInv, \A s \in signals : s.raw = 0, NEW name \in Scenarios, calculated(name)
    PROVE  scenarios[name][1].flows = scenarios["BASELINE"][1].flows
<1>1. "BASELINE" \in Scenarios
  BY DEF Scenarios
<1>2. /\ scenarios[name] = financial_scenario(store, base, adjusted(name), features.months)
      /\ scenarios[name] # <<>> /\ scenarios["BASELINE"] # <<>>
      /\ scenarios["BASELINE"] = financial_scenario(store, base, adjusted("BASELINE"), features.months)
  BY <1>1 DEF FiguresInv, LayersFollow, calculated
<1>3. base.months # <<>>
  BY <1>2, LayerOf
<1>4. PICK P : MonthsOver(P)
  BY <1>3, ForecastMonths
<1>5. adjusted(name) = adjusted("BASELINE")
  BY <1>1, <1>4, AdjustedMonths
<1> QED BY <1>2, <1>5

LEMMA CausesOfDifferences == IInv /\ FiguresInv => DifferencesHaveCauses
BY SameWithoutFigures, SameWithoutSignals DEF DifferencesHaveCauses, IInv, Typed

-----------------------------------------------------------------------------
(* A month's entries are whole numbers.                                     *)

LEMMA RatioType == \A cost, revenue \in Nat : ratio(cost, revenue) \in Int
<1> TAKE cost, revenue \in Nat
<1>1. cost * Whole \in Int
  BY DEF Whole
<1>2. revenue > 0 => (cost * Whole) \div revenue \in Int
  BY <1>1, WholeQuotient
<1> QED BY <1>2 DEF ratio

LEMMA LastRevenue == \A s : SoundStore(s) /\ s.history # <<>> => s.history[Len(s.history)] \in Nat
<1> TAKE s
<1> HAVE SoundStore(s) /\ s.history # <<>>
<1>1. s.history \in Seq(Nat) /\ Len(s.history) \in 1 .. Len(s.history)
  BY DEF SoundStore
<1> QED BY <1>1

LEMMA FixedCostsType == \A s, month : SoundStore(s) => fixed_costs(s, month) \in Int
<1> TAKE s, month
<1> HAVE SoundStore(s)
<1> DEFINE scheduled(category) == {k \in DOMAIN s.schedule :
                                     s.schedule[k].month = month /\ s.schedule[k].category = category}
           due(category) == IF scheduled(category) = {} THEN s.costs[category]
                            ELSE s.schedule[Max(scheduled(category))].amount
<1>1. ASSUME NEW category \in Costs PROVE due(category) \in Int
  <2>1. s.costs[category] \in Int
    BY DEF SoundStore
  <2>2. ASSUME scheduled(category) # {} PROVE s.schedule[Max(scheduled(category))].amount \in Int
    <3>1. s.schedule \in Seq(Range(s.schedule)) /\ \A x \in Range(s.schedule) : x.amount \in Nat
      BY DEF SoundStore
    <3>2. DOMAIN s.schedule = 1 .. Len(s.schedule) /\ Len(s.schedule) \in Nat
      BY <3>1
    <3>3. scheduled(category) \subseteq 1 .. Len(s.schedule)
      BY <3>2
    <3>4. Max(scheduled(category)) \in DOMAIN s.schedule
      <4> HIDE DEF scheduled
      <4> QED BY <2>2, <3>2, <3>3, LastPosition
    <3>5. s.schedule[Max(scheduled(category))] \in Range(s.schedule)
      <4> HIDE DEF scheduled
      <4> QED BY <3>4 DEF Range
    <3> HIDE DEF scheduled
    <3> QED BY <3>1, <3>5
  <2> HIDE DEF scheduled
  <2> QED BY <2>1, <2>2
<1>2. fixed_costs(s, month) = due("rent") + due("labor") + due("utilities") + due("other")
  BY DEF fixed_costs
<1>3. "rent" \in Costs /\ "labor" \in Costs /\ "utilities" \in Costs /\ "other" \in Costs
  BY DEF Costs
<1> HIDE DEF due
<1> QED BY <1>1, <1>2, <1>3

LEMMA CostTypes ==
    ASSUME NEW s, SoundStore(s), s.history # <<>>, NEW revenue \in Int,
           NEW official_months, SoundFeature(official_months)
    PROVE  month_ingredients(revenue, s, official_months) \in Int /\ other_variable(revenue, s) \in Int
<1> DEFINE last == s.history[Len(s.history)]
<1>1. last \in Nat
  BY LastRevenue
<1> HIDE DEF last
<1>2. s.costs.ingredients \in Nat /\ s.costs.platform \in Nat /\ s.costs.payment \in Nat
  BY DEF SoundStore, Costs
<1>3. /\ ratio(s.costs.ingredients, last) \in Int
      /\ ratio(s.costs.platform, last) \in Int /\ ratio(s.costs.payment, last) \in Int
  BY <1>1, <1>2, RatioType
<1>4. other_variable(revenue, s) \in Int
  <2>1. PICK x \in Int : x = ratio(s.costs.platform, last) + ratio(s.costs.payment, last)
    BY <1>3
  <2>2. part(revenue, x) \in Int
    BY PartType
  <2> QED BY <2>1, <2>2 DEF other_variable, last
<1>5. month_ingredients(revenue, s, official_months) \in Int
  <2>1. PICK share : share = s.imported_share
    OBVIOUS
  <2>2. share \in Int /\ Whole - share \in Int
    <3>1. share \in 0 .. Whole
      BY <2>1 DEF SoundStore
    <3>2. share \in Int
      BY <3>1
    <3>3. Whole \in Int
      BY DEF Whole
    <3> QED BY <3>2, <3>3
  <2>3. part(Whole - share, official_months.domestic) \in Int /\ part(share, official_months.imported) \in Int
    <3>1. official_months.domestic \in Int /\ official_months.imported \in Int
      BY DEF SoundFeature
    <3> QED BY <2>2, <3>1, PartType
  <2>4. PICK x \in Int : x = part(Whole - share, official_months.domestic) + part(share, official_months.imported)
    BY <2>3
  <2>5. part(revenue, ratio(s.costs.ingredients, last)) \in Int
    BY <1>3, PartType
  <2>6. part(part(revenue, ratio(s.costs.ingredients, last)), x) \in Int
    BY <2>5, PartType
  <2> QED BY <2>1, <2>4, <2>6 DEF month_ingredients, last
<1> QED BY <1>4, <1>5

SoundEntries(e) ==
    /\ e.revenue \in Int /\ e.ingredients \in Int /\ e.others \in Int /\ e.fixed \in Int
    /\ e.interest \in Int /\ e.principal \in Int

\* What is paid in a month for all the loans.
LEMMA PaidInMonth ==
    ASSUME NEW paid, NEW D, IsFiniteSet(D), DOMAIN paid = D, NEW n \in Nat, NEW step \in 1 .. n,
           \A k \in D : paid[k] \in Seq(Payments) /\ Len(paid[k]) = n
    PROVE  /\ SumFunction([k \in DOMAIN paid |-> paid[k][step].interest]) \in Int
           /\ SumFunction([k \in DOMAIN paid |-> paid[k][step].principal]) \in Int
<1> DEFINE f == [k \in D |-> paid[k][step].interest]
           g == [k \in D |-> paid[k][step].principal]
<1>1. \A k \in D : f[k] \in Int /\ g[k] \in Int
  <2> TAKE k \in D
  <2>1. paid[k][step] \in Payments
    OBVIOUS
  <2> QED BY <2>1 DEF Payments
<1>2. DOMAIN f = D /\ DOMAIN g = D
  OBVIOUS
<1> HIDE DEF f, g
<1>3. SumFunctionOnSet(f, D) \in Int /\ SumFunctionOnSet(g, D) \in Int
  BY <1>1, SumType
<1>4. SumFunction(f) \in Int /\ SumFunction(g) \in Int
  BY <1>2, <1>3 DEF SumFunction
<1> QED BY <1>4 DEF f, g

LEMMA EntriesType ==
    ASSUME NEW s, SoundStore(s), s.history # <<>>, NEW A, NEW given, NEW n, SoundMonths(A, given, n),
           NEW schedules, schedules = loan_schedules(s, A, given), Payable(schedules),
           NEW over, NEW step \in 1 .. n, over.months[step].point \in Int
    PROVE  SoundEntries(entries_of(s, over, A, given, schedules, step))
<1> DEFINE delta == combined_rate_delta(s, A, given, step)
           paid == schedules[delta]
           revenue == part(over.months[step].point, A[step].revenue)
<1>1. SoundAdjustment(A[step]) /\ SoundFeature(feature(given, step)) /\ n \in Nat /\ DOMAIN A = 1 .. n
  BY DEF SoundMonths
<1>2. delta \in DOMAIN schedules
  BY <1>1 DEF loan_schedules
<1> HIDE DEF delta
<1>3. DOMAIN paid = DOMAIN s.loans /\ \A k \in DOMAIN s.loans : paid[k] \in Seq(Payments) /\ Len(paid[k]) = n
  BY <1>2, SchedulesSettle
<1>4. IsFiniteSet(DOMAIN s.loans)
  <2>1. s.loans \in Seq(Range(s.loans))
    BY DEF SoundStore
  <2>2. DOMAIN s.loans = 1 .. Len(s.loans) /\ Len(s.loans) \in Nat
    BY <2>1
  <2>3. IsFiniteSet(1 .. Len(s.loans))
    BY <2>2, FS_Interval
  <2> QED BY <2>2, <2>3
<1> HIDE DEF paid
<1>5. /\ SumFunction([k \in DOMAIN paid |-> paid[k][step].interest]) \in Int
      /\ SumFunction([k \in DOMAIN paid |-> paid[k][step].principal]) \in Int
  BY <1>1, <1>3, <1>4, PaidInMonth
<1>6. revenue \in Int
  BY <1>1, PartType DEF SoundAdjustment
<1> HIDE DEF revenue
<1>7. month_ingredients(revenue, s, feature(given, step)) \in Int /\ other_variable(revenue, s) \in Int
  BY <1>1, <1>6, CostTypes
<1>8. fixed_costs(s, forecast_month(step)) \in Int
  BY FixedCostsType
<1>9. PICK a, b, c : /\ a = part(month_ingredients(revenue, s, feature(given, step)), A[step].variable)
                     /\ b = part(other_variable(revenue, s), A[step].variable)
                     /\ c = part(fixed_costs(s, forecast_month(step)), A[step].fixed)
  OBVIOUS
<1>10. a \in Int /\ b \in Int /\ c \in Int
  BY <1>1, <1>7, <1>8, <1>9, PartType DEF SoundAdjustment
<1>11. PICK i, p : /\ i = SumFunction([k \in DOMAIN paid |-> paid[k][step].interest])
                   /\ p = SumFunction([k \in DOMAIN paid |-> paid[k][step].principal])
  OBVIOUS
<1>12. entries_of(s, over, A, given, schedules, step)
         = [revenue |-> revenue, ingredients |-> a, others |-> b, fixed |-> c, interest |-> i, principal |-> p]
  BY <1>9, <1>11 DEF entries_of, month_entries, paid, delta, revenue
<1>13. i \in Int /\ p \in Int
  BY <1>5, <1>11
<1> QED BY <1>6, <1>10, <1>12, <1>13 DEF SoundEntries

-----------------------------------------------------------------------------
(* A layer's months of cash, and what makes two of them differ.             *)

\* What a month adds to the cash.
gain(effect) ==
    effect["REVENUE"] + effect["INGREDIENT_COST"] + effect["OTHER_VARIABLE_COST"] + effect["FIXED_COST"]
    + effect["INTEREST"] + effect["PRINCIPAL"] + effect["TAX"] + effect["CAPEX"]

SoundFlow(f, cash) ==
    /\ f.ending \in Int /\ \A c \in Components : cash_effect(f)[c] \in Int
    /\ f.ending = cash + gain(cash_effect(f))

LEMMA FlowCloses ==
    ASSUME NEW s, SoundStore(s), NEW cash \in Int, NEW e, SoundEntries(e)
    PROVE  SoundFlow(month_closed(s, cash, e), cash)
<1> DEFINE f == month_closed(s, cash, e)
<1>1. PICK tax, capex \in Int : tax = s.costs.tax /\ capex = s.costs.capex
  <2>1. s.costs["tax"] \in Int /\ s.costs["capex"] \in Int
    BY DEF SoundStore, Costs
  <2> QED BY <2>1
<1>2. /\ e.revenue \in Int /\ e.ingredients \in Int /\ e.others \in Int /\ e.fixed \in Int
      /\ e.interest \in Int /\ e.principal \in Int
  BY DEF SoundEntries
<1>3. net_of(s, e) = e.revenue - (e.ingredients + e.others) - e.fixed - e.interest - e.principal - tax - capex
  BY <1>1 DEF net_of
<1>4. /\ f.revenue = e.revenue /\ f.ingredients = e.ingredients /\ f.others = e.others /\ f.fixed = e.fixed
      /\ f.interest = e.interest /\ f.principal = e.principal /\ f.tax = tax /\ f.capex = capex
      /\ f.ending = cash + net_of(s, e)
  BY <1>1 DEF month_closed
<1> HIDE DEF f
<1>5. PICK effect : effect = cash_effect(f)
  OBVIOUS
<1>6. /\ effect["REVENUE"] = e.revenue /\ effect["INGREDIENT_COST"] = -e.ingredients
      /\ effect["OTHER_VARIABLE_COST"] = -e.others /\ effect["FIXED_COST"] = -e.fixed
      /\ effect["INTEREST"] = -e.interest /\ effect["PRINCIPAL"] = -e.principal
      /\ effect["TAX"] = -tax /\ effect["CAPEX"] = -capex
  BY <1>4, <1>5 DEF cash_effect
<1>7. \A c \in Components : effect[c] \in Int
  BY <1>2, <1>6 DEF Components
<1>8. f.ending \in Int /\ f.ending = cash + gain(effect)
  BY <1>2, <1>3, <1>4, <1>6 DEF gain
<1> QED BY <1>5, <1>7, <1>8 DEF SoundFlow, f

SoundFlows(flows, cash, n) ==
    /\ DOMAIN flows = 1 .. n
    /\ \A j \in 1 .. n : SoundFlow(flows[j], IF j = 1 THEN cash ELSE flows[j - 1].ending)

Flowing == INSTANCE SequenceLemmas WITH Op <- next_flow

LEMMA FlowsAreSound ==
    ASSUME NEW s, SoundStore(s), s.history # <<>>, NEW A, NEW given, NEW n, SoundMonths(A, given, n),
           NEW schedules, schedules = loan_schedules(s, A, given), Payable(schedules),
           NEW over, \A step \in 1 .. n : over.months[step].point \in Int
    PROVE  SoundFlows(month_by_month(s, over, A, given, schedules), s.cash, n)
<1> DEFINE month(step) == [store |-> s, entries |-> entries_of(s, over, A, given, schedules, step)]
           months == [step \in 1 .. n |-> month(step)]
           Closed == {month_closed(s, cash, entries_of(s, over, A, given, schedules, step)) : cash \in Int, step \in 1 .. n}
<1>1. n \in Nat \ {0} /\ DOMAIN A = 1 .. n
  BY DEF SoundMonths
<1>2. \A step \in 1 .. n : months[step].store = s /\ months[step].entries = entries_of(s, over, A, given, schedules, step)
  OBVIOUS
<1>3. \A step \in 1 .. n : SoundEntries(entries_of(s, over, A, given, schedules, step))
  BY EntriesType
<1>4. month_by_month(s, over, A, given, schedules) = FoldLeft(next_flow, <<>>, months)
  BY <1>1 DEF month_by_month
<1>5. months \in Seq({month(step) : step \in 1 .. n}) /\ Len(months) = n
  <2> DEFINE D == {month(step) : step \in 1 .. n}
  <2>1. \A step \in 1 .. n : month(step) \in D
    OBVIOUS
  <2> HIDE DEF month, D
  <2>2. months \in Seq(D) /\ Len(months) = n
    BY <1>1, <2>1
  <2> QED BY <2>2 DEF D
<1>6. \A cash \in Int, step \in 1 .. n : month_closed(s, cash, entries_of(s, over, A, given, schedules, step)) \in Closed
  OBVIOUS
<1>7. s.cash \in Int
  BY DEF SoundStore
<1> HIDE DEF months, Closed
<1>8. PICK f : Flowing!Folds(f, <<>>, months, Len(months)) /\ Flowing!FoldLeft(next_flow, <<>>, months) = f[Len(months)]
  BY <1>5, Flowing!FoldSteps
<1>9. FoldLeft(next_flow, <<>>, months) = Flowing!FoldLeft(next_flow, <<>>, months)
  BY DEF FoldLeft, MapThenFoldSet, Max, Flowing!FoldLeft, Flowing!MapThenFoldSet, Flowing!Max
<1> DEFINE Kept(done, k) == done \in Seq(Closed) /\ Len(done) = k /\ SoundFlows(done, s.cash, k)
           Good == {k \in 0 .. n : Kept(f[k], k)}
<1>10. 0 \in Good
  <2>1. f[0] = <<>>
    BY <1>1, <1>5, <1>8 DEF Flowing!Folds
  <2>2. <<>> \in Seq(Closed) /\ Len(<<>>) = 0 /\ DOMAIN <<>> = 1 .. 0 /\ \A j \in 1 .. 0 : FALSE
    OBVIOUS
  <2>3. PICK empty : empty = <<>>
    OBVIOUS
  <2>4. SoundFlows(empty, s.cash, 0)
    BY <2>2, <2>3 DEF SoundFlows
  <2>5. Kept(empty, 0) /\ f[0] = empty
    BY <2>1, <2>2, <2>3, <2>4
  <2> HIDE DEF Kept
  <2> QED BY <1>1, <2>5
<1>11. ASSUME NEW k \in 0 .. n, k < n, k \in Good PROVE k + 1 \in Good
  <2>1. k + 1 \in 1 .. n /\ k + 1 \in 0 .. n /\ k \in Nat
    BY <1>1, <1>11
  <2>2. f[k + 1] = next_flow(f[k], months[k + 1])
    BY <1>5, <1>8, <1>11 DEF Flowing!Folds
  <2>3. PICK done : done = f[k]
    OBVIOUS
  <2>4. done \in Seq(Closed) /\ Len(done) = k /\ SoundFlows(done, s.cash, k)
    BY <1>11, <2>3
  <2>5. PICK cash : cash = IF done = <<>> THEN s.cash ELSE done[Len(done)].ending
    OBVIOUS
  <2>6. cash = (IF k + 1 = 1 THEN s.cash ELSE done[k].ending) /\ cash \in Int
    <3>1. done = <<>> <=> k = 0
      BY <2>4
    <3>2. k # 0 => done[k].ending \in Int
      <4>1. k # 0 => k \in 1 .. k
        BY <2>1
      <4> QED BY <2>4, <4>1 DEF SoundFlows, SoundFlow
    <3> QED BY <1>7, <2>1, <2>4, <2>5, <3>1, <3>2
  <2>7. PICK flow : flow = month_closed(s, cash, entries_of(s, over, A, given, schedules, k + 1))
    OBVIOUS
  <2>8. flow \in Closed /\ SoundFlow(flow, cash)
    BY <1>3, <1>6, <2>1, <2>6, <2>7, FlowCloses
  <2>9. f[k + 1] = Append(done, flow)
    BY <1>2, <2>1, <2>2, <2>3, <2>5, <2>7 DEF next_flow
  <2>10. PICK more : more = Append(done, flow)
    OBVIOUS
  <2>11. /\ more \in Seq(Closed) /\ Len(more) = k + 1 /\ DOMAIN more = 1 .. k + 1
         /\ more[k + 1] = flow /\ \A j \in 1 .. k : more[j] = done[j]
    BY <2>4, <2>8, <2>10
  <2>12. SoundFlows(more, s.cash, k + 1)
    <3>1. ASSUME NEW j \in 1 .. k + 1 PROVE SoundFlow(more[j], IF j = 1 THEN s.cash ELSE more[j - 1].ending)
      <4>1. CASE j = k + 1
        <5>1. k # 0 => more[k] = done[k]
          BY <2>1, <2>11
        <5>2. (IF j = 1 THEN s.cash ELSE more[j - 1].ending) = cash
          <6>1. (j = 1 <=> k + 1 = 1) /\ j - 1 = k
            BY <2>1, <4>1
          <6> QED BY <2>1, <2>6, <4>1, <5>1, <6>1
        <5> QED BY <2>8, <2>11, <4>1, <5>2
      <4>2. CASE j # k + 1
        <5>1. j \in 1 .. k /\ more[j] = done[j]
          BY <2>1, <2>11, <4>2
        <5>2. j # 1 => more[j - 1] = done[j - 1]
          <6>1. j # 1 => j - 1 \in 1 .. k
            BY <2>1, <5>1
          <6> QED BY <2>11, <6>1
        <5> QED BY <2>4, <5>1, <5>2 DEF SoundFlows
      <4> QED BY <4>1, <4>2
    <3> QED BY <2>11, <3>1 DEF SoundFlows
  <2>13. Kept(more, k + 1)
    BY <2>11, <2>12
  <2> HIDE DEF Kept
  <2> QED BY <2>1, <2>9, <2>10, <2>13
<1>12. \A k \in 0 .. n : k \in Good
  <2> HIDE DEF Good
  <2> QED BY <1>1, <1>10, <1>11, PrefixInduction
<1>13. Kept(f[n], n)
  BY <1>1, <1>12
<1> QED BY <1>4, <1>5, <1>8, <1>9, <1>13

\* A sum over the kinds of entries is the sum of the eight.
LEMMA GainIsSum ==
    ASSUME NEW d, DOMAIN d = Components, \A c \in Components : d[c] \in Int
    PROVE  SumFunction(d) = gain(d)
<1> DEFINE total_of(T) == SumFunctionOnSet(d, T)
           C1 == {"REVENUE"}
           C2 == C1 \cup {"INGREDIENT_COST"}
           C3 == C2 \cup {"OTHER_VARIABLE_COST"}
           C4 == C3 \cup {"FIXED_COST"}
           C5 == C4 \cup {"INTEREST"}
           C6 == C5 \cup {"PRINCIPAL"}
           C7 == C6 \cup {"TAX"}
           C8 == C7 \cup {"CAPEX"}
<1>1. C8 = Components
  BY Zenon DEF Components
<1>2. ASSUME NEW T \in SUBSET Components, IsFiniteSet(T), NEW c \in Components, c \notin T
      PROVE  IsFiniteSet(T \cup {c}) /\ total_of(T \cup {c}) = d[c] + total_of(T)
  <2>1. IsFiniteSet(T \cup {c})
    BY <1>2, FS_AddElement
  <2>2. \A y \in T \cup {c} : d[y] \in Int
    BY <1>2
  <2> QED BY <1>2, <2>1, <2>2, SumAdd
<1>3. total_of({}) = 0 /\ IsFiniteSet({})
  BY SumNothing, FS_EmptySet
<1>4. \A c \in {"REVENUE", "INGREDIENT_COST", "OTHER_VARIABLE_COST", "FIXED_COST", "INTEREST", "PRINCIPAL", "TAX", "CAPEX"} :
         c \in Components
  BY DEF Components
<1> HIDE DEF total_of
<1>5. total_of(C1) = d["REVENUE"] /\ IsFiniteSet(C1)
  <2>1. C1 = {} \cup {"REVENUE"} /\ "REVENUE" \notin {}
    OBVIOUS
  <2>2. total_of({} \cup {"REVENUE"}) = d["REVENUE"] + total_of({}) /\ IsFiniteSet({} \cup {"REVENUE"})
    BY <1>2, <1>3, <1>4
  <2>3. d["REVENUE"] \in Int
    BY <1>4
  <2> QED BY <1>3, <2>1, <2>2, <2>3
<1>6. total_of(C2) = d["INGREDIENT_COST"] + total_of(C1) /\ IsFiniteSet(C2)
  <2>1. C1 \in SUBSET Components /\ "INGREDIENT_COST" \notin C1
    BY <1>4
  <2> QED BY <1>2, <1>4, <1>5, <2>1
<1>7. total_of(C3) = d["OTHER_VARIABLE_COST"] + total_of(C2) /\ IsFiniteSet(C3)
  <2>1. C2 \in SUBSET Components /\ "OTHER_VARIABLE_COST" \notin C2
    BY <1>4
  <2> QED BY <1>2, <1>4, <1>6, <2>1
<1>8. total_of(C4) = d["FIXED_COST"] + total_of(C3) /\ IsFiniteSet(C4)
  <2>1. C3 \in SUBSET Components /\ "FIXED_COST" \notin C3
    BY <1>4
  <2> QED BY <1>2, <1>4, <1>7, <2>1
<1>9. total_of(C5) = d["INTEREST"] + total_of(C4) /\ IsFiniteSet(C5)
  <2>1. C4 \in SUBSET Components /\ "INTEREST" \notin C4
    BY <1>4
  <2> QED BY <1>2, <1>4, <1>8, <2>1
<1>10. total_of(C6) = d["PRINCIPAL"] + total_of(C5) /\ IsFiniteSet(C6)
  <2>1. C5 \in SUBSET Components /\ "PRINCIPAL" \notin C5
    BY <1>4
  <2> QED BY <1>2, <1>4, <1>9, <2>1
<1>11. total_of(C7) = d["TAX"] + total_of(C6) /\ IsFiniteSet(C7)
  <2>1. C6 \in SUBSET Components /\ "TAX" \notin C6
    BY <1>4
  <2> QED BY <1>2, <1>4, <1>10, <2>1
<1>12. total_of(C8) = d["CAPEX"] + total_of(C7)
  <2>1. C7 \in SUBSET Components /\ "CAPEX" \notin C7
    BY <1>4
  <2> QED BY <1>2, <1>4, <1>11, <2>1
<1>13. SumFunction(d) = total_of(C8)
  <2>1. SumFunction(d) = SumFunctionOnSet(d, DOMAIN d)
    BY DEF SumFunction
  <2> QED BY <1>1, <2>1 DEF total_of
<1>14. /\ d["REVENUE"] \in Int /\ d["INGREDIENT_COST"] \in Int /\ d["OTHER_VARIABLE_COST"] \in Int /\ d["FIXED_COST"] \in Int
       /\ d["INTEREST"] \in Int /\ d["PRINCIPAL"] \in Int /\ d["TAX"] \in Int /\ d["CAPEX"] \in Int
  BY <1>4
<1> HIDE DEF C1, C2, C3, C4, C5, C6, C7, C8
<1> QED BY <1>5, <1>6, <1>7, <1>8, <1>9, <1>10, <1>11, <1>12, <1>13, <1>14 DEF gain

\* What two layers' months differ by, and its sum over the first k months.
shift_of(b, o, c, n) == [step \in 1 .. n |-> cash_effect(o[step])[c] - cash_effect(b[step])[c]]
shifts(b, o, k, n) == [c \in Components |-> SumFunctionOnSet(shift_of(b, o, c, n), 1 .. k)]
apart(b, o, k) == IF k = 0 THEN 0 ELSE o[k].ending - b[k].ending

LEMMA ShiftsType ==
    ASSUME NEW cash, NEW n \in Nat, NEW b, SoundFlows(b, cash, n), NEW o, SoundFlows(o, cash, n), NEW k \in 0 .. n
    PROVE  /\ DOMAIN shifts(b, o, k, n) = Components
           /\ \A c \in Components : shifts(b, o, k, n)[c] \in Int
<1>1. ASSUME NEW c \in Components PROVE SumFunctionOnSet(shift_of(b, o, c, n), 1 .. k) \in Int
  <2>1. \A j \in 1 .. k : shift_of(b, o, c, n)[j] \in Int
    <3> TAKE j \in 1 .. k
    <3>1. j \in 1 .. n
      OBVIOUS
    <3>2. cash_effect(b[j])[c] \in Int /\ cash_effect(o[j])[c] \in Int
      BY <3>1 DEF SoundFlows, SoundFlow
    <3> QED BY <3>1, <3>2 DEF shift_of
  <2>2. IsFiniteSet(1 .. k)
    BY FS_Interval
  <2>3. PICK f : f = shift_of(b, o, c, n)
    OBVIOUS
  <2> QED BY <2>1, <2>2, <2>3, SumType
<1> QED BY <1>1 DEF shifts

LEMMA ShiftsNext ==
    ASSUME NEW cash, NEW n \in Nat, NEW b, SoundFlows(b, cash, n), NEW o, SoundFlows(o, cash, n), NEW k \in 0 .. n, k < n
    PROVE  \A c \in Components :
              shifts(b, o, k + 1, n)[c]
                 = (cash_effect(o[k + 1])[c] - cash_effect(b[k + 1])[c]) + shifts(b, o, k, n)[c]
<1> SUFFICES ASSUME NEW c \in Components
             PROVE  SumFunctionOnSet(shift_of(b, o, c, n), 1 .. k + 1)
                       = (cash_effect(o[k + 1])[c] - cash_effect(b[k + 1])[c])
                         + SumFunctionOnSet(shift_of(b, o, c, n), 1 .. k)
  BY DEF shifts
<1>1. PICK f : f = shift_of(b, o, c, n)
  OBVIOUS
<1>2. \A j \in 1 .. n : f[j] = cash_effect(o[j])[c] - cash_effect(b[j])[c]
  BY <1>1 DEF shift_of
<1>3. \A j \in 1 .. n : f[j] \in Int
  <2> TAKE j \in 1 .. n
  <2>1. cash_effect(b[j])[c] \in Int /\ cash_effect(o[j])[c] \in Int
    BY DEF SoundFlows, SoundFlow
  <2> QED BY <1>2, <2>1
<1>4. 1 .. k + 1 = (1 .. k) \cup {k + 1} /\ k + 1 \notin 1 .. k /\ IsFiniteSet(1 .. k) /\ k + 1 \in 1 .. n
  BY FS_Interval
<1>5. \A y \in (1 .. k) \cup {k + 1} : f[y] \in Int
  BY <1>3
<1>6. SumFunctionOnSet(f, (1 .. k) \cup {k + 1}) = f[k + 1] + SumFunctionOnSet(f, 1 .. k)
  BY <1>4, <1>5, SumAdd
<1> QED BY <1>1, <1>2, <1>4, <1>6

\* What one month more adds to a difference is what its entries differ by.
LEMMA GainAdds ==
    ASSUME NEW p, NEW q, NEW x, NEW y,
           \A c \in Components : p[c] \in Int /\ x[c] \in Int /\ y[c] \in Int /\ q[c] = (x[c] - y[c]) + p[c]
    PROVE  gain(q) = (gain(x) - gain(y)) + gain(p)
<1>1. \A c \in {"REVENUE", "INGREDIENT_COST", "OTHER_VARIABLE_COST", "FIXED_COST", "INTEREST", "PRINCIPAL", "TAX", "CAPEX"} :
         p[c] \in Int /\ x[c] \in Int /\ y[c] \in Int /\ q[c] = (x[c] - y[c]) + p[c]
  BY DEF Components
<1> QED BY <1>1 DEF gain

LEMMA GainType ==
    ASSUME NEW p, \A c \in Components : p[c] \in Int
    PROVE  gain(p) \in Int
<1>1. \A c \in {"REVENUE", "INGREDIENT_COST", "OTHER_VARIABLE_COST", "FIXED_COST", "INTEREST", "PRINCIPAL", "TAX", "CAPEX"} :
         p[c] \in Int
  BY DEF Components
<1> QED BY <1>1 DEF gain

LEMMA ApartByShifts ==
    ASSUME NEW cash \in Int, NEW n \in Nat, NEW b, SoundFlows(b, cash, n), NEW o, SoundFlows(o, cash, n)
    PROVE  \A k \in 0 .. n : apart(b, o, k) = gain(shifts(b, o, k, n))
<1> DEFINE Good == {k \in 0 .. n : apart(b, o, k) = gain(shifts(b, o, k, n))}
<1>1. 0 \in Good
  <2>1. 1 .. 0 = {}
    OBVIOUS
  <2>2. \A c \in Components : shifts(b, o, 0, n)[c] = 0
    <3> TAKE c \in Components
    <3>1. PICK f : f = shift_of(b, o, c, n)
      OBVIOUS
    <3> QED BY <2>1, <3>1, SumNothing DEF shifts
  <2>3. PICK p : p = shifts(b, o, 0, n)
    OBVIOUS
  <2>4. \A c \in {"REVENUE", "INGREDIENT_COST", "OTHER_VARIABLE_COST", "FIXED_COST", "INTEREST", "PRINCIPAL", "TAX", "CAPEX"} :
           p[c] = 0
    BY <2>2, <2>3 DEF Components
  <2>5. gain(p) = 0
    BY <2>4 DEF gain
  <2>6. apart(b, o, 0) = 0
    BY DEF apart
  <2> QED BY <2>3, <2>5, <2>6
<1>2. ASSUME NEW k \in 0 .. n, k < n, k \in Good PROVE k + 1 \in Good
  <2>1. k + 1 \in 1 .. n /\ k + 1 \in 0 .. n /\ k + 1 # 0 /\ (k + 1) - 1 = k
    BY <1>2
  <2>2. PICK p, q, x, y : /\ p = shifts(b, o, k, n) /\ q = shifts(b, o, k + 1, n)
                          /\ x = cash_effect(o[k + 1]) /\ y = cash_effect(b[k + 1])
    OBVIOUS
  <2>3. \A c \in Components : p[c] \in Int /\ x[c] \in Int /\ y[c] \in Int /\ q[c] = (x[c] - y[c]) + p[c]
    <3>1. \A c \in Components : p[c] \in Int
      BY <2>2, ShiftsType
    <3>2. \A c \in Components : x[c] \in Int /\ y[c] \in Int
      BY <2>1, <2>2 DEF SoundFlows, SoundFlow
    <3>3. \A c \in Components : q[c] = (x[c] - y[c]) + p[c]
      <4>1. k \in 0 .. n /\ k < n
        BY <1>2
      <4>2. \A c \in Components :
               shifts(b, o, k + 1, n)[c]
                  = (cash_effect(o[k + 1])[c] - cash_effect(b[k + 1])[c]) + shifts(b, o, k, n)[c]
        <5>1. SoundFlows(b, cash, n) /\ SoundFlows(o, cash, n) /\ n \in Nat
          OBVIOUS
        <5> HIDE DEF Good
        <5> QED BY <4>1, <5>1, ShiftsNext
      <4> QED BY <2>2, <4>2
    <3> QED BY <3>1, <3>2, <3>3
  <2>4. gain(q) = (gain(x) - gain(y)) + gain(p) /\ gain(p) \in Int /\ gain(x) \in Int /\ gain(y) \in Int
    BY <2>3, GainAdds, GainType
  <2>5. /\ o[k + 1].ending = (IF k + 1 = 1 THEN cash ELSE o[k].ending) + gain(x)
        /\ b[k + 1].ending = (IF k + 1 = 1 THEN cash ELSE b[k].ending) + gain(y)
    BY <2>1, <2>2 DEF SoundFlows, SoundFlow
  <2>6. k # 0 => o[k].ending \in Int /\ b[k].ending \in Int
    <3>1. k # 0 => k \in 1 .. n
      OBVIOUS
    <3> QED BY <3>1 DEF SoundFlows, SoundFlow
  <2>7. apart(b, o, k) = gain(p)
    BY <1>2, <2>2
  <2>8. apart(b, o, k + 1) = gain(q)
    <3>1. CASE k = 0
      <4>1. gain(p) = 0
        BY <2>7, <3>1 DEF apart
      <4>2. apart(b, o, k + 1) = (cash + gain(x)) - (cash + gain(y))
        BY <2>1, <2>5, <3>1 DEF apart
      <4> QED BY <2>4, <4>1, <4>2
    <3>2. CASE k # 0
      <4>1. gain(p) = o[k].ending - b[k].ending
        BY <2>7, <3>2 DEF apart
      <4>2. apart(b, o, k + 1) = (o[k].ending + gain(x)) - (b[k].ending + gain(y))
        <5>1. ~(k + 1 = 1)
          BY <2>1, <3>2
        <5> QED BY <2>1, <2>5, <5>1 DEF apart
      <4> QED BY <2>4, <2>6, <3>2, <4>1, <4>2
    <3> QED BY <3>1, <3>2
  <2> QED BY <2>1, <2>2, <2>8
<1>3. \A k \in 0 .. n : k \in Good
  <2> HIDE DEF Good
  <2> QED BY <1>1, <1>2, PrefixInduction
<1> QED BY <1>3

LEMMA ComparedFlows ==
    ASSUME NEW cash \in Int, NEW n \in Nat \ {0}, NEW from, NEW to,
           SoundFlows(from.flows, cash, n), SoundFlows(to.flows, cash, n)
    PROVE  forecast_comparison(from, to).ending = SumFunction(forecast_comparison(from, to).attribution)
<1> DEFINE b == from.flows
           o == to.flows
           both == both_months(from, to)
           last == CHOOSE step \in both : \A s \in both : s <= step
<1>1. both = 1 .. n
  BY DEF both_months, SoundFlows
<1>2. last = n
  <2>1. n \in both /\ \A s \in both : s <= n
    BY <1>1
  <2>2. last \in both /\ \A s \in both : s <= last
    BY <2>1
  <2> HIDE DEF last
  <2> QED BY <1>1, <2>1, <2>2
<1>3. forecast_comparison(from, to).ending = apart(b, o, n)
  <2>1. both # {}
    BY <1>1
  <2>2. forecast_comparison(from, to).ending = IF both = {} THEN 0 ELSE o[last].ending - b[last].ending
    BY DEF forecast_comparison
  <2> HIDE DEF last, both
  <2> QED BY <1>2, <2>1, <2>2 DEF apart
<1>4. forecast_comparison(from, to).attribution = shifts(b, o, n, n)
  <2>1. \A c \in Components :
           SumFunction([step \in both |-> cash_effect(o[step])[c] - cash_effect(b[step])[c]])
              = SumFunctionOnSet(shift_of(b, o, c, n), 1 .. n)
    <3> TAKE c \in Components
    <3>1. PICK f : f = shift_of(b, o, c, n)
      OBVIOUS
    <3>2. [step \in both |-> cash_effect(o[step])[c] - cash_effect(b[step])[c]] = f /\ DOMAIN f = 1 .. n
      BY <1>1, <3>1 DEF shift_of
    <3>3. SumFunction(f) = SumFunctionOnSet(f, DOMAIN f)
      BY DEF SumFunction
    <3> QED BY <3>1, <3>2, <3>3
  <2>2. forecast_comparison(from, to).attribution = attribution(from, to)
    BY DEF forecast_comparison
  <2>3. attribution(from, to)
          = [c \in Components |-> SumFunction([step \in both |-> cash_effect(o[step])[c] - cash_effect(b[step])[c]])]
    BY DEF attribution
  <2> HIDE DEF both, b, o
  <2> QED BY <2>1, <2>2, <2>3 DEF shifts
<1>5. apart(b, o, n) = gain(shifts(b, o, n, n))
  <2>1. n \in 0 .. n /\ n \in Nat
    OBVIOUS
  <2> HIDE DEF b, o
  <2> QED BY <2>1, ApartByShifts DEF b, o
<1>6. DOMAIN shifts(b, o, n, n) = Components /\ \A c \in Components : shifts(b, o, n, n)[c] \in Int
  <2>1. n \in 0 .. n /\ n \in Nat
    OBVIOUS
  <2> QED BY <2>1, ShiftsType
<1>7. PICK d : d = shifts(b, o, n, n)
  OBVIOUS
<1>8. SumFunction(d) = gain(d)
  BY <1>6, <1>7, GainIsSum
<1> QED BY <1>3, <1>4, <1>5, <1>7, <1>8

\* The flows of a layer, over either forecast.
LEMMA LayerFlows ==
    ASSUME FiguresInv, NEW P, MonthsOver(P), NEW A, NEW given, SoundMonths(A, given, store.horizon),
           NEW over, over \in {trend, base}, NEW layer, layer = financial_scenario(store, over, A, given), layer # <<>>
    PROVE  SoundFlows(layer[1].flows, store.cash, store.horizon)
<1> DEFINE schedules == loan_schedules(store, A, given)
<1>1. SoundStore(store)
  BY InputsAssumption DEF FiguresInv, InputsAreSound
<1>2. /\ store.history # <<>> /\ Payable(schedules)
      /\ layer[1].flows = month_by_month(store, over, A, given, schedules)
  BY LayerOf
<1>3. \A step \in 1 .. store.horizon : over.months[step].point \in Int
  <2> TAKE step \in 1 .. store.horizon
  <2>1. P[step] \in Int /\ Whole \in Int
    BY DEF MonthsOver, Whole
  <2>2. features.months[step].revenue \in Int
    BY FeaturesOfRun DEF SoundFeature
  <2>3. trend.months[step].point \in Int /\ base.months[step].point \in Int
    BY <2>1, <2>2, PartType DEF MonthsOver
  <2> QED BY <2>3
<1> HIDE DEF schedules
<1>4. SoundFlows(month_by_month(store, over, A, given, schedules), store.cash, store.horizon)
  BY <1>1, <1>2, <1>3, FlowsAreSound DEF schedules
<1> QED BY <1>2, <1>4

LEMMA LayersFlow ==
    ASSUME FiguresInv, NEW P, MonthsOver(P)
    PROVE  /\ trend_scenario # <<>> => SoundFlows(trend_scenario[1].flows, store.cash, store.horizon)
           /\ \A name \in Scenarios :
                 scenarios[name] # <<>> => SoundFlows(scenarios[name][1].flows, store.cash, store.horizon)
<1>1. "BASELINE" \in Scenarios
  BY DEF Scenarios
<1>2. trend_scenario # <<>> => SoundFlows(trend_scenario[1].flows, store.cash, store.horizon)
  <2>1. SoundMonths(adjusted("BASELINE"), <<>>, store.horizon)
    BY <1>1, MonthsOfLayer
  <2>2. trend_scenario # <<>> => trend_scenario = financial_scenario(store, trend, adjusted("BASELINE"), <<>>)
    BY DEF FiguresInv, LayersFollow
  <2>3. PICK A, given : A = adjusted("BASELINE") /\ given = <<>>
    OBVIOUS
  <2> QED BY <2>1, <2>2, <2>3, LayerFlows
<1>3. ASSUME NEW name \in Scenarios, scenarios[name] # <<>>
      PROVE  SoundFlows(scenarios[name][1].flows, store.cash, store.horizon)
  <2>1. SoundMonths(adjusted(name), features.months, store.horizon)
    BY MonthsOfLayer
  <2>2. scenarios[name] = financial_scenario(store, base, adjusted(name), features.months)
    BY <1>3 DEF FiguresInv, LayersFollow
  <2> QED BY <1>3, <2>1, <2>2, LayerFlows
<1> QED BY <1>2, <1>3

LEMMA MadeAddsUp ==
    ASSUME NEW cash \in Int, NEW n \in Nat \ {0}, NEW from, NEW to, NEW base_layer, NEW layer,
           base_layer # <<>> => SoundFlows(base_layer[1].flows, cash, n),
           layer # <<>> => SoundFlows(layer[1].flows, cash, n),
           NEW c \in made(from, to, base_layer, layer)
    PROVE  c.by.ending = SumFunction(c.by.attribution)
<1>1. base_layer # <<>> /\ layer # <<>> /\ c.by = forecast_comparison(base_layer[1], layer[1])
  BY DEF made
<1>2. PICK one, other : one = base_layer[1] /\ other = layer[1]
  OBVIOUS
<1>3. forecast_comparison(one, other).ending = SumFunction(forecast_comparison(one, other).attribution)
  BY <1>1, <1>2, ComparedFlows
<1> QED BY <1>1, <1>2, <1>3

LEMMA ComparisonsAreWhole == FiguresInv => ComparisonsAddUp
<1> SUFFICES ASSUME FiguresInv, NEW r \in Range(result), NEW c \in r.comparisons
             PROVE  c.by.ending = SumFunction(c.by.attribution)
  BY DEF ComparisonsAddUp
<1>1. c \in comparisons
  BY DEF FiguresInv, ResultFollows
<1>2. {"BASELINE", "LOW_IMPACT", "HIGH_IMPACT"} \subseteq Scenarios
  BY DEF Scenarios
<1>3. PICK from, to, base_layer, layer :
         /\ c \in made(from, to, base_layer, layer)
         /\ base_layer \in {trend_scenario, scenarios["BASELINE"]}
         /\ layer \in {scenarios["BASELINE"], scenarios["LOW_IMPACT"], scenarios["HIGH_IMPACT"]}
  BY <1>1 DEF comparisons
<1>4. base_layer # <<>> /\ layer # <<>>
  BY <1>3 DEF made
<1>5. PICK name \in Scenarios : layer = scenarios[name]
  BY <1>2, <1>3
<1>6. layer = financial_scenario(store, base, adjusted(name), features.months)
  BY <1>4, <1>5 DEF FiguresInv, LayersFollow
<1>7. base.months # <<>>
  BY <1>4, <1>6, LayerOf
<1>8. PICK P : MonthsOver(P)
  BY <1>7, ForecastMonths
<1>9. /\ SoundFlows(base_layer[1].flows, store.cash, store.horizon)
      /\ SoundFlows(layer[1].flows, store.cash, store.horizon)
  BY <1>2, <1>3, <1>4, <1>5, <1>8, LayersFlow
<1>10. store.cash \in Int /\ store.horizon \in Nat \ {0}
  BY <1>8, InputsAssumption DEF FiguresInv, InputsAreSound, SoundStore, MonthsOver
<1> QED BY <1>3, <1>9, <1>10, MadeAddsUp

\* The parts of a comparison are the whole of the difference in cash; layers
\* differ only where a figure or a signal makes them; official figures move
\* the revenue of a month by no more than their cap; and a loan's schedule at
\* one rate repays what was borrowed (_forecast_comparison of the
\* orchestrator, monthly_scenario.py, official_features.py, loan.py).
THEOREM AddUp == Spec => []FiguresAddUp
<1>1. IInv /\ FiguresInv => FiguresAddUp
  BY ComparisonsAreWhole, CausesOfDifferences, CapHolds, LoansAreSettled DEF FiguresAddUp
<1> QED BY Invariance, FiguresInvariance, <1>1, PTL
=============================================================================
