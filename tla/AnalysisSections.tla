-------------------------- MODULE AnalysisSections --------------------------
(***************************************************************************)
(* One analysis from its official data to its result: the sections of       *)
(* AnalysisOrchestrator.run (orchestration/analysis_orchestrator.py), which *)
(* one after the other may be complete, partial, failed or skipped while    *)
(* the others go on.                                                        *)
(*                                                                         *)
(* The store, the requests, the providers' answers and what the agents      *)
(* bring back are inputs.  An outcome of the core research is [events,      *)
(* errors, partial, findings, documents]; of the policy research, [errors,  *)
(* partial].  A repository may fail at every save.                          *)
(***************************************************************************)
EXTENDS MonthlyFinance, BokDecision

CONSTANTS Stores, RequestLists,
          AnswersTo(_),        \* what providers may answer to a request
          Outcomes,            \* of the core research
          PolicyOutcomes

VARIABLES
    store, requests,     \* the inputs of the run
    stage,               \* where run() is
    sections,            \* SectionExecution.status of each section
    official, research,  \* the bundles collected
    features,            \* OfficialFeatureSet
    trend, base,         \* the forecasts without and with the features
    signals,             \* of the accepted events
    trend_scenario,      \* <<>> or <<scenario>>
    scenarios,           \* by name, <<>> or <<scenario>>
    stored,              \* the names of the rows of scenario_results
    result               \* <<>> or <<AnalysisResultV1>>
vars == <<store, requests, stage, sections, official, research, features, trend, base, signals,
          trend_scenario, scenarios, stored, result>>

Sections == {"OFFICIAL_DATA", "RESEARCH", "BASELINE", "SIGNALS", "FINANCE", "POLICIES"}
Order == <<"BASELINE", "LOW_IMPACT", "HIGH_IMPACT">>
NoFeatures == [status |-> "", overrides |-> {}, months |-> <<>>]
NoResearch == [events |-> {}, errors |-> FALSE, partial |-> FALSE, findings |-> {}, documents |-> <<>>]
NoForecast == [status |-> "", model |-> "NONE", fallback |-> FALSE, months |-> <<>>]

-----------------------------------------------------------------------------
(* What the inputs may be: amounts, days and months are whole numbers, and   *)
(* what contracts/store.py and contracts/loan.py bound is so bounded.        *)

Repayments == {"BULLET", "EQUAL_PRINCIPAL", "AMORTIZING", "CUSTOM_SCHEDULE"}
SoundLoan(l) ==
    /\ l.balance \in Nat /\ l.rate \in Nat /\ l.remaining \in Nat \ {0} /\ l.repayment \in Repayments
    /\ l.custom \in Seq(Range(l.custom))
    /\ \A k \in 1 .. Len(l.custom) : l.custom[k].principal \in Nat /\ l.custom[k].interest \in Nat

Costs == {"ingredients", "platform", "payment", "rent", "labor", "utilities", "other", "tax", "capex"}
SoundStore(s) ==
    /\ s.horizon \in Nat \ {0} /\ s.cash \in Nat /\ s.imported_share \in 0 .. Whole
    /\ s.history \in Seq(Nat) /\ s.declared \in Seq(Nat)
    /\ s.costs \in [Costs -> Nat]
    /\ s.schedule \in Seq(Range(s.schedule)) /\ \A x \in Range(s.schedule) : x.amount \in Nat
    /\ s.loans \in Seq(Range(s.loans)) /\ \A l \in Range(s.loans) : SoundLoan(l)

\* A fit raises or gives a forecast, cut off at nothing, for each month.
SoundFits(s) ==
    \A model \in {"ETS_DAMPED", "SARIMA"}, horizon \in {1, s.horizon}, n \in 1 .. Len(s.history) :
        LET said == Fitted(model, SubSeq(s.history, 1, n), horizon) IN said = <<>> \/ said \in [1 .. horizon -> Nat]

SoundRow(provider, row) ==
    CASE provider \in {"ECOS", "KOSIS", "CUSTOMS"} ->
            /\ row.month \in Int /\ row.value \in Seq(Int)
            /\ provider = "KOSIS" => row.changed \in Seq(Int)
            /\ provider = "CUSTOMS" => row.weight \in Seq(Int)
      [] OTHER -> /\ row.observed \in Int /\ row.value \in Seq(Int)
                  /\ row.released \in Seq(Int) /\ row.available \in Seq(Int)

SoundRequests(asked) ==
    /\ asked \in Seq(Range(asked))
    /\ \A r \in Range(asked) : \A answer \in AnswersTo(r) :
          answer.rows \in Seq(Range(answer.rows)) /\ \A row \in Range(answer.rows) : SoundRow(r.provider, row)

SoundEvent(e) ==
    /\ e.n \in Int /\ e.start \in Int /\ e.end \in Seq(Int) /\ e.official.value \in Seq(Int)
    /\ e.severity \in Int /\ e.near \in Int /\ e.hours \in Int /\ e.tier \in DOMAIN Evidence
    /\ IsFiniteSet(e.impacts) /\ \A i \in e.impacts : i.direction \in Int

\* Events have identifiers, n being their order.
SoundOutcome(outcome) ==
    /\ DOMAIN outcome = DOMAIN NoResearch
    /\ IsFiniteSet(outcome.events) /\ \A e \in outcome.events : SoundEvent(e)
    /\ \A e, f \in outcome.events : e.id = f.id \/ e.n = f.n => e = f

ASSUME InputsAssumption ==
    /\ \A s \in Stores : SoundStore(s) /\ SoundFits(s)
    /\ \A asked \in RequestLists : SoundRequests(asked)
    /\ \A outcome \in Outcomes : SoundOutcome(outcome)

-----------------------------------------------------------------------------

Init ==
    /\ store \in Stores
    /\ requests \in RequestLists
    /\ stage = "OFFICIAL_DATA"
    /\ sections = [s \in Sections |-> "NOT_STARTED"]
    /\ official = settled(Nothing, "SKIPPED")
    /\ research = NoResearch
    /\ features = NoFeatures
    /\ trend = NoForecast
    /\ base = NoForecast
    /\ signals = {}
    /\ trend_scenario = <<>>
    /\ scenarios = [name \in Scenarios |-> <<>>]
    /\ stored = {}
    /\ result = <<>>

finish(section, status) == sections' = [sections EXCEPT ![section] = status]
go(next) == stage' = next

-----------------------------------------------------------------------------
(* Data and research.                                                       *)

OfficialDataSection ==
    /\ stage = "OFFICIAL_DATA"
    /\ \E answers \in [DOMAIN requests -> UNION {AnswersTo(requests[k]) : k \in DOMAIN requests}] :
          /\ \A k \in DOMAIN requests : answers[k] \in AnswersTo(requests[k])
          /\ official' = official_bundle(requests, answers)
    /\ finish("OFFICIAL_DATA", official'.status)
    /\ go("RESEARCH")
    /\ UNCHANGED <<store, requests, research, features, trend, base, signals, trend_scenario, scenarios, stored, result>>

\* The base rate the data gives, <<>> if it gives none.
known_rate(bundle) ==
    LET S == {o \in bundle.observations : o.indicator = <<"BASE_RATE">> /\ o.observed <= AsOf
                                           /\ o.quality \notin {"REJECTED", "STALE"}}
    IN IF S = {} THEN <<>> ELSE <<latest(S).value>>

contradicts(finding, documents, rate) ==
    /\ finding.reason = "BOK_RATE_HOLD_REFERENCE_ONLY"
    /\ finding.source \in DOMAIN documents
    /\ "BOK_RATE_OFFICIAL_DATA_CONFLICT" \in assess_bok(documents[finding.source], rate).reasons

\* A reference that contradicts the data provider is put aside.
cross_validated(outcome, bundle) ==
    LET rate == known_rate(bundle)
    IN IF rate = <<>> THEN outcome
       ELSE [outcome EXCEPT !.findings = {f \in @ : ~contradicts(f, outcome.documents, rate[1])}]

ResearchSection ==
    /\ stage = "RESEARCH"
    /\ \E outcome \in Outcomes : research' = cross_validated(outcome, official)
    /\ finish("RESEARCH", IF research'.errors \/ research'.partial THEN "PARTIAL" ELSE "COMPLETED")
    /\ go("BASELINE")
    /\ UNCHANGED <<store, requests, official, features, trend, base, signals, trend_scenario, scenarios, stored, result>>

-----------------------------------------------------------------------------
(* Forecast and signals.                                                    *)

BaselineSection ==
    /\ stage = "BASELINE"
    /\ ~forecast_raises(store)
    /\ features' = official_features(official, store.horizon, research.events)
    /\ trend' = forecast(store, <<>>)
    /\ base' = forecast(store, features'.months)
    /\ finish("BASELINE", IF base'.status \in {"COMPLETED", "PARTIAL"} THEN base'.status ELSE "FAILED")
    /\ go("SIGNALS")
    /\ UNCHANGED <<store, requests, official, research, signals, trend_scenario, scenarios, stored, result>>

SignalsSection ==
    /\ stage = "SIGNALS"
    /\ base.months # <<>>
    /\ signals' = all_signals(research.events, store, Len(base.months))
    /\ finish("SIGNALS", "COMPLETED")
    /\ go("TREND")
    /\ UNCHANGED <<store, requests, official, research, features, trend, base, trend_scenario, scenarios, stored, result>>

NoBaseline ==
    /\ stage = "SIGNALS"
    /\ base.months = <<>>
    /\ sections' = [sections EXCEPT !["SIGNALS"] = "SKIPPED", !["FINANCE"] = "SKIPPED"]
    /\ go("POLICIES")
    /\ UNCHANGED <<store, requests, official, research, features, trend, base, signals, trend_scenario, scenarios, stored, result>>

-----------------------------------------------------------------------------
(* Finance: the trend, then the scenarios in their order.  What raises ends *)
(* the section and leaves the scenarios calculated before, the one whose    *)
(* save failed among them.                                                  *)

adjusted(name) == adjustments(signals, Len(base.months))[name]

\* The first that is not calculated.
next_scenario ==
    Order[CHOOSE i \in DOMAIN Order : /\ scenarios[Order[i]] = <<>>
                                      /\ \A j \in 1 .. i - 1 : scenarios[Order[j]] # <<>>]

TrendScenario ==
    /\ stage = "TREND"
    /\ trend_scenario' = financial_scenario(store, trend, adjusted("BASELINE"), <<>>)
    /\ \/ /\ trend_scenario' # <<>>
          /\ stored' = stored \cup {"TREND"}
          /\ go("SCENARIOS")
          /\ UNCHANGED sections
       \/ /\ finish("FINANCE", "FAILED")
          /\ go("POLICIES")
          /\ UNCHANGED stored
    /\ UNCHANGED <<store, requests, official, research, features, trend, base, signals, scenarios, result>>

NextScenario ==
    /\ stage = "SCENARIOS"
    /\ \E name \in {next_scenario} :
          /\ scenarios' = [scenarios EXCEPT ![name] = financial_scenario(store, base, adjusted(name), features.months)]
          /\ \/ /\ scenarios'[name] # <<>>
                /\ stored' = stored \cup {name}
                /\ IF name = Order[Len(Order)] THEN finish("FINANCE", "COMPLETED") /\ go("POLICIES")
                   ELSE UNCHANGED <<sections, stage>>
             \/ /\ finish("FINANCE", "FAILED")
                /\ go("POLICIES")
                /\ UNCHANGED stored
    /\ UNCHANGED <<store, requests, official, research, features, trend, base, signals, trend_scenario, result>>

-----------------------------------------------------------------------------
(* Policies and result.                                                     *)

PoliciesSection ==
    /\ stage = "POLICIES"
    /\ scenarios["BASELINE"] # <<>>
    /\ \E outcome \in PolicyOutcomes :
          finish("POLICIES", IF outcome.errors \/ outcome.partial THEN "PARTIAL" ELSE "COMPLETED")
    /\ go("RESULT")
    /\ UNCHANGED <<store, requests, official, research, features, trend, base, signals, trend_scenario, scenarios, stored, result>>

NoFinance ==
    /\ stage = "POLICIES"
    /\ scenarios["BASELINE"] = <<>>
    /\ finish("POLICIES", "SKIPPED")
    /\ go("RESULT")
    /\ UNCHANGED <<store, requests, official, research, features, trend, base, signals, trend_scenario, scenarios, stored, result>>

\* Fault: data that could not be had is not the analysis' concern.
overall_status_lenient(status) ==
    IF status["FINANCE"] \in {"FAILED", "SKIPPED"} THEN "FAILED"
    ELSE IF \E s \in Sections \ {"SIGNALS", "OFFICIAL_DATA"} : status[s] \in {"PARTIAL", "FAILED"} THEN "PARTIAL"
    ELSE "COMPLETED"

\* The section SIGNALS has no say in the status.
overall_status(status) ==
    IF status["FINANCE"] \in {"FAILED", "SKIPPED"} THEN "FAILED"
    ELSE IF \E s \in Sections \ {"SIGNALS"} : status[s] \in {"PARTIAL", "FAILED"} THEN "PARTIAL"
    ELSE "COMPLETED"

incomplete(status) == {s \in Sections : status[s] \in {"PARTIAL", "FAILED"}}

made(from, to, base_layer, layer) ==
    IF base_layer = <<>> \/ layer = <<>> THEN {}
    ELSE {[from |-> from, to |-> to, by |-> forecast_comparison(base_layer[1], layer[1])]}

comparisons ==
    made("TREND", "OFFICIAL", trend_scenario, scenarios["BASELINE"])
    \cup made("OFFICIAL", "AI_LOW_IMPACT", scenarios["BASELINE"], scenarios["LOW_IMPACT"])
    \cup made("OFFICIAL", "AI_HIGH_IMPACT", scenarios["BASELINE"], scenarios["HIGH_IMPACT"])

\* How far an accepted event came.
terminal(e) ==
    LET own == {s \in signals : s.event = e.id}
    IN IF ~e.signal_enabled THEN "VALIDATED_REFERENCE_ONLY"
       ELSE IF own = {} THEN "INSTANCE_ELIGIBLE"
       ELSE IF \A s \in own : s.raw = 0 THEN "SIGNAL_GENERATED" ELSE "FINANCIALLY_APPLIED"

Assemble ==
    /\ stage = "RESULT"
    /\ result' = <<[status |-> overall_status(sections),
                    incomplete |-> IF overall_status(sections) = "PARTIAL" THEN incomplete(sections) ELSE {},
                    comparisons |-> comparisons,
                    events |-> {[event |-> e.id, terminal |-> terminal(e)] : e \in research.events}]>>
    /\ go("DONE")
    /\ UNCHANGED <<store, requests, sections, official, research, features, trend, base, signals, trend_scenario, scenarios, stored>>

\* Outside of finance an exception ends the run without a result.
Raise ==
    /\ stage \in {"OFFICIAL_DATA", "RESEARCH", "BASELINE", "SIGNALS", "POLICIES", "RESULT"}
    /\ go("RAISED")
    /\ UNCHANGED <<store, requests, sections, official, research, features, trend, base, signals, trend_scenario, scenarios, stored, result>>

Next ==
    \/ OfficialDataSection \/ ResearchSection \/ BaselineSection \/ SignalsSection \/ NoBaseline
    \/ TrendScenario \/ NextScenario \/ PoliciesSection \/ NoFinance \/ Assemble \/ Raise

Spec == Init /\ [][Next]_vars

-----------------------------------------------------------------------------
(* Properties.                                                              *)

FeatureSources == UNION {features.months[step].sources : step \in DOMAIN features.months}

\* A decision of the central bank itself that the collected series has not
\* reached.
bridges(e, o) ==
    /\ bridged_type(e) /\ e.tier = "OFFICIAL_PRIMARY" /\ ~e.foreign /\ e.official.evidenced
    /\ o.revision = e.id /\ o.observed = e.start /\ o.value = e.official.value[1]
    /\ \A p \in current(official.observations, o.indicator) : p.observed < e.start

KnownInTime ==
    \A o \in FeatureSources :
        /\ o.quality = "VALID"
        /\ o.observed <= AsOf /\ o.released <= AsOf /\ o.available <= AsOf
        /\ o \in official.observations \/ \E e \in research.events : bridges(e, o)

OneSignalPerCause ==
    \A s, t \in signals : s.step = t.step /\ s.axis = t.axis /\ s.cause = t.cause => s = t

UnappliedEventsChangeNothing ==
    \A r \in Range(result) : \A told \in r.events :
        told.terminal # "FINANCIALLY_APPLIED" =>
            LET others == {s \in signals : s.event # told.event}
            IN adjustments(others, Len(base.months)) = adjustments(signals, Len(base.months))

\* A figure of the forecast was published by the analysis date, or is a
\* decision of the bank that the published series has not caught up with; one
\* cause moves an axis once a month; and an event the result does not call
\* financially applied could be left out of every scenario
\* (official_data_pipeline.py, official_event_bridge.py, research_signal.py).
FiguresRestOnEvidence == KnownInTime /\ OneSignalPerCause /\ UnappliedEventsChangeNothing

Layers == {"TREND"} \cup Scenarios

\* A completed result is missing nothing: every indicator, the research, a
\* tested forecast, all four layers in the store, and the policies.  A failed
\* one lacks a layer, a partial one names what is incomplete, and only a
\* failed one is without its three comparisons (AnalysisOrchestrator.run).
OverallStatusTellsTheTruth ==
    \A r \in Range(result) :
        /\ r.status = "COMPLETED" =>
              /\ official.missing = {} /\ DOMAIN official.errors = {}
              /\ ~research.errors /\ ~research.partial
              /\ base.status = "COMPLETED"
              /\ sections["POLICIES"] = "COMPLETED"
        /\ r.status = "FAILED" <=> stored # Layers
        /\ r.status = "PARTIAL" => r.incomplete # {}
        /\ r.status # "FAILED" => Cardinality(r.comparisons) = 3

ComparisonsAddUp ==
    \A r \in Range(result) : \A c \in r.comparisons :
        c.by.ending = SumFunction(c.by.attribution)

calculated(name) == scenarios[name] # <<>>

DifferencesHaveCauses ==
    /\ (FeatureSources = {} /\ trend_scenario # <<>> /\ calculated("BASELINE")) =>
          scenarios["BASELINE"][1].flows = trend_scenario[1].flows
    /\ (\A s \in signals : s.raw = 0) =>
          \A name \in DOMAIN scenarios :
              calculated(name) => scenarios[name][1].flows = scenarios["BASELINE"][1].flows

WithinTheCap ==
    \A step \in DOMAIN base.months :
        /\ part(trend.months[step].point, Whole - RoleHorizonCaps.REVENUE_DEMAND) <= base.months[step].point
        /\ base.months[step].point <= part(trend.months[step].point, Whole + RoleHorizonCaps.REVENUE_DEMAND)

settles(loan, paid) ==
    LET left == paid[Len(paid)].closing
    IN /\ left >= 0
       /\ left + SumFunction([step \in DOMAIN paid |-> paid[step].principal]) = loan.balance
       /\ (/\ loan.repayment \in {"AMORTIZING", "BULLET"} /\ loan.grace_end = <<>>
           /\ loan.next_payment = <<>> /\ loan.remaining <= Len(paid)) => left = 0

\* At any of the rates of a scenario.
LoansSettle ==
    \A name \in DOMAIN scenarios :
        calculated(name) =>
            \A schedule \in Range(loan_schedules(store, adjusted(name), features.months)) :
                \A k \in DOMAIN schedule : settles(store.loans[k], schedule[k])

\* The parts of a comparison are the whole of the difference in cash; layers
\* differ only where a figure or a signal makes them; official figures move
\* the revenue of a month by no more than their cap; and a loan's schedule at
\* one rate repays what was borrowed (_forecast_comparison of the
\* orchestrator, monthly_scenario.py, official_features.py, loan.py).
FiguresAddUp == ComparisonsAddUp /\ DifferencesHaveCauses /\ WithinTheCap /\ LoansSettle

\* Old data leaves the section of the official data incomplete, as
\* docs/API.md says; the code marks the observations and no more.
StaleDataIsPartial ==
    (\E o \in official.observations : o.quality = "STALE") => sections["OFFICIAL_DATA"] \in {"PARTIAL", "FAILED"}
=============================================================================
