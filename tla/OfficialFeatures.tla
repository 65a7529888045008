-------------------------- MODULE OfficialFeatures --------------------------
(***************************************************************************)
(* Model features from official observations, and the bridge that carries a *)
(* central bank's decision over a series that has not reached it            *)
(* (forecasting/official_features.py, official_event_bridge.py).            *)
(*                                                                         *)
(* A relative figure is a whole number of ten-thousandths (Whole is one); a *)
(* quotient is rounded down.  An event's official is what it says of the    *)
(* indicator: [indicator, value, unit, evidenced].                          *)
(***************************************************************************)
EXTENDS OfficialData

CONSTANT Suggested    \* the role the words of an unregistered indicator's name suggest

Whole == 10000
Decay == 6500
PerPeriodRelativeCap == 500
RoleHorizonCaps ==
    [REVENUE_DEMAND |-> 1000, DOMESTIC_INGREDIENT_COST |-> 800, IMPORTED_INGREDIENT_COST |-> 1200,
     INTEREST_RATE |-> 200, UNMAPPED |-> 500]
CostRoles == {"REVENUE_DEMAND", "DOMESTIC_INGREDIENT_COST", "IMPORTED_INGREDIENT_COST"}

clip(x, low, high) == IF x < low THEN low ELSE IF x > high THEN high ELSE x
within(x, bound) == clip(x, -bound, bound)
part(x, ratio) == (x * ratio) \div Whole
magnitude(x) == IF x < 0 THEN -x ELSE x
average(values, count) == IF count = 0 THEN 0 ELSE values \div count

-----------------------------------------------------------------------------
(* The bridge.                                                              *)

EventIndicators ==
    [type \in {"BASE_RATE_INCREASE", "BASE_RATE_DECREASE", "BASE_RATE_HOLD"} |-> <<"BASE_RATE">>]

bridged_type(e) == e.type \in DOMAIN EventIndicators

\* The same decision told by another document.
semantic_identity(e) == <<e.actor, e.official.indicator, e.start, e.type, e.official.value, e.official.unit>>

current(S, indicator) == {o \in S : o.indicator = indicator /\ o.quality \in {"VALID", "REVISED"}}

\* Why an event does not bridge its series, "" if it does; S are the
\* observations so far, the ones of earlier events among them.
bridge_refusal(S, e) ==
    LET indicator == EventIndicators[e.type]
        series == current(S, indicator)
    IN CASE e.tier # "OFFICIAL_PRIMARY" -> "SOURCE_NOT_OFFICIAL_PRIMARY"
         [] e.tier = "OFFICIAL_PRIMARY" /\ e.foreign -> "ACTOR_NOT_AUTHORIZED_FOR_BASE_RATE"
         [] OTHER ->
            IF e.official.indicator # indicator THEN "INDICATOR_MISMATCH"
            ELSE IF e.official.value = <<>> \/ e.official.unit = "" \/ ~e.official.evidenced
                 THEN "VALUE_OR_UNIT_NOT_EXPLICITLY_EVIDENCED"
            ELSE IF series = {} THEN "NO_OFFICIAL_BASELINE_OBSERVATION"
            ELSE IF latest(series).unit # e.official.unit THEN "UNIT_MISMATCH"
            ELSE IF e.start <= latest(series).observed THEN "OFFICIAL_SERIES_CAUGHT_UP"
            ELSE IF e.start > AsOf THEN "EVENT_NOT_EFFECTIVE_AS_OF_ANALYSIS" ELSE ""

bridge_status(why) ==
    CASE why = "" -> "APPLIED"
      [] why = "OFFICIAL_SERIES_CAUGHT_UP" -> "EXPIRED"
      [] OTHER -> "INELIGIBLE"

synthetic(e) ==
    [indicator |-> EventIndicators[e.type], value |-> e.official.value[1], unit |-> e.official.unit,
     frequency |-> "DAILY", observed |-> e.start, released |-> e.start, available |-> e.start,
     revision |-> e.id, n |-> -e.n, quality |-> "VALID"]

bridge(so_far, e) ==
    LET why == bridge_refusal(so_far.observations, e)
    IN IF ~bridged_type(e) \/ semantic_identity(e) \in so_far.seen THEN so_far
       ELSE [observations |-> so_far.observations \cup (IF why = "" THEN {synthetic(e)} ELSE {}),
             seen |-> so_far.seen \cup {semantic_identity(e)},
             decisions |-> so_far.decisions \cup {[event |-> e.id, status |-> bridge_status(why), reason |-> why]}]

starts_before(e, f) == e.start < f.start \/ (e.start = f.start /\ e.n < f.n)

by_start(events) ==
    LET s == SetToSeq(events)
    IN Arranged(s, {pair \in (DOMAIN s) \X (DOMAIN s) : starts_before(s[pair[1]], s[pair[2]])})

apply_official_event_bridge(S, events) ==
    FoldLeft(bridge, [observations |-> S, seen |-> {}, decisions |-> {}], by_start(events))

-----------------------------------------------------------------------------
(* The features.                                                            *)

\* The powers of a ratio, from one to the n-th.
powers(ratio, n) ==
    LET power[k \in 0 .. n] == IF k = 0 THEN Whole ELSE part(power[k - 1], ratio) IN power

\* One and its decayed repetitions, a term for each projected month.
decayed_sum(step) == SumFunctionOnSet(powers(Decay, step), 0 .. step - 1)

role_of(indicator) ==
    IF indicator \in DOMAIN Indicator THEN Indicator[indicator].role
    ELSE IF indicator \in DOMAIN Suggested THEN Suggested[indicator] ELSE "UNMAPPED"

\* The change between the two last observations of a series.
level_delta(S) ==
    LET last == latest(S) IN IF S = {last} THEN 0 ELSE last.value - latest(S \ {last}).value

recent_change(S) ==
    LET last == latest(S)
        previous == latest(S \ {last})
    IN IF S = {last} THEN 0
       ELSE IF previous.value = 0 THEN 0 ELSE (level_delta(S) * Whole) \div magnitude(previous.value)

cumulative_change(S, role, step) ==
    within(part(within(recent_change(S), PerPeriodRelativeCap), decayed_sum(step)), RoleHorizonCaps[role])

\* The levels of a rate are hundredths of its unit: of a percentage, hence,
\* ten-thousandths already.
Percentages == {"PERCENT", "%", "PCT"}
unit_scale(unit) == IF unit \in Percentages THEN 1 ELSE 100
interest_delta(S, step) ==
    within(part(level_delta(S) * unit_scale(latest(S).unit), decayed_sum(step)), RoleHorizonCaps["INTEREST_RATE"])

used(S) == {latest(S)} \cup (IF S = {latest(S)} THEN {} ELSE {latest(S \ {latest(S)})})

\* A series' months are read with one order of the observations.
month_features(series, step) ==
    LET roles(r) == {i \in DOMAIN series : role_of(i) = r}
        change(r) == SumFunction([i \in roles(r) |-> cumulative_change(series[i], r, step)])
        moving == {i \in roles("INTEREST_RATE") : Cardinality(series[i]) > 1}
        rate == SumFunction([i \in moving |-> interest_delta(series[i], step)])
        multiplier(r) == clip(Whole + average(change(r), Cardinality(roles(r))),
                              Whole - RoleHorizonCaps[r], Whole + RoleHorizonCaps[r])
    IN [revenue |-> multiplier("REVENUE_DEMAND"),
        domestic |-> multiplier("DOMESTIC_INGREDIENT_COST"),
        imported |-> multiplier("IMPORTED_INGREDIENT_COST"),
        rate |-> average(rate, Cardinality(moving)),
        sources |-> UNION {used(series[i]) : i \in DOMAIN series}]

by_series(valid) == [i \in {o.indicator : o \in valid} |-> {o \in valid : o.indicator = i}]

features_of(bridged, months) ==
    LET valid == {o \in bridged.observations : o.quality = "VALID"}
    IN [status |-> IF valid # {} THEN "COMPLETED" ELSE "PARTIAL",
        overrides |-> bridged.decisions,
        months |-> [step \in 1 .. months |-> month_features(by_series(valid), step)]]

\* build: the features of each month of the forecast.
official_features(bundle, months, events) ==
    features_of(apply_official_event_bridge(bundle.observations, events), months)
=============================================================================
