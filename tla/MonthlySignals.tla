--------------------------- MODULE MonthlySignals ---------------------------
(***************************************************************************)
(* From accepted events to a month's scenario adjustments                   *)
(* (signals/research_signal.py, monthly_builder.py).                        *)
(*                                                                         *)
(* An event carries what its registry entry and its place give it: severity *)
(* and near, the exposure that falls with the distance, in ten-thousandths. *)
(* Its impacts are pairs of an axis and a direction (1, -1 or 0).  The      *)
(* exponential of a shock is taken to the second order, which at the bounds *)
(* of the coefficients is a twentieth of a percent off.                     *)
(***************************************************************************)
EXTENDS BaselineForecast

CONSTANTS Coefficients,    \* [scenario |-> [axis |-> [beta, low, high]]], in ten-thousandths
          Evidence,        \* the score of a source tier
          ForecastStart    \* the number of the first month of the forecast

Scenarios == {"BASELINE", "LOW_IMPACT", "HIGH_IMPACT"}
Axes == {"REVENUE_DEMAND", "INGREDIENT_COST", "PLATFORM_COST", "OPERATING_COST", "COMPETITION",
         "UNCERTAINTY", "INTEREST_COST"}

\* A shock is bounded from both sides (registries/coefficients.v1.yaml).
ASSUME SignalAssumption ==
    /\ ForecastStart \in Int
    /\ \A tier \in DOMAIN Evidence : Evidence[tier] \in Int
    /\ \A scenario \in Scenarios \ {"BASELINE"}, axis \in Axes :
          LET rule == Coefficients[scenario][axis]
          IN rule.beta \in Int /\ rule.low \in Int /\ rule.high \in Int /\ rule.low <= 0 /\ 0 <= rule.high

forecast_month(step) == ForecastStart + step - 1

relevance(e, store) ==
    IF store.industry \in e.industries THEN Whole
    ELSE IF store.food /\ e.food THEN 7000 ELSE 3000

\* The share of the month's days the event lasts; without an end it lasts.
overlap(e, month) ==
    LET from == most(first_day(month), e.start)
        to == IF e.end = <<>> THEN last_day(month) ELSE least(last_day(month), e.end[1])
    IN IF from > to THEN 0 ELSE ((to - from + 1) * Whole) \div MonthDays

time_decay(e, month) == (100 * Whole) \div (100 + 15 * most(0, month - month_of(e.start)))

exposure(e, store, month) ==
    part(part(part(IF e.domain = "LOCAL" THEN e.near ELSE Whole, overlap(e, month)),
              relevance(e, store)), e.hours)

variable_debt(store) == store.variable_share > 0 /\ \E l \in Range(store.loans) : l.rate_type = "VARIABLE"

raw_signal(e, impact, store, month) ==
    LET scored == part(part(exposure(e, store, month), part(Evidence[e.tier], e.severity)), time_decay(e, month))
    IN IF impact.axis = "INTEREST_COST" /\ ~variable_debt(store) THEN 0 ELSE impact.direction * scored

signal(e, impact, store, step) ==
    [event |-> e.id, step |-> step, axis |-> impact.axis, cause |-> IF e.cause = "" THEN <<"", e.id>> ELSE <<e.cause>>,
     n |-> e.n, raw |-> raw_signal(e, impact, store, forecast_month(step))]

\* Fault: every validated event signals.
signalling_any(e) == e.status = "ACCEPTED"

signalling(e) == e.status = "ACCEPTED" /\ e.signal_enabled

\* One cause moves an axis once in a month, by its strongest signal; of
\* equal ones by the first event's, and of one event's equal ones by any.
outdone(s, t) ==
    \/ magnitude(s.raw) < magnitude(t.raw)
    \/ magnitude(s.raw) = magnitude(t.raw) /\ t.n < s.n

strongest(S) == CHOOSE s \in S : \A t \in S : ~outdone(s, t)

same_cause(signals, s) == {t \in signals : t.step = s.step /\ t.axis = s.axis /\ t.cause = s.cause}

dedupe_causes(signals) == {strongest(same_cause(signals, s)) : s \in signals}

all_signals(events, store, months) ==
    dedupe_causes(UNION {{signal(e, i, store, step) : i \in e.impacts, step \in 1 .. months} :
                            e \in {e \in events : signalling(e)}})

-----------------------------------------------------------------------------
(* The adjustments of a scenario in one month.                              *)

raised(shock) == Whole + shock + (shock * shock) \div (2 * Whole)

untouched == [revenue |-> Whole, variable |-> Whole, fixed |-> Whole, rate |-> 0]

adjust(scenario, signals) ==
    LET coefficient == Coefficients[scenario]
        shock(axis) == SumFunction([s \in {s \in signals : s.axis = axis} |-> part(s.raw, coefficient[axis].beta)])
        bounded(axis, x) == clip(x, coefficient[axis].low, coefficient[axis].high)
        multiplier(axis) == raised(bounded(axis, shock(axis)))
        demand == shock("REVENUE_DEMAND") - shock("COMPETITION") - magnitude(shock("UNCERTAINTY"))
    IN IF scenario = "BASELINE" THEN untouched
       ELSE [revenue |-> raised(bounded("REVENUE_DEMAND", demand)),
             variable |-> part(multiplier("INGREDIENT_COST"), multiplier("PLATFORM_COST")),
             fixed |-> multiplier("OPERATING_COST"),
             rate |-> most(0, shock("INTEREST_COST"))]

\* build: a scenario's adjustments, a month each.
adjustments(signals, months) ==
    [scenario \in Scenarios |->
        [step \in 1 .. months |-> adjust(scenario, {s \in signals : s.step = step})]]
=============================================================================
