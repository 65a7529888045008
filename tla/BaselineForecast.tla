-------------------------- MODULE BaselineForecast --------------------------
(***************************************************************************)
(* The revenue forecast of a store (forecasting/pipeline.py): candidate     *)
(* models by the length of the history, back-tested one month ahead and     *)
(* ranked, with an assumed range where there is too little to test.         *)
(*                                                                         *)
(* A history is a sequence of revenues, a month each.  The two models that  *)
(* a statistics library fits are an operator of the model: the sequence of  *)
(* its forecasts, or <<>> when the fit raises.                              *)
(***************************************************************************)
EXTENDS OfficialFeatures

CONSTANTS Fitted(_, _, _),   \* (model, values, horizon)
          MinImprovement,    \* ten-thousandths of the simple model's error
          BacktestWindows

ASSUME ForecastAssumption == MinImprovement \in Int /\ BacktestWindows \in Int

MinHistory == [RECENT_MEAN |-> 2, RECENT_TREND |-> 4, DAMPED_TREND |-> 8, SEASONAL_NAIVE |-> 12,
               ETS_DAMPED |-> 18, SARIMA |-> 24]
ModelPriority == [SEASONAL_NAIVE |-> 0, DAMPED_TREND |-> 1, RECENT_MEAN |-> 2, RECENT_TREND |-> 3,
                  ETS_DAMPED |-> 4, SARIMA |-> 5]
Damping == 8000
AssumedWidth == 2000
SmallestWidth == 500

at_least_zero(x) == IF x < 0 THEN 0 ELSE x
most(a, b) == IF a > b THEN a ELSE b
least(a, b) == IF a < b THEN a ELSE b
total(values) == SumFunction(values)
final(values, n) == SubSeq(values, most(1, Len(values) - n + 1), Len(values))

-----------------------------------------------------------------------------
(* The models.  The steps of a trend are summed from end to end.            *)

recent_mean(values, horizon) ==
    LET window == final(values, 6)
    IN [step \in 1 .. horizon |-> at_least_zero(total(window) \div Len(window))]

recent_trend(values, horizon) ==
    LET window == final(values, 6)
        rise == window[Len(window)] - window[1]
    IN [step \in 1 .. horizon |-> at_least_zero(window[Len(window)] + (rise * step) \div (Len(window) - 1))]

damped_sum(step) == SumFunctionOnSet(powers(Damping, step), 1 .. step)

damped_trend(values, horizon) ==
    LET window == final(values, 12)
        slope == (window[Len(window)] - window[1]) \div most(1, Len(window) - 1)
    IN [step \in 1 .. horizon |-> at_least_zero(window[Len(window)] + part(slope, damped_sum(step)))]

seasonal_naive(values, horizon) ==
    LET season == final(values, 12)
    IN [step \in 1 .. horizon |-> at_least_zero(season[((step - 1) % 12) + 1])]

predict(model, values, horizon) ==
    CASE model = "RECENT_MEAN" -> recent_mean(values, horizon)
      [] model = "RECENT_TREND" -> recent_trend(values, horizon)
      [] model = "DAMPED_TREND" -> damped_trend(values, horizon)
      [] model = "SEASONAL_NAIVE" -> seasonal_naive(values, horizon)
      [] OTHER -> Fitted(model, values, horizon)

-----------------------------------------------------------------------------
(* Back-testing and choice.  A metric without folds has tested nothing; one  *)
(* whose model raised has failed.                                           *)

\* The months a model is tested on: it forecasts the one after each of them.
splits(model, values) ==
    most(most(MinHistory[model], 4), Len(values) - most(1, BacktestWindows)) .. Len(values) - 1

smape(fold) ==
    LET size == magnitude(fold.actual) + magnitude(fold.said[1])
    IN IF size = 0 THEN 0 ELSE (2 * Whole * magnitude(fold.actual - fold.said[1])) \div size

measured(model, folds) ==
    LET raised == \E split \in DOMAIN folds : folds[split].said = <<>>
        mean_of(f) == SumFunction(f) \div Cardinality(DOMAIN folds)
    IN IF DOMAIN folds = {} \/ raised
       THEN [model |-> model, failed |-> raised, tested |-> FALSE, mae |-> 0, smape |-> 0]
       ELSE [model |-> model, failed |-> FALSE, tested |-> TRUE,
             mae |-> mean_of([split \in DOMAIN folds |-> magnitude(folds[split].actual - folds[split].said[1])]),
             smape |-> mean_of([split \in DOMAIN folds |-> smape(folds[split])])]

metric(model, values) ==
    measured(model, [split \in splits(model, values) |->
                        [actual |-> values[split + 1], said |-> predict(model, SubSeq(values, 1, split), 1)]])

candidates(available) ==
    IF available < 12 THEN {"RECENT_MEAN", "RECENT_TREND"}
    ELSE IF available < 24 THEN {"RECENT_MEAN", "SEASONAL_NAIVE", "DAMPED_TREND"}
    ELSE {"RECENT_MEAN", "SEASONAL_NAIVE", "ETS_DAMPED", "SARIMA"}

\* An untested model comes after every tested one.
ranked_before(a, b) ==
    IF a.tested # b.tested THEN a.tested
    ELSE IF a.smape # b.smape THEN a.smape < b.smape
    ELSE IF a.mae # b.mae THEN a.mae < b.mae
    ELSE ModelPriority[a.model] < ModelPriority[b.model]

selected(metrics) ==
    LET working == {m \in metrics : ~m.failed}
        first == CHOOSE m \in working : \A other \in working : ~ranked_before(other, m)
        simple == {m \in working : m.model = "RECENT_MEAN" /\ m.tested}
        good_enough(s) == first.tested /\ first.smape <= part(s.smape, Whole - MinImprovement)
    IN IF simple = {} \/ first \in simple THEN first
       ELSE LET s == CHOOSE s \in simple : TRUE IN IF good_enough(s) THEN first ELSE s

\* A forecast before the official features: [model, points, width, assumed, fallback].
assumed(store, values) ==
    LET point == IF store.declared \in {<<>>, <<0>>} THEN values[Len(values)] ELSE store.declared[1]
    IN [model |-> IF store.declared # <<>> THEN "DECLARED_BASELINE" ELSE "LAST_OBSERVED_ASSUMPTION",
        points |-> [step \in 1 .. store.horizon |-> point], width |-> part(point, AssumedWidth),
        assumed |-> TRUE, fallback |-> TRUE]

untestable(mean_forecast) ==
    [model |-> "RECENT_MEAN", points |-> mean_forecast, width |-> part(mean_forecast[1], AssumedWidth),
     assumed |-> TRUE, fallback |-> TRUE]

by_model(store, values, metrics, chosen) ==
    LET width == (chosen.mae * 196) \div 100
    IN [model |-> chosen.model, points |-> predict(chosen.model, values, store.horizon),
        width |-> IF width = 0 THEN part(total(values) \div Len(values), SmallestWidth) ELSE width,
        assumed |-> FALSE,
        fallback |-> chosen.model = "RECENT_MEAN"
                     /\ \E m \in metrics : ~m.failed /\ m # chosen /\ ranked_before(m, chosen)]

best_of(store, values, metrics) ==
    IF \A m \in metrics : m.failed THEN untestable(recent_mean(values, store.horizon))
    ELSE by_model(store, values, metrics, selected(metrics))

modelled(store, values) ==
    best_of(store, values, {metric(m, values) : m \in candidates(Len(values))})

before_features(store) ==
    IF Len(store.history) < 6 THEN assumed(store, store.history) ELSE modelled(store, store.history)

\* A declared revenue of nothing is passed over for a last month there is not;
\* and the model chosen, fitted to the whole history, may fail at last.
forecast_raises(store) ==
    \/ store.history = <<>> /\ store.declared = <<0>>
    \/ Len(store.history) >= 6 /\ before_features(store).points = <<>>

with_features(base, features) ==
    LET multiplier(step) == IF step \in DOMAIN features THEN features[step].revenue ELSE Whole
        point(step) == part(base.points[step], multiplier(step))
        width(step) == part(base.width, multiplier(step))
    IN [status |-> IF base.assumed THEN "PARTIAL" ELSE "COMPLETED",
        model |-> base.model, fallback |-> base.fallback,
        months |-> [step \in DOMAIN base.points |->
                       [point |-> point(step), lower |-> at_least_zero(point(step) - width(step)),
                        upper |-> point(step) + width(step)]]]

\* run; the features are the sequence of the months', <<>> for the trend.
forecast(store, features) ==
    IF store.history = <<>> /\ store.declared = <<>>
    THEN [status |-> "INSUFFICIENT_DATA", model |-> "NONE", fallback |-> TRUE, months |-> <<>>]
    ELSE with_features(before_features(store), features)
=============================================================================
