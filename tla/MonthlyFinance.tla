--------------------------- MODULE MonthlyFinance ---------------------------
(***************************************************************************)
(* A scenario's months of cash, its loans and break-even points, and the    *)
(* comparison of two scenarios (finance/monthly_scenario.py, loan.py,       *)
(* cashflow.py, break_even.py, _forecast_comparison of the orchestrator).   *)
(*                                                                         *)
(* Money is a whole number.  A loan's dates are months; costs are those of  *)
(* the last month of the history.  A calculation that raises gives <<>>.    *)
(***************************************************************************)
EXTENDS MonthlySignals

-----------------------------------------------------------------------------
(* Loans.                                                                   *)

payment(balance, rate, interest, principal) ==
    [opening |-> balance, rate |-> rate, interest |-> interest, principal |-> principal,
     closing |-> balance - principal]

rate_in(loan, step, delta) ==
    LET renewal == IF loan.renewal = <<>> THEN 1 ELSE loan.renewal[1]
    IN at_least_zero(loan.rate + IF loan.rate_type = "VARIABLE" /\ step >= renewal THEN delta ELSE 0)

\* One and the monthly rate, to the n-th power.
growth(rate, n) == powers(Whole + rate, n)[n]

level_principal(balance, monthly, left) ==
    LET interest == part(balance, monthly)
        factor == growth(monthly, left)
    IN IF monthly = 0 THEN balance \div left
       ELSE least(balance, (interest * factor) \div (factor - Whole) - interest)

\* What the contract asks for in the loan's active-th period.
contractual(loan, balance, active, monthly) ==
    CASE loan.repayment = "BULLET" -> IF active = loan.remaining THEN balance ELSE 0
      [] loan.repayment = "EQUAL_PRINCIPAL" -> least(balance, loan.balance \div loan.remaining)
      [] loan.repayment = "AMORTIZING" ->
            IF active = loan.remaining THEN balance
            ELSE level_principal(balance, monthly, loan.remaining - active + 1)
      [] loan.repayment = "CUSTOM_SCHEDULE" -> loan.custom[active].principal

interest_due(loan, balance, active, monthly) ==
    IF loan.repayment = "CUSTOM_SCHEDULE" THEN loan.custom[active].interest ELSE part(balance, monthly)

in_grace(loan, step, active, grace) ==
    \/ active <= grace
    \/ loan.grace_end # <<>> /\ forecast_month(step) <= loan.grace_end[1]

\* One month more; the periods of a loan count from its next payment.
pay(loan, delta, grace, so_far, step) ==
    LET rate == rate_in(loan, step, delta)
        monthly == rate \div 12
        waiting == loan.next_payment # <<>> /\ forecast_month(step) < loan.next_payment[1]
        active == so_far.active + 1
        principal == IF in_grace(loan, step, active, grace) THEN 0
                     ELSE least(contractual(loan, so_far.balance, active, monthly), so_far.balance)
        add(p, n) == [so_far EXCEPT !.payments = Append(@, p), !.balance = p.closing, !.active = n]
        nothing == payment(so_far.balance, rate, 0, 0)
    IN CASE so_far.balance <= 0 \/ waiting -> add(nothing, so_far.active)
         [] so_far.balance > 0 /\ ~waiting /\ active > loan.remaining -> add(nothing, active)
         [] OTHER ->
              IF loan.repayment = "CUSTOM_SCHEDULE" /\ active > Len(loan.custom)
              THEN [so_far EXCEPT !.raised = TRUE]
              ELSE add(payment(so_far.balance, rate, interest_due(loan, so_far.balance, active, monthly),
                               principal), active)

repay(so_far, due) == IF so_far.raised THEN so_far ELSE pay(due.loan, due.delta, due.grace, so_far, due.step)
unpaid(loan) == [balance |-> loan.balance, active |-> 0, payments |-> <<>>, raised |-> FALSE]
schedule_of(paid) == IF paid.raised THEN <<>> ELSE paid.payments
calculate_loan_schedule(loan, months, delta, grace) ==
    schedule_of(FoldLeft(repay, unpaid(loan),
                         [step \in 1 .. months |-> [loan |-> loan, delta |-> delta, grace |-> grace, step |-> step]]))

-----------------------------------------------------------------------------
(* A scenario.                                                              *)

ratio(cost, revenue) == IF revenue > 0 THEN (cost * Whole) \div revenue ELSE 0

feature(features, step) ==
    IF step \in DOMAIN features THEN features[step]
    ELSE [revenue |-> Whole, domestic |-> Whole, imported |-> Whole, rate |-> 0, sources |-> {}]

combined_rate_delta(store, adjusted, features, step) ==
    IF variable_debt(store) THEN adjusted[step].rate + feature(features, step).rate ELSE 0

\* A loan is calculated anew, over all months, for each rate a month has.
loan_schedules(store, adjusted, features) ==
    [delta \in {combined_rate_delta(store, adjusted, features, step) : step \in DOMAIN adjusted} |->
        [k \in DOMAIN store.loans |-> calculate_loan_schedule(store.loans[k], Len(adjusted), delta, 0)]]

\* The last entry of a category for the month replaces its cost.
fixed_costs(store, month) ==
    LET scheduled(category) == {k \in DOMAIN store.schedule :
                                   store.schedule[k].month = month /\ store.schedule[k].category = category}
        due(category) == IF scheduled(category) = {} THEN store.costs[category]
                         ELSE store.schedule[Max(scheduled(category))].amount
    IN due("rent") + due("labor") + due("utilities") + due("other")

calculate_bep(revenue, variable, fixed, interest, principal, store) ==
    LET margin == IF revenue <= 0 THEN 0 ELSE Whole - (variable * Whole) \div revenue
        point(cost) == <<(cost * Whole) \div margin>>
    IN IF margin <= 0
       THEN [status |-> "UNATTAINABLE", operating |-> <<>>, financial |-> <<>>, cash |-> <<>>]
       ELSE [status |-> "NORMAL", operating |-> point(fixed), financial |-> point(fixed + interest),
             cash |-> point(fixed + interest + principal + store.costs.tax + store.costs.capex)]

other_variable(revenue, store) ==
    LET last == store.history[Len(store.history)]
    IN part(revenue, ratio(store.costs.platform, last) + ratio(store.costs.payment, last))

month_ingredients(revenue, store, official) ==
    LET last == store.history[Len(store.history)]
        share == store.imported_share
        multiplier == part(Whole - share, official.domestic) + part(share, official.imported)
    IN part(part(revenue, ratio(store.costs.ingredients, last)), multiplier)

\* What the month takes in and pays, by kind.
month_entries(store, revenue, adjusted, official, paid, step) ==
    [revenue |-> revenue,
     ingredients |-> part(month_ingredients(revenue, store, official), adjusted.variable),
     others |-> part(other_variable(revenue, store), adjusted.variable),
     fixed |-> part(fixed_costs(store, forecast_month(step)), adjusted.fixed),
     interest |-> SumFunction([k \in DOMAIN paid |-> paid[k][step].interest]),
     principal |-> SumFunction([k \in DOMAIN paid |-> paid[k][step].principal])]

net_of(store, e) ==
    e.revenue - (e.ingredients + e.others) - e.fixed - e.interest - e.principal
    - store.costs.tax - store.costs.capex

month_closed(store, cash, e) ==
    [beginning |-> cash, revenue |-> e.revenue, ingredients |-> e.ingredients, others |-> e.others,
     fixed |-> e.fixed, interest |-> e.interest, principal |-> e.principal, tax |-> store.costs.tax,
     capex |-> store.costs.capex, net |-> net_of(store, e), ending |-> cash + net_of(store, e),
     bep |-> calculate_bep(e.revenue, e.ingredients + e.others, e.fixed, e.interest, e.principal, store)]

entries_of(store, base, adjusted, features, schedules, step) ==
    month_entries(store, part(base.months[step].point, adjusted[step].revenue), adjusted[step],
                  feature(features, step), schedules[combined_rate_delta(store, adjusted, features, step)], step)

\* The first month that ends at or below a level, <<>> if none does.
first_below(flows, level) ==
    LET low == {step \in DOMAIN flows : flows[step].ending <= level}
    IN IF low = {} THEN <<>> ELSE <<CHOOSE step \in low : \A other \in low : step <= other>>

\* The day on which an evenly spent month runs out of cash.
burn_day(flow) ==
    IF flow.beginning <= 0 THEN 1
    ELSE IF flow.net = 0 THEN MonthDays
    ELSE clip((MonthDays * flow.beginning) \div magnitude(flow.net), 1, MonthDays)

cash_burn(flows, minimum) ==
    LET burn == first_below(flows, 0)
    IN [month |-> burn, day |-> IF burn = <<>> THEN <<>> ELSE <<burn_day(flows[burn[1]])>>,
        liquidity |-> first_below(flows, minimum)]

\* A month begins with what the one before it left.
next_flow(done, month) ==
    Append(done, month_closed(month.store, IF done = <<>> THEN month.store.cash ELSE done[Len(done)].ending,
                              month.entries))

month_by_month(store, base, adjusted, features, schedules) ==
    FoldLeft(next_flow, <<>>,
             [step \in DOMAIN adjusted |->
                 [store |-> store, entries |-> entries_of(store, base, adjusted, features, schedules, step)]])

scenario_of(store, flows, features) ==
    [flows |-> flows, burn |-> cash_burn(flows, store.minimum_cash),
     sources |-> UNION {feature(features, step).sources : step \in DOMAIN features}]

scenario_with(store, base, adjusted, features, schedules) ==
    IF \/ base.months = <<>> \/ store.history = <<>> \/ Len(adjusted) # Len(base.months)
       \/ \E delta \in DOMAIN schedules : \E k \in DOMAIN schedules[delta] : schedules[delta][k] = <<>>
    THEN <<>>
    ELSE <<scenario_of(store, month_by_month(store, base, adjusted, features, schedules), features)>>

\* run_monthly_financial_scenario.
financial_scenario(store, base, adjusted, features) ==
    scenario_with(store, base, adjusted, features, loan_schedules(store, adjusted, features))

-----------------------------------------------------------------------------
(* The comparison of two scenarios.                                         *)

both_months(base, other) == DOMAIN base.flows \cap DOMAIN other.flows

\* What a month's entries add to its cash.
cash_effect(f) ==
    [REVENUE |-> f.revenue, INGREDIENT_COST |-> -f.ingredients, OTHER_VARIABLE_COST |-> -f.others,
     FIXED_COST |-> -f.fixed, INTEREST |-> -f.interest, PRINCIPAL |-> -f.principal,
     TAX |-> -f.tax, CAPEX |-> -f.capex]
Components == {"REVENUE", "INGREDIENT_COST", "OTHER_VARIABLE_COST", "FIXED_COST", "INTEREST",
               "PRINCIPAL", "TAX", "CAPEX"}

\* Fault: what is paid counts as what is received.
attribution_unsigned(base, other) ==
    [c \in Components |->
        SumFunction([step \in both_months(base, other) |->
                        magnitude(cash_effect(other.flows[step])[c]) - magnitude(cash_effect(base.flows[step])[c])])]

attribution(base, other) ==
    [c \in Components |->
        SumFunction([step \in both_months(base, other) |->
                        cash_effect(other.flows[step])[c] - cash_effect(base.flows[step])[c]])]

forecast_comparison(base, other) ==
    LET both == both_months(base, other)
        last == CHOOSE step \in both : \A s \in both : s <= step
    IN [ending |-> IF both = {} THEN 0 ELSE other.flows[last].ending - base.flows[last].ending,
        attribution |-> attribution(base, other)]
=============================================================================
