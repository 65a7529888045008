------------------------- MODULE MCAnalysisSections -------------------------
(***************************************************************************)
(* The tenth day of the thirteenth month; the forecast starts with the      *)
(* fourteenth.  Four series: the base rate, a price index that moves the    *)
(* revenue, an import price, and an exchange rate given by the day and not  *)
(* registered.  Stores from one without any figure to one with two years of *)
(* them, with loans of every kind of repayment.                             *)
(***************************************************************************)
EXTENDS AnalysisSections

Day == 400
NextMonth == 14

indicator(provider, series, role, unit, lag) ==
    [provider |-> provider, series |-> series, role |-> role, unit |-> unit, label |-> "item", lag |-> lag]
Registry ==
    <<"BASE_RATE">> :> indicator("ECOS", "rate", "INTEREST_RATE", "PERCENT", 5)
    @@ <<"CPI">> :> indicator("KOSIS", "index", "REVENUE_DEMAND", "INDEX", 0)
    @@ <<"PRICE", "beef">> :> indicator("CUSTOMS", "beef", "IMPORTED_INGREDIENT_COST", "PRICE", 0)

Words == <<"USD_KRW">> :> "IMPORTED_INGREDIENT_COST"

\* Requests, and what is answered to each.
request(provider, name, required, max_age, monthly) ==
    [provider |-> provider, indicator |-> name, required |-> required, max_age |-> max_age,
     monthly |-> monthly, transform |-> "AVERAGE"]
Rate == request("ECOS", <<"BASE_RATE">>, TRUE, <<80>>, FALSE)
Index == request("KOSIS", <<"CPI">>, FALSE, <<>>, FALSE)
Price == request("CUSTOMS", <<"PRICE", "beef">>, FALSE, <<>>, FALSE)
Exchange == request("FX", <<"USD_KRW">>, FALSE, <<>>, TRUE)
Absent == request("KAMIS", <<"LETTUCE">>, TRUE, <<>>, FALSE)

Requests == {<<>>, <<Rate>>, <<Rate, Index>>, <<Price, Exchange>>, <<Absent, Rate>>}

month(series, dated, m, value) == [series |-> series, dated |-> dated, month |-> m, value |-> value]
rate(m, value) == month("rate", "A_DATE", m, <<value>>)
index(m, value, changed) ==
    month("index", "A_DATE", m, <<value>>) @@ [national |-> TRUE, monthly |-> TRUE, label |-> "item", changed |-> changed]
price(m, value, weight) == month("beef", "A_DATE", m, <<value>>) @@ [weight |-> <<weight>>]
daily(day, value, released) ==
    [indicator |-> <<"USD_KRW">>, value |-> value, unit |-> "KRW", frequency |-> "DAILY",
     observed |-> day, released |-> released, available |-> <<>>]

rows(r) ==
    CASE r = Rate -> {<<rate(11, 350), rate(12, 325)>>,
                      <<rate(11, 350), rate(12, 325), rate(13, 300)>>,
                      <<rate(9, 350)>>,
                      <<rate(12, 325), month("rate", "MALFORMED", 12, <<325>>)>>,
                      <<rate(12, 325), month("rate", "NO_SUCH_DATE", 12, <<325>>)>>}
      [] r = Index -> {<<index(11, 1000, <<365>>), index(12, 1300, <<395>>)>>,
                       <<index(12, 1300, <<401>>), [index(12, 1, <<395>>) EXCEPT !.label = "other"]>>}
      [] r = Price -> {<<price(10, 600, 10), price(11, 660, 10), price(11, 1, 0), price(12, 900, 10)>>, <<price(12, -1, 10)>>}
      [] r = Exchange -> {<<daily(330, <<1300>>, <<330>>), daily(362, <<1400>>, <<362>>), daily(370, <<1420>>, <<370>>)>>,
                          <<daily(362, <<1400>>, <<>>), daily(370, <<>>, <<370>>)>>}
      [] OTHER -> {<<>>}

Answers(r) ==
    {[failure |-> "", revision |-> "rev", rows |-> found] : found \in rows(r)}
    \cup (IF r = Rate THEN {[failure |-> why, revision |-> "rev", rows |-> <<>>] : why \in {"HTTP_500", "RAISED"}}
          ELSE {})

\* What the research brings back.
event(id, n, type, start, impacts) ==
    [id |-> id, n |-> n, type |-> type, tier |-> "OFFICIAL_PRIMARY", foreign |-> FALSE, actor |-> "bok",
     start |-> start, end |-> <<>>, status |-> "ACCEPTED", signal_enabled |-> TRUE, severity |-> 8000,
     near |-> 5000, domain |-> "NATIONAL", hours |-> Whole, industries |-> {"CAFE"}, food |-> TRUE,
     impacts |-> impacts, cause |-> "",
     official |-> [indicator |-> <<"BASE_RATE">>, value |-> <<375>>, unit |-> "PERCENT", evidenced |-> TRUE]]
impact(axis, direction) == [axis |-> axis, direction |-> direction]

Raised == event("raised", 1, "BASE_RATE_INCREASE", 398, {impact("INTEREST_COST", 1)})
Again == [Raised EXCEPT !.id = "again", !.n = 2]
Later == [Raised EXCEPT !.id = "later", !.n = 3, !.start = 405]
Former == [Raised EXCEPT !.id = "former", !.n = 4, !.start = 355, !.cause = "rates"]
Abroad == [Raised EXCEPT !.id = "abroad", !.n = 5, !.foreign = TRUE, !.cause = "rates"]
Reported == [Raised EXCEPT !.id = "reported", !.n = 6, !.tier = "MAJOR_NEWS"]
Held == [event("held", 7, "BASE_RATE_HOLD", 399, {impact("INTEREST_COST", 0)}) EXCEPT !.signal_enabled = FALSE]
Festival == [event("festival", 8, "FESTIVAL", 415, {impact("REVENUE_DEMAND", 1), impact("OPERATING_COST", 1)})
                EXCEPT !.domain = "LOCAL", !.end = <<430>>]
Rival == event("rival", 9, "COMPETITOR", 400, {impact("COMPETITION", 1), impact("INGREDIENT_COST", 1)})
Notice == [event("notice", 10, "NOTICE", 400, {impact("REVENUE_DEMAND", -1)}) EXCEPT !.signal_enabled = FALSE]
Past == [event("past", 11, "FESTIVAL", 380, {impact("REVENUE_DEMAND", 1)}) EXCEPT !.end = <<390>>]

hold(value) == [dated |-> TRUE, clauses |-> {[language |-> TRUE, kinds |-> {"HOLD"}, rates |-> {value}, changes |-> {}]}]
Pages == "page" :> hold(325) @@ "other" :> hold(350)
Findings == {[source |-> s, reason |-> "BOK_RATE_HOLD_REFERENCE_ONLY"] : s \in DOMAIN Pages}

outcome(events, errors, partial) ==
    [events |-> events, errors |-> errors, partial |-> partial, findings |-> Findings, documents |-> Pages]
Found == {outcome(S, FALSE, FALSE) : S \in {{}, {Raised, Again, Held}, {Later, Abroad, Former}, {Reported, Notice},
                                            {Festival, Rival}, {Raised, Past, Notice}}}
         \cup {outcome({Rival}, TRUE, FALSE), outcome({}, FALSE, TRUE)}
PolicyFound == {[errors |-> FALSE, partial |-> FALSE], [errors |-> TRUE, partial |-> FALSE]}

\* Stores.
loan(repayment, rate_type, remaining) ==
    [balance |-> 6000, rate |-> 600, rate_type |-> rate_type, repayment |-> repayment, remaining |-> remaining,
     renewal |-> <<>>, next_payment |-> <<>>, grace_end |-> <<>>, custom |-> <<>>]
Scheduled(n) == [loan("CUSTOM_SCHEDULE", "FIXED", 3) EXCEPT !.custom = [k \in 1 .. n |-> [principal |-> 2000, interest |-> 30]]]

Shop(history, loans) ==
    [history |-> history, declared |-> <<>>, horizon |-> 3, industry |-> "CAFE", food |-> TRUE,
     loans |-> loans, variable_share |-> 5000, imported_share |-> 4000,
     costs |-> [ingredients |-> 3000, platform |-> 500, payment |-> 200, rent |-> 1500, labor |-> 2000,
                utilities |-> 300, other |-> 100, tax |-> 100, capex |-> 50],
     schedule |-> <<[month |-> 15, category |-> "rent", amount |-> 1700],
                   [month |-> 15, category |-> "rent", amount |-> 1800]>>,
     cash |-> 3000, minimum_cash |-> 1000]

rising(n) == [k \in 1 .. n |-> 9000 + 100 * k]
uneven(n) == [k \in 1 .. n |-> 9000 + 150 * k + 250 * (k % 3)]
seasonal(n) == [k \in 1 .. n |-> 9000 + 700 * (k % 12)]
Shops ==
    {Shop(rising(24), <<loan("AMORTIZING", "VARIABLE", 3)>>),
     Shop(seasonal(13), <<loan("BULLET", "FIXED", 2), [loan("AMORTIZING", "VARIABLE", 3) EXCEPT !.grace_end = <<15>>]>>),
     Shop(uneven(7), <<[loan("EQUAL_PRINCIPAL", "VARIABLE", 2) EXCEPT !.renewal = <<2>>, !.next_payment = <<15>>]>>),
     Shop(rising(8), <<Scheduled(3)>>),
     Shop(rising(14), <<Scheduled(1)>>),
     [Shop(rising(3), <<>>) EXCEPT !.declared = <<8000>>, !.costs["ingredients"] = 9300],
     [Shop(<<>>, <<>>) EXCEPT !.declared = <<8000>>],
     [Shop(<<>>, <<>>) EXCEPT !.declared = <<0>>],
     Shop(<<>>, <<>>)}

\* One library model goes on as before, the other cannot be fitted.
Library(model, values, horizon) ==
    IF model = "ETS_DAMPED" THEN [step \in 1 .. horizon |-> values[Len(values)] + 100 * step] ELSE <<>>

effect(beta, bound) == [beta |-> beta, low |-> -bound, high |-> bound]
Stress ==
    [LOW_IMPACT |-> [REVENUE_DEMAND |-> effect(300, 1000), INGREDIENT_COST |-> effect(200, 800),
                     PLATFORM_COST |-> effect(200, 800), OPERATING_COST |-> effect(200, 800),
                     COMPETITION |-> effect(200, 800), UNCERTAINTY |-> effect(100, 500),
                     INTEREST_COST |-> effect(20, 50)],
     HIGH_IMPACT |-> [REVENUE_DEMAND |-> effect(800, 1500), INGREDIENT_COST |-> effect(600, 1500),
                      PLATFORM_COST |-> effect(600, 1500), OPERATING_COST |-> effect(500, 1200),
                      COMPETITION |-> effect(500, 1200), UNCERTAINTY |-> effect(300, 800),
                      INTEREST_COST |-> effect(50, 100)],
     BASELINE |-> <<>>]
Scores == [OFFICIAL_PRIMARY |-> Whole, MAJOR_NEWS |-> 4000]
=============================================================================
