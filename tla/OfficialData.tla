---------------------------- MODULE OfficialData ----------------------------
(***************************************************************************)
(* Collection of official observations (official_data_pipeline.py and the   *)
(* adapters of ingestion/official_api).                                     *)
(*                                                                         *)
(* Days are numbered and every month has MonthDays of them.  A provider     *)
(* answers a request with [failure, revision, rows]: failure is empty, a    *)
(* code the adapter turns into an empty list, or RAISED for an adapter that *)
(* lets the exception out.  What may be absent in a row or an item is a     *)
(* sequence of at most one value; an indicator's name is a sequence of the  *)
(* parts it is put together from.                                           *)
(***************************************************************************)
EXTENDS Integers, SequencesExt, Selections

CONSTANTS AsOf,         \* the analysis date
          Indicator,    \* the registry: [provider, series, role, unit, label, lag]
          Configured    \* the providers that have an adapter

ASSUME OfficialAssumption == AsOf \in Int /\ \A i \in DOMAIN Indicator : Indicator[i].lag \in Int

MonthDays == 30
CustomsLag == 25

month_of(day) == day \div MonthDays
first_day(month) == month * MonthDays
last_day(month) == first_day(month + 1) - 1

-----------------------------------------------------------------------------
(* The adapters.  dated tells what a row's period reads as: A_DATE, text    *)
(* that is no period (MALFORMED), or six digits that are no month           *)
(* (NO_SUCH_DATE).                                                          *)

registered(provider, series) ==
    {i \in DOMAIN Indicator : Indicator[i].provider = provider /\ Indicator[i].series = series}

item(indicator, value, unit, month, available) ==
    [indicator |-> indicator, value |-> <<value>>, unit |-> unit, frequency |-> "MONTHLY",
     observed |-> first_day(month), released |-> <<available>>, available |-> <<available>>]

available_at(month, lag) == last_day(month) + lag

ecos(row) ==
    LET known == registered("ECOS", row.series)
        i == CHOOSE i \in known : TRUE
    IN IF known = {} \/ row.dated # "A_DATE" \/ row.value = <<>> THEN <<>>
       ELSE <<item(i, row.value[1], Indicator[i].unit, row.month, available_at(row.month, Indicator[i].lag))>>

\* The indicators a row is of: a national figure of a month, in the unit
\* registered, with the day of its last change.
national(row) ==
    {i \in registered("KOSIS", row.series) :
        /\ row.national /\ row.monthly /\ row.label = Indicator[i].label
        /\ row.changed # <<>> /\ row.value # <<>>}

\* The day of the last change stands for the day the value could be known.
kosis(row) ==
    LET i == CHOOSE i \in national(row) : TRUE
    IN IF national(row) = {} \/ row.dated # "A_DATE" THEN <<>>
       ELSE <<item(i, row.value[1], Indicator[i].unit, row.month, row.changed[1])>>

\* Three series of one item; the price of nothing is not given.
customs(row) ==
    LET read == row.dated = "A_DATE" /\ row.value # <<>> /\ row.weight # <<>>
        known(what) == item(<<what, row.series>>, IF what = "VALUE" THEN row.value[1] ELSE row.weight[1],
                            what, row.month, available_at(row.month, CustomsLag))
        priced == item(<<"PRICE", row.series>>, row.value[1] \div row.weight[1], "PRICE",
                       row.month, available_at(row.month, CustomsLag))
    IN IF row.series = "" \/ ~read THEN <<>>
       ELSE IF row.value[1] < 0 \/ row.weight[1] < 0 THEN <<>>
       ELSE <<known("VALUE"), known("WEIGHT")>> \o (IF row.weight[1] > 0 THEN <<priced>> ELSE <<>>)

normalize(provider, row) ==
    CASE provider = "ECOS" -> ecos(row)
      [] provider = "KOSIS" -> kosis(row)
      [] provider = "CUSTOMS" -> customs(row)
      [] OTHER -> <<row>>

\* A month that does not exist is outside the rows' error handling.
breaks(provider, row) ==
    \/ provider = "ECOS" /\ row.dated = "NO_SUCH_DATE" /\ registered("ECOS", row.series) # {}
    \/ provider = "KOSIS" /\ row.dated = "NO_SUCH_DATE" /\ national(row) # {}

\* process: one such row, as any failure, loses the whole response.
process(r, answer) ==
    IF answer.failure # "" \/ \E k \in DOMAIN answer.rows : breaks(r.provider, answer.rows[k]) THEN <<>>
    ELSE LET items == FlattenSeq([k \in DOMAIN answer.rows |-> normalize(r.provider, answer.rows[k])])
         IN Chosen(items, {n \in DOMAIN items : items[n].indicator = r.indicator})

-----------------------------------------------------------------------------
(* Observations of one request.                                             *)

known_on(i) == IF i.available = <<>> THEN i.released ELSE i.available

\* Fault: an item counts from the day it describes.
rejection_by_observed(i) ==
    CASE i.observed > AsOf -> "NOT_AVAILABLE_AS_OF_ANALYSIS_DATE"
      [] i.observed <= AsOf /\ i.released = <<>> -> "MISSING_RELEASE_METADATA"
      [] OTHER -> IF i.value = <<>> THEN "INVALID_OBSERVATION" ELSE ""

\* Why an item is no observation, "" if it is one.
rejection(i) ==
    CASE i.released = <<>> -> "MISSING_RELEASE_METADATA"
      [] i.released # <<>> /\ (i.observed > AsOf \/ i.released[1] > AsOf \/ known_on(i)[1] > AsOf) ->
            "NOT_AVAILABLE_AS_OF_ANALYSIS_DATE"
      [] OTHER -> IF i.value = <<>> THEN "INVALID_OBSERVATION" ELSE ""

observation(i, n, revision) ==
    [indicator |-> i.indicator, value |-> i.value[1], unit |-> i.unit, frequency |-> i.frequency,
     observed |-> i.observed, released |-> i.released[1], available |-> known_on(i)[1],
     revision |-> revision, n |-> n, quality |-> "VALID"]

\* The order of observations: day observed, day known, identifier.  The
\* latest is one that no other follows.
earlier(a, b) ==
    \/ a.observed < b.observed
    \/ a.observed = b.observed /\ a.available < b.available
    \/ a.observed = b.observed /\ a.available = b.available /\ a.n < b.n

latest(S) == CHOOSE o \in S : \A p \in S : ~earlier(o, p)

mean(S) == SumFunction([o \in S |-> o.value]) \div Cardinality(S)
variance(S) == SumFunction([o \in S |-> (o.value - mean(S)) * (o.value - mean(S))]) \div Cardinality(S)
root(v) == CHOOSE r \in 0 .. v : r * r <= v /\ (r + 1) * (r + 1) > v

transformed(S, method) ==
    CASE method = "AVERAGE" -> mean(S)
      [] method = "VOLATILITY" -> root(variance(S))
      [] OTHER -> latest(S).value

\* Days are drawn together into the first of their month.
to_monthly(S, method) ==
    LET daily == {o \in S : o.frequency = "DAILY"}
        of(m) == {o \in daily : month_of(o.observed) = m}
    IN (S \ daily) \cup
       {[latest(of(m)) EXCEPT !.value = transformed(of(m), method), !.frequency = "MONTHLY",
                              !.observed = first_day(m)] : m \in {month_of(o.observed) : o \in daily}}

stale(r, S) == r.max_age # <<>> /\ AsOf - latest(S).observed > r.max_age[1]

-----------------------------------------------------------------------------
(* One request after the other.  What is collected is a record              *)
(* [observations, missing, errors, results]; an error's key is a provider   *)
(* or a provider and the place of the item in its answer.                   *)

unmet(r) == IF r.required THEN "FAILED" ELSE "MISSING"

lost(so_far, r, errors, code) ==
    [so_far EXCEPT !.missing = @ \cup {r.indicator}, !.errors = errors,
                   !.results = Append(@, [indicator |-> r.indicator, required |-> r.required,
                                          status |-> unmet(r), code |-> code])]

rejections(r, items) ==
    LET refused == {k \in DOMAIN items : rejection(items[k]) # ""}
    IN [key \in {<<r.provider, k>> : k \in refused} |-> rejection(items[key[2]])]

observed(r, items, revision) ==
    LET all == {observation(items[k], k, revision) :
                    k \in {k \in DOMAIN items : rejection(items[k]) = ""}}
        S == IF r.monthly THEN to_monthly(all, r.transform) ELSE all
    IN IF S # {} /\ stale(r, S) THEN {[o EXCEPT !.quality = "STALE"] : o \in S} ELSE S

collected(so_far, r, answer, items, S) ==
    LET raised == IF answer.failure = "RAISED" THEN (<<r.provider>> :> "RAISED") @@ so_far.errors
                  ELSE so_far.errors
        empty == raised @@ (<<r.provider>> :> "NO_OBSERVATIONS")
        errors == rejections(r, items) @@ so_far.errors
    IN CASE r.provider \notin Configured ->
              lost(so_far, r, (<<r.provider>> :> "PROVIDER_NOT_CONFIGURED") @@ so_far.errors,
                   "PROVIDER_NOT_CONFIGURED")
         [] r.provider \in Configured /\ items = <<>> ->
              lost(so_far, r, empty,
                   IF empty[<<r.provider>>] = "NO_OBSERVATIONS" THEN "NO_OBSERVATIONS" ELSE "PROVIDER_ERROR")
         [] OTHER ->
              IF S = {} THEN lost(so_far, r, errors, "NO_VALID_OBSERVATIONS")
              ELSE [so_far EXCEPT !.observations = @ \cup S, !.errors = errors,
                                  !.results = Append(@, [indicator |-> r.indicator, required |-> r.required,
                                                         status |-> "COMPLETED", code |-> ""])]

collect_items(so_far, r, answer, items) ==
    collected(so_far, r, answer, items, observed(r, items, answer.revision))
collect(so_far, asked) ==
    collect_items(so_far, asked.request, asked.answer, process(asked.request, asked.answer))

Nothing == [observations |-> {}, missing |-> {}, errors |-> <<>>, results |-> <<>>]

bundle_status(requests, got) ==
    IF \E k \in DOMAIN requests : requests[k].required /\ requests[k].indicator \in got.missing
    THEN IF got.observations = {} THEN "FAILED" ELSE "PARTIAL"
    ELSE IF got.missing # {} \/ DOMAIN got.errors # {} THEN "PARTIAL" ELSE "COMPLETED"

settled(got, status) ==
    [observations |-> got.observations, missing |-> got.missing, errors |-> got.errors,
     results |-> got.results, status |-> status]
judged(requests, got) == settled(got, bundle_status(requests, got))

\* The bundle of a run, from its requests and the answer to each.
official_bundle(requests, answers) ==
    IF requests = <<>> THEN settled(Nothing, "SKIPPED")
    ELSE judged(requests, FoldLeft(collect, Nothing,
                                   [k \in DOMAIN requests |-> [request |-> requests[k], answer |-> answers[k]]]))
=============================================================================
