--------------------------- MODULE EventValidation ---------------------------
(***************************************************************************)
(* From an extracted event candidate to the events of a run: what the        *)
(* validator decides about one candidate (validation/research_validator.py)  *)
(* and how accepted candidates that describe the same event are reconciled   *)
(* (validation/reconciler.py).  Pure operators on                            *)
(*   a document   [source, revision, ok, flagged, tier, dated, published,    *)
(*                 anchored]: the snapshot evidence is checked against       *)
(*   a candidate  [id, shape, source, revision, type, value, claims, quote,  *)
(*                 paths, start, end, next_decision, hold_quote, ongoing,    *)
(*                 relevant, venues, place, who, bok]                        *)
(* Days are integers.  A raw date is [kind, day]: a date or one relative to  *)
(* the publication, a bare month, none, or an unreadable one.                *)
(* "value" is an official value [given, readable, previous, rise]; "claims"  *)
(* says which of family, axis, mechanism, direction and attributes the event *)
(* registry allows; "quote" is [found, offset] in the snapshot's text.       *)
(* "bok" marks a base-rate decision attributed to the Bank of Korea, "who"   *)
(* the actor, target and values that identify the event, "shape" its text.   *)
(***************************************************************************)
EXTENDS LocationResolution, Selections, FiniteSets

CONSTANTS AsOf, ForecastStart, ForecastEnd,
          StoreLocated,   \* the store has coordinates
          Geocoder,       \* a geocoder is configured
          Indicators      \* official indicators the run has observed

ASSUME Window == /\ {AsOf, ForecastStart, ForecastEnd} \subseteq Int
                 /\ ForecastStart <= ForecastEnd
                 /\ {StoreLocated, Geocoder} \subseteq BOOLEAN

\* Six of the event types: may it be ongoing, must it be located, the axis of
\* its first impact, is it a supply shock, may it move the finances.
Registry ==
    [BASE_RATE_INCREASE |->
       [open |-> TRUE, located |-> FALSE, axis |-> "INTEREST_COST", supply |-> FALSE, signal |-> FALSE],
     BASE_RATE_HOLD |->
       [open |-> TRUE, located |-> FALSE, axis |-> "UNCERTAINTY", supply |-> FALSE, signal |-> FALSE],
     WHOLESALE_PRICE_INCREASE |->
       [open |-> TRUE, located |-> FALSE, axis |-> "INGREDIENT_COST", supply |-> FALSE, signal |-> FALSE],
     INGREDIENT_SHORTAGE |->
       [open |-> TRUE, located |-> FALSE, axis |-> "INGREDIENT_COST", supply |-> TRUE, signal |-> TRUE],
     PRODUCT_RECALL |->
       [open |-> TRUE, located |-> FALSE, axis |-> "INGREDIENT_COST", supply |-> FALSE, signal |-> TRUE],
     LOCAL_FESTIVAL |->
       [open |-> FALSE, located |-> TRUE, axis |-> "REVENUE_DEMAND", supply |-> FALSE, signal |-> TRUE]]
PriceTypes == {"WHOLESALE_PRICE_INCREASE"}

code(failed, name) == IF failed THEN {name} ELSE {}

\* An official value must be readable, with its unit, and move as the type says.
numeric_codes(c) ==
    IF ~c.value.given THEN {}
    ELSE IF ~c.value.readable THEN {"OFFICIAL_NUMERIC_UNIT_INVALID"}
    ELSE code(c.value.previous /\ c.type = "BASE_RATE_INCREASE" /\ c.value.rise <= 0,
              "OFFICIAL_VALUE_DIRECTION_CONTRADICTION")

registry_codes(c) ==
    code("family" \notin c.claims, "ENUM_NOT_ALLOWED")
    \cup code(~({"axis", "direction"} \subseteq c.claims), "DIRECTION_MECHANISM_NOT_ALLOWED")
    \cup code("mechanism" \notin c.claims, "MECHANISM_NOT_SUPPORTED")
    \cup code("attributes" \notin c.claims, "MISSING_REQUIRED_FIELD")

published(doc) == IF doc.dated THEN doc.published ELSE AsOf

\* A bare month is read only against a year that the document itself states.
readable(raw, doc) ==
    \/ raw.kind \in {"NONE", "DAY", "RELATIVE"}
    \/ raw.kind = "MONTH" /\ (doc.anchored \/ doc.dated)
day(raw, doc) == IF raw.kind = "RELATIVE" THEN published(doc) + raw.day ELSE raw.day

later(x, y) == IF x > y THEN x ELSE y
\* A dated price article is context, not a current price.
is_historical_price_context(c, doc) ==
    c.type \in PriceTypes /\ later(day(c.start, doc), published(doc)) < AsOf - 180

\* Where no end is given: the next decision, or the end of the forecast, or none.
bounded_bok_hold(c) == c.type = "BASE_RATE_HOLD" /\ c.hold_quote
open_ended(c) == Registry[c.type].open /\ c.ongoing
end_missing(c) ==
    /\ c.end.kind = "NONE"
    /\ IF bounded_bok_hold(c) THEN c.next_decision.kind # "DAY" ELSE ~open_ended(c)
end_day(c, doc) ==
    IF c.end.kind # "NONE" THEN day(c.end, doc)
    ELSE IF bounded_bok_hold(c) THEN c.next_decision.day ELSE ForecastEnd

----------------------------------------------------------------------------
(* Where it happens.                                                         *)

needs_geocoding(c) == Registry[c.type].located /\ ~c.place.given
resolution(c) == resolve_location(c.place.query)
coordinates_known(c) ==
    \/ c.place.given
    \/ needs_geocoding(c) /\ Geocoder /\ succeeded(resolution(c))
geo_code(status) ==
    CASE status = "NOT_CONFIGURED" -> "GEO_PROVIDER_NOT_CONFIGURED"
      [] status = "PROVIDER_ERROR" -> "GEO_PROVIDER_ERROR"
      [] status = "AMBIGUOUS" -> "LOCATION_AMBIGUOUS"
      [] OTHER -> "GEO_NOT_FOUND"
location_codes(c) ==
    code(c.venues = "MANY", "LOCATION_AMBIGUOUS")
    \cup (IF ~needs_geocoding(c) THEN {}
          ELSE IF ~Geocoder THEN {"GEO_PROVIDER_NOT_CONFIGURED"}
          ELSE IF succeeded(resolution(c)) THEN {} ELSE {geo_code(resolution(c).status)})
\* The distance is measured for located types, when the store has coordinates.
distance_codes(c) ==
    code(Registry[c.type].located /\ StoreLocated /\ coordinates_known(c) /\ c.place.far,
         "OUTSIDE_SEARCH_RADIUS")
address(c) ==
    IF needs_geocoding(c) /\ coordinates_known(c)
    THEN LET p == CHOOSE p \in resolution(c).place : TRUE IN p.name
    ELSE c.place.query.text

----------------------------------------------------------------------------
(* The verdict on one candidate, with the document its evidence cites.       *)

\* Fault: a verdict that may be retried loses its reasons.
Verdict_forgets(c, status, codes) ==
    [candidate |-> c.id, source |-> c.source, shape |-> c.shape, status |-> status,
     codes |-> IF status = "RETRYABLE" THEN {} ELSE codes, retryable |-> status = "RETRYABLE", event |-> {}]
Verdict(c, status, codes) ==
    [candidate |-> c.id, source |-> c.source, shape |-> c.shape, status |-> status, codes |-> codes,
     retryable |-> status = "RETRYABLE", event |-> {}]

\* Fault: any revision of the source will do.
available_any(c, documents) == c.source \in DOMAIN documents /\ documents[c.source].ok
available(c, documents) ==
    /\ c.source \in DOMAIN documents
    /\ documents[c.source].revision = c.revision
    /\ documents[c.source].ok

validate_event_evidence(c) ==
    code(c.quote.offset = "DIFFERS", "OFFSET_MISMATCH")
    \cup code(c.quote.offset = "OUTSIDE" \/ ~c.quote.found, "QUOTE_NOT_FOUND")
evidence_codes(c, doc) ==
    code(doc.tier = "OTHER", "SOURCE_UNTRUSTED") \cup validate_event_evidence(c)
    \cup code(~c.paths, "MISSING_REQUIRED_FIELD")

range_codes(c, doc) == code(day(c.start, doc) > end_day(c, doc), "DATE_RANGE_INVALID")
outside_window(c, doc) == end_day(c, doc) < ForecastStart \/ day(c.start, doc) > ForecastEnd

fingerprint(c, doc) ==
    [bok |-> c.bok, type |-> c.type, start |-> day(c.start, doc),
     address |-> IF c.bok THEN "NONE" ELSE address(c), who |-> c.who]

canonical_event(c, doc) ==
    [id |-> fingerprint(c, doc), candidates |-> {c.id}, sources |-> {c.source},
     revisions |-> {<<c.source, c.revision>>}, evidence |-> {c.shape},
     type |-> c.type, bok |-> c.bok, start |-> day(c.start, doc), end |-> end_day(c, doc),
     address |-> address(c), tier |-> doc.tier, status |-> "ACCEPTED", codes |-> {},
     signal |-> Registry[c.type].signal, cause |-> "NONE", lifecycle |-> "NONE"]

terminal_codes == {"OUTSIDE_SEARCH_RADIUS", "INDUSTRY_NOT_RELEVANT"}

\* After the dates: window, industry, location, distance.
validate_relevance(c, doc, found) ==
    LET codes == found \cup range_codes(c, doc)
                   \cup code(~c.relevant, "INDUSTRY_NOT_RELEVANT")
                   \cup location_codes(c) \cup distance_codes(c)
    IN IF outside_window(c, doc)
         THEN Verdict(c, "REJECTED", found \cup range_codes(c, doc) \cup {"FORECAST_WINDOW_NOT_OVERLAPPED"})
       ELSE IF codes = {}
         THEN [Verdict(c, "ACCEPTED", {}) EXCEPT !.event = {canonical_event(c, doc)}]
       ELSE IF "SOURCE_UNTRUSTED" \in codes THEN Verdict(c, "REFERENCE_ONLY", codes)
       ELSE IF codes \cap terminal_codes # {} THEN Verdict(c, "REJECTED", codes)
       ELSE Verdict(c, "RETRYABLE", codes)

validate_dates(c, doc, found) ==
    IF ~readable(c.start, doc) \/ ~readable(c.end, doc) \/ c.start.kind = "NONE"
      THEN Verdict(c, "RETRYABLE", found \cup {"DATE_PARSE_FAILED"})
    ELSE IF is_historical_price_context(c, doc)
      THEN Verdict(c, "REFERENCE_ONLY", found \cup {"HISTORICAL_CONTEXT_ONLY"})
    ELSE IF end_missing(c)
      THEN Verdict(c, "REFERENCE_ONLY",
                   found \cup {IF bounded_bok_hold(c) THEN "BOK_BOUNDED_PERIOD_NEXT_DECISION_UNVERIFIED"
                               ELSE "MISSING_ONGOING_EVIDENCE"})
    ELSE validate_relevance(c, doc, found)

\* Numbers are read before the documents are looked at.
validate(c, documents) ==
    IF numeric_codes(c) # {} THEN Verdict(c, "RETRYABLE", numeric_codes(c))
    ELSE IF ~available(c, documents) THEN Verdict(c, "REJECTED", {"SOURCE_UNAVAILABLE"})
    ELSE IF documents[c.source].flagged THEN Verdict(c, "REJECTED", {"PROMPT_INJECTION_DETECTED"})
    ELSE IF registry_codes(c) # {} THEN Verdict(c, "RETRYABLE", registry_codes(c))
    ELSE validate_dates(c, documents[c.source], evidence_codes(c, documents[c.source]))

----------------------------------------------------------------------------
(* Events with one fingerprint become one event.  A group is a sequence, in  *)
(* the order the candidates were validated; the pair of its base event and   *)
(* the excluded ones is folded over it.                                      *)

TIER == [OFFICIAL_PRIMARY |-> 5, OFFICIAL_SECONDARY |-> 4, MAJOR_NEWS |-> 2]

same_facts(x, y) ==
    \/ x.bok /\ y.bok
    \/ x.start = y.start /\ x.end = y.end /\ x.address = y.address
Excluded(event, status, why) == [event EXCEPT !.status = status, !.codes = {why}, !.signal = FALSE]

merged(base, other) ==
    [base EXCEPT !.candidates = @ \cup other.candidates, !.sources = @ \cup other.sources,
                 !.revisions = @ \cup other.revisions, !.evidence = @ \cup other.evidence]

\* Fault: of two equally trusted statements that disagree, the first is kept.
reconcile_pair_first(g, other) ==
    IF same_facts(g.base, other)
    THEN [base |-> merged(g.base, other),
          excluded |-> Append(g.excluded, Excluded(other, "REFERENCE_ONLY", "DUPLICATE_EVENT"))]
    ELSE IF TIER[other.tier] > TIER[g.base.tier]
    THEN [base |-> other, excluded |-> Append(g.excluded, Excluded(g.base, "REFERENCE_ONLY", "SOURCE_CONFLICT"))]
    ELSE [g EXCEPT !.excluded = Append(@, Excluded(other, "REFERENCE_ONLY", "SOURCE_CONFLICT"))]

reconcile_pair(g, other) ==
    IF same_facts(g.base, other)
    THEN [base |-> merged(g.base, other),
          excluded |-> Append(g.excluded, Excluded(other, "REFERENCE_ONLY", "DUPLICATE_EVENT"))]
    ELSE IF TIER[g.base.tier] = TIER[other.tier]
    THEN [base |-> Excluded(g.base, "CONFLICTED", "SOURCE_CONFLICT"),
          excluded |-> Append(g.excluded, Excluded(other, "CONFLICTED", "SOURCE_CONFLICT"))]
    ELSE IF TIER[other.tier] > TIER[g.base.tier]
    THEN [base |-> other, excluded |-> Append(g.excluded, Excluded(g.base, "REFERENCE_ONLY", "SOURCE_CONFLICT"))]
    ELSE [g EXCEPT !.excluded = Append(@, Excluded(other, "REFERENCE_ONLY", "SOURCE_CONFLICT"))]

reconcile_group(group) ==
    FoldLeft(reconcile_pair, [base |-> group[1], excluded |-> <<>>], Tail(group))

\* Base-rate decisions supersede each other; one of them is current.
current_decisions(decisions) ==
    LET effective == {e \in decisions : e.start <= AsOf}
    IN {e \in effective : \A f \in effective : f.start <= e.start}
\* Fault: a superseded decision keeps its signal and its end.
bok_lifecycle_keeps(e, decisions, current) ==
    IF e \in current THEN [e EXCEPT !.lifecycle = "CURRENT_OFFICIAL_DECISION"] ELSE e
bok_lifecycle(e, decisions, current) ==
    LET after == {f \in decisions : f.start > e.start}
    IN IF e \in current THEN [e EXCEPT !.lifecycle = "CURRENT_OFFICIAL_DECISION"]
       ELSE IF after # {}
         THEN LET next == CHOOSE f \in after : \A g \in after : f.start <= g.start
              IN [e EXCEPT !.end = next.start - 1, !.lifecycle = "SUPERSEDED_BY_LATER_DECISION", !.signal = FALSE]
       ELSE [e EXCEPT !.lifecycle = "FUTURE_OFFICIAL_DECISION", !.signal = FALSE]

\* Of two decisions of one day, whichever comes last by its identifier.
current_decision(decisions) ==
    IF current_decisions(decisions) = {} THEN {} ELSE {CHOOSE e \in current_decisions(decisions) : TRUE}

\* The events of a run: those accepted, and the excluded ones of every group.
reconcile(events) ==
    LET group(id) == Chosen(events, {i \in DOMAIN events : events[i].id = id})
        groups == [id \in {e.id : e \in ToSet(events)} |-> reconcile_group(group(id))]
        kept == {id \in DOMAIN groups : groups[id].base.status = "ACCEPTED"}
        decisions == {groups[id].base : id \in {i \in kept : i.bok}}
        settle(e) == IF e.bok THEN bok_lifecycle(e, decisions, current_decision(decisions)) ELSE e
        left_out(id) == groups[id].excluded \o (IF id \in kept THEN <<>> ELSE <<groups[id].base>>)
        order == SetToSeq(DOMAIN groups)
    IN [accepted |-> {settle(groups[id].base) : id \in kept},
        excluded |-> FlattenSeq([i \in DOMAIN order |-> left_out(order[i])])]

----------------------------------------------------------------------------
(* One signal per cause: an official indicator already stands for some.      *)

cause_key(e) ==
    CASE Registry[e.type].axis = "INTEREST_COST" -> "INTEREST_RATE"
      [] Registry[e.type].axis = "INGREDIENT_COST" -> "FX_IMPORT_INGREDIENT"
      [] OTHER -> "EVENT"
represented(e) ==
    \/ cause_key(e) = "INTEREST_RATE" /\ "BASE_RATE" \in Indicators
    \/ /\ cause_key(e) = "FX_IMPORT_INGREDIENT"
       /\ ~Registry[e.type].supply
       /\ "IMPORT_PRICE_INDEX_USD" \in Indicators
assign_cause_group(e) ==
    [e EXCEPT !.cause = cause_key(e), !.signal = @ /\ ~represented(e)]
assign_cause_groups(events) == {assign_cause_group(e) : e \in events}

=============================================================================
