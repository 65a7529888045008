-------------------------- MODULE LocationResolution --------------------------
(***************************************************************************)
(* MapApiAdapter.resolve_location (ingestion/official_api/map_api.py): where *)
(* a text says something happens.  Lookups at two providers are tried in a   *)
(* fixed order and the first success wins; without one the failures of all   *)
(* of them decide the status.  Pure operators on                             *)
(*   an answer  [failed, places]: the request failed, or the places found    *)
(*   a place    [name, located, road, lot, commercial, public, overlap,      *)
(*               context, area, near]: what selection reads of it            *)
(*   a query    [text, answers, forms, areas, fallback]: the answers of the  *)
(*              lookups "address", "keyword", "area", "naver" and of each    *)
(*              search form, the area codes, and whether the area itself may *)
(*              stand for the place                                          *)
(* A resolution has a status and, as a set of at most one, the place.        *)
(***************************************************************************)
EXTENDS Integers, SequencesExt

CONSTANTS KakaoKey, NaverKey   \* credentials are configured

ASSUME Credentials == {KakaoKey, NaverKey} \subseteq BOOLEAN

Unresolved(status) == [status |-> status, place |-> {}]
Found(place) == [status |-> "SUCCESS", place |-> {place}]
succeeded(r) == r.status = "SUCCESS"

\* Coordinates outside the globe, or unreadable, are a failure of the provider.
located(place) == IF place.located THEN Found(place) ELSE Unresolved("PROVIDER_ERROR")

\* Exactly one road address, or no road address and exactly one lot address.
exact_match(places) ==
    LET road == SelectSeq(places, LAMBDA p : p.road)
        lot == SelectSeq(places, LAMBDA p : p.lot)
    IN IF Len(road) = 1 THEN road ELSE IF road = <<>> /\ Len(lot) = 1 THEN lot ELSE <<>>

select_exact(places) ==
    IF places = <<>> THEN Unresolved("NOT_FOUND")
    ELSE IF exact_match(places) = <<>> THEN Unresolved("AMBIGUOUS")
    ELSE located(exact_match(places)[1])

\* Shops are no venues, and a place must share a word with the query.
defensible(p) == p.located /\ (p.commercial => p.public) /\ p.overlap > 0

score(p) ==
    12 * p.overlap + 2 * p.context + (IF p.area THEN 30 ELSE 0) + (IF p.public THEN 8 ELSE 0) + p.near

TieMargin == 2
select_kakao_keyword_candidate(places) ==
    LET ranked == SortSeq(SelectSeq(places, defensible), LAMBDA p, q : score(p) > score(q))
    IN IF ranked = <<>> THEN Unresolved("NOT_FOUND")
       ELSE IF Len(ranked) > 1 /\ score(ranked[1]) - score(ranked[2]) < TieMargin
         THEN Unresolved("AMBIGUOUS")
       ELSE Found(ranked[1])

\* A failed request selects nothing.
look_up(answer, selection) ==
    IF answer.failed THEN Unresolved("PROVIDER_ERROR") ELSE selection
geocode_kakao(q) == look_up(q.answers["address"], select_exact(q.answers["address"].places))
geocode_kakao_keyword(answer) == look_up(answer, select_kakao_keyword_candidate(answer.places))
geocode_naver(q) == look_up(q.answers["naver"], select_exact(q.answers["naver"].places))

----------------------------------------------------------------------------
(* The lookups of one query in the order they are made.                      *)

\* The area is asked for only when the last keyword lookup found nothing.
administrative_fallback(q, keyword) ==
    IF keyword.status = "NOT_FOUND" /\ q.fallback /\ q.areas
    THEN <<geocode_kakao_keyword(q.answers["area"])>> ELSE <<>>

kakao_lookups(q) ==
    LET keyword == geocode_kakao_keyword(q.answers["keyword"])
    IN <<geocode_kakao(q)>> \o [i \in DOMAIN q.forms |-> geocode_kakao_keyword(q.forms[i])]
          \o <<keyword>> \o administrative_fallback(q, keyword)

lookups(q) ==
    (IF KakaoKey THEN kakao_lookups(q) ELSE <<>>) \o (IF NaverKey THEN <<geocode_naver(q)>> ELSE <<>>)

resolve_location(q) ==
    LET tried == lookups(q)
        statuses == {r.status : r \in ToSet(tried)}
    IN IF q.text = "NONE" THEN Unresolved("FAILED")
       ELSE IF "SUCCESS" \in statuses THEN SelectSeq(tried, succeeded)[1]
       ELSE IF tried = <<>> THEN Unresolved("NOT_CONFIGURED")
       ELSE IF "AMBIGUOUS" \in statuses THEN Unresolved("AMBIGUOUS")
       ELSE IF "PROVIDER_ERROR" \in statuses THEN Unresolved("PROVIDER_ERROR")
       ELSE Unresolved("NOT_FOUND")

=============================================================================
