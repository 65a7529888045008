-------------------------- MODULE MCResearchPipeline --------------------------
(* Scenarios of two agents: one candidate of every shape over every kind of   *)
(* document; statements that disagree; base-rate decisions; one source read   *)
(* by both agents; extractions that are retried.                              *)
EXTENDS ResearchPipeline

AllSources == {"s", "t", "u"}
AllRevisions == {"r1", "r2"}
TwoAgents == {"macro", "local"}
FxIndicators == {"IMPORT_PRICE_INDEX_USD"}

site(name, overlap) ==
    [name |-> name, located |-> TRUE, road |-> TRUE, lot |-> FALSE, commercial |-> FALSE,
     public |-> TRUE, overlap |-> overlap, context |-> 0, area |-> FALSE, near |-> 0]
answer(places) == [failed |-> FALSE, places |-> places]
nothing == [address |-> answer(<<>>), keyword |-> answer(<<>>), area |-> answer(<<>>), naver |-> answer(<<>>)]
query(answers) == [text |-> "park", answers |-> answers, forms |-> <<>>, areas |-> TRUE, fallback |-> TRUE]
place(answers) == [given |-> FALSE, far |-> FALSE, query |-> query(answers)]
park == place([nothing EXCEPT !.address = answer(<<site("park", 1)>>)])

date(d) == [kind |-> "DAY", day |-> d]
none == [kind |-> "NONE", day |-> 0]

NoValue == [given |-> FALSE, readable |-> TRUE, previous |-> TRUE, rise |-> 1]
AllClaims == {"family", "axis", "mechanism", "direction", "attributes"}
Festival ==
    [type |-> "LOCAL_FESTIVAL", value |-> NoValue, claims |-> AllClaims,
     quote |-> [found |-> TRUE, offset |-> "MATCHES"], paths |-> TRUE,
     start |-> date(420), end |-> date(430), next_decision |-> none, hold_quote |-> FALSE,
     ongoing |-> FALSE, relevant |-> TRUE, venues |-> "ONE", place |-> park, who |-> "org", bok |-> FALSE]
Ongoing(type, d) == [Festival EXCEPT !.type = type, !.start = date(d), !.end = none, !.ongoing = TRUE]
Decision(d, who) == [Ongoing("BASE_RATE_HOLD", d) EXCEPT !.who = who, !.bok = TRUE]
Sought(answers) == [Festival EXCEPT !.place = place(answers)]

AllShapes ==
    [fair |-> Festival,
     longer |-> [Festival EXCEPT !.end = date(440)],
     digits |-> [Festival EXCEPT !.value = [NoValue EXCEPT !.given = TRUE, !.readable = FALSE]],
     axis |-> [Festival EXCEPT !.claims = {"family", "mechanism"}],
     misquoted |-> [Festival EXCEPT !.quote = [found |-> FALSE, offset |-> "NONE"]],
     shifted |-> [Festival EXCEPT !.quote.offset = "DIFFERS"],
     unbacked |-> [Festival EXCEPT !.paths = FALSE],
     undated |-> [Festival EXCEPT !.start = none],
     month |-> [Festival EXCEPT !.start = [kind |-> "MONTH", day |-> 415]],
     blurred |-> [Festival EXCEPT !.end = [kind |-> "OTHER", day |-> 0]],
     soon |-> [Festival EXCEPT !.start = [kind |-> "RELATIVE", day |-> 5]],
     reversed |-> [Festival EXCEPT !.start = date(440)],
     over |-> [Festival EXCEPT !.start = date(300), !.end = date(310)],
     elsewhere |-> [Festival EXCEPT !.relevant = FALSE],
     many |-> [Festival EXCEPT !.venues = "MANY"],
     far |-> [Festival EXCEPT !.place.far = TRUE],
     given |-> [Festival EXCEPT !.place.given = TRUE],
     nowhere |-> Sought(nothing),
     down |-> Sought([nothing EXCEPT !.naver = [failed |-> TRUE, places |-> <<>>]]),
     twins |-> Sought([nothing EXCEPT !.keyword = answer(<<site("a", 1), site("b", 1)>>)]),
     nearby |-> Sought([nothing EXCEPT !.area = answer(<<site("town", 2), site("b", 1)>>)]),
     shortage |-> Ongoing("INGREDIENT_SHORTAGE", 400),
     recall |-> Ongoing("PRODUCT_RECALL", 400),
     endless |-> [Ongoing("PRODUCT_RECALL", 400) EXCEPT !.ongoing = FALSE],
     price |-> Ongoing("WHOLESALE_PRICE_INCREASE", 390),
     oldprice |-> Ongoing("WHOLESALE_PRICE_INCREASE", 100),
     heldto |-> [Decision(390, "x") EXCEPT !.hold_quote = TRUE, !.next_decision = date(430)],
     held |-> [Decision(390, "x") EXCEPT !.hold_quote = TRUE],
     cut |-> [Decision(380, "w") EXCEPT !.type = "BASE_RATE_INCREASE",
                                        !.value = [NoValue EXCEPT !.given = TRUE, !.rise = -1]],
     raised |-> [Decision(380, "w") EXCEPT !.type = "BASE_RATE_INCREASE", !.value = [NoValue EXCEPT !.given = TRUE]],
     first |-> Decision(300, "x"),
     second |-> Decision(390, "y"),
     coming |-> Decision(420, "z")]

doc(source, revision) ==
    [source |-> source, revision |-> revision, ok |-> TRUE, flagged |-> FALSE,
     tier |-> "OFFICIAL_PRIMARY", dated |-> TRUE, published |-> 395, anchored |-> FALSE]
Kinds(d) ==
    {d, [d EXCEPT !.ok = FALSE], [d EXCEPT !.flagged = TRUE], [d EXCEPT !.tier = "OTHER"],
     [d EXCEPT !.dated = FALSE], [d EXCEPT !.dated = FALSE, !.anchored = TRUE],
     [d EXCEPT !.published = 90]}

Load(docs, found, cut) == [docs |-> docs, candidates |-> found, partial |-> cut]
Idle == Load(<<>>, <<>>, FALSE)
Both(m, l) == [macro |-> m, local |-> l]
says(shape, source) == [shape |-> shape, source |-> source]

OneCandidate ==
    {Both(Idle, Load(<<d>>, <<says(x, "s")>>, FALSE)) :
        d \in Kinds(doc("s", "r1")), x \in DOMAIN AllShapes}

\* Three sources of any tier, each with one of two ends of the same event.
Tiers == {"OFFICIAL_PRIMARY", "OFFICIAL_SECONDARY", "MAJOR_NEWS"}
Disagreement ==
    {Both(Idle, Load(<<[doc("s", "r1") EXCEPT !.tier = t[1]], [doc("t", "r1") EXCEPT !.tier = t[2]],
                       [doc("u", "r1") EXCEPT !.tier = t[3]]>>,
                     <<says(x[1], "s"), says(x[2], "t"), says(x[3], "u")>>, FALSE)) :
        t \in Tiers \X Tiers \X Tiers, x \in {"fair"} \X {"fair", "longer"} \X {"fair", "longer"}}

Decisions ==
    LET D == {"first", "second", "coming", "raised", "held", "heldto"}
    IN {Both(Load(<<doc("s", "r1"), doc("t", "r1")>>, <<says(x[1], "s"), says(x[2], "t"), says(x[3], "s")>>, FALSE),
             Idle) : x \in D \X D \X D}

\* Both read "s", possibly as it was at different times.
Race ==
    {Both(Load(<<doc("s", r[1])>>, <<says(x, "s")>>, cut),
          Load(<<doc("t", "r1"), doc("s", r[2])>>, <<says("fair", "s"), says("longer", "t")>>, FALSE)) :
        r \in AllRevisions \X AllRevisions, x \in {"fair", "recall", "misquoted"}, cut \in BOOLEAN}

ThreeRetries ==
    {Both(Idle, Load(<<doc("s", "r1")>>, <<says("misquoted", "s"), says("undated", "s"), says("axis", "s")>>, FALSE))}
TwoRetries ==
    {Both(Idle, Load(<<doc("s", "r1"), doc("t", "r1")>>, <<says("misquoted", "s"), says(x, y)>>, FALSE)) :
        x \in {"undated", "fair"}, y \in {"s", "t"}}

AllLoads == OneCandidate \cup Disagreement \cup Decisions \cup Race \cup TwoRetries \cup ThreeRetries
AllReplies ==
    {[error |-> "TIMEOUT", shapes |-> <<>>]}
    \cup {[error |-> "NONE", shapes |-> x] : x \in {<<>>, <<"undated">>, <<"undated", "longer">>, <<"fair">>}}
=============================================================================
