------------------------- MODULE ResearchAgent_proofs -------------------------
(***************************************************************************)
(* Proofs about ResearchAgent, for every set of agents, of pages, links and   *)
(* answers, and for all limits.                                              *)
(*                                                                         *)
(* 1. The work record: each operator of DocumentIntake keeps it sound         *)
(*    (Sound), whatever way a document takes.  A document whose way is not    *)
(*    over is "open"; at the end of an iteration none is.                     *)
(* 2. The loops of the agent: for each of them an invariant that relates its  *)
(*    position to what it recorded, and says that a loop left early owned up  *)
(*    to it (Asking, Trying, Reading), besides what the seeds left (Seeded)   *)
(*    and what the bundle says (Reported).  Their conjunction is inductive.   *)
(* 3. The properties of the runs follow from it.                             *)
(* 4. Decisions of the Bank of Korea: a second pass over the intake shows     *)
(*    that none which may be extracted is left behind (Kept).                *)
(***************************************************************************)
EXTENDS ResearchAgent, SequenceLemmas

-----------------------------------------------------------------------------
(* What becomes of the documents an agent fetched.                          *)

WorkFields == {"saved", "documents", "seen", "scheduled", "queue", "outcomes", "findings"}

Accounted(w, p) == p \in ToSet(w.queue) \/ \E i \in DOMAIN w.outcomes : w.outcomes[i].page = p

\* Work in which the documents in open are stored and seen, and nothing is
\* decided about them yet.
Sound(w, open) ==
    /\ DOMAIN w = WorkFields
    /\ w.saved \subseteq Pages /\ w.seen \subseteq w.saved
    /\ w.queue \in Seq(Pages) /\ w.outcomes \in Seq(Outcome)
    /\ \A s \in DOMAIN w.documents : Source(w.documents[s]) = s
    /\ \A i, j \in DOMAIN w.queue : w.queue[i] = w.queue[j] /\ ~IsBok(w.queue[i]) => i = j
    /\ \A i \in DOMAIN w.queue : ~IsBok(w.queue[i]) => w.queue[i] \in w.seen
    /\ open \subseteq w.seen
    /\ \A p \in open : ~IsBok(p) => p \notin ToSet(w.queue)
    /\ AgentType = "LOCAL_EVENT" => \A p \in w.saved : p \in open \/ Accounted(w, p)

\* Before the extraction no document has been given to the extractor.
Unattempted(w) == \A i \in DOMAIN w.outcomes : ~w.outcomes[i].attempted
Collected(w, open) == Sound(w, open) /\ Unattempted(w)

\* An outcome recorded decides about its document.
LEMMA JudgeIsSound ==
    ASSUME NEW w, NEW open, Sound(w, open), NEW p \in Pages, NEW status \in Statuses,
           NEW reason \in Reasons, NEW attempted \in BOOLEAN
    PROVE  LET v == Judge(w, p, status, reason, attempted) IN
           /\ Sound(v, open) /\ Sound(v, open \ {p})
           /\ v.queue = w.queue /\ v.seen = w.seen /\ v.saved = w.saved
           /\ v.documents = w.documents /\ v.findings = w.findings
           /\ v.outcomes = Append(w.outcomes, [page |-> p, status |-> status, reason |-> reason,
                                               attempted |-> attempted])
           /\ Unattempted(w) /\ ~attempted => Unattempted(v)
<1> DEFINE v == Judge(w, p, status, reason, attempted)
           o == [page |-> p, status |-> status, reason |-> reason, attempted |-> attempted]
<1>1. DOMAIN v = WorkFields /\ v.queue = w.queue /\ v.seen = w.seen /\ v.saved = w.saved
      /\ v.documents = w.documents /\ v.findings = w.findings /\ v.outcomes = Append(w.outcomes, o)
  BY DEF Judge, Sound, WorkFields
<1>2. o \in Outcome /\ o.page = p /\ o.attempted = attempted
  BY DEF Outcome, Statuses
<1> HIDE DEF v, o
<1>3. w.outcomes \in Seq(Outcome)
  BY DEF Sound
<1>4. /\ v.outcomes \in Seq(Outcome)
      /\ \A i \in DOMAIN w.outcomes : i \in DOMAIN v.outcomes /\ v.outcomes[i] = w.outcomes[i]
      /\ Len(w.outcomes) + 1 \in DOMAIN v.outcomes /\ v.outcomes[Len(w.outcomes) + 1] = o
      /\ \A i \in DOMAIN v.outcomes : i \in DOMAIN w.outcomes \/ v.outcomes[i] = o
  <2> HIDE DEF Outcome
  <2> QED BY <1>1, <1>2, <1>3
<1>5. \A q : Accounted(w, q) \/ q = p => Accounted(v, q)
  BY <1>1, <1>2, <1>4 DEF Accounted
<1>6. Sound(v, open) /\ Sound(v, open \ {p})
  BY <1>1, <1>4, <1>5 DEF Sound
<1>7. Unattempted(w) /\ ~attempted => Unattempted(v)
  BY <1>2, <1>4 DEF Unattempted
<1> QED BY <1>1, <1>6, <1>7 DEF v, o

\* Documents recorded as unusable together.
LEMMA AllUnusableIsSound ==
    ASSUME NEW w, NEW open, Sound(w, open), NEW ps \in Seq(Pages), NEW reason \in Reasons
    PROVE  LET v == AllUnusable(w, ps, reason) IN
           /\ Sound(v, open)
           /\ v.queue = w.queue /\ v.seen = w.seen /\ v.saved = w.saved /\ v.findings = w.findings
           /\ Unattempted(w) => Unattempted(v)
<1> DEFINE v == AllUnusable(w, ps, reason)
           os == [i \in DOMAIN ps |-> [page |-> ps[i], status |-> "SOURCE_CONTENT_UNUSABLE",
                                      reason |-> reason, attempted |-> FALSE]]
<1>1. DOMAIN v = WorkFields /\ v.queue = w.queue /\ v.seen = w.seen /\ v.saved = w.saved
      /\ v.documents = w.documents /\ v.findings = w.findings /\ v.outcomes = w.outcomes \o os
  BY DEF AllUnusable, Sound, WorkFields
<1>2. DOMAIN ps = 1 .. Len(ps) /\ Len(ps) \in Nat /\ \A i \in 1 .. Len(ps) : ps[i] \in Pages
  OBVIOUS
<1>3. \A i \in 1 .. Len(ps) : os[i] \in Outcome /\ ~os[i].attempted
  <2> SUFFICES ASSUME NEW i \in 1 .. Len(ps) PROVE os[i] \in Outcome /\ ~os[i].attempted
    OBVIOUS
  <2>1. os[i] = [page |-> ps[i], status |-> "SOURCE_CONTENT_UNUSABLE",
                 reason |-> reason, attempted |-> FALSE]
    BY <1>2
  <2> HIDE DEF os
  <2> QED BY <1>2, <2>1 DEF Outcome, Statuses
<1>4. os \in Seq(Outcome) /\ DOMAIN os = 1 .. Len(ps) /\ Len(os) = Len(ps)
  <2> HIDE DEF Outcome
  <2>1. os = [i \in 1 .. Len(ps) |-> os[i]]
    BY <1>2
  <2> HIDE DEF os
  <2> QED BY <1>2, <1>3, <2>1
<1> HIDE DEF v, os
<1>5. w.outcomes \in Seq(Outcome)
  BY DEF Sound
<1>6. /\ v.outcomes \in Seq(Outcome)
      /\ \A i \in DOMAIN w.outcomes : i \in DOMAIN v.outcomes /\ v.outcomes[i] = w.outcomes[i]
      /\ \A i \in DOMAIN v.outcomes : i \in DOMAIN w.outcomes \/ \E j \in DOMAIN os : v.outcomes[i] = os[j]
  <2> HIDE DEF Outcome
  <2>1. /\ w.outcomes \o os \in Seq(Outcome)
        /\ \A i \in DOMAIN w.outcomes : /\ i \in DOMAIN (w.outcomes \o os)
                                         /\ (w.outcomes \o os)[i] = w.outcomes[i]
        /\ \A i \in DOMAIN (w.outcomes \o os) :
              i \in DOMAIN w.outcomes \/ \E j \in DOMAIN os : (w.outcomes \o os)[i] = os[j]
    BY <1>4, <1>5, ConcatParts, Zenon
  <2> QED BY <1>1, <2>1
<1>7. \A q : Accounted(w, q) => Accounted(v, q)
  BY <1>1, <1>6 DEF Accounted
<1>8. Sound(v, open)
  BY <1>1, <1>6, <1>7 DEF Sound
<1>9. Unattempted(w) => Unattempted(v)
  BY <1>3, <1>4, <1>6 DEF Unattempted
<1> QED BY <1>1, <1>8, <1>9 DEF v

\* Storing a document and putting it in hand.
LEMMA HoldIsSound ==
    ASSUME NEW w, NEW open, Sound(w, open), NEW p \in Pages
    PROVE  LET v == Hold(w, p) IN
           /\ Sound(v, open) /\ (Unattempted(w) => Unattempted(v))
           /\ v.queue = w.queue /\ v.seen = w.seen /\ v.saved = w.saved
<1> DEFINE v == Hold(w, p)
<1>1. DOMAIN v = WorkFields /\ v.queue = w.queue /\ v.seen = w.seen /\ v.saved = w.saved
      /\ v.outcomes = w.outcomes /\ v.documents = Put(w.documents, Source(p), p)
  BY DEF Hold, Sound, WorkFields
<1>2. \A s \in DOMAIN v.documents : Source(v.documents[s]) = s
  BY <1>1 DEF Put, Sound
<1> HIDE DEF v
<1>3. \A q : Accounted(w, q) <=> Accounted(v, q)
  BY <1>1 DEF Accounted
<1>4. Sound(v, open)
  BY <1>1, <1>2, <1>3 DEF Sound
<1> QED BY <1>1, <1>4 DEF v, Unattempted

\* Storing a document that was seen, or will be recorded, or of another agent
\* than the local one.
LEMMA SaveIsSound ==
    ASSUME NEW w, NEW open, Sound(w, open), NEW p \in Pages
    PROVE  LET v == Save(w, p) IN
           /\ p \in w.seen \/ AgentType # "LOCAL_EVENT" => Sound(v, open)
           /\ v.queue = w.queue /\ v.seen = w.seen /\ p \in v.saved /\ (Unattempted(w) => Unattempted(v))
<1> DEFINE v == Save(w, p)
<1>1. DOMAIN v = WorkFields /\ v.queue = w.queue /\ v.seen = w.seen /\ v.saved = w.saved \cup {p}
      /\ v.outcomes = w.outcomes /\ v.documents = w.documents
  BY DEF Save, Sound, WorkFields
<1> HIDE DEF v
<1>2. \A q : Accounted(w, q) <=> Accounted(v, q)
  BY <1>1 DEF Accounted
<1>3. p \in w.seen \/ AgentType # "LOCAL_EVENT" => Sound(v, open)
  BY <1>1, <1>2 DEF Sound
<1> QED BY <1>1, <1>3 DEF v, Unattempted

\* A document that was not read is stored with an outcome.
LEMMA UnreadIsSound ==
    ASSUME NEW w, NEW open, Collected(w, open), NEW p \in Pages, NEW reason \in Reasons
    PROVE  LET v == Unusable(Save(w, p), p, reason) IN
           Collected(v, open) /\ v.queue = w.queue /\ v.seen = w.seen
<1> DEFINE v == Unusable(Save(w, p), p, reason)
           o == [page |-> p, status |-> "SOURCE_CONTENT_UNUSABLE", reason |-> reason, attempted |-> FALSE]
<1>0. DOMAIN Save(w, p) = WorkFields /\ Save(w, p).queue = w.queue /\ Save(w, p).seen = w.seen
      /\ Save(w, p).saved = w.saved \cup {p} /\ Save(w, p).outcomes = w.outcomes
      /\ Save(w, p).documents = w.documents
  BY DEF Save, Collected, Sound, WorkFields
<1>1. DOMAIN v = WorkFields /\ v.queue = w.queue /\ v.seen = w.seen /\ v.saved = w.saved \cup {p}
      /\ v.outcomes = Append(w.outcomes, o) /\ v.documents = w.documents
  BY <1>0 DEF Unusable, Judge, WorkFields
<1>2. o \in Outcome /\ o.page = p /\ ~o.attempted
  BY DEF Outcome, Statuses
<1> HIDE DEF v, o
<1>3. w.outcomes \in Seq(Outcome)
  BY DEF Collected, Sound
<1>4. /\ v.outcomes \in Seq(Outcome)
      /\ \A i \in DOMAIN w.outcomes : i \in DOMAIN v.outcomes /\ v.outcomes[i] = w.outcomes[i]
      /\ Len(w.outcomes) + 1 \in DOMAIN v.outcomes /\ v.outcomes[Len(w.outcomes) + 1] = o
      /\ \A i \in DOMAIN v.outcomes : i \in DOMAIN w.outcomes \/ v.outcomes[i] = o
  <2> HIDE DEF Outcome
  <2> QED BY <1>1, <1>2, <1>3
<1>5. \A q : Accounted(w, q) \/ q = p => Accounted(v, q)
  BY <1>1, <1>2, <1>4 DEF Accounted
<1>6. Sound(v, open)
  BY <1>1, <1>4, <1>5 DEF Collected, Sound
<1>7. Unattempted(v)
  BY <1>2, <1>4 DEF Collected, Unattempted
<1> QED BY <1>1, <1>6, <1>7 DEF v, Collected

\* A document that is read for the first time.
LEMMA FirstSightIsSound ==
    ASSUME NEW w, NEW open, Collected(w, open), NEW p \in Pages, p \notin w.seen
    PROVE  LET v == See(Hold(Save(w, p), p), p) IN
           Collected(v, open \cup {p}) /\ v.queue = w.queue /\ v.seen = w.seen \cup {p}
<1> DEFINE v == See(Hold(Save(w, p), p), p)
<1>1. DOMAIN v = WorkFields /\ v.queue = w.queue /\ v.seen = w.seen \cup {p} /\ v.saved = w.saved \cup {p}
      /\ v.outcomes = w.outcomes /\ v.documents = Put(w.documents, Source(p), p)
  BY DEF See, Hold, Save, Collected, Sound, WorkFields
<1>2. \A s \in DOMAIN v.documents : Source(v.documents[s]) = s
  BY <1>1 DEF Put, Collected, Sound
<1> HIDE DEF v
<1>3. \A q : Accounted(w, q) <=> Accounted(v, q)
  BY <1>1 DEF Accounted
<1>4. ~IsBok(p) => p \notin ToSet(v.queue)
  BY <1>1 DEF ToSet, Collected, Sound
<1>5. Sound(v, open \cup {p})
  BY <1>1, <1>2, <1>3, <1>4 DEF Collected, Sound
<1> QED BY <1>1, <1>5 DEF v, Collected, Unattempted

\* A document in hand goes to the extractor's queue.
LEMMA EnqueueIsSound ==
    ASSUME NEW w, NEW open, Collected(w, open), NEW p \in Pages,
           p \in open \/ (IsBok(p) /\ AgentType # "LOCAL_EVENT")
    PROVE  Collected(Enqueue(w, p), open \ {p})
<1> DEFINE v == Enqueue(w, p)
<1>1. DOMAIN v = WorkFields /\ v.queue = Append(w.queue, p) /\ v.seen = w.seen /\ v.saved = w.saved
      /\ v.outcomes = w.outcomes /\ v.documents = w.documents
  BY DEF Enqueue, Collected, Sound, WorkFields
<1> HIDE DEF v
<1>2. w.queue \in Seq(Pages)
  BY DEF Collected, Sound
<1>3. /\ v.queue \in Seq(Pages)
      /\ \A i \in DOMAIN w.queue : i \in DOMAIN v.queue /\ v.queue[i] = w.queue[i]
      /\ Len(w.queue) + 1 \in DOMAIN v.queue /\ v.queue[Len(w.queue) + 1] = p
      /\ \A i \in DOMAIN v.queue : i \in DOMAIN w.queue \/ (i = Len(w.queue) + 1 /\ v.queue[i] = p)
  BY <1>1, <1>2
<1>4. ToSet(v.queue) = ToSet(w.queue) \cup {p}
  BY <1>1, <1>2, AppendRange
<1>5. \A q : Accounted(w, q) \/ q = p => Accounted(v, q)
  BY <1>1, <1>4 DEF Accounted
<1>6. ~IsBok(p) => p \in w.seen /\ \A i \in DOMAIN w.queue : w.queue[i] # p
  BY DEF ToSet, Collected, Sound
<1>7. \A i, j \in DOMAIN v.queue : v.queue[i] = v.queue[j] /\ ~IsBok(v.queue[i]) => i = j
  BY <1>3, <1>6 DEF Collected, Sound
<1>8. \A i \in DOMAIN v.queue : ~IsBok(v.queue[i]) => v.queue[i] \in v.seen
  BY <1>1, <1>3, <1>6 DEF Collected, Sound
<1>9. \A q \in open \ {p} : ~IsBok(q) => q \notin ToSet(v.queue)
  BY <1>4 DEF Collected, Sound
<1>10. Sound(v, open \ {p})
  BY <1>1, <1>3, <1>5, <1>7, <1>8, <1>9 DEF Collected, Sound
<1> QED BY <1>1, <1>10 DEF v, Collected, Unattempted

\* Only the local agent has to account for what it stores.
LEMMA OthersMayDrop ==
    ASSUME NEW w, NEW open, Collected(w, open), NEW S \in SUBSET open, AgentType # "LOCAL_EVENT"
    PROVE  Collected(w, S)
  BY DEF Collected, Sound

-----------------------------------------------------------------------------
(* Which linked documents are fetched.                                      *)

\* A fetch of linked documents answers every link of every page with a page.
Answering(f) ==
    f \in [DOMAIN f -> Pages] /\ \A p \in Pages : Page[p] \in PageFacts(DOMAIN f)

\* A prefix is a part of the sequence.
LEMMA PrefixIsPart ==
    ASSUME NEW S, NEW s \in Seq(S), NEW n \in Nat
    PROVE  /\ Prefix(s, n) \in Seq(S)
           /\ Len(Prefix(s, n)) = IF n < Len(s) THEN n ELSE Len(s)
           /\ Len(Prefix(s, n)) \in Nat /\ Len(Prefix(s, n)) <= n /\ Len(Prefix(s, n)) <= Len(s)
           /\ \A i \in 1 .. Len(Prefix(s, n)) : Prefix(s, n)[i] = s[i]
           /\ \A i \in 1 .. Len(s) : i <= n => i <= Len(Prefix(s, n))
<1> DEFINE m == IF n < Len(s) THEN n ELSE Len(s)
<1>1. m \in Nat /\ m <= n /\ m <= Len(s) /\ Len(s) \in Nat
  OBVIOUS
<1>2. Prefix(s, n) = SubSeq(s, 1, m)
  BY DEF Prefix
<1>3. /\ SubSeq(s, 1, m) \in Seq(S) /\ Len(SubSeq(s, 1, m)) = m
      /\ \A i \in 1 .. m : SubSeq(s, 1, m)[i] = s[i]
  <2> HIDE DEF m
  <2>1. \A i \in 1 .. m : s[i] \in S
    BY <1>1
  <2>2. /\ SubSeq(s, 1, m) = [i \in 1 .. m |-> s[i]]
    BY <1>1
  <2>3. [i \in 1 .. m |-> s[i]] \in Seq(S) /\ Len([i \in 1 .. m |-> s[i]]) = m
    BY <1>1, <2>1
  <2> QED BY <2>2, <2>3
<1> QED BY <1>1, <1>2, <1>3

\* Distinct takes every member once.
LEMMA DistinctIsInjective ==
    ASSUME NEW S, NEW s \in Seq(S)
    PROVE  Distinct(s) \in Seq(S) /\ IsInjective(Distinct(s)) /\ ToSet(Distinct(s)) \subseteq ToSet(s)
<1> DEFINE I == {i \in DOMAIN s : \A j \in 1 .. (i - 1) : s[j] # s[i]}
           d == Chosen(s, I)
<1>1. Distinct(s) = d
  BY DEF Distinct
<1>2. d \in Seq(S) /\ ToSet(d) = {s[i] : i \in I \cap DOMAIN s}
  <2> HIDE DEF I
  <2> QED BY ChosenRange
<1>3. ToSet(d) \subseteq ToSet(s)
  <2> HIDE DEF I, d
  <2> QED BY <1>2 DEF ToSet
<1>4. PICK p : /\ DOMAIN p = DOMAIN d /\ IsInjective(p)
               /\ \A k \in DOMAIN p : p[k] \in I \cap DOMAIN s /\ d[k] = s[p[k]]
  <2> HIDE DEF I
  <2> QED BY ChosenPositions
<1>5. ASSUME NEW k \in DOMAIN d, NEW l \in DOMAIN d, d[k] = d[l] PROVE k = l
  <2>1. /\ p[k] \in 1 .. Len(s) /\ p[l] \in 1 .. Len(s) /\ Len(s) \in Nat /\ s[p[k]] = s[p[l]]
        /\ \A j \in 1 .. (p[k] - 1) : s[j] # s[p[k]]
        /\ \A j \in 1 .. (p[l] - 1) : s[j] # s[p[l]]
    <3>1. p[k] \in I /\ p[l] \in I /\ d[k] = s[p[k]] /\ d[l] = s[p[l]]
      BY <1>4, <1>5
    <3>2. DOMAIN s = 1 .. Len(s) /\ Len(s) \in Nat
      OBVIOUS
    <3> HIDE DEF d
    <3>3. s[p[k]] = s[p[l]]
      BY <1>5, <3>1
    <3> QED BY <3>1, <3>2, <3>3
  <2>2. p[k] = p[l]
    <3> HIDE DEF d
    <3>1. ~(p[k] < p[l]) /\ ~(p[l] < p[k])
      BY <2>1
    <3> QED BY <2>1, <3>1
  <2> QED BY <1>4, <2>2 DEF IsInjective
<1>6. IsInjective(d)
  <2> HIDE DEF d
  <2> QED BY <1>5 DEF IsInjective
<1> QED BY <1>1, <1>2, <1>3, <1>6

\* The pages behind a list of links.
LEMMA LinksArePages ==
    ASSUME NEW f, Answering(f), NEW urls \in Seq(DOMAIN f)
    PROVE  [i \in DOMAIN urls |-> f[urls[i]]] \in Seq(Pages)
<1>1. DOMAIN urls = 1 .. Len(urls) /\ Len(urls) \in Nat /\ \A i \in 1 .. Len(urls) : urls[i] \in DOMAIN f
  OBVIOUS
<1>2. \A i \in 1 .. Len(urls) : f[urls[i]] \in Pages
  BY <1>1 DEF Answering
<1> QED BY <1>1, <1>2

\* The links of a page are among those a fetch answers.
LEMMA LinksAreAnswered ==
    ASSUME NEW f, Answering(f), NEW p \in Pages
    PROVE  /\ Page[p].detail_urls \in Seq(DOMAIN f) /\ Page[p].attachment_urls \in Seq(DOMAIN f)
           /\ Page[p].rows \in Seq([urls : Seq(DOMAIN f), excluded : BOOLEAN])
  BY DEF Answering, PageFacts

\* The attachments of a page are fetched as pages.
LEMMA AttachmentsArePages ==
    ASSUME NEW f, Answering(f), NEW p \in Pages
    PROVE  fetch_with_attachments(p, f) \in Seq(Pages)
<1>1. Prefix(Page[p].attachment_urls, AttachmentLimit) \in Seq(DOMAIN f)
  BY LinksAreAnswered, PrefixIsPart, IntakeLimits
<1> QED BY <1>1, LinksArePages DEF fetch_with_attachments

\* However many documents are enough, what is found are pages.
LEMMA DetailsArePages ==
    ASSUME NEW f, Answering(f), NEW urls \in Seq(DOMAIN f)
    PROVE  fetch_with_detail_pages(urls, f) \in Seq(Pages)
<1> DEFINE details == Distinct(urls)
           family(u) == <<f[u]>> \o (IF Fetched(f[u]) THEN fetch_with_attachments(f[u], f) ELSE <<>>)
           gathered(n) == FlattenSeq([i \in 1 .. n |-> family(details[i])])
           enough == {n \in 0 .. Len(details) : Len(gathered(n)) >= ChildLimit}
           m == Min(enough \cup {Len(details)})
<1>1. fetch_with_detail_pages(urls, f) = gathered(m)
  BY DEF fetch_with_detail_pages
<1>2. details \in Seq(DOMAIN f)
  BY DistinctIsInjective
<1>3. Len(details) \in Nat /\ \A i \in 1 .. Len(details) : details[i] \in DOMAIN f
  <2> HIDE DEF details
  <2> QED BY <1>2
<1>4. ASSUME NEW u \in DOMAIN f PROVE family(u) \in Seq(Pages)
  <2>1. f[u] \in Pages
    BY DEF Answering
  <2>2. <<f[u]>> \in Seq(Pages) /\ <<>> \in Seq(Pages)
    BY <2>1
  <2>3. fetch_with_attachments(f[u], f) \in Seq(Pages)
    BY <2>1, AttachmentsArePages
  <2> QED BY <2>2, <2>3
<1> HIDE DEF family, details
<1>5. ASSUME NEW n \in 0 .. Len(details) PROVE gathered(n) \in Seq(Pages)
  <2> DEFINE ss == [i \in 1 .. n |-> family(details[i])]
  <2>1. \A i \in 1 .. n : family(details[i]) \in Seq(Pages)
    BY <1>3, <1>4
  <2>2. ss \in Seq(Seq(Pages))
    BY <1>3, <2>1
  <2> HIDE DEF ss
  <2>3. FlattenSeq(ss) \in Seq(Pages)
    BY <2>2, FlattenRange
  <2> QED BY <2>3 DEF ss
<1>6. m \in 0 .. Len(details)
  <2> DEFINE T == enough \cup {Len(details)}
  <2>1. T \subseteq 0 .. Len(details) /\ T # {} /\ T \subseteq Nat
    <3> HIDE DEF gathered
    <3>1. enough \subseteq 0 .. Len(details) /\ Len(details) \in 0 .. Len(details)
      BY <1>3
    <3>2. T \subseteq 0 .. Len(details) /\ T # {}
      <4> HIDE DEF enough
      <4> QED BY <3>1
    <3>3. 0 .. Len(details) \subseteq Nat
      BY <1>3
    <3> HIDE DEF T
    <3> QED BY <3>2, <3>3
  <2> HIDE DEF T, enough
  <2>3. Min(T) \in T
    BY <2>1, LeastPosition
  <2>4. m = Min(T)
    BY DEF T, m
  <2> HIDE DEF m
  <2> QED BY <2>1, <2>3, <2>4
<1> QED BY <1>1, <1>5, <1>6

\* The links of a listing that is followed.
LEMMA RankedAreAnswered ==
    ASSUME NEW f, Answering(f), NEW p \in Pages
    PROVE  /\ ranked_urls(p) \in Seq(DOMAIN f)
           /\ excluded_rows(p) \in Seq([urls : Seq(DOMAIN f), excluded : BOOLEAN])
<1> DEFINE Row == [urls : Seq(DOMAIN f), excluded : BOOLEAN]
           kept == kept_rows(p)
           links == [i \in DOMAIN kept |-> kept[i].urls]
<1>1. kept \in Seq(Row) /\ excluded_rows(p) \in Seq(Row)
  <2>1. Page[p].rows \in Seq(Row)
    BY LinksAreAnswered
  <2> HIDE DEF Row
  <2> QED BY <2>1, ChosenRange DEF kept_rows, excluded_rows
<1>2. links \in Seq(Seq(DOMAIN f))
  <2> HIDE DEF kept
  <2>1. DOMAIN kept = 1 .. Len(kept) /\ Len(kept) \in Nat /\ \A i \in 1 .. Len(kept) : kept[i] \in Row
    <3> HIDE DEF Row
    <3> QED BY <1>1
  <2>2. \A i \in 1 .. Len(kept) : kept[i].urls \in Seq(DOMAIN f)
    BY <2>1
  <2> QED BY <2>1, <2>2
<1>3. Distinct(FlattenSeq(links)) \in Seq(DOMAIN f)
  <2> HIDE DEF links
  <2> QED BY <1>2, FlattenRange, DistinctIsInjective
<1>4. Distinct(Page[p].detail_urls) \in Seq(DOMAIN f)
  BY LinksAreAnswered, DistinctIsInjective
<1>5. ranked_urls(p) = IF Distinct(FlattenSeq(links)) = <<>> THEN Distinct(Page[p].detail_urls)
                       ELSE Distinct(FlattenSeq(links))
  BY DEF ranked_urls
<1> QED BY <1>1, <1>3, <1>4, <1>5

-----------------------------------------------------------------------------
(* The ways of a document through DocumentIntake.                           *)

LocalChildren == INSTANCE SequenceLemmas WITH Op <- local_child
OtherChildren == INSTANCE SequenceLemmas WITH Op <- other_child
Recovery == INSTANCE SequenceLemmas WITH Op <- try_recovery

\* What the code records of a document is among the known reasons and statuses.
LEMMA CodesAreKnown ==
    /\ {"", "DOCUMENT_FETCH_TIMEOUT", "FETCH_FAILED", "DETAIL_FETCH_FAILED", "EXCLUDED_ROW", "UNSUPPORTED_ROUTE",
        "PREFILTER_BUDGET_EXCLUDED", "EXTRACTION_REQUEST_TIMEOUT", "REFUSED"} \subseteq Reasons
    /\ {"SOURCE_CONTENT_UNUSABLE", "DUPLICATE_SOURCE", "STRUCTURED_LIST_TRAVERSED", "PROVIDER_ERROR",
        "CANDIDATES_EXTRACTED", "REFERENCE_FINDINGS_ONLY", "NO_DISCRETE_EVENT"} \subseteq Statuses
    /\ \A p : access_reason(p) \in Reasons /\ local_access_reason(p) \in Reasons
  BY DEF Reasons, Codes, Statuses, access_reason, local_access_reason

\* A document that was seen before is stored again and recorded.
LEMMA SeenAgainIsSound ==
    ASSUME NEW w, NEW open, Collected(w, open), NEW p \in w.seen
    PROVE  LET v == Hold(Save(w, p), p) IN
           /\ Collected(v, open) /\ v.queue = w.queue /\ v.seen = w.seen
           /\ Collected(Judge(v, p, "DUPLICATE_SOURCE", "", FALSE), open)
<1> DEFINE v == Hold(Save(w, p), p)
<1>1. p \in Pages
  BY DEF Collected, Sound
<1>2. Sound(Save(w, p), open) /\ Unattempted(Save(w, p)) /\ Save(w, p).queue = w.queue /\ Save(w, p).seen = w.seen
  BY <1>1, SaveIsSound DEF Collected
<1>3. Sound(v, open) /\ Unattempted(v) /\ v.queue = w.queue /\ v.seen = w.seen
  BY <1>1, <1>2, HoldIsSound
<1> HIDE DEF v
<1>4. Collected(Judge(v, p, "DUPLICATE_SOURCE", "", FALSE), open)
  BY <1>1, <1>3, CodesAreKnown, JudgeIsSound DEF Collected
<1> QED BY <1>3, <1>4 DEF v, Collected

\* A document that is recorded as unusable is decided about.
LEMMA UnusableIsSound ==
    ASSUME NEW w, NEW open, Collected(w, open), NEW p \in Pages, NEW reason \in Reasons
    PROVE  Collected(Unusable(w, p, reason), open) /\ Collected(Unusable(w, p, reason), open \ {p})
  BY CodesAreKnown, JudgeIsSound DEF Collected, Unusable

\* A document linked from a listing of the local agent.
LEMMA LocalChildIsSound ==
    ASSUME NEW w, NEW open, Collected(w, open), NEW p \in Pages
    PROVE  Collected(local_child(w, p), open)
<1> DEFINE v == See(Hold(Save(w, p), p), p)
<1>1. Save(w, p).seen = w.seen
  BY SaveIsSound DEF Collected
<1>2. CASE ~Fetched(p)
  <2>1. local_child(w, p) = Unusable(Save(w, p), p, local_access_reason(p))
    BY <1>2 DEF local_child
  <2> QED BY <2>1, CodesAreKnown, UnreadIsSound
<1>3. CASE Fetched(p) /\ p \in w.seen
  <2>1. local_child(w, p) = Judge(Hold(Save(w, p), p), p, "DUPLICATE_SOURCE", "", FALSE)
    BY <1>1, <1>3 DEF local_child
  <2> QED BY <1>3, <2>1, SeenAgainIsSound
<1>4. CASE Fetched(p) /\ p \notin w.seen
  <2>1. local_child(w, p) = IF Usable(p) \/ LowPriority(p) THEN Enqueue(v, p) ELSE Unusable(v, p, "")
    BY <1>1, <1>4 DEF local_child
  <2>2. Collected(v, open \cup {p})
    BY <1>4, FirstSightIsSound
  <2>3. (open \cup {p}) \ {p} = open
    BY <1>4 DEF Collected, Sound
  <2> HIDE DEF v
  <2>4. Collected(Enqueue(v, p), (open \cup {p}) \ {p}) /\ Collected(Unusable(v, p, ""), (open \cup {p}) \ {p})
    BY <2>2, CodesAreKnown, EnqueueIsSound, UnusableIsSound
  <2> QED BY <2>1, <2>3, <2>4
<1> QED BY <1>2, <1>3, <1>4

\* A document linked from a page of another agent.
LEMMA OtherChildIsSound ==
    ASSUME NEW w, NEW open, Collected(w, open), NEW p \in Pages, AgentType # "LOCAL_EVENT"
    PROVE  Collected(other_child(w, p), open)
<1> DEFINE v == See(Hold(Save(w, p), p), p)
<1>1. Save(w, p).seen = w.seen
  BY SaveIsSound DEF Collected
<1>2. CASE ~Fetched(p)
  <2>1. other_child(w, p) = Unusable(Save(w, p), p, local_access_reason(p))
    BY <1>2 DEF other_child
  <2> QED BY <2>1, CodesAreKnown, UnreadIsSound
<1>3. CASE Fetched(p) /\ p \in w.seen
  <2>1. other_child(w, p) = Hold(Save(w, p), p)
    BY <1>1, <1>3 DEF other_child
  <2> QED BY <1>3, <2>1, SeenAgainIsSound
<1>4. CASE Fetched(p) /\ p \notin w.seen
  <2>1. other_child(w, p) = IF Usable(p) \/ LowPriority(p) THEN Enqueue(v, p) ELSE v
    BY <1>1, <1>4 DEF other_child
  <2>2. Collected(v, open \cup {p})
    BY <1>4, FirstSightIsSound
  <2>3. (open \cup {p}) \ {p} = open
    BY <1>4 DEF Collected, Sound
  <2> HIDE DEF v
  <2>4. Collected(Enqueue(v, p), (open \cup {p}) \ {p})
    BY <2>2, EnqueueIsSound
  <2>5. Collected(v, open)
    BY <2>2, OthersMayDrop
  <2> QED BY <2>1, <2>3, <2>4, <2>5
<1> QED BY <1>2, <1>3, <1>4

\* All of them, in their order.
LEMMA LocalChildrenAreSound ==
    ASSUME NEW w, NEW open, Collected(w, open), NEW ps \in Seq(Pages)
    PROVE  Collected(FoldLeft(local_child, w, ps), open)
<1>1. PICK f : /\ LocalChildren!Folds(f, w, ps, Len(ps))
               /\ LocalChildren!FoldLeft(local_child, w, ps) = f[Len(ps)]
  BY LocalChildren!FoldSteps
<1>2. FoldLeft(local_child, w, ps) = LocalChildren!FoldLeft(local_child, w, ps)
  BY DEF FoldLeft, MapThenFoldSet, Max, LocalChildren!FoldLeft, LocalChildren!MapThenFoldSet, LocalChildren!Max
<1>3. f[0] = w /\ \A i \in 0 .. Len(ps) : i < Len(ps) => f[i + 1] = local_child(f[i], ps[i + 1])
  BY <1>1 DEF LocalChildren!Folds
<1>4. Len(ps) \in Nat /\ \A i \in 1 .. Len(ps) : ps[i] \in Pages
  OBVIOUS
<1> DEFINE Good == {n \in 0 .. Len(ps) : Collected(f[n], open)}
<1>5. 0 \in Good
  BY <1>3, <1>4
<1>6. ASSUME NEW n \in 0 .. Len(ps), n < Len(ps), n \in Good PROVE n + 1 \in Good
  <2>1. n + 1 \in 0 .. Len(ps) /\ ps[n + 1] \in Pages /\ f[n + 1] = local_child(f[n], ps[n + 1])
    BY <1>3, <1>4, <1>6
  <2> QED BY <1>6, <2>1, LocalChildIsSound
<1>7. Len(ps) \in Good
  <2> HIDE DEF Good
  <2>1. \A n \in 0 .. Len(ps) : n \in Good
    BY <1>4, <1>5, <1>6, PrefixInduction
  <2> QED BY <1>4, <2>1
<1> QED BY <1>1, <1>2, <1>7

\* The linked documents of another page, taken one after the other.
LEMMA OtherChildrenAreSound ==
    ASSUME NEW w, NEW open, Collected(w, open), NEW ps \in Seq(Pages), AgentType # "LOCAL_EVENT"
    PROVE  Collected(FoldLeft(other_child, w, ps), open)
<1>1. PICK f : /\ OtherChildren!Folds(f, w, ps, Len(ps))
               /\ OtherChildren!FoldLeft(other_child, w, ps) = f[Len(ps)]
  BY OtherChildren!FoldSteps
<1>2. FoldLeft(other_child, w, ps) = OtherChildren!FoldLeft(other_child, w, ps)
  BY DEF FoldLeft, MapThenFoldSet, Max, OtherChildren!FoldLeft, OtherChildren!MapThenFoldSet, OtherChildren!Max
<1>3. f[0] = w /\ \A i \in 0 .. Len(ps) : i < Len(ps) => f[i + 1] = other_child(f[i], ps[i + 1])
  BY <1>1 DEF OtherChildren!Folds
<1>4. Len(ps) \in Nat /\ \A i \in 1 .. Len(ps) : ps[i] \in Pages
  OBVIOUS
<1> DEFINE Good == {n \in 0 .. Len(ps) : Collected(f[n], open)}
<1>5. 0 \in Good
  BY <1>3, <1>4
<1>6. ASSUME NEW n \in 0 .. Len(ps), n < Len(ps), n \in Good PROVE n + 1 \in Good
  <2>1. n + 1 \in 0 .. Len(ps) /\ ps[n + 1] \in Pages /\ f[n + 1] = other_child(f[n], ps[n + 1])
    BY <1>3, <1>4, <1>6
  <2> QED BY <1>6, <2>1, OtherChildIsSound
<1>7. Len(ps) \in Good
  <2> HIDE DEF Good
  <2>1. \A n \in 0 .. Len(ps) : n \in Good
    BY <1>4, <1>5, <1>6, PrefixInduction
  <2> QED BY <1>4, <2>1
<1> QED BY <1>1, <1>2, <1>7

\* Links scheduled and findings made do not matter here.
LEMMA SameIsSound ==
    ASSUME NEW w, NEW open, Collected(w, open), NEW v, DOMAIN v = WorkFields,
           v.saved = w.saved, v.seen = w.seen, v.queue = w.queue, v.outcomes = w.outcomes,
           v.documents = w.documents
    PROVE  Collected(v, open)
<1>1. \A q : Accounted(w, q) <=> Accounted(v, q)
  BY DEF Accounted
<1> QED BY <1>1 DEF Collected, Sound, Unattempted

\* A listing of the local agent: its excluded rows, its links, itself.
LEMMA ListingIsSound ==
    ASSUME NEW w, NEW p \in Pages, Collected(w, {p}), NEW f, Answering(f)
    PROVE  Collected(local_listing(w, p, f), {})
<1> DEFINE ranked == ranked_urls(p)
           I == {i \in DOMAIN ranked : ranked[i] \notin w.scheduled}
           fresh == Chosen(ranked, I)
           ps == [i \in DOMAIN excluded_rows(p) |-> p]
           noted == AllUnusable(w, ps, "EXCLUDED_ROW")
           related == IF Traversal THEN fetch_with_detail_pages(Prefix(fresh, DetailLimit), f) ELSE <<>>
           started == [noted EXCEPT !.scheduled = @ \cup ToSet(fresh)]
           taken == FoldLeft(local_child, started, related)
<1>1. local_listing(w, p, f) = Judge(taken, p, "STRUCTURED_LIST_TRAVERSED", "", FALSE)
  BY DEF local_listing
<1>2. ps \in Seq(Pages)
  <2>1. DOMAIN excluded_rows(p) = 1 .. Len(excluded_rows(p)) /\ Len(excluded_rows(p)) \in Nat
    <3> DEFINE Row == [urls : Seq(DOMAIN f), excluded : BOOLEAN]
    <3>1. excluded_rows(p) \in Seq(Row)
      BY RankedAreAnswered
    <3> HIDE DEF Row
    <3> QED BY <3>1
  <2> QED BY <2>1
<1>3. Collected(noted, {p})
  <2> HIDE DEF ps
  <2> QED BY <1>2, CodesAreKnown, AllUnusableIsSound DEF Collected
<1>4. related \in Seq(Pages)
  <2>1. fresh \in Seq(DOMAIN f)
    <3> HIDE DEF I
    <3>1. ranked \in Seq(DOMAIN f)
      BY RankedAreAnswered
    <3> HIDE DEF ranked
    <3> QED BY <3>1, ChosenRange
  <2> HIDE DEF fresh
  <2>2. Prefix(fresh, DetailLimit) \in Seq(DOMAIN f)
    BY <2>1, PrefixIsPart, IntakeLimits
  <2>3. fetch_with_detail_pages(Prefix(fresh, DetailLimit), f) \in Seq(Pages)
    BY <2>2, DetailsArePages
  <2>4. <<>> \in Seq(Pages)
    OBVIOUS
  <2> QED BY <2>3, <2>4
<1> HIDE DEF noted, fresh, related
<1>5. Collected(started, {p})
  <2>1. DOMAIN noted = WorkFields
    BY <1>3 DEF Collected, Sound
  <2>2. DOMAIN started = WorkFields /\ started.saved = noted.saved /\ started.seen = noted.seen
        /\ started.queue = noted.queue /\ started.outcomes = noted.outcomes
        /\ started.documents = noted.documents
    BY <2>1 DEF WorkFields
  <2> HIDE DEF started
  <2> QED BY <1>3, <2>2, SameIsSound
<1>6. Collected(taken, {p})
  <2> HIDE DEF started
  <2> QED BY <1>4, <1>5, LocalChildrenAreSound
<1> HIDE DEF taken
<1>7. Collected(Judge(taken, p, "STRUCTURED_LIST_TRAVERSED", "", FALSE), {p} \ {p})
  BY <1>6, CodesAreKnown, JudgeIsSound DEF Collected
<1> QED BY <1>1, <1>7

\* A page of another agent that leads to other documents.
LEMMA TraversalIsSound ==
    ASSUME NEW w, NEW p \in Pages, Collected(w, {p}), NEW f, Answering(f), AgentType # "LOCAL_EVENT"
    PROVE  Collected(traverse(w, p, f), {p}) /\ Collected(traverse(w, p, f), {})
<1> DEFINE related == IF Page[p].detail_urls # <<>>
                      THEN fetch_with_detail_pages(Prefix(Page[p].detail_urls, DetailLimit), f)
                      ELSE fetch_with_attachments(p, f)
           taken == FoldLeft(other_child, w, related)
           v == traverse(w, p, f)
<1>1. \/ v = Unusable(w, p, "UNSUPPORTED_ROUTE")
      \/ v = Judge(taken, p, "STRUCTURED_LIST_TRAVERSED", "", FALSE)
  BY DEF traverse
<1>2. related \in Seq(Pages)
  <2>1. Prefix(Page[p].detail_urls, DetailLimit) \in Seq(DOMAIN f)
    BY LinksAreAnswered, PrefixIsPart, IntakeLimits
  <2>2. fetch_with_detail_pages(Prefix(Page[p].detail_urls, DetailLimit), f) \in Seq(Pages)
    BY <2>1, DetailsArePages
  <2> QED BY <2>2, AttachmentsArePages
<1> HIDE DEF related
<1>3. Collected(taken, {p})
  BY <1>2, OtherChildrenAreSound
<1> HIDE DEF taken, v
<1>4. Collected(Unusable(w, p, "UNSUPPORTED_ROUTE"), {p}) /\ Collected(Unusable(w, p, "UNSUPPORTED_ROUTE"), {p} \ {p})
  BY CodesAreKnown, UnusableIsSound
<1>5. /\ Collected(Judge(taken, p, "STRUCTURED_LIST_TRAVERSED", "", FALSE), {p})
      /\ Collected(Judge(taken, p, "STRUCTURED_LIST_TRAVERSED", "", FALSE), {p} \ {p})
  BY <1>3, CodesAreKnown, JudgeIsSound DEF Collected
<1>6. {p} \ {p} = {}
  OBVIOUS
<1>7. Collected(v, {p}) /\ Collected(v, {})
  BY <1>1, <1>4, <1>5, <1>6
<1> QED BY <1>7 DEF v

\* The search for the document behind a page of the Bank of Korea.
Recovering(x, p) ==
    /\ DOMAIN x = {"work", "page", "found", "good"}
    /\ Collected(x.work, {p})
    /\ x.page \in Pages /\ IsBok(x.page)
    /\ x.good \subseteq {q \in Pages : BokUsable(q)}

\* One document of a search for decision facts is stored, and nothing else decided.
LEMMA OneRecovery ==
    ASSUME NEW p, NEW x, Recovering(x, p), NEW q \in Pages, AgentType # "LOCAL_EVENT"
    PROVE  Recovering(try_recovery(x, q), p)
<1>1. CASE x.found
  BY <1>1 DEF try_recovery
<1>2. CASE ~x.found /\ ~Fetched(q)
  <2>1. try_recovery(x, q) = [x EXCEPT !.work = Save(@, q)]
    BY <1>2 DEF try_recovery
  <2>2. Collected(Save(x.work, q), {p})
    BY SaveIsSound DEF Collected, Recovering
  <2> QED BY <2>1, <2>2 DEF Recovering
<1>3. CASE ~x.found /\ Fetched(q)
  <2> DEFINE v == Hold(Save(x.work, q), q)
             y == [x EXCEPT !.work = v, !.page = IF q \in x.good THEN q ELSE @, !.found = q \in x.good]
  <2>1. try_recovery(x, q) = y
    BY <1>3 DEF try_recovery, Recovering
  <2>2. Collected(Save(x.work, q), {p})
    BY SaveIsSound DEF Collected, Recovering
  <2>3. Collected(v, {p})
    BY <2>2, HoldIsSound DEF Collected
  <2> HIDE DEF v
  <2>4. DOMAIN y = DOMAIN x /\ y.work = v /\ y.good = x.good /\ y.page = (IF q \in x.good THEN q ELSE x.page)
    BY DEF Recovering
  <2>5. q \in x.good => IsBok(q)
    BY DEF Recovering, BokUsable, IsBok
  <2> HIDE DEF y
  <2>6. Recovering(y, p)
    BY <2>3, <2>4, <2>5 DEF Recovering
  <2> QED BY <2>1, <2>6
<1> QED BY <1>1, <1>2, <1>3

\* A search through a sequence of documents.
LEMMA RecoveryIsSound ==
    ASSUME NEW w, NEW p, Collected(w, {p}), NEW r \in Pages, IsBok(r), NEW ps \in Seq(Pages),
           NEW good \in SUBSET {q \in Pages : BokUsable(q)}, AgentType # "LOCAL_EVENT"
    PROVE  Recovering(recover(w, r, ps, good), p)
<1> DEFINE start == search_from(w, r, good)
<1>1. PICK f : /\ Recovery!Folds(f, start, ps, Len(ps))
               /\ Recovery!FoldLeft(try_recovery, start, ps) = f[Len(ps)]
  <2> HIDE DEF start
  <2> QED BY Recovery!FoldSteps
<1>2. recover(w, r, ps, good) = Recovery!FoldLeft(try_recovery, start, ps)
  BY DEF recover, FoldLeft, MapThenFoldSet, Max, Recovery!FoldLeft, Recovery!MapThenFoldSet, Recovery!Max
<1>3. f[0] = start /\ \A i \in 0 .. Len(ps) : i < Len(ps) => f[i + 1] = try_recovery(f[i], ps[i + 1])
  BY <1>1 DEF Recovery!Folds
<1>4. Len(ps) \in Nat /\ \A i \in 1 .. Len(ps) : ps[i] \in Pages
  OBVIOUS
<1> DEFINE Good == {n \in 0 .. Len(ps) : Recovering(f[n], p)}
<1>5. 0 \in Good
  <2>1. Recovering(start, p)
    BY DEF Recovering, search_from
  <2> QED BY <1>3, <1>4, <2>1
<1>6. ASSUME NEW n \in 0 .. Len(ps), n < Len(ps), n \in Good PROVE n + 1 \in Good
  <2>1. n + 1 \in 0 .. Len(ps) /\ ps[n + 1] \in Pages /\ f[n + 1] = try_recovery(f[n], ps[n + 1])
    BY <1>3, <1>4, <1>6
  <2> QED BY <1>6, <2>1, OneRecovery
<1>7. Len(ps) \in Good
  <2> HIDE DEF Good
  <2>1. \A n \in 0 .. Len(ps) : n \in Good
    BY <1>4, <1>5, <1>6, PrefixInduction
  <2> QED BY <1>4, <2>1
<1> QED BY <1>1, <1>2, <1>7

\* The recovery of a Bank of Korea page.
LEMMA BokRecoveryIsSound ==
    ASSUME NEW w, NEW p \in Pages, Collected(w, {p}), NEW f, Answering(f)
    PROVE  LET r == bok_recovery(w, p, f) IN
           /\ Collected(r.work, {p}) /\ r.page \in Pages
           /\ r.page = p \/ (IsBok(r.page) /\ AgentType = "MACRO")
<1> DEFINE r == bok_recovery(w, p, f)
<1>1. CASE AgentType # "MACRO" \/ ~IsBok(p)
  <2>1. r.work = w /\ r.page = p
    BY <1>1 DEF bok_recovery, search_from
  <2> QED BY <2>1
<1>2. CASE AgentType = "MACRO" /\ IsBok(p)
  <2> DEFINE detail == bok_detail(w, p, f)
             urls == Prefix(Page[p].detail_urls, AttachmentLimit)
             pages == [i \in DOMAIN urls |-> f[urls[i]]]
             none(x, q) == search_from(x, q, {})
  <2>a. AgentType # "LOCAL_EVENT"
    BY <1>2
  <2>1. Recovering(detail, p)
    <3>1. pages \in Seq(Pages)
      <4>1. urls \in Seq(DOMAIN f)
        BY LinksAreAnswered, PrefixIsPart, IntakeLimits
      <4> HIDE DEF urls
      <4> QED BY <4>1, LinksArePages
    <3>2. Recovering(none(w, p), p)
      BY <1>2 DEF Recovering, search_from
    <3> DEFINE good == {q \in Pages : BokUsable(q)}
    <3>3. detail = IF BokUsable(p) THEN none(w, p) ELSE recover(w, p, pages, good)
      BY DEF bok_detail
    <3> HIDE DEF pages, none, good, detail
    <3>4. Recovering(recover(w, p, pages, good), p)
      BY <1>2, <2>a, <3>1, RecoveryIsSound DEF good
    <3> QED BY <3>2, <3>3, <3>4
  <2> DEFINE last == bok_attachment(detail.work, detail.page, f)
  <2>2. r = last
    BY <1>2 DEF bok_recovery
  <2> HIDE DEF detail
  <2>3. Collected(detail.work, {p}) /\ detail.page \in Pages /\ IsBok(detail.page)
    BY <2>1 DEF Recovering
  <2>4. Recovering(last, p)
    <3> DEFINE x == detail.work
               q == detail.page
               ps == fetch_with_attachments(q, f)
               good == {c \in Pages : (Usable(c) \/ LowPriority(c)) /\ BokUsable(c)}
    <3>1. last = none(x, q) \/ last = recover(x, q, ps, good)
      BY DEF bok_attachment
    <3>2. Recovering(none(x, q), p)
      BY <2>3 DEF Recovering, search_from
    <3>3. ps \in Seq(Pages) /\ good \subseteq {c \in Pages : BokUsable(c)}
      BY <2>3, AttachmentsArePages
    <3> HIDE DEF x, q, ps, good, none, last
    <3>4. Recovering(recover(x, q, ps, good), p)
      BY <2>3, <2>a, <3>3, RecoveryIsSound DEF x, q
    <3> QED BY <3>1, <3>2, <3>4
  <2> HIDE DEF last
  <2> QED BY <1>2, <2>2, <2>4 DEF Recovering
<1> QED BY <1>1, <1>2

\* The last step of a document decides about it: a page of the Bank of Korea
\* about the page that was taken in its place.
LEMMA SettleIsSound ==
    ASSUME NEW w, NEW p \in Pages, Collected(w, {p}), NEW q \in Pages,
           q = p \/ (IsBok(q) /\ AgentType = "MACRO")
    PROVE  Collected(settle(w, q), {})
<1> DEFINE v == Judge(w, q, "REFERENCE_FINDINGS_ONLY", "", FALSE)
           met == [v EXCEPT !.findings = @ \cup {q}]
<1>1. settle(w, q) = met \/ settle(w, q) = Enqueue(w, q) \/ settle(w, q) = Unusable(w, q, "")
  BY DEF settle
<1>2. Collected(v, {p}) /\ Collected(v, {p} \ {q})
  BY CodesAreKnown, JudgeIsSound DEF Collected
<1>3. Collected(met, {p}) /\ Collected(met, {p} \ {q})
  <2>1. DOMAIN v = WorkFields
    BY <1>2 DEF Collected, Sound
  <2>2. DOMAIN met = WorkFields /\ met.saved = v.saved /\ met.seen = v.seen
        /\ met.queue = v.queue /\ met.outcomes = v.outcomes /\ met.documents = v.documents
    BY <2>1 DEF WorkFields
  <2> HIDE DEF met, v
  <2> QED BY <1>2, <2>2, SameIsSound
<1> HIDE DEF met, v
<1>4. Collected(Enqueue(w, q), {p} \ {q})
  BY EnqueueIsSound
<1>5. Collected(Unusable(w, q, ""), {p} \ {q})
  BY CodesAreKnown, UnusableIsSound
<1>6. Collected(settle(w, q), {p} \ {q})
  BY <1>1, <1>3, <1>4, <1>5
<1>7. {} \in SUBSET ({p} \ {q}) /\ (q = p => {p} \ {q} = {})
  OBVIOUS
<1>8. CASE q = p
  BY <1>6, <1>7, <1>8
<1>9. CASE IsBok(q) /\ AgentType = "MACRO"
  BY <1>6, <1>7, <1>9, OthersMayDrop
<1> QED BY <1>8, <1>9

\* A document fetched for a hit, whatever the linked ones give, leaves sound
\* work with nothing open; one that could not be read adds nothing to extract.
LEMMA TakeDocumentIsSound ==
    ASSUME NEW w, Collected(w, {}), NEW p \in Pages, NEW f, Answering(f)
    PROVE  LET v == take_document(w, p, f) IN
           /\ Collected(v, {})
           /\ ~Fetched(p) => v.queue = w.queue /\ v.seen = w.seen
<1> DEFINE v == take_document(w, p, f)
           new == See(Hold(Save(w, p), p), p)
           traversed == traverse(new, p, f)
<1>1. CASE ~Fetched(p)
  <2>1. v = Unusable(Save(w, p), p, access_reason(p))
    BY <1>1 DEF take_document
  <2>2. access_reason(p) \in Reasons
    BY CodesAreKnown
  <2> HIDE DEF v
  <2> QED BY <2>1, <2>2, UnreadIsSound DEF v
<1>2. CASE Fetched(p) /\ p \in w.seen
  <2>1. v = Judge(Hold(Save(w, p), p), p, "DUPLICATE_SOURCE", "", FALSE)
    BY <1>2 DEF take_document
  <2> HIDE DEF v
  <2> QED BY <1>2, <2>1, SeenAgainIsSound DEF v
<1>3. CASE Fetched(p) /\ p \notin w.seen
  <2>1. Collected(new, {p})
    <3>1. Collected(new, {} \cup {p})
      BY <1>3, FirstSightIsSound
    <3>2. {} \cup {p} = {p}
      OBVIOUS
    <3> HIDE DEF new
    <3> QED BY <3>1, <3>2
  <2>2. CASE is_local_listing(p)
    <3>0. ~routes_and_traverses(p)
      BY <2>2 DEF is_local_listing, routes_and_traverses
    <3>1. v = local_listing(new, p, f)
      BY <1>3, <2>2, <3>0 DEF take_document
    <3> HIDE DEF v, new
    <3> QED BY <1>3, <2>1, <3>1, ListingIsSound DEF v
  <2>3. ASSUME NEW x, Collected(x, {p})
        PROVE  Collected(settle(bok_recovery(x, p, f).work, bok_recovery(x, p, f).page), {})
    BY <2>3, BokRecoveryIsSound, SettleIsSound
  <2>4. CASE ~is_local_listing(p) /\ routes_and_traverses(p)
    <3>1. v = IF Usable(p) THEN settle(bok_recovery(traversed, p, f).work, bok_recovery(traversed, p, f).page)
              ELSE traversed
      BY <1>3, <2>4 DEF take_document
    <3>2. AgentType # "LOCAL_EVENT"
      BY <2>4 DEF routes_and_traverses
    <3> HIDE DEF new
    <3>3. Collected(traversed, {p}) /\ Collected(traversed, {})
      BY <2>1, <3>2, TraversalIsSound
    <3> HIDE DEF v, traversed
    <3> QED BY <1>3, <2>3, <3>1, <3>3 DEF v
  <2>5. CASE ~is_local_listing(p) /\ ~routes_and_traverses(p)
    <3>1. v = settle(bok_recovery(new, p, f).work, bok_recovery(new, p, f).page)
      BY <1>3, <2>5 DEF take_document
    <3> HIDE DEF v, new
    <3> QED BY <1>3, <2>1, <2>3, <3>1 DEF v
  <2> QED BY <2>2, <2>4, <2>5
<1> QED BY <1>1, <1>2, <1>3

\* Ranking neither loses nor invents a document: seeds first and rank next is
\* a strict total order of the queue's positions.
LEMMA RankedArePages ==
    ASSUME agent \in Agents, work.queue \in Seq(Pages)
    PROVE  /\ ranked_extraction_documents \in Seq(Pages)
           /\ Len(ranked_extraction_documents) = Len(work.queue)
<1> DEFINE n == Len(work.queue)
           D == 1 .. n
           R == {e \in D \X D : comes_first(e[1], e[2])}
           pos(m) == CHOOSE i \in DOMAIN work.queue : place(i) = m
<1>1. n \in Nat /\ DOMAIN work.queue = D /\ \A i \in D : work.queue[i] \in Pages
  OBVIOUS
<1>2. \A p \in Pages : Page[p].rank \in Int
  BY AgentsAssumption DEF Pages, Page
<1>3. \A i, j \in D : <<i, j>> \in R <=> comes_first(i, j)
  OBVIOUS
<1> HIDE DEF n
<1>4. Orders(R, n)
  <2> HIDE DEF R
  <2>1. \A i \in D : ~comes_first(i, i)
    BY <1>1, <1>2 DEF comes_first, ranks_before
  <2>2. \A i, j \in D : i # j => comes_first(i, j) \/ comes_first(j, i)
    BY <1>1, <1>2 DEF comes_first, ranks_before
  <2>3. \A i, j, k \in D : comes_first(i, j) /\ comes_first(j, k) => comes_first(i, k)
    BY <1>1, <1>2 DEF comes_first, ranks_before
  <2> QED BY <1>3, <2>1, <2>2, <2>3 DEF Orders
<1>5. \A i \in D : {j \in D : <<j, i>> \in R} = {j \in DOMAIN work.queue : comes_first(j, i)}
  <2> HIDE DEF R
  <2> QED BY <1>1, <1>3
<1>6. \A i \in D : place(i) = Cardinality({j \in D : <<j, i>> \in R}) + 1
  <2> HIDE DEF R, D
  <2> QED BY <1>5 DEF place
<1>7. \A m \in D : \E i \in D : place(i) = m
  <2> HIDE DEF R
  <2>1. \A m \in D : \E i \in D : Cardinality({j \in D : <<j, i>> \in R}) + 1 = m
    BY <1>1, <1>4, OrderHasPlaces
  <2> HIDE DEF D
  <2> TAKE m \in D
  <2>2. PICK i \in D : Cardinality({j \in D : <<j, i>> \in R}) + 1 = m
    BY <2>1
  <2>3. place(i) = m
    BY <1>6, <2>2
  <2> QED BY <2>3
<1>8. \A m \in D : pos(m) \in D
  <2> HIDE DEF D
  <2> QED BY <1>1, <1>7
<1>9. ranked_extraction_documents = [m \in D |-> work.queue[pos(m)]]
  BY <1>1 DEF ranked_extraction_documents
<1> HIDE DEF pos
<1>10. \A m \in 1 .. n : work.queue[pos(m)] \in Pages
  BY <1>1, <1>8
<1> QED BY <1>1, <1>9, <1>10 DEF n

-----------------------------------------------------------------------------
(* The agent's loops.                                                       *)

\* What the agent is, and what its state can hold, the work apart.
ControlTypes ==
    /\ agent \in Agents
    /\ stage \in Stages \cup {"AGGREGATION", "done", "raised"}
    /\ next \in Nat \ {0} /\ attempt \in 0 .. (MaxRetries + 1)
    /\ stopped \in BOOLEAN /\ clock \in {"ample", "reserve", "exhausted"}
    /\ DOMAIN prefetched \subseteq ToSet(Seeds) /\ \A u \in DOMAIN prefetched : prefetched[u] \in Pages
    /\ query_records \in Seq({"FAILED", "NO_RESULTS", "COMPLETED"})
    /\ Len(query_records) <= Len(attempted_queries)
    /\ found \in Seq(Urls \ ToSet(Seeds)) /\ IsInjective(found)
    /\ failures \subseteq [url : Urls, code : Codes]
    /\ provider_failures \subseteq [stage : Stages, code : Codes, source : Sources]
    /\ timeout_stage \in Stages \cup {"none"}
    /\ skipped \in [Counters -> Nat]
    /\ fetch_attempts \in Nat
    /\ selected \in Seq(Pages)
    /\ candidates \in Seq(Pages)

\* Reasons for unfinished work were given, and n pieces of it counted.
Skips == skipped["cancellation"] + skipped["optional_total_deadline"]
OwnedUp(n) == timeout_stage # "none" /\ provider_failures # {} /\ Skips >= n

\* One record per query asked, until discovery is over or cut.
Asking ==
    /\ stage = "SEED_COLLECTION" => query_records = <<>>
    /\ QueryLoop => Len(query_records) = next - 1
    /\ /\ stage \in {"SEARCH_DISCOVERY", "DOCUMENT_FETCH", "EVENT_EXTRACTION", "AGGREGATION", "done"}
       /\ ~QueryLoop
       /\ Len(query_records) < Len(attempted_queries)
       => OwnedUp(Len(attempted_queries) - Len(query_records))
    /\ provider_failures = {} => "FAILED" \notin ToSet(query_records)

\* One attempt per hit, until the loop is over or cut; a cut without a stop
\* leaves the protected hits behind it.
FetchingOver == stage \in {"DOCUMENT_FETCH", "EVENT_EXTRACTION", "AGGREGATION", "done"} /\ ~FetchLoop
Trying ==
    /\ fetch_attempts <= Len(budgeted_hits)
    /\ stage \in {"SEED_COLLECTION", "SEARCH_DISCOVERY"} => fetch_attempts = 0
    /\ FetchLoop => fetch_attempts = next - 1
    /\ FetchingOver /\ fetch_attempts < Len(budgeted_hits) =>
          OwnedUp(1) /\ timeout_stage \in {"DOCUMENT_FETCH", "EVENT_EXTRACTION"}
    /\ FetchingOver /\ ~stopped => fetch_attempts >= Len(Prefix(budgeted_hits, Len(Seeds) + MinDocuments))
    /\ timeout_stage = "EVENT_EXTRACTION" => selected # <<>>

\* The attempted documents are the selected ones in their order, until the
\* loop is over or cut.
ExtractionOver == stage \in {"EVENT_EXTRACTION", "AGGREGATION", "done"} /\ ~ExtractionLoop
EarlyStages == {"SEED_COLLECTION", "SEARCH_DISCOVERY", "DOCUMENT_FETCH"}
LateStages == {"EVENT_EXTRACTION", "AGGREGATION", "done"}
Attempts == {"PROVIDER_ERROR", "CANDIDATES_EXTRACTED", "REFERENCE_FINDINGS_ONLY", "NO_DISCRETE_EVENT"}
ReadingCounts ==
    /\ Len(attempted_documents) <= Len(selected)
    /\ ExtractionLoop => Len(attempted_documents) = next - 1
    /\ ExtractionOver /\ Len(attempted_documents) < Len(selected) => OwnedUp(1)
    /\ ExtractionOver /\ ~stopped => Len(attempted_documents) >= Len(Prefix(selected, MinDocuments))
Told(o) ==
    /\ o.status \in Attempts
    /\ o.status = "PROVIDER_ERROR" => provider_failures # {}
    /\ o.status = "CANDIDATES_EXTRACTED" => candidates # <<>>
ReadingOrder ==
    \A i \in 1 .. Len(attempted_documents) :
        attempted_documents[i].page = selected[i] /\ Told(attempted_documents[i])
Selecting ==
    /\ stage \in EarlyStages => selected = <<>> /\ candidates = <<>>
    /\ ToSet(candidates) \subseteq ToSet(selected)
    /\ Len(selected) <= MaxExtract
    /\ stage \in LateStages =>
          Len(selected) = IF MaxExtract < Len(work.queue) THEN MaxExtract ELSE Len(work.queue)
Reading == ReadingCounts /\ ReadingOrder /\ Selecting

\* What each attempt gave; without a failure each gave content.
Accesses == Pages \cup Exceptions
Accessing ==
    /\ accesses \in Seq(Accesses) /\ Len(accesses) = fetch_attempts
    /\ failures = {} => \A i \in 1 .. Len(accesses) : accesses[i] \in Pages /\ Fetched(accesses[i])

\* Without a failure no seed timed out.
Timely == provider_failures = {} => \A u \in DOMAIN prefetched : Page[prefetched[u]].access # "TIMEOUT"

\* Without a failure no seed is missing.
Seeded ==
    /\ stage = "SEED_COLLECTION" /\ provider_failures = {} =>
          \A i \in 1 .. Len(Seeds) : i < next => Seeds[i] \in DOMAIN prefetched
    /\ stage # "SEED_COLLECTION" /\ provider_failures = {} => ToSet(Seeds) \subseteq DOMAIN prefetched

\* The work is sound at every moment, and nothing of it is there when no
\* document was read.
Worked ==
    /\ Sound(work, {})
    /\ stage \in EarlyStages => Unattempted(work)
    /\ fetched = {} => work.seen = {} /\ work.queue = <<>>

\* The bundle says what the state says.
Reported ==
    /\ stage # "done" => result = NoResult
    /\ stage = "done" =>
          result = [status |-> IF failures # {} \/ provider_failures # {} \/ selected = <<>>
                               THEN "PARTIAL" ELSE "COMPLETED",
                    reasons |-> no_result_reasons(provider_failures # {})]

\* What the parameters of an agent are.
LEMMA AgentFacts ==
    ASSUME agent \in Agents
    PROVE  /\ MaxQueries \in Nat /\ MaxDocs \in Nat /\ MaxExtract \in Nat
           /\ MinDocuments \in Nat /\ MaxRetries \in Nat
           /\ Seeds \in Seq(Urls) /\ IsInjective(Seeds) /\ Queries \in Seq(STRING)
           /\ \A u \in Urls : Answers[u] \subseteq Pages \cup Exceptions
           /\ SearchHits \subseteq Seq(Urls)
           /\ \A f \in LinkedFetches : Answering(f)
           /\ Len(attempted_queries) \in Nat
<1>1. /\ MaxQueries \in Nat /\ MaxDocs \in Nat /\ MaxExtract \in Nat
      /\ MinDocuments \in Nat /\ MaxRetries \in Nat
      /\ Seeds \in Seq(Urls) /\ IsInjective(Seeds) /\ Queries \in Seq(STRING)
      /\ \A u \in Urls : Answers[u] \subseteq Pages \cup Exceptions
      /\ SearchHits \subseteq Seq(Urls)
  BY AgentsAssumption DEF MaxQueries, MaxDocs, MaxExtract, Seeds, Urls, Answers, Queries, SearchHits, Pages, Page
<1>2. \A f \in LinkedFetches : Answering(f)
  BY AgentsAssumption DEF LinkedFetches, Answering, Pages, Page
<1>3. Len(attempted_queries) \in Nat
  BY <1>1, PrefixIsPart DEF attempted_queries
<1> QED BY <1>1, <1>2, <1>3

\* The agent stays who it is, and so do its parameters.
LEMMA AgentStays ==
    ASSUME agent' = agent
    PROVE  /\ Seeds' = Seeds /\ Urls' = Urls /\ Pages' = Pages /\ Page' = Page /\ Answers' = Answers
           /\ Sources' = Sources /\ Outcome' = Outcome /\ attempted_queries' = attempted_queries
           /\ MaxDocs' = MaxDocs /\ MaxExtract' = MaxExtract /\ AgentType' = AgentType
           /\ \A p : Source(p)' = Source(p) /\ IsBok(p)' = IsBok(p) /\ Fetched(p)' = Fetched(p)
           /\ \A w, open : Sound(w, open)' = Sound(w, open)
  BY DEF Seeds, Urls, Pages, Page, Answers, Sources, Outcome, Source, attempted_queries, Queries, MaxQueries,
         MaxDocs, MaxExtract, AgentType, IsBok, Fetched, Sound, Accounted

\* A budget is exceeded by a number.
LEMMA OverIsNat ==
    ASSUME NEW n \in Nat, NEW limit \in Nat
    PROVE  over(n, limit) \in Nat
  BY DEF over

\* The hits are the seeds and then what was found; the budget is a limit.
LEMMA HitFacts ==
    ASSUME ControlTypes
    PROVE  /\ hits \in Seq(Urls) /\ Len(hits) \in Nat /\ Len(hits) = Len(Seeds) + Len(found)
           /\ Len(Seeds) \in Nat /\ Len(found) \in Nat
           /\ \A i \in 1 .. Len(Seeds) : hits[i] = Seeds[i]
           /\ \A i \in 1 .. Len(found) : hits[Len(Seeds) + i] = found[i]
           /\ Len(budgeted_hits) \in Nat /\ Len(budgeted_hits) <= Len(hits)
           /\ Len(budgeted_hits) = IF MaxDocs < Len(hits) THEN MaxDocs ELSE Len(hits)
           /\ budgeted_hits \in Seq(Urls)
<1>1. Seeds \in Seq(Urls) /\ MaxDocs \in Nat
  BY AgentFacts DEF ControlTypes
<1>2. found \in Seq(Urls)
  <2>1. found \in Seq(Urls \ ToSet(Seeds))
    BY DEF ControlTypes
  <2> QED BY <2>1
<1>3. hits \in Seq(Urls)
  BY <1>1, <1>2 DEF hits
<1>4. /\ Len(hits) = Len(Seeds) + Len(found) /\ Len(Seeds) \in Nat /\ Len(found) \in Nat
      /\ \A i \in 1 .. Len(Seeds) + Len(found) : hits[i] = IF i <= Len(Seeds) THEN Seeds[i] ELSE found[i - Len(Seeds)]
  BY <1>1, <1>2, ConcatProperties DEF hits
<1>5. \A i \in 1 .. Len(Seeds) : hits[i] = Seeds[i]
  BY <1>4
<1>6. \A i \in 1 .. Len(found) : hits[Len(Seeds) + i] = found[i]
  <2> TAKE i \in 1 .. Len(found)
  <2>1. Len(Seeds) + i \in 1 .. Len(Seeds) + Len(found) /\ ~(Len(Seeds) + i <= Len(Seeds))
        /\ (Len(Seeds) + i) - Len(Seeds) = i
    BY <1>4
  <2> QED BY <1>4, <2>1
<1>7. /\ budgeted_hits \in Seq(Urls)
      /\ Len(budgeted_hits) = IF MaxDocs < Len(hits) THEN MaxDocs ELSE Len(hits)
  BY <1>1, <1>3, PrefixIsPart DEF budgeted_hits
<1>8. Len(budgeted_hits) \in Nat /\ Len(budgeted_hits) <= Len(hits) /\ Len(hits) \in Nat
  BY <1>1, <1>4, <1>7
<1> QED BY <1>3, <1>4, <1>5, <1>6, <1>7, <1>8

\* What a step may never take back: who the agent is, what was given as a
\* reason and counted, and that the run was stopped.
LEMMA NothingIsTakenBack ==
    ASSUME ControlTypes, Sound(work, {}), [Next]_vars
    PROVE  /\ agent' = agent
           /\ provider_failures \subseteq provider_failures'
           /\ timeout_stage # "none" => timeout_stage' # "none"
           /\ Skips \in Nat /\ Skips' \in Nat /\ Skips <= Skips'
           /\ skipped' \in [Counters -> Nat] /\ timeout_stage' \in Stages \cup {"none"}
           /\ stopped => stopped'
           /\ stopped' \in BOOLEAN /\ clock' \in {"ample", "reserve", "exhausted"}
<1> DEFINE Kept == skipped' = skipped /\ timeout_stage' = timeout_stage
           Cut == \E c \in {"cancellation", "optional_total_deadline"}, n \in Nat :
                     /\ timeout_stage' = stage /\ stage \in Stages
                     /\ skipped' = [skipped EXCEPT ![c] = @ + n]
           Counted == \E c \in {"document_budget", "extraction_budget"}, n \in Nat :
                     /\ timeout_stage' = timeout_stage
                     /\ skipped' = [skipped EXCEPT ![c] = n]
<1> USE DEF Counters
<1>t. /\ skipped \in [Counters -> Nat] /\ timeout_stage \in Stages \cup {"none"} /\ stage # "none"
      /\ stopped \in BOOLEAN /\ clock \in {"ample", "reserve", "exhausted"}
  BY DEF ControlTypes, Stages
<1>1. ASSUME Kept \/ Cut \/ Counted
      PROVE  /\ timeout_stage # "none" => timeout_stage' # "none"
             /\ Skips \in Nat /\ Skips' \in Nat /\ Skips <= Skips'
             /\ skipped' \in [Counters -> Nat] /\ timeout_stage' \in Stages \cup {"none"}
  <2>1. CASE Kept
    BY <1>t, <2>1 DEF Skips
  <2>2. CASE Cut
    BY <1>t, <2>2 DEF Skips, Stages
  <2>3. CASE Counted
    BY <1>t, <2>3 DEF Skips
  <2> QED BY <1>1, <2>1, <2>2, <2>3
<1> HIDE DEF Counters
<1>2. ASSUME NEW counter, NEW code, NEW n, Skip(counter, code, n), stage \in Stages, n \in Nat,
             counter \in {"cancellation", "optional_total_deadline"}
      PROVE  Cut /\ provider_failures \subseteq provider_failures'
  BY <1>2 DEF Skip
<1>3. ASSUME NEW code, NEW source, Failing(code, source)
      PROVE  Kept /\ provider_failures \subseteq provider_failures'
  BY <1>3 DEF Failing
<1>4. CASE Seeding
  <2>1. CASE seed_skipped
    <3>1. Skip("cancellation", "STOPPED", 1) /\ stage \in Stages /\ UNCHANGED envVars
      BY <2>1 DEF seed_skipped, SeedLoop, Stages
    <3> QED BY <1>1, <1>2, <1>t, <3>1 DEF envVars
  <2>2. CASE seed_raises
    BY <1>1, <1>3, <1>t, <2>2 DEF seed_raises, envVars
  <2>3. CASE seed_fetched
    <3>1. UNCHANGED envVars /\ (UNCHANGED logVars \/ \E s : Failing("DOCUMENT_FETCH_TIMEOUT", s))
      BY <2>3 DEF seed_fetched
    <3> QED BY <1>1, <1>3, <1>t, <3>1 DEF envVars, logVars
  <2>4. CASE seeds_done
    BY <1>1, <1>t, <2>4 DEF seeds_done, envVars, logVars
  <2> QED BY <1>4, <2>1, <2>2, <2>3, <2>4 DEF Seeding
<1>5. CASE Searching
  <2>1. CASE discovery_cut
    <3>1. PICK counter \in {"cancellation", "optional_total_deadline"} : \E code : Skip(counter, code, queries_left)
      BY <2>1 DEF discovery_cut
    <3>2. stage \in Stages /\ UNCHANGED envVars
      BY <2>1 DEF discovery_cut, QueryLoop, Stages
    <3>3. queries_left \in Nat
      BY AgentFacts DEF queries_left, ControlTypes
    <3> QED BY <1>1, <1>2, <1>t, <3>1, <3>2, <3>3 DEF envVars
  <2>2. CASE query_starts \/ search_retried \/ search_answered
    BY <1>1, <1>t, <2>2 DEF query_starts, search_retried, search_answered, envVars, logVars
  <2>3. CASE search_failed
    BY <1>1, <1>3, <1>t, <2>3 DEF search_failed, envVars
  <2>4. CASE discovery_done
    <3>1. over(Len(hits), MaxDocs) \in Nat
      <4>1. Len(hits) \in Nat /\ MaxDocs \in Nat
        BY HitFacts, AgentFacts DEF ControlTypes
      <4> QED BY <4>1, OverIsNat
    <3> QED BY <1>1, <1>t, <2>4, <3>1 DEF discovery_done, envVars
  <2> QED BY <1>5, <2>1, <2>2, <2>3, <2>4 DEF Searching
<1>6. CASE Fetching
  <2>1. CASE fetch_cut
    <3>1. PICK counter \in {"cancellation", "optional_total_deadline"} : \E code : Skip(counter, code, 1)
      BY <2>1 DEF fetch_cut
    <3>2. stage \in Stages /\ UNCHANGED envVars
      BY <2>1 DEF fetch_cut, FetchLoop, Stages
    <3> QED BY <1>1, <1>2, <1>t, <3>1, <3>2 DEF envVars
  <2>2. CASE fetch_raises
    BY <1>1, <1>3, <1>t, <2>2 DEF fetch_raises, envVars
  <2>3. CASE fetch_answered
    <3>1. UNCHANGED envVars /\ (UNCHANGED logVars \/ \E s : Failing("DOCUMENT_FETCH_TIMEOUT", s))
      BY <2>3 DEF fetch_answered
    <3> QED BY <1>1, <1>3, <1>t, <3>1 DEF envVars, logVars
  <2>4. CASE select_documents
    <3>1. over(Len(ranked_extraction_documents), MaxExtract) \in Nat
      <4>1. ranked_extraction_documents \in Seq(Pages) /\ MaxExtract \in Nat
        BY RankedArePages, AgentFacts DEF ControlTypes, Sound
      <4>2. Len(ranked_extraction_documents) \in Nat
        BY <4>1
      <4> QED BY <4>1, <4>2, OverIsNat
    <3> QED BY <1>1, <1>t, <2>4, <3>1 DEF select_documents, envVars
  <2> QED BY <1>6, <2>1, <2>2, <2>3, <2>4 DEF Fetching
<1>7. CASE Extracting
  <2>1. CASE extraction_cut
    <3>1. PICK counter \in {"cancellation", "optional_total_deadline"} : \E code : Skip(counter, code, 1)
      BY <2>1 DEF extraction_cut
    <3>2. stage \in Stages /\ UNCHANGED envVars
      BY <2>1 DEF extraction_cut, ExtractionLoop, Stages
    <3> QED BY <1>1, <1>2, <1>t, <3>1, <3>2 DEF envVars
  <2>2. CASE extraction_failed
    BY <1>1, <1>3, <1>t, <2>2 DEF extraction_failed, envVars
  <2>3. CASE extracted \/ extraction_done
    BY <1>1, <1>t, <2>3 DEF extracted, extraction_done, envVars, logVars
  <2> QED BY <1>7, <2>1, <2>2, <2>3 DEF Extracting
<1>8. CASE aggregate
  BY <1>1, <1>t, <1>8 DEF aggregate, envVars
<1>9. CASE Raise
  BY <1>1, <1>t, <1>9 DEF Raise, envVars, logVars
<1>10. CASE Stop
  BY <1>1, <1>t, <1>10 DEF Stop, logVars
<1>11. CASE Tick
  BY <1>1, <1>t, <1>11 DEF Tick, logVars
<1>12. CASE UNCHANGED vars
  BY <1>1, <1>t, <1>12 DEF vars, envVars, logVars
<1> QED BY <1>4, <1>5, <1>6, <1>7, <1>8, <1>9, <1>10, <1>11, <1>12 DEF Next, Working, Ended

\* Which steps change what.
LEMMA WhoChanges ==
    ASSUME [Next]_vars
    PROVE  /\ UNCHANGED prefetched \/ seed_fetched
           /\ UNCHANGED query_records \/ search_failed \/ search_answered
           /\ UNCHANGED found \/ search_answered
           /\ UNCHANGED failures \/ fetch_raises \/ fetch_answered
           /\ UNCHANGED <<fetch_attempts, accesses>> \/ fetch_raises \/ fetch_answered
           /\ UNCHANGED fetched \/ fetch_answered
           /\ UNCHANGED work \/ fetch_answered \/ select_documents \/ extraction_failed \/ extracted
           /\ UNCHANGED selected \/ select_documents
           /\ UNCHANGED candidates \/ extracted
           /\ UNCHANGED result \/ aggregate
           /\ UNCHANGED stopped \/ Stop
           /\ UNCHANGED timeout_stage \/ seed_skipped \/ discovery_cut \/ fetch_cut \/ extraction_cut
<1> DEFINE Fine ==
           /\ UNCHANGED prefetched \/ seed_fetched
           /\ UNCHANGED query_records \/ search_failed \/ search_answered
           /\ UNCHANGED found \/ search_answered
           /\ UNCHANGED failures \/ fetch_raises \/ fetch_answered
           /\ UNCHANGED <<fetch_attempts, accesses>> \/ fetch_raises \/ fetch_answered
           /\ UNCHANGED fetched \/ fetch_answered
           /\ UNCHANGED work \/ fetch_answered \/ select_documents \/ extraction_failed \/ extracted
           /\ UNCHANGED selected \/ select_documents
           /\ UNCHANGED candidates \/ extracted
           /\ UNCHANGED result \/ aggregate
           /\ UNCHANGED stopped \/ Stop
           /\ UNCHANGED timeout_stage \/ seed_skipped \/ discovery_cut \/ fetch_cut \/ extraction_cut
<1> SUFFICES Fine
  OBVIOUS
<1> USE DEF envVars, seedVars, searchVars, fetchVars, logVars, extractVars
<1>1. CASE Seeding
  <2>1. CASE seed_skipped BY <2>1 DEF seed_skipped
  <2>2. CASE seed_raises BY <2>2 DEF seed_raises, Failing
  <2>3. CASE seed_fetched BY <2>3 DEF seed_fetched, Failing
  <2>4. CASE seeds_done BY <2>4 DEF seeds_done
  <2> QED BY <1>1, <2>1, <2>2, <2>3, <2>4 DEF Seeding
<1>2. CASE Searching
  <2>1. CASE discovery_cut BY <2>1 DEF discovery_cut
  <2>2. CASE query_starts BY <2>2 DEF query_starts
  <2>3. CASE search_retried BY <2>3 DEF search_retried
  <2>4. CASE search_failed BY <2>4 DEF search_failed, Failing
  <2>5. CASE search_answered BY <2>5 DEF search_answered
  <2>6. CASE discovery_done BY <2>6 DEF discovery_done
  <2> QED BY <1>2, <2>1, <2>2, <2>3, <2>4, <2>5, <2>6 DEF Searching
<1>3. CASE Fetching
  <2>1. CASE fetch_cut BY <2>1 DEF fetch_cut
  <2>2. CASE fetch_raises BY <2>2 DEF fetch_raises, Failing
  <2>3. CASE fetch_answered BY <2>3 DEF fetch_answered, Failing
  <2>4. CASE select_documents BY <2>4 DEF select_documents
  <2> QED BY <1>3, <2>1, <2>2, <2>3, <2>4 DEF Fetching
<1>4. CASE Extracting
  <2>1. CASE extraction_cut BY <2>1 DEF extraction_cut
  <2>2. CASE extraction_failed BY <2>2 DEF extraction_failed, Failing
  <2>3. CASE extracted BY <2>3 DEF extracted
  <2>4. CASE extraction_done BY <2>4 DEF extraction_done
  <2> QED BY <1>4, <2>1, <2>2, <2>3, <2>4 DEF Extracting
<1>5. CASE aggregate BY <1>5 DEF aggregate
<1>6. CASE Raise BY <1>6 DEF Raise
<1>7. CASE Stop BY <1>7 DEF Stop
<1>8. CASE Tick BY <1>8 DEF Tick
<1>9. CASE UNCHANGED vars BY <1>9 DEF vars
<1> HIDE DEF Fine
<1> QED BY <1>1, <1>2, <1>3, <1>4, <1>5, <1>6, <1>7, <1>8, <1>9 DEF Next, Working, Ended

\* Where a step leads: on in its loop, past its end, to the next loop, or to
\* an exception.
LEMMA WhereStepsLead ==
    ASSUME ControlTypes, [Next]_vars
    PROVE  /\ stage' \in Stages \cup {"AGGREGATION", "done", "raised"}
           /\ next' \in Nat \ {0} /\ attempt' \in 0 .. (MaxRetries + 1)
<1> DEFINE Fine == /\ stage' \in Stages \cup {"AGGREGATION", "done", "raised"}
                   /\ next' \in Nat \ {0} /\ attempt' \in 0 .. (MaxRetries + 1)
<1>a. /\ stage \in Stages \cup {"AGGREGATION", "done", "raised"}
      /\ next \in Nat \ {0} /\ attempt \in 0 .. (MaxRetries + 1) /\ MaxRetries \in Nat
      /\ Len(attempted_queries) \in Nat /\ Len(budgeted_hits) \in Nat /\ Len(selected) \in Nat
  BY AgentFacts, HitFacts DEF ControlTypes
<1> SUFFICES Fine
  OBVIOUS
<1> USE <1>a DEF searchVars, GoTo, Advance, Stages
<1>1. CASE Seeding
  BY <1>1 DEF Seeding, seed_skipped, seed_raises, seed_fetched, seeds_done
<1>2. CASE Searching
  BY <1>2 DEF Searching, discovery_cut, query_starts, search_retried, search_failed, search_answered, discovery_done
<1>3. CASE Fetching
  BY <1>3 DEF Fetching, fetch_cut, fetch_raises, fetch_answered, select_documents
<1>4. CASE Extracting
  <2>1. CASE extraction_cut BY <2>1 DEF extraction_cut
  <2>2. CASE extraction_failed BY <2>2 DEF extraction_failed
  <2>3. CASE extracted
    <3>1. stage' = stage /\ next' = next + 1 /\ attempt' = attempt
      BY <2>3, Zenon DEF extracted
    <3> QED BY <3>1
  <2>4. CASE extraction_done BY <2>4 DEF extraction_done
  <2> QED BY <1>4, <2>1, <2>2, <2>3, <2>4 DEF Extracting
<1>5. CASE aggregate BY <1>5 DEF aggregate
<1>6. CASE Raise BY <1>6 DEF Raise
<1>7. CASE Stop BY <1>7 DEF Stop
<1>8. CASE Tick BY <1>8 DEF Tick
<1>9. CASE UNCHANGED vars BY <1>9 DEF vars
<1> HIDE DEF Fine
<1> QED BY <1>1, <1>2, <1>3, <1>4, <1>5, <1>6, <1>7, <1>8, <1>9 DEF Next, Working, Ended

\* The failures that are recorded have a stage, a code and a source.
LEMMA FailuresAreKnown ==
    ASSUME ControlTypes, Sound(work, {}), [Next]_vars
    PROVE  provider_failures' \subseteq [stage : Stages, code : Codes, source : Sources]
<1> DEFINE F == [stage : Stages, code : Codes, source : Sources]
           Fine == provider_failures' \subseteq F
<1>a. provider_failures \subseteq F
  BY DEF ControlTypes
<1>1. ASSUME NEW code \in Codes, NEW source \in Sources, stage \in Stages PROVE failure_detail(code, source) \in F
  BY <1>1 DEF failure_detail
<1>2. "none" \in Sources /\ \A p \in Pages : Source(p) \in Sources
  BY DEF Sources
<1> SUFFICES Fine
  OBVIOUS
<1> HIDE DEF F
<1>3. ASSUME NEW c, NEW code \in Codes, NEW n, Skip(c, code, n), stage \in Stages PROVE Fine
  BY <1>a, <1>1, <1>2, <1>3 DEF Skip
<1>4. ASSUME NEW code \in Codes, NEW source \in Sources, Failing(code, source), stage \in Stages PROVE Fine
  BY <1>a, <1>1, <1>4 DEF Failing
<1>c. {"STOPPED", "AGENT_WALL_CLOCK_RESERVE_REACHED", "AGENT_WALL_CLOCK_DEADLINE_EXHAUSTED",
       "DOCUMENT_FETCH_TIMEOUT", "DOCUMENT_FETCH_FAILED", "SEARCH_REQUEST_TIMEOUT",
       "EXTRACTION_REQUEST_TIMEOUT", "REFUSED"} \subseteq Codes
  BY DEF Codes
<1>s. stage = "SEED_COLLECTION" \/ stage = "SEARCH_DISCOVERY" \/ stage = "DOCUMENT_FETCH" \/ stage = "EVENT_EXTRACTION"
      => stage \in Stages
  BY DEF Stages
<1> USE DEF logVars
<1>5. CASE Seeding
  <2>0. stage \in Stages
    BY <1>5, <1>s DEF Seeding, seed_skipped, seed_raises, seed_fetched, seeds_done, SeedLoop
  <2>1. CASE seed_skipped
    BY <1>3, <1>c, <2>0, <2>1 DEF seed_skipped
  <2>2. CASE seed_raises
    BY <1>2, <1>4, <1>c, <2>0, <2>2 DEF seed_raises
  <2>3. CASE seed_fetched
    BY <1>a, <1>2, <1>4, <1>c, <2>0, <2>3 DEF seed_fetched
  <2>4. CASE seeds_done
    BY <1>a, <2>4 DEF seeds_done
  <2> QED BY <1>5, <2>1, <2>2, <2>3, <2>4 DEF Seeding
<1>6. CASE Searching
  <2>0. stage \in Stages
    BY <1>6, <1>s DEF Searching, discovery_cut, query_starts, search_retried, search_failed, search_answered,
                      discovery_done, QueryLoop
  <2>1. CASE discovery_cut
    BY <1>3, <1>c, <2>0, <2>1 DEF discovery_cut
  <2>2. CASE search_failed
    BY <1>2, <1>4, <1>c, <2>0, <2>2 DEF search_failed
  <2>3. CASE query_starts \/ search_retried \/ search_answered \/ discovery_done
    BY <1>a, <2>3 DEF query_starts, search_retried, search_answered, discovery_done
  <2> QED BY <1>6, <2>1, <2>2, <2>3 DEF Searching
<1>7. CASE Fetching
  <2>0. stage \in Stages
    BY <1>7, <1>s DEF Fetching, fetch_cut, fetch_raises, fetch_answered, select_documents, FetchLoop
  <2>1. CASE fetch_cut
    BY <1>3, <1>c, <2>0, <2>1 DEF fetch_cut
  <2>2. CASE fetch_raises
    BY <1>2, <1>4, <1>c, <2>0, <2>2 DEF fetch_raises
  <2>3. CASE fetch_answered
    BY <1>a, <1>2, <1>4, <1>c, <2>0, <2>3 DEF fetch_answered
  <2>4. CASE select_documents
    BY <1>a, <2>4 DEF select_documents
  <2> QED BY <1>7, <2>1, <2>2, <2>3, <2>4 DEF Fetching
<1>8. CASE Extracting
  <2>0. stage \in Stages
    BY <1>8, <1>s DEF Extracting, extraction_cut, extraction_failed, extracted, extraction_done, ExtractionLoop
  <2>1. CASE extraction_cut
    BY <1>3, <1>c, <2>0, <2>1 DEF extraction_cut
  <2>2. CASE extraction_failed
    <3>1. Document \in Pages
      BY <2>2 DEF extraction_failed, ExtractionLoop, Document, ControlTypes
    <3> QED BY <1>2, <1>4, <1>c, <2>0, <2>2, <3>1 DEF extraction_failed
  <2>3. CASE extracted \/ extraction_done
    BY <1>a, <2>3 DEF extracted, extraction_done
  <2> QED BY <1>8, <2>1, <2>2, <2>3 DEF Extracting
<1>9. CASE aggregate
  <2>1. \A o \in ToSet(work.outcomes) : o.page \in Pages
    <3>1. work.outcomes \in Seq(Outcome)
      BY DEF Sound
    <3>2. \A o \in ToSet(work.outcomes) : o \in Outcome
      <4> HIDE DEF Outcome
      <4> QED BY <3>1 DEF ToSet
    <3> QED BY <3>2 DEF Outcome
  <2>2. \A s \in late_timeouts : s \in Sources
    BY <1>2, <2>1 DEF late_timeouts
  <2>3. \A s \in late_timeouts : [stage |-> "DOCUMENT_FETCH", code |-> "DOCUMENT_FETCH_TIMEOUT", source |-> s] \in F
    BY <2>2 DEF F, Stages, Codes
  <2> QED BY <1>a, <1>9, <2>3 DEF aggregate
<1>10. CASE Raise \/ Stop \/ Tick \/ UNCHANGED vars
  BY <1>a, <1>10 DEF Raise, Stop, Tick, vars
<1> HIDE DEF Fine
<1> QED BY <1>5, <1>6, <1>7, <1>8, <1>9, <1>10 DEF Next, Working, Ended

\* A further answer keeps the discovered URLs distinct from each other and
\* from the seeds.
LEMMA FoundStaysDistinct ==
    ASSUME ControlTypes, NEW h \in SearchHits
    PROVE  LET more == Distinct(found \o unseeded(h)) IN
           more \in Seq(Urls \ ToSet(Seeds)) /\ IsInjective(more)
<1> DEFINE U == Urls \ ToSet(Seeds)
           I == {i \in DOMAIN h : h[i] \notin ToSet(Seeds)}
<1>1. h \in Seq(Urls)
  BY AgentFacts DEF ControlTypes
<1>2. unseeded(h) \in Seq(U)
  <2>1. unseeded(h) = Chosen(h, I)
    BY DEF unseeded
  <2>2. \A i \in I : h[i] \in U
    BY <1>1
  <2> HIDE DEF I, U
  <2>3. Chosen(h, I) \in Seq(Urls) /\ ToSet(Chosen(h, I)) = {h[i] : i \in I \cap DOMAIN h}
    BY <1>1, ChosenRange
  <2>4. ToSet(Chosen(h, I)) \subseteq U
    BY <2>2, <2>3
  <2> QED BY <2>1, <2>3, <2>4, OwnRange
<1>3. found \in Seq(U)
  BY DEF ControlTypes
<1> HIDE DEF U
<1>4. found \o unseeded(h) \in Seq(U)
  BY <1>2, <1>3, ConcatRange
<1> QED BY <1>4, DistinctIsInjective DEF U

\* The document in turn is one of those selected.
LEMMA DocumentIsSelected ==
    ASSUME ControlTypes, ExtractionLoop
    PROVE  next \in 1 .. Len(selected) /\ Document = selected[next] /\ Document \in Pages
<1>1. next \in Nat \ {0} /\ selected \in Seq(Pages) /\ next <= Len(selected)
  BY DEF ControlTypes, ExtractionLoop
<1> QED BY <1>1 DEF Document

\* What an answer of the extractor changes.
LEMMA ExtractedChanges ==
    ASSUME extracted
    PROVE  /\ ExtractionLoop /\ extraction_allowed
           /\ stage' = stage /\ next' = next + 1 /\ provider_failures' = provider_failures
           /\ \E status \in {"CANDIDATES_EXTRACTED", "REFERENCE_FINDINGS_ONLY", "NO_DISCRETE_EVENT"} : \E F :
                 /\ candidates' = IF status = "CANDIDATES_EXTRACTED" THEN Append(candidates, Document)
                                  ELSE candidates
                 /\ work' = [Judge(work, Document, status, "", TRUE) EXCEPT !.findings = F]
<1>1. /\ ExtractionLoop /\ extraction_allowed
      /\ stage' = stage /\ next' = next + 1 /\ provider_failures' = provider_failures
  BY Zenon DEF extracted, Advance, logVars
<1>2. PICK status \in Extractions \cap {"CANDIDATES_EXTRACTED", "REFERENCE_FINDINGS_ONLY", "NO_DISCRETE_EVENT"} :
         \E finding \in (IF status = "REFERENCE_FINDINGS_ONLY" THEN BOOLEAN ELSE {FALSE}) :
          /\ candidates' = IF status = "CANDIDATES_EXTRACTED" THEN Append(candidates, Document) ELSE candidates
          /\ work' = [Judge(work, Document, status, "", TRUE)
                         EXCEPT !.findings = IF finding THEN @ \cup {Document} ELSE @]
  BY Zenon DEF extracted
<1> QED BY <1>1, <1>2

\* The control state keeps its types.
LEMMA ControlTypesStep ==
    ASSUME ControlTypes, Sound(work, {}), Asking, [Next]_vars
    PROVE  ControlTypes'
<1>0. /\ agent' = agent /\ agent \in Agents
      /\ Seeds' = Seeds /\ Urls' = Urls /\ Pages' = Pages /\ Sources' = Sources
      /\ attempted_queries' = attempted_queries
  BY NothingIsTakenBack, AgentStays DEF ControlTypes
<1>1. DOMAIN prefetched' \subseteq ToSet(Seeds) /\ \A u \in DOMAIN prefetched' : prefetched'[u] \in Pages
  <2>1. CASE UNCHANGED prefetched
    BY <2>1 DEF ControlTypes
  <2>2. CASE seed_fetched
    <3>1. PICK p \in Pages : prefetched' = Put(prefetched, Seed, p)
      BY <2>2 DEF seed_fetched
    <3>2. Seed \in ToSet(Seeds)
      <4>1. Seeds \in Seq(Urls) /\ next \in Nat \ {0} /\ next <= Len(Seeds)
        BY <2>2, AgentFacts DEF ControlTypes, seed_fetched, SeedLoop
      <4> QED BY <4>1 DEF Seed, ToSet
    <3> QED BY <3>1, <3>2 DEF Put, ControlTypes
  <2> QED BY <2>1, <2>2, WhoChanges
<1>2. /\ query_records' \in Seq({"FAILED", "NO_RESULTS", "COMPLETED"})
      /\ Len(query_records') <= Len(attempted_queries)
  <2>1. CASE UNCHANGED query_records
    BY <2>1 DEF ControlTypes
  <2>2. CASE search_failed \/ search_answered
    <3>1. PICK r \in {"FAILED", "NO_RESULTS", "COMPLETED"} : query_records' = Append(query_records, r)
      BY <2>2 DEF search_failed, search_answered
    <3>2. Len(query_records) = next - 1 /\ next <= Len(attempted_queries)
      BY <2>2 DEF search_failed, search_answered, Asking, QueryLoop
    <3>3. query_records \in Seq({"FAILED", "NO_RESULTS", "COMPLETED"}) /\ next \in Nat
      BY DEF ControlTypes
    <3> QED BY <3>1, <3>2, <3>3
  <2> QED BY <2>1, <2>2, WhoChanges
<1>3. found' \in Seq(Urls \ ToSet(Seeds)) /\ IsInjective(found')
  <2>1. CASE UNCHANGED found
    BY <2>1 DEF ControlTypes
  <2>2. CASE search_answered
    <3>1. PICK h \in SearchHits : found' = Distinct(found \o unseeded(h))
      BY <2>2 DEF search_answered
    <3> QED BY <3>1, FoundStaysDistinct
  <2> QED BY <2>1, <2>2, WhoChanges
<1>4. failures' \subseteq [url : Urls, code : Codes]
  <2>1. CASE UNCHANGED failures
    BY <2>1 DEF ControlTypes
  <2>2. CASE fetch_raises \/ fetch_answered
    <3>1. Hit \in Urls
      <4>1. next \in 1 .. Len(hits) /\ hits \in Seq(Urls)
        BY <2>2, HitFacts DEF ControlTypes, fetch_raises, fetch_answered, FetchLoop
      <4> QED BY <4>1 DEF Hit
    <3>2. PICK code \in Codes : failures' \subseteq failures \cup {[url |-> Hit, code |-> code]}
      <4>1. CASE fetch_raises
        BY <4>1 DEF fetch_raises, Codes
      <4>2. CASE fetch_answered
        BY <4>2 DEF fetch_answered, Codes, access_reason
      <4> QED BY <2>2, <4>1, <4>2
    <3> QED BY <3>1, <3>2 DEF ControlTypes
  <2> QED BY <2>1, <2>2, WhoChanges
<1>5. fetch_attempts' \in Nat
  <2>1. fetch_attempts' = fetch_attempts \/ fetch_attempts' = fetch_attempts + 1
    BY WhoChanges DEF fetch_raises, fetch_answered
  <2> QED BY <2>1 DEF ControlTypes
<1>6. selected' \in Seq(Pages)
  <2>1. CASE UNCHANGED selected
    BY <2>1 DEF ControlTypes
  <2>2. CASE select_documents
    <3>1. selected' = Prefix(ranked_extraction_documents, MaxExtract)
      BY <2>2 DEF select_documents
    <3>2. ranked_extraction_documents \in Seq(Pages) /\ MaxExtract \in Nat
      BY RankedArePages, AgentFacts DEF ControlTypes, Sound
    <3> QED BY <3>1, <3>2, PrefixIsPart
  <2> QED BY <2>1, <2>2, WhoChanges
<1>7. candidates' \in Seq(Pages)
  <2>1. CASE UNCHANGED candidates
    BY <2>1 DEF ControlTypes
  <2>2. CASE extracted
    <3>1. candidates' = candidates \/ candidates' = Append(candidates, Document)
      BY <2>2, ExtractedChanges
    <3>2. Document \in Pages
      BY <2>2, ExtractedChanges, DocumentIsSelected
    <3>3. candidates \in Seq(Pages)
      BY DEF ControlTypes
    <3> QED BY <3>1, <3>2, <3>3
  <2> QED BY <2>1, <2>2, WhoChanges
<1> QED BY <1>0, <1>1, <1>2, <1>3, <1>4, <1>5, <1>6, <1>7, WhereStepsLead, FailuresAreKnown, NothingIsTakenBack
        DEF ControlTypes

\* What was owned up to stays so.
LEMMA OwnedUpStays ==
    ASSUME ControlTypes, Sound(work, {}), [Next]_vars, NEW n \in Nat, OwnedUp(n)
    PROVE  OwnedUp(n)'
<1>1. Skips' \in Nat /\ Skips \in Nat /\ Skips <= Skips' /\ timeout_stage' # "none" /\ provider_failures' # {}
  BY NothingIsTakenBack DEF OwnedUp
<1>2. Skips >= n
  BY DEF OwnedUp
<1>3. Skips' >= n
  BY <1>1, <1>2
<1> QED BY <1>1, <1>3 DEF OwnedUp

\* A loop that is cut owns up to what it leaves.
LEMMA CutOwnsUp ==
    ASSUME ControlTypes, NEW counter \in {"cancellation", "optional_total_deadline"}, NEW code, NEW n \in Nat,
           Skip(counter, code, n), stage \in Stages
    PROVE  OwnedUp(n)'
<1>1. skipped \in [Counters -> Nat] /\ skipped' = [skipped EXCEPT ![counter] = @ + n]
  BY DEF ControlTypes, Skip
<1>2. Skips' >= n
  BY <1>1 DEF Skips, Counters
<1>3. timeout_stage' # "none" /\ provider_failures' # {}
  BY DEF Skip, Stages
<1> QED BY <1>2, <1>3 DEF OwnedUp

\* Discovery keeps its record.
LEMMA AskingStep ==
    ASSUME ControlTypes, Sound(work, {}), Asking, [Next]_vars
    PROVE  Asking'
<1> DEFINE n == Len(attempted_queries)
           m == Len(query_records)
           Over == stage \in {"SEARCH_DISCOVERY", "DOCUMENT_FETCH", "EVENT_EXTRACTION", "AGGREGATION", "done"}
                   /\ ~QueryLoop
<1>0. /\ attempted_queries' = attempted_queries /\ n \in Nat /\ m \in Nat /\ m <= n /\ next \in Nat \ {0}
      /\ agent' = agent /\ provider_failures \subseteq provider_failures'
      /\ query_records \in Seq({"FAILED", "NO_RESULTS", "COMPLETED"})
  BY NothingIsTakenBack, AgentStays, AgentFacts DEF ControlTypes
<1>1. \A k \in Nat : OwnedUp(k) => OwnedUp(k)'
  BY OwnedUpStays
<1>2. provider_failures' = {} => "FAILED" \notin ToSet(query_records')
  <2>1. CASE UNCHANGED query_records
    BY <1>0, <2>1 DEF Asking
  <2>2. CASE search_failed
    BY <2>2 DEF search_failed, Failing
  <2>3. CASE search_answered
    <3>1. PICK r \in {"NO_RESULTS", "COMPLETED"} : query_records' = Append(query_records, r)
      BY <2>3 DEF search_answered
    <3>2. ToSet(query_records') = ToSet(query_records) \cup {r}
      BY <1>0, <3>1, AppendRange
    <3>3. provider_failures' = {} => provider_failures = {}
      BY <1>0
    <3> QED BY <3>2, <3>3 DEF Asking
  <2> QED BY <2>1, <2>2, <2>3, WhoChanges
<1> DEFINE Fine == /\ stage' = "SEED_COLLECTION" => query_records' = <<>>
                   /\ QueryLoop' => Len(query_records') = next' - 1
                   /\ \A k \in Nat \ {0} : Over' /\ k = n - Len(query_records') => OwnedUp(k)'
<1>a. \A k \in Nat \ {0} : Over /\ k = n - m => OwnedUp(k)
  <2> TAKE k \in Nat \ {0}
  <2>1. k = n - m => m < n
    BY <1>0
  <2> QED BY <2>1 DEF Asking
<1>b. ASSUME Fine PROVE Asking'
  <2>1. query_records' \in Seq({"FAILED", "NO_RESULTS", "COMPLETED"}) /\ Len(query_records') \in Nat
    BY ControlTypesStep DEF ControlTypes
  <2>2. Len(query_records') < n => n - Len(query_records') \in Nat \ {0}
    BY <1>0, <2>1
  <2> QED BY <1>0, <1>2, <1>b, <2>2 DEF Asking
<1> SUFFICES Fine
  BY <1>b
<1>3. ASSUME stage' = stage, query_records' = query_records, next' = next \/ stage # "SEARCH_DISCOVERY"
      PROVE  Fine
  <2>1. QueryLoop' <=> QueryLoop
    BY <1>0, <1>3 DEF QueryLoop
  <2>2. QueryLoop => next' = next
    BY <1>3 DEF QueryLoop
  <2>3. \A k \in Nat \ {0} : Over' /\ k = n - Len(query_records') => OwnedUp(k)'
    BY <1>1, <1>3, <1>a, <2>1
  <2> QED BY <1>3, <2>1, <2>2, <2>3 DEF Asking
<1>4. ASSUME query_records' = query_records, Over, stage' \notin {"SEED_COLLECTION", "SEARCH_DISCOVERY"} PROVE Fine
  <2>1. ~QueryLoop'
    BY <1>4 DEF QueryLoop
  <2>2. \A k \in Nat \ {0} : Over' /\ k = n - Len(query_records') => OwnedUp(k)'
    BY <1>1, <1>4, <1>a
  <2> QED BY <1>4, <2>1, <2>2
<1>5. CASE Seeding
  <2>1. CASE seed_skipped \/ seed_raises \/ seed_fetched
    BY <1>3, <2>1 DEF seed_skipped, seed_raises, seed_fetched, SeedLoop, Advance, searchVars
  <2>2. CASE seeds_done
    <3>1. query_records' = <<>> /\ stage' = "SEARCH_DISCOVERY" /\ next' = 1
      BY <2>2 DEF seeds_done, GoTo, searchVars, Asking
    <3>2. ~QueryLoop' => n = 0
      BY <1>0, <3>1 DEF QueryLoop
    <3>3. Len(query_records') = 0
      BY <3>1
    <3> QED BY <1>0, <3>1, <3>2, <3>3
  <2> QED BY <1>5, <2>1, <2>2 DEF Seeding
<1>6. CASE Searching
  <2>1. CASE query_starts \/ search_retried
    BY <1>3, <2>1 DEF query_starts, search_retried
  <2>2. CASE search_failed \/ search_answered
    <3>1. PICK r \in {"FAILED", "NO_RESULTS", "COMPLETED"} : query_records' = Append(query_records, r)
      BY <2>2 DEF search_failed, search_answered
    <3>2. stage' = stage /\ stage = "SEARCH_DISCOVERY" /\ next' = next + 1 /\ m = next - 1 /\ next <= n
      BY <2>2 DEF search_failed, search_answered, Advance, QueryLoop, Asking
    <3>3. Len(query_records') = m + 1
      BY <1>0, <3>1
    <3>4. ~QueryLoop' => next' > n
      BY <1>0, <3>2 DEF QueryLoop
    <3> QED BY <1>0, <3>2, <3>3, <3>4
  <2>3. CASE discovery_cut
    <3>1. query_records' = query_records /\ stage' = "SEARCH_DISCOVERY" /\ next' = n + 1 /\ stage \in Stages
      BY <2>3 DEF discovery_cut, searchVars, QueryLoop, Stages
    <3>2. ~QueryLoop'
      BY <1>0, <3>1 DEF QueryLoop
    <3>3. n - m \in Nat /\ queries_left = n - m
      BY <1>0 DEF queries_left
    <3>4. PICK counter \in {"cancellation", "optional_total_deadline"} : \E code : Skip(counter, code, queries_left)
      BY <2>3 DEF discovery_cut
    <3> DEFINE k == n - m
    <3>5. \A j \in Nat : j = k => OwnedUp(j)'
      <4> SUFFICES ASSUME NEW j \in Nat, j = queries_left PROVE OwnedUp(j)'
        BY <3>3
      <4>1. \E code : Skip(counter, code, j)
        BY <3>4
      <4> QED BY <3>1, <4>1, CutOwnsUp
    <3> HIDE DEF n, m
    <3> QED BY <3>1, <3>2, <3>5 DEF m
  <2>4. CASE discovery_done
    <3>1. query_records' = query_records /\ Over /\ stage' = "DOCUMENT_FETCH"
      BY <1>0, <2>4 DEF discovery_done, searchVars, QueryLoop, GoTo
    <3> QED BY <1>4, <3>1
  <2> QED BY <1>6, <2>1, <2>2, <2>3, <2>4 DEF Searching
<1>7. ASSUME stage \in {"DOCUMENT_FETCH", "EVENT_EXTRACTION", "AGGREGATION"}, query_records' = query_records,
             stage' \in {"DOCUMENT_FETCH", "EVENT_EXTRACTION", "AGGREGATION", "done"}
      PROVE  Fine
  BY <1>4, <1>7 DEF QueryLoop
<1>8. CASE Fetching
  <2>1. stage = "DOCUMENT_FETCH" /\ stage' \in {"DOCUMENT_FETCH", "EVENT_EXTRACTION"}
    BY <1>8 DEF Fetching, fetch_cut, fetch_raises, fetch_answered, select_documents, FetchLoop, Advance, GoTo
  <2>2. query_records' = query_records
    BY <2>1, WhoChanges DEF search_failed, search_answered, QueryLoop
  <2> QED BY <1>7, <2>1, <2>2
<1>9. CASE Extracting
  <2>1. stage = "EVENT_EXTRACTION" /\ stage' \in {"EVENT_EXTRACTION", "AGGREGATION"}
    <3>1. CASE extracted
      BY <3>1, ExtractedChanges DEF ExtractionLoop
    <3> QED BY <1>9, <3>1 DEF Extracting, extraction_cut, extraction_failed, extraction_done, ExtractionLoop, Advance, GoTo
  <2>2. query_records' = query_records
    BY <2>1, WhoChanges DEF search_failed, search_answered, QueryLoop
  <2> QED BY <1>7, <2>1, <2>2
<1>10. CASE aggregate
  <2>1. stage = "AGGREGATION" /\ stage' = "done" /\ query_records' = query_records
    BY <1>10 DEF aggregate, GoTo, searchVars
  <2> QED BY <1>7, <2>1
<1>11. CASE Raise
  <2>1. stage' = "raised"
    BY <1>11 DEF Raise, GoTo
  <2> QED BY <2>1 DEF QueryLoop
<1>12. CASE Stop \/ Tick \/ UNCHANGED vars
  BY <1>3, <1>12 DEF Stop, Tick, vars, searchVars
<1> HIDE DEF Fine
<1> QED BY <1>5, <1>6, <1>8, <1>9, <1>10, <1>11, <1>12 DEF Next, Working, Ended

\* The seeds and the first discovered hits are protected.
LEMMA ProtectedHits ==
    ASSUME ControlTypes, FetchLoop, Hit \notin protected_document_urls
    PROVE  next > Len(Seeds) + MinDocuments
<1>1. /\ next \in Nat \ {0} /\ next <= Len(hits) /\ MinDocuments \in Nat
      /\ Len(hits) = Len(Seeds) + Len(found) /\ Len(Seeds) \in Nat /\ Len(found) \in Nat
      /\ \A i \in 1 .. Len(Seeds) : hits[i] = Seeds[i]
      /\ \A i \in 1 .. Len(found) : hits[Len(Seeds) + i] = found[i]
  <2>1. agent \in Agents /\ next \in Nat \ {0} /\ next <= Len(budgeted_hits)
    BY DEF FetchLoop, ControlTypes
  <2>2. Len(budgeted_hits) \in Nat /\ Len(hits) \in Nat /\ Len(budgeted_hits) <= Len(hits)
    BY HitFacts
  <2>3. next <= Len(hits)
    BY <2>1, <2>2
  <2> QED BY <2>1, <2>3, HitFacts, AgentFacts
<1>2. next > Len(Seeds)
  <2>1. DOMAIN Seeds = 1 .. Len(Seeds)
    BY AgentFacts DEF ControlTypes
  <2>2. next <= Len(Seeds) => Hit \in ToSet(Seeds)
    BY <1>1, <2>1 DEF Hit, ToSet
  <2> QED BY <1>1, <2>2 DEF protected_document_urls
<1> DEFINE i == next - Len(Seeds)
<1>3. i \in 1 .. Len(found) /\ Len(Seeds) + i = next
  BY <1>1, <1>2
<1>4. ~(i <= MinDocuments)
  <2> DEFINE first == Prefix(found, MinDocuments)
  <2>1. found \in Seq(Urls \ ToSet(Seeds))
    BY DEF ControlTypes
  <2>2. /\ first \in Seq(Urls \ ToSet(Seeds)) /\ \A j \in 1 .. Len(first) : first[j] = found[j]
        /\ \A j \in 1 .. Len(found) : j <= MinDocuments => j <= Len(first)
    BY <1>1, <2>1, PrefixIsPart
  <2> HIDE DEF first
  <2>3. DOMAIN first = 1 .. Len(first) /\ Len(first) \in Nat
    BY <2>2
  <2>4. Hit = found[i]
    BY <1>1, <1>3 DEF Hit
  <2> HIDE DEF i
  <2>5. i <= MinDocuments => i \in DOMAIN first /\ first[i] = Hit
    BY <1>1, <1>3, <2>2, <2>3, <2>4
  <2>6. i <= MinDocuments => Hit \in ToSet(first)
    BY <2>5 DEF ToSet
  <2> QED BY <2>6 DEF protected_document_urls, first
<1> QED BY <1>1, <1>3, <1>4

\* The fetches keep their record.
LEMMA TryingStep ==
    ASSUME ControlTypes, Sound(work, {}), Asking, Trying, Reading, [Next]_vars
    PROVE  Trying'
<1> DEFINE b == Len(budgeted_hits)
           m == Len(Prefix(budgeted_hits, Len(Seeds) + MinDocuments))
<1>0. /\ b \in Nat /\ fetch_attempts \in Nat /\ next \in Nat \ {0} /\ agent' = agent /\ Seeds' = Seeds
      /\ MinDocuments \in Nat /\ Len(Seeds) \in Nat /\ m \in Nat /\ m <= b /\ m <= Len(Seeds) + MinDocuments
      /\ (stopped => stopped') /\ (OwnedUp(1) => OwnedUp(1)')
  <2>1. b \in Nat /\ MinDocuments \in Nat /\ Len(Seeds) \in Nat /\ budgeted_hits \in Seq(Urls)
    BY HitFacts, AgentFacts DEF ControlTypes
  <2>2. Len(Seeds) + MinDocuments \in Nat
    BY <2>1
  <2>3. m \in Nat /\ m <= b /\ m <= Len(Seeds) + MinDocuments
    BY <2>1, <2>2, PrefixIsPart
  <2> QED BY <2>1, <2>3, NothingIsTakenBack, AgentStays, OwnedUpStays DEF ControlTypes
<1>1. found' = found => budgeted_hits' = budgeted_hits
  BY <1>0, AgentStays DEF budgeted_hits, hits
<1> DEFINE Late == {"DOCUMENT_FETCH", "EVENT_EXTRACTION"}
           LateFine == timeout_stage' = "EVENT_EXTRACTION" => selected' # <<>>
           Fine ==
             /\ fetch_attempts' <= b
             /\ stage' \in {"SEED_COLLECTION", "SEARCH_DISCOVERY"} => fetch_attempts' = 0
             /\ FetchLoop' => fetch_attempts' = next' - 1
             /\ FetchingOver' /\ fetch_attempts' < b => OwnedUp(1)' /\ timeout_stage' \in Late
             /\ FetchingOver' /\ ~stopped' => fetch_attempts' >= m
             /\ LateFine
<1>2. ASSUME found' = found, Fine PROVE Trying'
  BY <1>0, <1>1, <1>2 DEF Trying
<1>3. found' = found \/ search_answered
  BY WhoChanges
<1>4. CASE Seeding
  <2>1. stage' \in {"SEED_COLLECTION", "SEARCH_DISCOVERY"} /\ stage = "SEED_COLLECTION"
    BY <1>4 DEF Seeding, seed_skipped, seed_raises, seed_fetched, seeds_done, SeedLoop, Advance, GoTo
  <2>2. fetch_attempts' = fetch_attempts /\ found' = found /\ selected' = selected
    BY <1>4 DEF Seeding, seed_skipped, seed_raises, seed_fetched, seeds_done, fetchVars, searchVars, extractVars
  <2>3. timeout_stage' = timeout_stage \/ timeout_stage' = "SEED_COLLECTION"
    BY <1>4, <2>1 DEF Seeding, seed_skipped, seed_raises, seed_fetched, seeds_done, logVars, Failing, Skip
  <2>4. Fine
    BY <1>0, <2>1, <2>2, <2>3 DEF FetchLoop, FetchingOver, Trying
  <2> QED BY <1>2, <2>2, <2>4
<1>5. CASE Searching
  <2>1. stage = "SEARCH_DISCOVERY" /\ fetch_attempts' = fetch_attempts /\ selected' = selected
    BY <1>5 DEF Searching, discovery_cut, query_starts, search_retried, search_failed, search_answered,
                discovery_done, QueryLoop, fetchVars, extractVars
  <2>2. timeout_stage' = timeout_stage \/ timeout_stage' = "SEARCH_DISCOVERY"
    BY <1>5, <2>1 DEF Searching, discovery_cut, query_starts, search_retried, search_failed, search_answered,
                discovery_done, logVars, Failing, Skip
  <2>3. fetch_attempts' = 0 /\ LateFine
    BY <2>1, <2>2 DEF Trying
  <2>4. CASE search_answered
    <3>1. stage' = "SEARCH_DISCOVERY"
      BY <2>4 DEF search_answered, QueryLoop, Advance
    <3>2. Len(budgeted_hits') \in Nat
      <4>1. found' \in Seq(Urls \ ToSet(Seeds)) /\ Seeds \in Seq(Urls) /\ MaxDocs \in Nat
        BY ControlTypesStep, AgentFacts, AgentStays, <1>0 DEF ControlTypes
      <4>2. found' \in Seq(Urls)
        BY <4>1
      <4>3. hits' = Seeds \o found' /\ budgeted_hits' = Prefix(hits', MaxDocs)
        BY <1>0, AgentStays DEF hits, budgeted_hits
      <4>4. hits' \in Seq(Urls)
        BY <4>1, <4>2, <4>3
      <4> QED BY <4>1, <4>3, <4>4, PrefixIsPart
    <3>3. 0 <= Len(budgeted_hits')
      BY <3>2
    <3> QED BY <2>3, <3>1, <3>3 DEF Trying, FetchLoop, FetchingOver
  <2>5. CASE discovery_done
    <3>1. stage' = "DOCUMENT_FETCH" /\ next' = 1 /\ found' = found
      BY <2>5 DEF discovery_done, GoTo, searchVars
    <3>2. ~FetchLoop' => b = 0
      BY <1>0, <1>1, <3>1 DEF FetchLoop
    <3>3. Fine
      BY <1>0, <2>3, <3>1, <3>2 DEF FetchingOver
    <3> QED BY <1>2, <3>1, <3>3
  <2>6. CASE discovery_cut \/ query_starts \/ search_retried \/ search_failed
    <3>1. stage' = "SEARCH_DISCOVERY" /\ found' = found
      BY <2>1, <2>6 DEF discovery_cut, query_starts, search_retried, search_failed, Advance, searchVars
    <3>2. Fine
      BY <1>0, <2>3, <3>1 DEF FetchLoop, FetchingOver
    <3> QED BY <1>2, <3>1, <3>2
  <2> QED BY <1>5, <2>4, <2>5, <2>6 DEF Searching
<1>6. CASE fetch_cut
  <2>1. /\ FetchLoop /\ stage' = stage /\ next' = b + 1 /\ fetch_attempts' = fetch_attempts /\ found' = found
        /\ selected' = selected /\ stage = "DOCUMENT_FETCH" /\ stage \in Stages
    BY <1>6 DEF fetch_cut, fetchVars, searchVars, extractVars, FetchLoop, Stages
  <2>2. ~FetchLoop' /\ fetch_attempts = next - 1 /\ next <= b
    BY <1>0, <1>1, <2>1 DEF FetchLoop, Trying
  <2>3. \E counter \in {"cancellation", "optional_total_deadline"} : \E code : Skip(counter, code, 1)
    BY <1>6 DEF fetch_cut
  <2>4. OwnedUp(1)' /\ timeout_stage' = "DOCUMENT_FETCH"
    BY <2>1, <2>3, CutOwnsUp DEF Skip
  <2>5. ~stopped => fetch_attempts >= m
    <3>1. ~stopped => Hit \notin protected_document_urls
      BY <1>6 DEF fetch_cut
    <3>2. ~stopped => next > Len(Seeds) + MinDocuments
      BY <2>1, <3>1, ProtectedHits
    <3> QED BY <1>0, <2>2, <3>2
  <2>6. Fine
    BY <1>0, <2>1, <2>2, <2>4, <2>5 DEF FetchingOver
  <2> QED BY <1>2, <2>1, <2>6
<1>7. CASE fetch_raises \/ fetch_answered
  <2>1. /\ FetchLoop /\ stage' = stage /\ next' = next + 1 /\ fetch_attempts' = fetch_attempts + 1 /\ found' = found
        /\ selected' = selected /\ stage = "DOCUMENT_FETCH" /\ timeout_stage' = timeout_stage
    BY <1>7 DEF fetch_raises, fetch_answered, searchVars, extractVars, logVars, Failing, FetchLoop, Advance
  <2>2. fetch_attempts = next - 1 /\ next <= b
    BY <2>1 DEF FetchLoop, Trying
  <2>3. ~FetchLoop' => next' > b
    BY <1>1, <2>1 DEF FetchLoop
  <2>4. LateFine
    BY <2>1 DEF Trying
  <2>5. fetch_attempts' = next' - 1 /\ fetch_attempts' <= b /\ (FetchingOver' => fetch_attempts' = b)
    BY <1>0, <2>1, <2>2, <2>3 DEF FetchingOver
  <2>6. Fine
    <3> HIDE DEF b, m, LateFine
    <3> QED BY <1>0, <2>1, <2>4, <2>5
  <2> QED BY <1>2, <2>1, <2>6
<1>8. ASSUME stage \in {"DOCUMENT_FETCH", "EVENT_EXTRACTION", "AGGREGATION"}, ~FetchLoop,
             stage' \in {"EVENT_EXTRACTION", "AGGREGATION", "done"}, found' = found,
             fetch_attempts' = fetch_attempts, LateFine,
             timeout_stage' = timeout_stage \/ timeout_stage' = "EVENT_EXTRACTION"
      PROVE  Trying'
  <2>1. FetchingOver /\ ~FetchLoop'
    BY <1>8 DEF FetchLoop, FetchingOver
  <2>2. Fine
    BY <1>0, <1>8, <2>1 DEF Trying
  <2> QED BY <1>2, <1>8, <2>2
<1>9. CASE select_documents
  <2>1. /\ stage = "DOCUMENT_FETCH" /\ ~FetchLoop /\ stage' = "EVENT_EXTRACTION" /\ found' = found
        /\ fetch_attempts' = fetch_attempts /\ timeout_stage' = timeout_stage
    BY <1>0, <1>9 DEF select_documents, GoTo, searchVars, fetchVars, FetchLoop
  <2>2. timeout_stage # "EVENT_EXTRACTION"
    BY <2>1 DEF Trying, Reading, Selecting, EarlyStages
  <2> QED BY <1>8, <2>1, <2>2
<1>10. CASE Extracting
  <2>1. stage = "EVENT_EXTRACTION" /\ stage' \in {"EVENT_EXTRACTION", "AGGREGATION"}
    <3>1. CASE extracted
      BY <3>1, ExtractedChanges DEF ExtractionLoop
    <3> QED BY <1>10, <3>1 DEF Extracting, extraction_cut, extraction_failed, extraction_done, ExtractionLoop, Advance, GoTo
  <2>2. found' = found /\ fetch_attempts' = fetch_attempts /\ selected' = selected
    BY <2>1, WhoChanges DEF search_answered, QueryLoop, fetch_raises, fetch_answered, FetchLoop, select_documents
  <2>3. /\ timeout_stage' = timeout_stage \/ timeout_stage' = "EVENT_EXTRACTION"
        /\ LateFine
    <3>1. CASE extraction_cut
      <4>1. selected # <<>>
        BY <3>1, DocumentIsSelected DEF extraction_cut
      <4> QED BY <2>1, <2>2, <3>1, <4>1 DEF extraction_cut, Skip
    <3>2. CASE ~extraction_cut
      <4>1. timeout_stage' = timeout_stage
        BY <2>1, <3>2, WhoChanges DEF seed_skipped, SeedLoop, discovery_cut, QueryLoop, fetch_cut, FetchLoop
      <4> QED BY <2>2, <4>1 DEF Trying
    <3> QED BY <3>1, <3>2
  <2> QED BY <1>8, <2>1, <2>2, <2>3 DEF FetchLoop
<1>11. CASE aggregate
  <2>1. /\ stage = "AGGREGATION" /\ stage' = "done" /\ found' = found /\ fetch_attempts' = fetch_attempts
        /\ selected' = selected /\ timeout_stage' = timeout_stage
    BY <1>11 DEF aggregate, GoTo, searchVars, fetchVars, extractVars
  <2> QED BY <1>8, <2>1 DEF FetchLoop, Trying
<1>12. CASE Raise
  <2>1. /\ stage' = "raised" /\ found' = found /\ fetch_attempts' = fetch_attempts
        /\ selected' = selected /\ timeout_stage' = timeout_stage
    BY <1>12 DEF Raise, GoTo, searchVars, fetchVars, extractVars, logVars
  <2>2. Fine
    BY <2>1 DEF FetchLoop, FetchingOver, Trying
  <2> QED BY <1>2, <2>1, <2>2
<1>13. CASE Stop \/ Tick \/ UNCHANGED vars
  <2>1. /\ stage' = stage /\ next' = next /\ found' = found /\ fetch_attempts' = fetch_attempts
        /\ selected' = selected /\ timeout_stage' = timeout_stage
    BY <1>13 DEF Stop, Tick, vars, searchVars, fetchVars, extractVars, logVars
  <2>2. FetchLoop' <=> FetchLoop
    BY <1>1, <2>1 DEF FetchLoop
  <2>3. Fine
    BY <1>0, <2>1, <2>2 DEF FetchingOver, Trying
  <2> QED BY <1>2, <2>1, <2>3
<1> QED BY <1>4, <1>5, <1>6, <1>7, <1>9, <1>10, <1>11, <1>12, <1>13 DEF Next, Working, Fetching, Ended

\* The findings made do not matter for soundness.
LEMMA FindingsDoNotMatter ==
    ASSUME NEW w, NEW open, Sound(w, open), NEW F
    PROVE  LET v == [w EXCEPT !.findings = F] IN
           Sound(v, open) /\ v.queue = w.queue /\ v.seen = w.seen /\ v.outcomes = w.outcomes
<1> DEFINE v == [w EXCEPT !.findings = F]
<1>1. DOMAIN w = WorkFields
  BY DEF Sound
<1>2. DOMAIN v = WorkFields /\ v.saved = w.saved /\ v.seen = w.seen /\ v.queue = w.queue
      /\ v.outcomes = w.outcomes /\ v.documents = w.documents
  BY <1>1 DEF WorkFields
<1> HIDE DEF v
<1>3. \A q : Accounted(w, q) <=> Accounted(v, q)
  BY <1>2 DEF Accounted
<1>4. Sound(v, open)
  BY <1>2, <1>3 DEF Sound
<1> QED BY <1>2, <1>4 DEF v

\* A document given to the extractor leaves one outcome.
LEMMA ExtractionLeavesOutcome ==
    ASSUME ControlTypes, Sound(work, {}), extraction_failed \/ extracted
    PROVE  \E o \in Outcome :
              /\ Sound(work', {}) /\ work'.queue = work.queue /\ work'.seen = work.seen
              /\ work'.outcomes = Append(work.outcomes, o)
              /\ o.attempted /\ o.page = Document
              /\ \/ o.status = "PROVIDER_ERROR" /\ provider_failures' # {} /\ candidates' = candidates
                 \/ /\ o.status \in {"CANDIDATES_EXTRACTED", "REFERENCE_FINDINGS_ONLY", "NO_DISCRETE_EVENT"}
                    /\ candidates' = IF o.status = "CANDIDATES_EXTRACTED" THEN Append(candidates, Document)
                                     ELSE candidates
<1>0. Document \in Pages
  BY DocumentIsSelected, ExtractedChanges DEF extraction_failed
<1>1. ASSUME NEW status \in Statuses, NEW code \in Reasons
      PROVE  LET v == Judge(work, Document, status, code, TRUE)
                 o == [page |-> Document, status |-> status, reason |-> code, attempted |-> TRUE]
             IN /\ Sound(v, {}) /\ v.queue = work.queue /\ v.seen = work.seen
                /\ v.outcomes = Append(work.outcomes, o)
                /\ o \in Outcome
  <2>1. [page |-> Document, status |-> status, reason |-> code, attempted |-> TRUE] \in Outcome
    BY <1>0 DEF Outcome
  <2> DEFINE v == Judge(work, Document, status, code, TRUE)
  <2>2. Sound(v, {})
    <3>1. TRUE \in BOOLEAN
      OBVIOUS
    <3> QED BY <1>0, <3>1, JudgeIsSound
  <2>3. /\ v.queue = work.queue /\ v.seen = work.seen
        /\ v.outcomes = Append(work.outcomes, [page |-> Document, status |-> status, reason |-> code,
                                               attempted |-> TRUE])
    BY DEF Judge, Sound, WorkFields
  <2> QED BY <2>1, <2>2, <2>3
<1>2. CASE extraction_failed
  <2>1. PICK code \in {"EXTRACTION_REQUEST_TIMEOUT", "REFUSED"} :
               /\ Failing(code, Source(Document))
               /\ work' = Judge(work, Document, "PROVIDER_ERROR", code, TRUE)
    BY <1>2 DEF extraction_failed
  <2>2. code \in Reasons /\ "PROVIDER_ERROR" \in Statuses
    BY CodesAreKnown
  <2>3. provider_failures' # {} /\ candidates' = candidates
    BY <1>2, <2>1 DEF extraction_failed, Failing, extractVars
  <2> DEFINE o == [page |-> Document, status |-> "PROVIDER_ERROR", reason |-> code, attempted |-> TRUE]
  <2>4. /\ Sound(work', {}) /\ work'.queue = work.queue /\ work'.seen = work.seen
        /\ work'.outcomes = Append(work.outcomes, o) /\ o \in Outcome
    BY <1>1, <2>1, <2>2
  <2>5. o.attempted /\ o.page = Document /\ o.status = "PROVIDER_ERROR"
    OBVIOUS
  <2> HIDE DEF o
  <2> QED BY <2>3, <2>4, <2>5
<1>3. CASE extracted
  <2>1. PICK status \in {"CANDIDATES_EXTRACTED", "REFERENCE_FINDINGS_ONLY", "NO_DISCRETE_EVENT"} : \E F :
               /\ candidates' = IF status = "CANDIDATES_EXTRACTED" THEN Append(candidates, Document) ELSE candidates
               /\ work' = [Judge(work, Document, status, "", TRUE) EXCEPT !.findings = F]
    BY <1>3, ExtractedChanges
  <2>1a. PICK F :
               /\ candidates' = IF status = "CANDIDATES_EXTRACTED" THEN Append(candidates, Document) ELSE candidates
               /\ work' = [Judge(work, Document, status, "", TRUE) EXCEPT !.findings = F]
    BY <2>1
  <2>2. "" \in Reasons /\ status \in Statuses
    BY CodesAreKnown
  <2> DEFINE o == [page |-> Document, status |-> status, reason |-> "", attempted |-> TRUE]
             v == Judge(work, Document, status, "", TRUE)
  <2>3. /\ Sound(v, {}) /\ v.queue = work.queue /\ v.seen = work.seen
        /\ v.outcomes = Append(work.outcomes, o) /\ o \in Outcome
    BY <1>1, <2>2
  <2>4. o.attempted /\ o.page = Document /\ o.status = status
    OBVIOUS
  <2>5. work' = [v EXCEPT !.findings = F]
    BY <2>1a
  <2> HIDE DEF o, v
  <2>6. Sound(work', {}) /\ work'.queue = v.queue /\ work'.seen = v.seen /\ work'.outcomes = v.outcomes
    BY <2>3, <2>5, FindingsDoNotMatter
  <2> QED BY <2>1, <2>1a, <2>3, <2>4, <2>6
<1> QED BY <1>2, <1>3

\* The documents beyond the budget are recorded as excluded.
LEMMA SelectionIsSound ==
    ASSUME ControlTypes, Sound(work, {}), select_documents
    PROVE  /\ Sound(work', {}) /\ work'.queue = work.queue /\ work'.seen = work.seen
           /\ Unattempted(work) => Unattempted(work')
           /\ selected' = Prefix(ranked_extraction_documents, MaxExtract)
           /\ Len(selected') = IF MaxExtract < Len(work.queue) THEN MaxExtract ELSE Len(work.queue)
<1> DEFINE ranked == ranked_extraction_documents
           excluded == SubSeq(ranked, MaxExtract + 1, Len(ranked))
<1>1. ranked \in Seq(Pages) /\ MaxExtract \in Nat /\ Len(ranked) = Len(work.queue)
  BY RankedArePages, AgentFacts DEF ControlTypes, Sound
<1>2. work' = AllUnusable(work, excluded, "PREFILTER_BUDGET_EXCLUDED") /\ selected' = Prefix(ranked, MaxExtract)
  BY DEF select_documents
<1> HIDE DEF ranked
<1>3. excluded \in Seq(Pages)
  BY <1>1
<1> HIDE DEF excluded
<1>4. "PREFILTER_BUDGET_EXCLUDED" \in Reasons
  BY CodesAreKnown
<1> QED BY <1>1, <1>2, <1>3, <1>4, AllUnusableIsSound, PrefixIsPart DEF ranked

\* A hit's document, with all that is linked from it, leaves the work sound.
LEMMA WorkedStep ==
    ASSUME ControlTypes, Worked, [Next]_vars
    PROVE  Worked'
<1> DEFINE Early == {"SEED_COLLECTION", "SEARCH_DISCOVERY", "DOCUMENT_FETCH"}
<1>0. agent' = agent /\ (Sound(work', {}) => Sound(work, {})')
  <2>1. agent' = agent
    BY NothingIsTakenBack DEF Worked
  <2> QED BY <2>1, AgentStays DEF Sound, Accounted
<1>e. stage' \in Early => stage \in Early
  <2>1. CASE Seeding
    BY <2>1 DEF Seeding, seed_skipped, seed_raises, seed_fetched, seeds_done, SeedLoop
  <2>2. CASE Searching
    BY <2>2 DEF Searching, discovery_cut, query_starts, search_retried, search_failed, search_answered,
                discovery_done, QueryLoop
  <2>3. CASE Fetching
    BY <2>3 DEF Fetching, fetch_cut, fetch_raises, fetch_answered, select_documents, FetchLoop
  <2>4. CASE Extracting
    <3>1. CASE extracted
      BY <3>1, ExtractedChanges DEF ExtractionLoop
    <3> QED BY <2>4, <3>1 DEF Extracting, extraction_cut, extraction_failed, extraction_done, ExtractionLoop,
                              Advance, GoTo
  <2>5. CASE aggregate \/ Raise \/ Stop \/ Tick \/ UNCHANGED vars
    BY <2>5 DEF aggregate, Raise, Stop, Tick, vars, GoTo
  <2> QED BY <2>1, <2>2, <2>3, <2>4, <2>5 DEF Next, Working, Ended
<1>1. CASE UNCHANGED work
  <2>1. Sound(work', {}) /\ Unattempted(work') <=> Sound(work, {}) /\ Unattempted(work)
    BY <1>1
  <2>2. fetched' = {} => fetched = {}
    BY WhoChanges DEF fetch_answered
  <2> QED BY <1>0, <1>1, <1>e, <2>2 DEF Worked, EarlyStages, Unattempted
<1>2. CASE fetch_answered
  <2>1. PICK p \in Pages, f \in LinkedFetches :
               /\ work' = take_document(work, p, f)
               /\ fetched' = fetched \cup (IF Fetched(p) THEN {Source(p)} ELSE {})
    BY <1>2 DEF fetch_answered
  <2>2. Collected(work, {}) /\ Answering(f)
    BY <1>2, AgentFacts DEF Worked, EarlyStages, Collected, fetch_answered, FetchLoop, ControlTypes
  <2>3. Collected(work', {}) /\ (~Fetched(p) => work'.queue = work.queue /\ work'.seen = work.seen)
    BY <2>1, <2>2, TakeDocumentIsSound
  <2> QED BY <1>0, <2>1, <2>3 DEF Worked, EarlyStages, Collected, Unattempted
<1>3. CASE select_documents
  <2>1. stage' = "EVENT_EXTRACTION" /\ fetched' = fetched
    BY <1>3 DEF select_documents, GoTo, fetchVars
  <2> QED BY <1>0, <1>3, <2>1, SelectionIsSound DEF Worked, EarlyStages
<1>4. CASE extraction_failed \/ extracted
  <2>1. stage' = "EVENT_EXTRACTION" /\ fetched' = fetched
    <3>1. CASE extracted
      BY <3>1, ExtractedChanges, WhoChanges DEF ExtractionLoop, fetch_answered, FetchLoop
    <3> QED BY <1>4, <3>1 DEF extraction_failed, ExtractionLoop, Advance, fetchVars
  <2> QED BY <1>0, <1>4, <2>1, ExtractionLeavesOutcome DEF Worked, EarlyStages
<1> QED BY <1>1, <1>2, <1>3, <1>4, WhoChanges

\* The outcomes of the documents that were given to the extractor.
Tried(w) == Chosen(w.outcomes, {i \in DOMAIN w.outcomes : w.outcomes[i].attempted})

\* They are outcomes; where nothing was attempted there are none.
LEMMA TriedFacts ==
    ASSUME NEW w, w.outcomes \in Seq(Outcome)
    PROVE  /\ Tried(w) \in Seq(Outcome)
           /\ Unattempted(w) => Tried(w) = <<>>
           /\ \A i \in 1 .. Len(Tried(w)) : Tried(w)[i] \in ToSet(Tried(w))
<1> DEFINE I == {i \in DOMAIN w.outcomes : w.outcomes[i].attempted}
           d == Chosen(w.outcomes, I)
<1>1. d \in Seq(Outcome)
  <2> HIDE DEF I, Outcome
  <2> QED BY ChosenRange
<1>2. ASSUME Unattempted(w) PROVE d = <<>>
  <2>1. I = {}
    BY <1>2 DEF Unattempted
  <2> HIDE DEF I, Outcome
  <2>2. I \cap DOMAIN w.outcomes = {}
    BY <2>1
  <2> QED BY <2>2, ChosenNothing
<1>3. Tried(w) = d
  BY DEF Tried
<1> HIDE DEF d, Outcome
<1>4. \A i \in 1 .. Len(d) : d[i] \in ToSet(d)
  BY <1>1 DEF ToSet
<1> QED BY <1>1, <1>2, <1>3, <1>4

\* A further attempt is the last of them.
LEMMA TriedGrows ==
    ASSUME NEW w, w.outcomes \in Seq(Outcome), NEW v, NEW o \in Outcome, o.attempted,
           v.outcomes = Append(w.outcomes, o)
    PROVE  Tried(v) = Append(Tried(w), o)
<1> DEFINE s == w.outcomes
           t == Append(s, o)
           I == {i \in DOMAIN s : s[i].attempted}
           J == {i \in DOMAIN t : t[i].attempted}
<1> HIDE DEF Outcome
<1>1. /\ DOMAIN s = 1 .. Len(s) /\ DOMAIN t = 1 .. (Len(s) + 1) /\ Len(s) \in Nat /\ t[Len(s) + 1] = o
      /\ \A i \in 1 .. Len(s) : t[i] = s[i]
  OBVIOUS
<1>2. \A i \in 1 .. Len(s) : i \in I <=> i \in J
  <2> HIDE DEF s, t
  <2> QED BY <1>1
<1>3. Len(s) + 1 \in J
  <2> HIDE DEF s, t
  <2> QED BY <1>1
<1>4. Chosen(t, J) = IF Len(s) + 1 \in J THEN Append(Chosen(s, I), o) ELSE Chosen(s, I)
  <2>1. s \in Seq(Outcome)
    OBVIOUS
  <2> HIDE DEF I, J, s, t
  <2>2. Chosen(Append(s, o), J) = IF Len(s) + 1 \in J THEN Append(Chosen(s, I), o) ELSE Chosen(s, I)
    BY <1>2, <2>1, ChosenAppend
  <2> QED BY <2>2 DEF t
<1>5. Tried(w) = Chosen(s, I) /\ Tried(v) = Chosen(t, J)
  BY DEF Tried
<1> HIDE DEF I, J
<1> QED BY <1>3, <1>4, <1>5

\* The first of the selected documents are protected.
LEMMA ProtectedDocuments ==
    ASSUME ControlTypes, ExtractionLoop, Source(Document) \notin protected_extraction_ids
    PROVE  next > MinDocuments
<1>1. next \in 1 .. Len(selected) /\ Document = selected[next] /\ selected \in Seq(Pages) /\ MinDocuments \in Nat
  BY DocumentIsSelected, AgentFacts DEF ControlTypes
<1> DEFINE first == Prefix(selected, MinDocuments)
<1>2. /\ first \in Seq(Pages) /\ \A j \in 1 .. Len(first) : first[j] = selected[j]
      /\ \A j \in 1 .. Len(selected) : j <= MinDocuments => j <= Len(first)
  BY <1>1, PrefixIsPart
<1> HIDE DEF first
<1>3. DOMAIN first = 1 .. Len(first) /\ Len(first) \in Nat
  BY <1>2
<1>4. next <= MinDocuments => next \in DOMAIN first /\ first[next] = Document
  BY <1>1, <1>2, <1>3
<1>5. next <= MinDocuments => Document \in ToSet(first)
  BY <1>4 DEF ToSet
<1>6. ~(next <= MinDocuments)
  BY <1>5 DEF protected_extraction_ids, first
<1> QED BY <1>1, <1>6

\* What the steps of the documents' loop have in common.
LEMMA ReadingFacts ==
    ASSUME ControlTypes, Worked, [Next]_vars
    PROVE  /\ agent' = agent /\ MaxExtract' = MaxExtract /\ MaxExtract \in Nat /\ MinDocuments \in Nat
           /\ provider_failures \subseteq provider_failures' /\ (stopped => stopped') /\ (OwnedUp(1) => OwnedUp(1)')
           /\ selected \in Seq(Pages) /\ Len(selected) \in Nat /\ candidates \in Seq(Pages)
           /\ work.queue \in Seq(Pages) /\ Len(work.queue) \in Nat
           /\ Len(Prefix(selected, MinDocuments)) = IF MinDocuments < Len(selected) THEN MinDocuments ELSE Len(selected)
           /\ next \in Nat \ {0} /\ Len(attempted_documents) \in Nat
           /\ work.outcomes \in Seq(Outcome) /\ attempted_documents = Tried(work)
           /\ attempted_documents' = Tried(work')
           /\ attempted_documents \in Seq(Outcome)
           /\ stage \in EarlyStages => attempted_documents = <<>>
<1>1. agent' = agent
  BY NothingIsTakenBack DEF Worked
<1>2. MaxExtract' = MaxExtract
  BY <1>1, AgentStays
<1>3. MaxExtract \in Nat /\ MinDocuments \in Nat /\ selected \in Seq(Pages)
  BY AgentFacts DEF ControlTypes
<1>4. provider_failures \subseteq provider_failures' /\ (stopped => stopped')
  BY NothingIsTakenBack DEF Worked
<1>5. OwnedUp(1) => OwnedUp(1)'
  BY OwnedUpStays DEF Worked
<1>6. Len(Prefix(selected, MinDocuments)) = IF MinDocuments < Len(selected) THEN MinDocuments ELSE Len(selected)
  BY <1>3, PrefixIsPart
<1>7. work.queue \in Seq(Pages)
  BY DEF Worked, Sound
<1>8. candidates \in Seq(Pages) /\ next \in Nat \ {0}
  BY DEF ControlTypes
<1>9. work.outcomes \in Seq(Outcome) /\ (stage \in EarlyStages => Unattempted(work))
  BY DEF Worked, Sound
<1>10. attempted_documents = Tried(work) /\ attempted_documents' = Tried(work')
  BY DEF attempted_documents, Tried
<1> HIDE DEF Outcome
<1>11. attempted_documents \in Seq(Outcome) /\ (stage \in EarlyStages => attempted_documents = <<>>)
  BY <1>9, <1>10, TriedFacts
<1>12. Len(attempted_documents) \in Nat
  BY <1>11
<1> QED BY <1>1, <1>2, <1>3, <1>4, <1>5, <1>6, <1>7, <1>8, <1>9, <1>10, <1>11, <1>12

\* Before the selection there is nothing to read.
LEMMA NothingRead ==
    ASSUME ControlTypes, Worked, [Next]_vars,
           stage' \in EarlyStages, selected' = <<>>, candidates' = <<>>, attempted_documents' = <<>>
    PROVE  Reading'
<1>1. MaxExtract' \in Nat /\ ToSet(<<>>) = {} /\ Len(<<>>) = 0
  BY ReadingFacts DEF ToSet
<1>2. ~ExtractionLoop' /\ ~ExtractionOver' /\ stage' \notin LateStages
  BY DEF ExtractionLoop, ExtractionOver, EarlyStages, LateStages
<1>3. ReadingCounts'
  BY <1>1, <1>2 DEF ReadingCounts
<1>4. ReadingOrder'
  BY <1>1 DEF ReadingOrder
<1>5. Selecting'
  BY <1>1, <1>2 DEF Selecting
<1> QED BY <1>3, <1>4, <1>5 DEF Reading

\* A step that reads nothing keeps what was read.
LEMMA ReadingKept ==
    ASSUME ControlTypes, Worked, Reading, [Next]_vars,
           selected' = selected, candidates' = candidates, work' = work,
           ExtractionLoop' => ExtractionLoop /\ next' = next,
           ExtractionOver' /\ Len(attempted_documents) < Len(selected) => OwnedUp(1)',
           ExtractionOver' /\ ~stopped' => Len(attempted_documents) >= Len(Prefix(selected, MinDocuments)),
           stage' \in EarlyStages => stage \in EarlyStages,
           stage' \in LateStages => stage \in LateStages
    PROVE  Reading'
<1>1. attempted_documents' = attempted_documents /\ MaxExtract' = MaxExtract
      /\ provider_failures \subseteq provider_failures'
  BY ReadingFacts
<1>2. ReadingCounts'
  BY <1>1 DEF ReadingCounts, Reading
<1>3. ReadingOrder'
  BY <1>1 DEF ReadingOrder, Reading, Told
<1>4. Selecting'
  BY <1>1 DEF Selecting, Reading
<1> QED BY <1>2, <1>3, <1>4 DEF Reading

\* An extraction adds its document to what was read.
LEMMA ReadingGrows ==
    ASSUME ControlTypes, Asking, Worked, Reading, [Next]_vars, extraction_failed \/ extracted
    PROVE  Reading'
<1> DEFINE tried == attempted_documents
           n == Len(tried)
<1>1. PICK o \in Outcome :
            /\ Sound(work', {}) /\ work'.queue = work.queue /\ work'.seen = work.seen
            /\ work'.outcomes = Append(work.outcomes, o)
            /\ o.attempted /\ o.page = Document
            /\ \/ o.status = "PROVIDER_ERROR" /\ provider_failures' # {} /\ candidates' = candidates
               \/ /\ o.status \in {"CANDIDATES_EXTRACTED", "REFERENCE_FINDINGS_ONLY", "NO_DISCRETE_EVENT"}
                  /\ candidates' = IF o.status = "CANDIDATES_EXTRACTED" THEN Append(candidates, Document)
                                   ELSE candidates
  <2> HIDE DEF Outcome
  <2> QED BY ExtractionLeavesOutcome DEF Worked
<1>2. /\ ExtractionLoop /\ stage' = stage /\ next' = next + 1 /\ selected' = selected
      /\ stage = "EVENT_EXTRACTION"
  <2>1. CASE extracted
    BY <2>1, ExtractedChanges, WhoChanges DEF ExtractionLoop, select_documents
  <2>2. CASE extraction_failed
    BY <2>2 DEF extraction_failed, ExtractionLoop, Advance, extractVars
  <2> QED BY <2>1, <2>2
<1>3. /\ work.outcomes \in Seq(Outcome) /\ tried = Tried(work) /\ attempted_documents' = Tried(work')
      /\ tried \in Seq(Outcome) /\ n \in Nat /\ MaxExtract' = MaxExtract
      /\ provider_failures \subseteq provider_failures' /\ selected \in Seq(Pages) /\ Len(selected) \in Nat
      /\ candidates \in Seq(Pages) /\ next \in Nat \ {0}
      /\ Len(Prefix(selected, MinDocuments)) = IF MinDocuments < Len(selected) THEN MinDocuments ELSE Len(selected)
      /\ MinDocuments \in Nat
  BY ReadingFacts
<1>4. attempted_documents' = Append(tried, o)
  <2> HIDE DEF Outcome, tried
  <2> QED BY <1>1, <1>3, TriedGrows
<1>5. n = next - 1 /\ next \in 1 .. Len(selected) /\ Document = selected[next] /\ Document \in Pages
  BY <1>2, DocumentIsSelected DEF Reading, ReadingCounts
<1>6. \A i \in 1 .. n : tried[i].page = selected[i] /\ Told(tried[i])
  BY DEF Reading, ReadingOrder
<1>7. Selecting
  BY DEF Reading
<1> HIDE DEF tried, Outcome
<1>8. /\ Len(Append(tried, o)) = n + 1 /\ Append(tried, o)[n + 1] = o
      /\ \A i \in 1 .. n : Append(tried, o)[i] = tried[i]
  BY <1>3, <1>1
<1>9. /\ Len(attempted_documents') = n + 1 /\ attempted_documents'[n + 1] = o
      /\ \A i \in 1 .. n : attempted_documents'[i] = tried[i]
  BY <1>4, <1>8
<1>10. Append(candidates, Document) # <<>> /\ ToSet(Append(candidates, Document)) = ToSet(candidates) \cup {Document}
  <2> DEFINE c == candidates
             d == Document
  <2>1. c \in Seq(Pages) /\ d \in Pages
    BY <1>3, <1>5
  <2> HIDE DEF c, d
  <2>2. ToSet(Append(c, d)) = ToSet(c) \cup {d}
    BY <2>1, AppendRange
  <2>3. Len(Append(c, d)) = Len(c) + 1 /\ Len(c) \in Nat
    BY <2>1
  <2>4. Append(c, d) # <<>>
    BY <2>3
  <2> QED BY <2>2, <2>4 DEF c, d
<1>11. ReadingCounts'
  <2>1. n + 1 <= Len(selected) /\ n + 1 = next' - 1
    BY <1>2, <1>3, <1>5
  <2>2. ExtractionOver' => n + 1 >= Len(selected)
    BY <1>2, <1>3, <1>5 DEF ExtractionOver, ExtractionLoop
  <2> HIDE DEF n
  <2> QED BY <1>2, <1>3, <1>9, <2>1, <2>2 DEF ReadingCounts
<1>12. ASSUME NEW x, Told(x) \/ x = o
       PROVE  /\ x.status \in Attempts
              /\ x.status = "PROVIDER_ERROR" => provider_failures' # {}
              /\ x.status = "CANDIDATES_EXTRACTED" => candidates' # <<>>
  <2>1. candidates # <<>> => candidates' # <<>>
    BY <1>1, <1>10
  <2>2. CASE Told(x)
    BY <1>3, <2>1, <2>2 DEF Told
  <2>3. CASE x = o
    BY <1>1, <1>10, <2>3 DEF Attempts
  <2> QED BY <1>12, <2>2, <2>3
<1> DEFINE tried2 == attempted_documents'
<1>13. ReadingOrder'
  <2> HIDE DEF tried2
  <2>1. ASSUME NEW i \in 1 .. (n + 1)
        PROVE  /\ tried2[i].page = selected[i] /\ tried2[i].status \in Attempts
               /\ tried2[i].status = "PROVIDER_ERROR" => provider_failures' # {}
               /\ tried2[i].status = "CANDIDATES_EXTRACTED" => candidates' # <<>>
    <3>1. CASE i = n + 1
      <4>1. tried2[i] = o /\ selected[i] = Document
        BY <1>3, <1>5, <1>9, <3>1 DEF tried2
      <4> QED BY <1>1, <1>12, <4>1
    <3>2. CASE i # n + 1
      <4>1. i \in 1 .. n
        BY <1>3, <3>2
      <4>2. tried2[i] = tried[i] /\ tried[i].page = selected[i] /\ Told(tried[i])
        BY <1>6, <1>9, <4>1 DEF tried2
      <4> QED BY <1>12, <4>2
    <3> QED BY <3>1, <3>2
  <2> QED BY <1>2, <1>9, <2>1 DEF ReadingOrder, Told, tried2
<1>14. Selecting'
  <2>1. Document \in ToSet(selected)
    BY <1>3, <1>5 DEF ToSet
  <2>2. ToSet(candidates') \subseteq ToSet(selected)
    BY <1>1, <1>7, <1>10, <2>1 DEF Selecting
  <2> QED BY <1>1, <1>2, <1>3, <1>7, <2>2 DEF Selecting, EarlyStages, LateStages
<1> QED BY <1>11, <1>13, <1>14 DEF Reading

\* The documents attempted follow those selected.
LEMMA ReadingStep ==
    ASSUME ControlTypes, Asking, Worked, Reading, [Next]_vars
    PROVE  Reading'
<1>1. ASSUME stage \in EarlyStages, stage' \in EarlyStages, ~select_documents, ~extracted PROVE Reading'
  <2>1. selected' = <<>> /\ candidates' = <<>>
    BY <1>1, WhoChanges DEF Reading, Selecting
  <2>2. Worked' /\ agent' = agent /\ attempted_documents' = Tried(work')
    BY WorkedStep, ReadingFacts
  <2>3. work'.outcomes \in Seq(Outcome) /\ Unattempted(work')
    <3>1. Sound(work', {}) /\ Unattempted(work')
      BY <1>1, <2>2, AgentStays DEF Worked, Sound, Accounted, Unattempted, EarlyStages
    <3> QED BY <3>1 DEF Sound
  <2>4. attempted_documents' = <<>>
    BY <2>2, <2>3, TriedFacts
  <2> QED BY <1>1, <2>1, <2>4, NothingRead
<1>2. CASE select_documents
  <2>1. /\ stage = "DOCUMENT_FETCH" /\ stage' = "EVENT_EXTRACTION" /\ next' = 1 /\ candidates' = candidates
    BY <1>2 DEF select_documents, GoTo
  <2>2. /\ Sound(work', {}) /\ Unattempted(work') /\ work'.queue = work.queue
        /\ Len(selected') = IF MaxExtract < Len(work.queue) THEN MaxExtract ELSE Len(work.queue)
    BY <1>2, <2>1, SelectionIsSound DEF Worked, EarlyStages
  <2>3. attempted_documents' = <<>>
    <3>1. work'.outcomes \in Seq(Outcome)
      BY <2>2 DEF Sound
    <3> QED BY ReadingFacts, <2>2, <3>1, TriedFacts
  <2>4. candidates' = <<>> /\ ToSet(<<>>) = {} /\ Len(<<>>) = 0
    BY <2>1 DEF Reading, Selecting, EarlyStages, ToSet
  <2>5. /\ selected' \in Seq(Pages) /\ Len(selected') \in Nat /\ Len(selected') <= MaxExtract
        /\ MaxExtract' = MaxExtract /\ MinDocuments \in Nat
    <3>1. ControlTypes' /\ agent' = agent /\ MaxExtract' = MaxExtract /\ MaxExtract \in Nat /\ MinDocuments \in Nat
          /\ work.queue \in Seq(Pages) /\ Len(work.queue) \in Nat
      BY ControlTypesStep, ReadingFacts DEF Worked
    <3>2. selected' \in Seq(Pages)
      BY <3>1, AgentStays DEF ControlTypes
    <3>3. Len(selected') \in Nat
      BY <3>2
    <3> QED BY <2>2, <3>1, <3>2, <3>3
  <2>6. ~ExtractionLoop' => Len(selected') = 0
    BY <2>1, <2>5 DEF ExtractionLoop
  <2>7. ~ExtractionLoop' => Len(Prefix(selected', MinDocuments)) = 0
    <3> DEFINE s2 == selected'
               n2 == MinDocuments
    <3>1. s2 \in Seq(Pages) /\ n2 \in Nat
      BY <2>5
    <3> HIDE DEF s2, n2
    <3>2. Len(Prefix(s2, n2)) = IF n2 < Len(s2) THEN n2 ELSE Len(s2)
      BY <3>1, PrefixIsPart
    <3> QED BY <2>6, <3>1, <3>2 DEF s2, n2
  <2>8. ReadingCounts'
    BY <2>1, <2>3, <2>4, <2>5, <2>6, <2>7 DEF ReadingCounts, ExtractionOver
  <2>9. ReadingOrder'
    BY <2>3, <2>4 DEF ReadingOrder
  <2>10. Selecting'
    BY <2>1, <2>2, <2>4, <2>5 DEF Selecting, EarlyStages, LateStages
  <2> QED BY <2>8, <2>9, <2>10 DEF Reading
<1>3. CASE extraction_failed \/ extracted
  BY <1>3, ReadingGrows
<1>4. CASE extraction_cut
  <2>1. /\ ExtractionLoop /\ stage' = stage /\ next' = Len(selected) + 1 /\ work' = work /\ stage \in Stages
        /\ selected' = selected /\ candidates' = candidates /\ stage = "EVENT_EXTRACTION"
    BY <1>4 DEF extraction_cut, extractVars, ExtractionLoop, Stages
  <2>2. ~ExtractionLoop' /\ Len(attempted_documents) = next - 1 /\ next \in Nat
    BY <2>1, ReadingFacts DEF ExtractionLoop, Reading, ReadingCounts
  <2>3. \E counter \in {"cancellation", "optional_total_deadline"} : \E code : Skip(counter, code, 1)
    BY <1>4 DEF extraction_cut
  <2>4. OwnedUp(1)'
    BY <2>1, <2>3, CutOwnsUp
  <2>5. ~stopped' => Len(attempted_documents) >= Len(Prefix(selected, MinDocuments))
    <3>1. ~stopped => Source(Document) \notin protected_extraction_ids
      BY <1>4 DEF extraction_cut
    <3>2. ~stopped => next > MinDocuments
      BY <2>1, <3>1, ProtectedDocuments
    <3> QED BY ReadingFacts, <2>2, <3>2
  <2> QED BY <2>1, <2>2, <2>4, <2>5, ReadingKept DEF EarlyStages, LateStages
<1>5. ASSUME selected' = selected, candidates' = candidates, work' = work, ~ExtractionLoop,
             stage \in {"EVENT_EXTRACTION", "AGGREGATION"}, stage' \in {"AGGREGATION", "done"}
      PROVE  Reading'
  <2>1. ExtractionOver /\ ~ExtractionLoop' /\ stage' \notin EarlyStages /\ stage \in LateStages
    BY <1>5 DEF ExtractionOver, ExtractionLoop, EarlyStages, LateStages
  <2>2. /\ Len(attempted_documents) < Len(selected) => OwnedUp(1)'
        /\ ~stopped' => Len(attempted_documents) >= Len(Prefix(selected, MinDocuments))
    BY <2>1, ReadingFacts DEF Reading, ReadingCounts
  <2> QED BY <1>5, <2>1, <2>2, ReadingKept
<1>6. CASE extraction_done
  <2>1. /\ stage = "EVENT_EXTRACTION" /\ stage' = "AGGREGATION" /\ work' = work /\ ~ExtractionLoop
        /\ selected' = selected /\ candidates' = candidates
    BY <1>6, ReadingFacts DEF extraction_done, GoTo, extractVars, ExtractionLoop
  <2> QED BY <1>5, <2>1
<1>7. CASE aggregate
  <2>1. /\ stage = "AGGREGATION" /\ stage' = "done" /\ work' = work /\ ~ExtractionLoop
        /\ selected' = selected /\ candidates' = candidates
    BY <1>7 DEF aggregate, GoTo, extractVars, ExtractionLoop
  <2> QED BY <1>5, <2>1
<1>8. CASE Raise
  <2>1. stage' = "raised" /\ selected' = selected /\ candidates' = candidates /\ work' = work
    BY <1>8 DEF Raise, GoTo, extractVars
  <2>2. ~ExtractionLoop' /\ ~ExtractionOver' /\ stage' \notin EarlyStages /\ stage' \notin LateStages
    BY <2>1 DEF ExtractionLoop, ExtractionOver, EarlyStages, LateStages
  <2> QED BY <2>1, <2>2, ReadingKept
<1>9. CASE Stop \/ Tick \/ UNCHANGED vars
  <2>1. stage' = stage /\ next' = next /\ selected' = selected /\ candidates' = candidates /\ work' = work
    BY <1>9 DEF Stop, Tick, vars, extractVars
  <2>2. (ExtractionLoop' <=> ExtractionLoop) /\ (ExtractionOver' <=> ExtractionOver)
    BY <2>1 DEF ExtractionLoop, ExtractionOver
  <2>3. /\ ExtractionOver' /\ Len(attempted_documents) < Len(selected) => OwnedUp(1)'
        /\ ExtractionOver' /\ ~stopped' => Len(attempted_documents) >= Len(Prefix(selected, MinDocuments))
    BY <2>2, ReadingFacts DEF Reading, ReadingCounts
  <2> QED BY <2>1, <2>2, <2>3, ReadingKept
<1>10. CASE Seeding \/ Searching \/ (Fetching /\ ~select_documents)
  <2>1. CASE Seeding
    <3>1. stage = "SEED_COLLECTION" /\ stage' \in EarlyStages
      BY <2>1 DEF Seeding, seed_skipped, seed_raises, seed_fetched, seeds_done, SeedLoop, Advance, GoTo, EarlyStages
    <3>2. ~select_documents /\ ~extracted
      BY <3>1, ExtractedChanges DEF select_documents, ExtractionLoop
    <3> QED BY <1>1, <3>1, <3>2 DEF EarlyStages
  <2>2. CASE Searching
    <3>1. stage = "SEARCH_DISCOVERY" /\ stage' \in EarlyStages
      BY <2>2 DEF Searching, discovery_cut, query_starts, search_retried, search_failed, search_answered,
                  discovery_done, QueryLoop, Advance, GoTo, EarlyStages
    <3>2. ~select_documents /\ ~extracted
      BY <3>1, ExtractedChanges DEF select_documents, ExtractionLoop
    <3> QED BY <1>1, <3>1, <3>2 DEF EarlyStages
  <2>3. CASE Fetching /\ ~select_documents
    <3>1. stage = "DOCUMENT_FETCH" /\ stage' \in EarlyStages
      BY <2>3 DEF Fetching, fetch_cut, fetch_raises, fetch_answered, FetchLoop, Advance, EarlyStages
    <3>2. ~extracted
      BY <3>1, ExtractedChanges DEF ExtractionLoop
    <3> QED BY <1>1, <2>3, <3>1, <3>2 DEF EarlyStages
  <2> QED BY <1>10, <2>1, <2>2, <2>3
<1> QED BY <1>2, <1>3, <1>4, <1>6, <1>7, <1>8, <1>9, <1>10 DEF Next, Working, Fetching, Extracting, Ended

\* An attempt that gave no content left a failure.
LEMMA AccessingStep ==
    ASSUME ControlTypes, Sound(work, {}), Accessing, [Next]_vars
    PROVE  Accessing'
<1>1. failures \subseteq failures'
  <2>1. CASE fetch_raises
    BY <2>1 DEF fetch_raises
  <2>2. CASE fetch_answered
    BY <2>2 DEF fetch_answered
  <2> QED BY <2>1, <2>2, WhoChanges
<1>2. Pages' = Pages /\ Accesses' = Accesses /\ \A p : Fetched(p)' = Fetched(p)
  BY NothingIsTakenBack, AgentStays DEF Accesses
<1>3. CASE UNCHANGED <<fetch_attempts, accesses>>
  BY <1>1, <1>2, <1>3 DEF Accessing
<1>4. ASSUME NEW a \in Accesses, accesses' = Append(accesses, a), fetch_attempts' = fetch_attempts + 1,
             failures' = {} => a \in Pages /\ Fetched(a)
      PROVE  Accessing'
  <2>1. /\ accesses \in Seq(Accesses) /\ Len(accesses) = fetch_attempts /\ Len(accesses) \in Nat
        /\ failures' = {} => \A i \in 1 .. Len(accesses) : accesses[i] \in Pages /\ Fetched(accesses[i])
    BY <1>1 DEF Accessing
  <2>2. /\ accesses' \in Seq(Accesses) /\ Len(accesses') = Len(accesses) + 1
        /\ \A i \in 1 .. Len(accesses') :
              (i \in 1 .. Len(accesses) /\ accesses'[i] = accesses[i]) \/ accesses'[i] = a
    BY <1>4, <2>1
  <2>3. failures' = {} => \A i \in 1 .. Len(accesses') : accesses'[i] \in Pages /\ Fetched(accesses'[i])
    BY <1>4, <2>1, <2>2
  <2> QED BY <1>2, <1>4, <2>1, <2>2, <2>3 DEF Accessing
<1>5. CASE fetch_raises
  <2>1. PICK e \in Exceptions : accesses' = Append(accesses, e) /\ failures' # {}
    BY <1>5 DEF fetch_raises
  <2>2. fetch_attempts' = fetch_attempts + 1 /\ e \in Accesses
    BY <1>5, <2>1 DEF fetch_raises, Accesses
  <2> QED BY <1>4, <2>1, <2>2
<1>6. CASE fetch_answered
  <2>1. PICK p \in Pages : /\ accesses' = Append(accesses, p)
                           /\ failures' = {} => Fetched(p)
    BY <1>6 DEF fetch_answered
  <2>2. fetch_attempts' = fetch_attempts + 1 /\ p \in Accesses
    BY <1>6, <2>1 DEF fetch_answered, Accesses
  <2> QED BY <1>4, <2>1, <2>2
<1> QED BY <1>3, <1>5, <1>6, WhoChanges

\* A seed that timed out left a failure.
LEMMA TimelyStep ==
    ASSUME ControlTypes, Sound(work, {}), Timely, [Next]_vars
    PROVE  Timely'
<1>1. provider_failures \subseteq provider_failures' /\ Page' = Page
  BY NothingIsTakenBack, AgentStays DEF Page
<1>2. CASE UNCHANGED prefetched
  BY <1>1, <1>2 DEF Timely
<1>3. CASE seed_fetched
  <2>1. PICK p \in Pages : /\ prefetched' = Put(prefetched, Seed, p)
                           /\ Page[p].access = "TIMEOUT" => provider_failures' # {}
    BY <1>3 DEF seed_fetched, Failing
  <2>2. \A u \in DOMAIN prefetched' :
           prefetched'[u] = p \/ (u \in DOMAIN prefetched /\ prefetched'[u] = prefetched[u])
    BY <2>1 DEF Put
  <2> QED BY <1>1, <2>1, <2>2 DEF Timely
<1> QED BY <1>2, <1>3, WhoChanges

\* A seed that brought no page left a failure.
LEMMA SeededStep ==
    ASSUME ControlTypes, Sound(work, {}), Seeded, [Next]_vars
    PROVE  Seeded'
<1>1. /\ Seeds' = Seeds /\ Seeds \in Seq(Urls) /\ Len(Seeds) \in Nat /\ next \in Nat \ {0}
      /\ provider_failures \subseteq provider_failures'
  BY NothingIsTakenBack, AgentStays, AgentFacts DEF ControlTypes
<1>2. DOMAIN prefetched \subseteq DOMAIN prefetched'
  <2>1. CASE seed_fetched
    BY <2>1 DEF seed_fetched, Put
  <2> QED BY <2>1, WhoChanges
<1>3. stage = "SEED_COLLECTION" /\ next > Len(Seeds) /\ provider_failures = {} =>
        ToSet(Seeds) \subseteq DOMAIN prefetched
  BY <1>1 DEF Seeded, ToSet
<1>4. CASE seed_fetched
  <2>1. /\ stage = "SEED_COLLECTION" /\ stage' = stage /\ next' = next + 1
        /\ Seeds[next] \in DOMAIN prefetched'
    BY <1>4 DEF seed_fetched, SeedLoop, Advance, Put, Seed
  <2> QED BY <1>1, <1>2, <2>1 DEF Seeded
<1>5. CASE seed_skipped \/ seed_raises
  <2>1. provider_failures' # {} /\ stage' = "SEED_COLLECTION"
    BY <1>5 DEF seed_skipped, seed_raises, Skip, Failing, Advance, SeedLoop
  <2> QED BY <2>1 DEF Seeded
<1>6. CASE seeds_done
  <2>1. stage' = "SEARCH_DISCOVERY" /\ stage = "SEED_COLLECTION" /\ next > Len(Seeds)
    BY <1>6 DEF seeds_done, GoTo
  <2> QED BY <1>1, <1>2, <1>3, <2>1 DEF Seeded
<1>7. ASSUME stage # "SEED_COLLECTION", stage' # "SEED_COLLECTION" PROVE Seeded'
  BY <1>1, <1>2, <1>7 DEF Seeded
<1>8. CASE Searching
  BY <1>7, <1>8 DEF Searching, discovery_cut, query_starts, search_retried, search_failed, search_answered,
     discovery_done, QueryLoop, Advance, GoTo
<1>9. CASE Fetching
  BY <1>7, <1>9 DEF Fetching, fetch_cut, fetch_raises, fetch_answered, select_documents, FetchLoop, Advance, GoTo
<1>10. CASE Extracting
  <2>1. CASE extracted
    <3>1. stage = "EVENT_EXTRACTION" /\ stage' = stage
      BY <2>1, ExtractedChanges DEF ExtractionLoop
    <3> QED BY <1>7, <3>1
  <2> QED BY <1>7, <1>10, <2>1 DEF Extracting, extraction_cut, extraction_failed, extraction_done, ExtractionLoop,
             Advance, GoTo
<1>11. CASE aggregate \/ Raise
  BY <1>7, <1>11 DEF aggregate, Raise, GoTo
<1>12. CASE Stop \/ Tick \/ UNCHANGED vars
  <2>1. stage' = stage /\ next' = next
    BY <1>12 DEF Stop, Tick, vars
  <2> QED BY <1>1, <1>2, <2>1 DEF Seeded
<1> QED BY <1>4, <1>5, <1>6, <1>8, <1>9, <1>10, <1>11, <1>12 DEF Next, Working, Seeding, Ended

\* Only the last step makes a bundle, and nothing follows it.
LEMMA ReportedStep ==
    ASSUME ControlTypes, Sound(work, {}), Reported, [Next]_vars
    PROVE  Reported'
<1>1. CASE aggregate
  <2> DEFINE all == provider_failures'
  <2>1. /\ stage' = "done" /\ failures' = failures /\ selected' = selected /\ candidates' = candidates
        /\ hits' = hits /\ fetched' = fetched /\ timeout_stage' = timeout_stage /\ stopped' = stopped
        /\ work' = work
    BY <1>1 DEF aggregate, GoTo, envVars, seedVars, searchVars, fetchVars, extractVars, hits, Seeds
  <2>2. result' = [status |-> IF failures # {} \/ all # {} \/ selected = <<>> THEN "PARTIAL" ELSE "COMPLETED",
                   reasons |-> no_result_reasons(all # {})]
    BY <1>1 DEF aggregate
  <2>3. result' = [status |-> IF failures' # {} \/ all # {} \/ selected' = <<>> THEN "PARTIAL" ELSE "COMPLETED",
                   reasons |-> no_result_reasons(provider_failures # {})']
    BY <2>1, <2>2 DEF no_result_reasons
  <2> QED BY <2>1, <2>3 DEF Reported
<1>2. CASE ~aggregate
  <2>1. result' = result
    BY <1>2, WhoChanges
  <2>2. CASE UNCHANGED vars
    <3>1. /\ stage' = stage /\ failures' = failures /\ selected' = selected /\ candidates' = candidates
          /\ hits' = hits /\ fetched' = fetched /\ timeout_stage' = timeout_stage /\ stopped' = stopped
          /\ work' = work /\ provider_failures' = provider_failures
      BY <2>2 DEF vars, envVars, seedVars, searchVars, fetchVars, logVars, extractVars, hits, Seeds
    <3> QED BY <2>1, <3>1 DEF Reported, no_result_reasons
  <2>3. CASE ~UNCHANGED vars
    <3>1. stage # "done" /\ stage' # "done"
      <4>1. CASE Seeding
        BY <4>1 DEF Seeding, seed_skipped, seed_raises, seed_fetched, seeds_done, SeedLoop, Advance, GoTo
      <4>2. CASE Searching
        BY <4>2 DEF Searching, discovery_cut, query_starts, search_retried, search_failed, search_answered,
           discovery_done, QueryLoop, Advance, GoTo
      <4>3. CASE Fetching
        BY <4>3 DEF Fetching, fetch_cut, fetch_raises, fetch_answered, select_documents, FetchLoop, Advance, GoTo
      <4>4. CASE Extracting
        <5>1. CASE extracted
          BY <5>1, ExtractedChanges DEF ExtractionLoop
        <5> QED BY <4>4, <5>1 DEF Extracting, extraction_cut, extraction_failed, extraction_done, ExtractionLoop,
                   Advance, GoTo
      <4>5. CASE Raise \/ Stop \/ Tick
        BY <4>5 DEF Raise, Stop, Tick, GoTo, Running, Stages
      <4> QED BY <1>2, <2>3, <4>1, <4>2, <4>3, <4>4, <4>5 DEF Next, Working, Ended
    <3> QED BY <2>1, <3>1 DEF Reported
  <2> QED BY <2>2, <2>3
<1> QED BY <1>1, <1>2

-----------------------------------------------------------------------------
(* The inductive invariant.                                                 *)

IInv == ControlTypes /\ Worked /\ Asking /\ Trying /\ Accessing /\ Reading /\ Timely /\ Seeded /\ Reported

\* It holds when the agent starts.
LEMMA IInvInit == Init => IInv
<1> SUFFICES ASSUME Init PROVE IInv
  OBVIOUS
<1>1. /\ agent \in Agents /\ stage = "SEED_COLLECTION" /\ next = 1 /\ attempt = 0 /\ stopped \in BOOLEAN
      /\ clock \in {"ample", "reserve", "exhausted"} /\ prefetched = <<>>
      /\ query_records = <<>> /\ found = <<>> /\ failures = {} /\ provider_failures = {}
      /\ timeout_stage = "none" /\ skipped = [c \in Counters |-> 0]
      /\ work = NoWork /\ fetched = {} /\ fetch_attempts = 0 /\ accesses = <<>>
      /\ selected = <<>> /\ candidates = <<>> /\ result = NoResult
  BY DEF Init
<1>2. /\ DOMAIN NoWork = WorkFields /\ NoWork.saved = {} /\ NoWork.seen = {} /\ NoWork.queue = <<>>
      /\ NoWork.outcomes = <<>> /\ NoWork.documents = <<>>
  BY DEF NoWork, WorkFields
<1>3. /\ ToSet(<<>>) = {} /\ Len(<<>>) = 0 /\ DOMAIN <<>> = {}
  BY DEF ToSet
<1>4. <<>> \in Seq(Pages) /\ <<>> \in Seq(Outcome) /\ <<>> \in Seq(Urls \ ToSet(Seeds))
  OBVIOUS
<1>5. ControlTypes
  <2>1. MaxRetries \in Nat /\ Len(attempted_queries) \in Nat
    BY <1>1, AgentFacts
  <2>2. IsInjective(<<>>)
    BY <1>3 DEF IsInjective
  <2>3. skipped \in [Counters -> Nat]
    BY <1>1
  <2>4. /\ query_records \in Seq({"FAILED", "NO_RESULTS", "COMPLETED"})
        /\ Len(query_records) <= Len(attempted_queries)
        /\ found \in Seq(Urls \ ToSet(Seeds)) /\ IsInjective(found)
        /\ selected \in Seq(Pages) /\ candidates \in Seq(Pages)
    BY <1>1, <1>3, <1>4, <2>1, <2>2
  <2>5. DOMAIN prefetched \subseteq ToSet(Seeds) /\ \A u \in DOMAIN prefetched : prefetched[u] \in Pages
    BY <1>1, <1>3
  <2>6. attempt \in 0 .. (MaxRetries + 1) /\ next \in Nat \ {0} /\ fetch_attempts \in Nat
    BY <1>1, <2>1
  <2>7. /\ failures \subseteq [url : Urls, code : Codes]
        /\ provider_failures \subseteq [stage : Stages, code : Codes, source : Sources]
        /\ timeout_stage \in Stages \cup {"none"} /\ stage \in Stages
    BY <1>1 DEF Stages
  <2> QED BY <1>1, <2>3, <2>4, <2>5, <2>6, <2>7 DEF ControlTypes
<1>6. Worked
  <2>1. Sound(work, {})
    BY <1>1, <1>2, <1>3, <1>4 DEF Sound
  <2>2. Unattempted(work)
    BY <1>1, <1>2, <1>3 DEF Unattempted
  <2> QED BY <1>1, <1>2, <2>1, <2>2 DEF Worked
<1>7. Asking
  BY <1>1, <1>3 DEF Asking, QueryLoop
<1>8. Trying
  <2>1. Len(budgeted_hits) \in Nat
    BY <1>5, HitFacts
  <2> QED BY <1>1, <2>1 DEF Trying, FetchLoop, FetchingOver
<1>9. Reading
  <2>1. attempted_documents = <<>>
    <3>1. work.outcomes \in Seq(Outcome) /\ Unattempted(work) /\ attempted_documents = Tried(work)
      BY <1>6, <1>1 DEF Worked, Sound, EarlyStages, attempted_documents, Tried
    <3> QED BY <3>1, TriedFacts
  <2>2. MaxExtract \in Nat /\ ~ExtractionLoop /\ ~ExtractionOver /\ stage \notin LateStages
    BY <1>1, AgentFacts DEF ExtractionLoop, ExtractionOver, LateStages
  <2> QED BY <1>1, <1>3, <2>1, <2>2 DEF Reading, ReadingCounts, ReadingOrder, Selecting
<1>10. Seeded
  BY <1>1, AgentFacts DEF Seeded
<1>11. Reported
  BY <1>1 DEF Reported
<1>12. Accessing /\ Timely
  BY <1>1, <1>3 DEF Accessing, Timely
<1> QED BY <1>5, <1>6, <1>7, <1>8, <1>9, <1>10, <1>11, <1>12 DEF IInv

\* Every step keeps it.
LEMMA IInvStep == IInv /\ [Next]_vars => IInv'
<1> SUFFICES ASSUME IInv, [Next]_vars PROVE IInv'
  OBVIOUS
<1>1. /\ ControlTypes /\ Worked /\ Asking /\ Trying /\ Accessing /\ Reading /\ Timely /\ Seeded
      /\ Reported /\ Sound(work, {})
  BY DEF IInv, Worked
<1>2. ControlTypes' /\ Asking' /\ Trying' /\ Accessing' /\ Timely' /\ Seeded' /\ Reported'
  BY <1>1, ControlTypesStep, AskingStep, TryingStep, AccessingStep, TimelyStep, SeededStep, ReportedStep
<1>3. Worked' /\ Reading'
  BY <1>1, WorkedStep, ReadingStep
<1> QED BY <1>2, <1>3 DEF IInv

\* The invariant of the specification.
LEMMA Invariance == Spec => []IInv
  BY IInvInit, IInvStep, PTL DEF Spec

\* TypeOK holds.
THEOREM Typing == Spec => []TypeOK
<1>1. IInv => TypeOK
  <2> SUFFICES ASSUME IInv PROVE TypeOK
    OBVIOUS
  <2>1. ControlTypes /\ Trying /\ Reading /\ Sound(work, {}) /\ Reported
    BY DEF IInv, Worked
  <2>2. Range(prefetched) \subseteq Pages
    BY <2>1 DEF ControlTypes, Range
  <2>3. /\ work.queue \in Seq(Pages) /\ work.outcomes \in Seq(Outcome)
        /\ work.seen \subseteq work.saved /\ work.saved \subseteq Pages
        /\ \A s \in DOMAIN work.documents : Source(work.documents[s]) = s
    BY <2>1 DEF Sound
  <2>4. Len(selected) <= MaxExtract /\ ToSet(candidates) \subseteq ToSet(selected)
    BY <2>1 DEF Reading, Selecting
  <2>5. fetch_attempts <= Len(budgeted_hits) /\ Len(accesses) = fetch_attempts
    BY DEF IInv, Trying, Accessing
  <2>6. result.status \in {"none", "COMPLETED", "PARTIAL"}
    BY <2>1 DEF Reported, NoResult
  <2> QED BY <2>1, <2>2, <2>3, <2>4, <2>5, <2>6 DEF TypeOK, ControlTypes
<1> QED BY <1>1, Invariance, PTL

\* Work left undone was owned up to.
LEMMA LeftIsOwnedUp ==
    ASSUME IInv, Done
    PROVE  /\ Len(query_records) <= Len(attempted_queries) /\ fetch_attempts <= Len(budgeted_hits)
           /\ Len(attempted_documents) <= Len(selected)
           /\ Len(query_records) < Len(attempted_queries) => OwnedUp(Len(attempted_queries) - Len(query_records))
           /\ fetch_attempts < Len(budgeted_hits) =>
                 OwnedUp(1) /\ timeout_stage \in {"DOCUMENT_FETCH", "EVENT_EXTRACTION"}
           /\ Len(attempted_documents) < Len(selected) => OwnedUp(1)
           /\ Len(query_records) \in Nat /\ Len(attempted_queries) \in Nat /\ fetch_attempts \in Nat
           /\ Len(budgeted_hits) \in Nat /\ Len(attempted_documents) \in Nat /\ Len(selected) \in Nat
           /\ Skips \in Nat
<1>1. ~QueryLoop /\ FetchingOver /\ ExtractionOver
  BY DEF Done, QueryLoop, FetchingOver, FetchLoop, ExtractionOver, ExtractionLoop
<1>2. ControlTypes /\ Asking /\ Trying /\ Reading /\ Worked
  BY DEF IInv
<1>3. Len(attempted_queries) \in Nat /\ Len(query_records) \in Nat /\ Len(selected) \in Nat
  BY <1>2, AgentFacts DEF ControlTypes
<1>4. Len(budgeted_hits) \in Nat
  BY <1>2, HitFacts
<1>5. Len(attempted_documents) \in Nat
  <2>1. work.outcomes \in Seq(Outcome) /\ attempted_documents = Tried(work)
    BY <1>2 DEF Worked, Sound, attempted_documents, Tried
  <2> HIDE DEF Outcome
  <2>2. attempted_documents \in Seq(Outcome)
    BY <2>1, TriedFacts
  <2> QED BY <2>2
<1>6. Skips \in Nat
  BY <1>2 DEF Skips, ControlTypes, Counters
<1> QED BY <1>1, <1>2, <1>3, <1>4, <1>5, <1>6 DEF ControlTypes, Asking, Trying, Reading, ReadingCounts, Done

\* What a bundle reports of cut work.
THEOREM CutsAreOwnedUpTo == Spec => []CutsAreReported
<1>1. IInv => CutsAreReported
  <2> SUFFICES ASSUME IInv, Done, ~NothingCut
               PROVE  /\ timeout_stage # "none" /\ result.status = "PARTIAL"
                      /\ Skips >= Len(attempted_queries) - Len(query_records) /\ Skips > 0
    BY DEF CutsAreReported, Skips
  <2>1. OwnedUp(1)
    <3>1. OwnedUp(Len(attempted_queries) - Len(query_records)) /\ Len(query_records) < Len(attempted_queries) => OwnedUp(1)
      BY LeftIsOwnedUp DEF OwnedUp
    <3> QED BY <3>1, LeftIsOwnedUp DEF NothingCut
  <2>2. Skips > 0 /\ timeout_stage # "none" /\ provider_failures # {}
    BY <2>1, LeftIsOwnedUp DEF OwnedUp
  <2>3. Skips >= Len(attempted_queries) - Len(query_records)
    <3>1. CASE Len(query_records) < Len(attempted_queries)
      BY <3>1, LeftIsOwnedUp DEF OwnedUp
    <3>2. CASE ~(Len(query_records) < Len(attempted_queries))
      BY <3>2, LeftIsOwnedUp
    <3> QED BY <3>1, <3>2
  <2>4. result.status = "PARTIAL"
    BY <2>2 DEF IInv, Reported, Done
  <2> QED BY <2>2, <2>3, <2>4
<1> QED BY <1>1, Invariance, PTL

\* Without a failure nothing was cut and no attempt failed.
LEMMA FailureFreeIsWhole ==
    ASSUME IInv, Done, provider_failures = {}
    PROVE  /\ NothingCut /\ "FAILED" \notin ToSet(query_records) /\ ToSet(Seeds) = DOMAIN prefetched
           /\ \A u \in DOMAIN prefetched : Page[prefetched[u]].access # "TIMEOUT"
           /\ \A o \in ToSet(attempted_documents) :
                 /\ o.status \in Attempts \ {"PROVIDER_ERROR"}
                 /\ o.status = "CANDIDATES_EXTRACTED" => candidates # <<>>
<1>1. ControlTypes /\ Asking /\ Reading /\ Seeded
  BY DEF IInv
<1>2. \A n : ~OwnedUp(n)
  BY DEF OwnedUp
<1>3. NothingCut
  BY <1>2, LeftIsOwnedUp DEF NothingCut
<1>4. "FAILED" \notin ToSet(query_records)
  BY <1>1 DEF Asking
<1>5. ToSet(Seeds) = DOMAIN prefetched
  BY <1>1 DEF Seeded, ControlTypes, Done
<1>9. \A u \in DOMAIN prefetched : Page[prefetched[u]].access # "TIMEOUT"
  BY DEF IInv, Timely
<1>6. DOMAIN attempted_documents = 1 .. Len(attempted_documents)
  <2>1. work.outcomes \in Seq(Outcome) /\ attempted_documents = Tried(work)
    BY DEF IInv, Worked, Sound, attempted_documents, Tried
  <2> HIDE DEF Outcome
  <2>2. attempted_documents \in Seq(Outcome)
    BY <2>1, TriedFacts
  <2> QED BY <2>2
<1>7. \A i \in 1 .. Len(attempted_documents) : Told(attempted_documents[i])
  BY <1>1 DEF Reading, ReadingOrder
<1>8. \A o \in ToSet(attempted_documents) : Told(o)
  BY <1>6, <1>7 DEF ToSet
<1> QED BY <1>3, <1>4, <1>5, <1>8, <1>9 DEF Told

\* A COMPLETED bundle hides nothing: no attempt and no access failed.
THEOREM CompletedIsWhole == Spec => []CompletedMeansWhole
<1>1. IInv => CompletedMeansWhole
  <2> SUFFICES ASSUME IInv, result.status = "COMPLETED"
               PROVE  /\ NothingCut /\ "FAILED" \notin ToSet(query_records)
                      /\ ToSet(Seeds) = DOMAIN prefetched
                      /\ \A u \in DOMAIN prefetched : Page[prefetched[u]].access # "TIMEOUT"
                      /\ \A i \in DOMAIN budgeted_hits : accesses[i] \in Pages /\ Fetched(accesses[i])
                      /\ \A o \in ToSet(attempted_documents) : o.status # "PROVIDER_ERROR"
    BY DEF CompletedMeansWhole
  <2>1. Done /\ provider_failures = {} /\ failures = {}
    BY DEF IInv, Reported, NoResult, Done
  <2>2. NothingCut
    BY <2>1, FailureFreeIsWhole
  <2>3. DOMAIN budgeted_hits = 1 .. Len(budgeted_hits)
    BY HitFacts DEF IInv
  <2>4. Len(accesses) = Len(budgeted_hits)
    BY <2>2 DEF NothingCut, IInv, Accessing
  <2>5. \A i \in DOMAIN budgeted_hits : accesses[i] \in Pages /\ Fetched(accesses[i])
    BY <2>1, <2>3, <2>4 DEF IInv, Accessing
  <2> QED BY <2>1, <2>5, FailureFreeIsWhole
<1> QED BY <1>1, Invariance, PTL

\* The deadline leaves the protected minimum alone.
THEOREM ProtectedMinimum == Spec => []ProtectedWorkIsTried
<1>1. IInv => ProtectedWorkIsTried
  <2> SUFFICES ASSUME IInv, Done, ~stopped
               PROVE  /\ fetch_attempts >= Len(Prefix(budgeted_hits, Len(Seeds) + MinDocuments))
                      /\ \A p \in ToSet(Prefix(selected, MinDocuments)) : Attempted(p)
    BY DEF ProtectedWorkIsTried
  <2>1. FetchingOver /\ ExtractionOver
    BY DEF Done, FetchingOver, FetchLoop, ExtractionOver, ExtractionLoop
  <2>2. fetch_attempts >= Len(Prefix(budgeted_hits, Len(Seeds) + MinDocuments))
    BY <2>1 DEF IInv, Trying
  <2> DEFINE first == Prefix(selected, MinDocuments)
             tried == attempted_documents
  <2>3. selected \in Seq(Pages) /\ MinDocuments \in Nat
    BY AgentFacts DEF IInv, ControlTypes
  <2>4. first \in Seq(Pages) /\ \A i \in 1 .. Len(first) : first[i] = selected[i]
    BY <2>3, PrefixIsPart
  <2>5. Len(tried) >= Len(first) /\ \A i \in 1 .. Len(tried) : tried[i].page = selected[i]
    BY <2>1 DEF IInv, Reading, ReadingCounts, ReadingOrder
  <2>6. DOMAIN tried = 1 .. Len(tried) /\ Len(tried) \in Nat
    <3>1. work.outcomes \in Seq(Outcome) /\ tried = Tried(work)
      BY DEF IInv, Worked, Sound, attempted_documents, Tried
    <3> HIDE DEF Outcome, tried
    <3>2. tried \in Seq(Outcome)
      BY <3>1, TriedFacts
    <3> QED BY <3>2
  <2> HIDE DEF first, tried
  <2>7. ASSUME NEW i \in 1 .. Len(first) PROVE \E o \in ToSet(tried) : o.page = first[i]
    <3>1. i \in DOMAIN tried /\ tried[i].page = first[i]
      BY <2>4, <2>5, <2>6, <2>7
    <3> QED BY <3>1 DEF ToSet
  <2>8. DOMAIN first = 1 .. Len(first)
    BY <2>4
  <2>9. \A p \in ToSet(first) : Attempted(p)
    BY <2>7, <2>8 DEF ToSet, Attempted, tried
  <2> QED BY <2>2, <2>9 DEF first
<1> QED BY <1>1, Invariance, PTL

\* The reasons for an empty result are true.
THEOREM ReasonsAreTrue == Spec => []ReasonsTellTheTruth
<1>1. IInv => ReasonsTellTheTruth
  <2> SUFFICES ASSUME IInv PROVE ReasonsTellTheTruth
    OBVIOUS
  <2>1. CASE ~Done
    BY <2>1 DEF IInv, Reported, NoResult, Done, ReasonsTellTheTruth
  <2>2. CASE Done
    <3> DEFINE failed == provider_failures # {}
    <3>1. result.reasons = no_result_reasons(failed)
      BY <2>2 DEF IInv, Reported, Done
    <3>2. "SEARCH_RESULTS_FETCH_FAILED" \in result.reasons =>
             fetched = {} /\ timeout_stage \notin {"SEED_COLLECTION", "DOCUMENT_FETCH"}
      BY <3>1 DEF no_result_reasons
    <3>3. "NO_USABLE_SOURCES" \in result.reasons => selected = <<>>
      BY <3>1 DEF no_result_reasons
    <3>4. "NO_DISCRETE_EVENT" \in result.reasons => candidates = <<>> /\ ~failed
      BY <3>1 DEF no_result_reasons
    <3>5. /\ fetched = {} => work.seen = {} /\ work.queue = <<>>
          /\ Len(selected) = IF MaxExtract < Len(work.queue) THEN MaxExtract ELSE Len(work.queue)
          /\ timeout_stage = "EVENT_EXTRACTION" => selected # <<>>
          /\ work.queue \in Seq(Pages) /\ selected \in Seq(Pages) /\ MaxExtract \in Nat
      BY <2>2, AgentFacts DEF IInv, Worked, Sound, Reading, Selecting, LateStages, Trying, Done, ControlTypes
    <3>6. selected = <<>> <=> Len(selected) = 0
      BY <3>5
    <3>7. work.queue = <<>> <=> Len(work.queue) = 0
      BY <3>5
    <3>8. fetched = {} => selected = <<>>
      BY <3>5, <3>6, <3>7
    <3>9. "SEARCH_RESULTS_FETCH_FAILED" \in result.reasons => fetch_attempts = Len(budgeted_hits) /\ work.seen = {}
      BY <2>2, <3>2, <3>5, <3>8, LeftIsOwnedUp
    <3>10. "NO_USABLE_SOURCES" \in result.reasons => work.queue = <<>> \/ MaxExtract = 0
      BY <3>3, <3>5, <3>6, <3>7
    <3>11. "NO_DISCRETE_EVENT" \in result.reasons =>
              /\ NothingCut
              /\ \A o \in ToSet(attempted_documents) : o.status \in {"NO_DISCRETE_EVENT", "REFERENCE_FINDINGS_ONLY"}
      BY <2>2, <3>4, FailureFreeIsWhole DEF Attempts
    <3> QED BY <3>9, <3>10, <3>11 DEF ReasonsTellTheTruth
  <2> QED BY <2>1, <2>2
<1> QED BY <1>1, Invariance, PTL

\* No snapshot is extracted twice.
THEOREM NoneExtractedTwice == Spec => []ExtractedOnce
<1>1. IInv => ExtractedOnce
  BY DEF IInv, Worked, Sound, ExtractedOnce
<1> QED BY <1>1, Invariance, PTL

\* Every stored document of the local agent is accounted for.
THEOREM NothingStoredIsForgotten == Spec => []StoredMeansAccountedFor
<1>1. IInv => StoredMeansAccountedFor
  <2> SUFFICES ASSUME IInv, AgentType = "LOCAL_EVENT", NEW p \in work.saved
               PROVE  p \in ToSet(work.queue) \/ \E o \in ToSet(work.outcomes) : o.page = p
    BY DEF StoredMeansAccountedFor
  <2>1. Accounted(work, p)
    BY DEF IInv, Worked, Sound
  <2> QED BY <2>1 DEF Accounted, ToSet
<1> QED BY <1>1, Invariance, PTL

-----------------------------------------------------------------------------
(* Decisions of the Bank of Korea.                                          *)

\* A page that decides about the rate and may be extracted.
Deciding(p) == Fetched(p) /\ BokUsable(p) /\ (Usable(p) \/ LowPriority(p))

\* Decisions stored are kept, but for those on the documents in open.
Kept(w, open) == \A p \in w.saved : Deciding(p) /\ p \notin open => p \in ToSet(w.queue) \cup w.findings
Keeping(w, open, dropped) == Collected(w, open) /\ Kept(w, dropped)

\* What storing and queueing leave of the work.
LEMMA SaveChanges ==
    ASSUME NEW w, DOMAIN w = WorkFields, NEW p
    PROVE  LET v == Save(w, p) IN
           /\ DOMAIN v = WorkFields /\ v.saved = w.saved \cup {p} /\ v.queue = w.queue
           /\ v.findings = w.findings /\ v.seen = w.seen
  BY DEF Save, WorkFields

LEMMA EnqueueChanges ==
    ASSUME NEW w, DOMAIN w = WorkFields, w.queue \in Seq(Pages), NEW p \in Pages
    PROVE  LET v == Enqueue(w, p) IN
           v.saved = w.saved /\ v.findings = w.findings /\ ToSet(v.queue) = ToSet(w.queue) \cup {p}
<1>1. ToSet(Append(w.queue, p)) = ToSet(w.queue) \cup {p}
  BY AppendRange
<1> QED BY <1>1 DEF Enqueue, WorkFields

\* A document that is stored and held, and one that is seen, too.
LEMMA StoringChanges ==
    ASSUME NEW w, DOMAIN w = WorkFields, NEW p
    PROVE  /\ LET v == Hold(Save(w, p), p) IN
              DOMAIN v = WorkFields /\ v.saved = w.saved \cup {p} /\ v.queue = w.queue /\ v.findings = w.findings
           /\ LET v == See(Hold(Save(w, p), p), p) IN
              DOMAIN v = WorkFields /\ v.saved = w.saved \cup {p} /\ v.queue = w.queue /\ v.findings = w.findings
<1> DEFINE x == Save(w, p)
           y == Hold(x, p)
<1>1. DOMAIN x = WorkFields /\ x.saved = w.saved \cup {p} /\ x.queue = w.queue /\ x.findings = w.findings
  BY SaveChanges
<1> HIDE DEF x
<1>2. DOMAIN y = WorkFields /\ y.saved = w.saved \cup {p} /\ y.queue = w.queue /\ y.findings = w.findings
  BY <1>1 DEF Hold, WorkFields
<1> HIDE DEF y
<1>3. LET v == See(y, p) IN
      DOMAIN v = WorkFields /\ v.saved = w.saved \cup {p} /\ v.queue = w.queue /\ v.findings = w.findings
  BY <1>2 DEF See, WorkFields
<1> QED BY <1>2, <1>3 DEF x, y

\* A document linked from another page: it is queued if it may be extracted.
LEMMA OtherChildKeeps ==
    ASSUME NEW w, NEW open, NEW dropped, Keeping(w, open, dropped), NEW p \in Pages, AgentType # "LOCAL_EVENT"
    PROVE  Keeping(other_child(w, p), open, dropped)
<1> DEFINE y == Save(w, p)
           h == Hold(y, p)
           v == See(h, p)
           c == other_child(w, p)
<1>1. DOMAIN w = WorkFields /\ w.queue \in Seq(Pages) /\ w.seen \subseteq w.saved
  BY DEF Keeping, Collected, Sound
<1>2. /\ DOMAIN y = WorkFields /\ y.saved = w.saved \cup {p} /\ y.queue = w.queue /\ y.findings = w.findings
      /\ y.seen = w.seen
      /\ h.saved = w.saved \cup {p} /\ h.queue = w.queue /\ h.findings = w.findings
      /\ DOMAIN v = WorkFields /\ v.saved = w.saved \cup {p} /\ v.queue = w.queue /\ v.findings = w.findings
  BY <1>1, SaveChanges, StoringChanges
<1>3. Kept(c, dropped)
  <2>1. CASE ~Fetched(p)
    <3>1. c = Judge(y, p, "SOURCE_CONTENT_UNUSABLE", local_access_reason(p), FALSE)
      BY <2>1 DEF other_child, Unusable
    <3> HIDE DEF y, c
    <3>2. c.saved = w.saved \cup {p} /\ c.queue = w.queue /\ c.findings = w.findings
      BY <1>2, <3>1 DEF Judge, WorkFields
    <3> QED BY <2>1, <3>2 DEF Kept, Keeping, Deciding
  <2>2. CASE Fetched(p) /\ p \in w.seen
    <3>1. c = h
      BY <1>2, <2>2 DEF other_child
    <3> HIDE DEF h, c
    <3> QED BY <1>1, <1>2, <2>2, <3>1 DEF Kept, Keeping
  <2>3. CASE Fetched(p) /\ p \notin w.seen
    <3>1. c = IF Usable(p) \/ LowPriority(p) THEN Enqueue(v, p) ELSE v
      BY <1>2, <2>3 DEF other_child
    <3> HIDE DEF v, c
    <3>2. LET e == Enqueue(v, p) IN
          e.saved = v.saved /\ e.findings = v.findings /\ ToSet(e.queue) = ToSet(v.queue) \cup {p}
      BY <1>1, <1>2, EnqueueChanges
    <3>3. CASE Usable(p) \/ LowPriority(p)
      BY <1>2, <3>1, <3>2, <3>3 DEF Kept, Keeping
    <3>4. CASE ~(Usable(p) \/ LowPriority(p))
      BY <1>2, <3>1, <3>4 DEF Kept, Keeping, Deciding
    <3> QED BY <3>3, <3>4
  <2> QED BY <2>1, <2>2, <2>3
<1> QED BY <1>3, OtherChildIsSound DEF Keeping

\* All of them, in their order.
LEMMA OtherChildrenKeep ==
    ASSUME NEW w, NEW open, NEW dropped, Keeping(w, open, dropped), NEW ps \in Seq(Pages), AgentType # "LOCAL_EVENT"
    PROVE  Keeping(FoldLeft(other_child, w, ps), open, dropped)
<1>1. PICK f : /\ OtherChildren!Folds(f, w, ps, Len(ps))
               /\ OtherChildren!FoldLeft(other_child, w, ps) = f[Len(ps)]
  BY OtherChildren!FoldSteps
<1>2. FoldLeft(other_child, w, ps) = OtherChildren!FoldLeft(other_child, w, ps)
  BY DEF FoldLeft, MapThenFoldSet, Max, OtherChildren!FoldLeft, OtherChildren!MapThenFoldSet, OtherChildren!Max
<1>3. f[0] = w /\ \A i \in 0 .. Len(ps) : i < Len(ps) => f[i + 1] = other_child(f[i], ps[i + 1])
  BY <1>1 DEF OtherChildren!Folds
<1>4. Len(ps) \in Nat /\ \A i \in 1 .. Len(ps) : ps[i] \in Pages
  OBVIOUS
<1> DEFINE Good == {n \in 0 .. Len(ps) : Keeping(f[n], open, dropped)}
<1>5. 0 \in Good
  BY <1>3, <1>4
<1>6. ASSUME NEW n \in 0 .. Len(ps), n < Len(ps), n \in Good PROVE n + 1 \in Good
  <2>1. n + 1 \in 0 .. Len(ps) /\ ps[n + 1] \in Pages /\ f[n + 1] = other_child(f[n], ps[n + 1])
    BY <1>3, <1>4, <1>6
  <2> QED BY <1>6, <2>1, OtherChildKeeps
<1>7. Len(ps) \in Good
  <2> HIDE DEF Good
  <2>1. \A n \in 0 .. Len(ps) : n \in Good
    BY <1>4, <1>5, <1>6, PrefixInduction
  <2> QED BY <1>4, <2>1
<1> QED BY <1>1, <1>2, <1>7

\* A page that leads to others keeps what they decide.
LEMMA TraversalKeeps ==
    ASSUME NEW w, NEW p \in Pages, Keeping(w, {p}, {p}), NEW f, Answering(f), AgentType # "LOCAL_EVENT"
    PROVE  Keeping(traverse(w, p, f), {p}, {p})
<1> DEFINE related == IF Page[p].detail_urls # <<>>
                      THEN fetch_with_detail_pages(Prefix(Page[p].detail_urls, DetailLimit), f)
                      ELSE fetch_with_attachments(p, f)
           taken == FoldLeft(other_child, w, related)
           v == traverse(w, p, f)
<1>1. \/ v = Judge(w, p, "SOURCE_CONTENT_UNUSABLE", "UNSUPPORTED_ROUTE", FALSE)
      \/ v = Judge(taken, p, "STRUCTURED_LIST_TRAVERSED", "", FALSE)
  BY DEF traverse, Unusable
<1>2. related \in Seq(Pages)
  <2>1. Prefix(Page[p].detail_urls, DetailLimit) \in Seq(DOMAIN f)
    BY LinksAreAnswered, PrefixIsPart, IntakeLimits
  <2>2. fetch_with_detail_pages(Prefix(Page[p].detail_urls, DetailLimit), f) \in Seq(Pages)
    BY <2>1, DetailsArePages
  <2> QED BY <2>2, AttachmentsArePages
<1> HIDE DEF related
<1>3. Keeping(taken, {p}, {p})
  BY <1>2, OtherChildrenKeep
<1>4. Collected(v, {p})
  BY TraversalIsSound DEF Keeping
<1> HIDE DEF taken, v
<1>5. \A x : Keeping(x, {p}, {p}) => DOMAIN x = WorkFields /\ x.queue \in Seq(Pages)
  BY DEF Keeping, Collected, Sound
<1>6. ASSUME NEW x, Keeping(x, {p}, {p}), NEW status, NEW reason PROVE Kept(Judge(x, p, status, reason, FALSE), {p})
  <2>1. LET j == Judge(x, p, status, reason, FALSE) IN
        j.saved = x.saved /\ j.queue = x.queue /\ j.findings = x.findings
    BY <1>5, <1>6 DEF Judge, WorkFields
  <2> QED BY <1>6, <2>1 DEF Kept, Keeping
<1>7. Kept(v, {p})
  BY <1>1, <1>3, <1>6
<1> QED BY <1>4, <1>7 DEF Keeping, v

\* The search behind a page of the Bank of Korea leaves open the page itself
\* and the one found in its place: what it passes over decides nothing.
Seeking(x, p) ==
    /\ Recovering(x, p)
    /\ Kept(x.work, {p, x.page})
    /\ IF x.found THEN BokUsable(x.page) ELSE x.page = p

LEMMA OneRecoveryKeeps ==
    ASSUME NEW p, NEW x, Seeking(x, p), \A c \in Pages : Deciding(c) => c \in x.good,
           NEW q \in Pages, AgentType # "LOCAL_EVENT"
    PROVE  Seeking(try_recovery(x, q), p) /\ try_recovery(x, q).good = x.good
<1> DEFINE t == try_recovery(x, q)
           y == Save(x.work, q)
           h == Hold(y, q)
<1>1. Recovering(t, p)
  BY OneRecovery DEF Seeking
<1>2. DOMAIN x.work = WorkFields /\ x.work.queue \in Seq(Pages) /\ DOMAIN x = {"work", "page", "found", "good"}
  BY DEF Seeking, Recovering, Collected, Sound
<1>3. /\ y.saved = x.work.saved \cup {q} /\ y.queue = x.work.queue /\ y.findings = x.work.findings
      /\ h.saved = x.work.saved \cup {q} /\ h.queue = x.work.queue /\ h.findings = x.work.findings
  BY <1>2, SaveChanges, StoringChanges
<1>4. CASE x.found
  <2>1. t = x
    BY <1>4 DEF try_recovery
  <2> QED BY <2>1
<1>5. CASE ~x.found /\ ~Fetched(q)
  <2>1. t = [x EXCEPT !.work = y]
    BY <1>5 DEF try_recovery
  <2> HIDE DEF y, t
  <2>2. t.work = y /\ t.page = x.page /\ t.found = x.found /\ t.good = x.good
    BY <1>2, <2>1
  <2>3. Kept(y, {p, x.page})
    BY <1>3, <1>5 DEF Kept, Seeking, Deciding
  <2> QED BY <1>1, <2>2, <2>3 DEF Seeking, t
<1>6. CASE ~x.found /\ Fetched(q)
  <2>1. t = [x EXCEPT !.work = h, !.page = IF q \in x.good THEN q ELSE @, !.found = q \in x.good]
    BY <1>6 DEF try_recovery
  <2> HIDE DEF h, t
  <2>2. /\ t.work = h /\ t.page = (IF q \in x.good THEN q ELSE x.page)
        /\ t.found = (q \in x.good) /\ t.good = x.good
    BY <1>2, <2>1
  <2>3. Kept(x.work, {p}) /\ x.page = p
    BY <1>6 DEF Seeking, Kept
  <2>4. Kept(h, {p, t.page})
    BY <1>3, <2>2, <2>3 DEF Kept
  <2>5. q \in x.good => BokUsable(q)
    BY DEF Seeking, Recovering
  <2>6. IF t.found THEN BokUsable(t.page) ELSE t.page = p
    BY <2>2, <2>3, <2>5
  <2>7. Kept(t.work, {p, t.page}) /\ t.good = x.good
    BY <2>2, <2>4
  <2> QED BY <1>1, <2>6, <2>7 DEF Seeking, t
<1> QED BY <1>4, <1>5, <1>6

LEMMA RecoveryKeeps ==
    ASSUME NEW w, NEW p \in Pages, Keeping(w, {p}, {p}), IsBok(p), NEW ps \in Seq(Pages),
           NEW good \in SUBSET {q \in Pages : BokUsable(q)}, \A c \in Pages : Deciding(c) => c \in good,
           AgentType # "LOCAL_EVENT"
    PROVE  Seeking(recover(w, p, ps, good), p)
<1> DEFINE start == search_from(w, p, good)
<1>1. PICK f : /\ Recovery!Folds(f, start, ps, Len(ps))
               /\ Recovery!FoldLeft(try_recovery, start, ps) = f[Len(ps)]
  <2> HIDE DEF start
  <2> QED BY Recovery!FoldSteps
<1>2. recover(w, p, ps, good) = Recovery!FoldLeft(try_recovery, start, ps)
  BY DEF recover, FoldLeft, MapThenFoldSet, Max, Recovery!FoldLeft, Recovery!MapThenFoldSet, Recovery!Max
<1>3. f[0] = start /\ \A i \in 0 .. Len(ps) : i < Len(ps) => f[i + 1] = try_recovery(f[i], ps[i + 1])
  BY <1>1 DEF Recovery!Folds
<1>4. Len(ps) \in Nat /\ \A i \in 1 .. Len(ps) : ps[i] \in Pages
  OBVIOUS
<1> DEFINE Good == {n \in 0 .. Len(ps) : Seeking(f[n], p) /\ f[n].good = good}
<1>5. 0 \in Good
  <2>1. Seeking(start, p) /\ start.good = good
    BY DEF Seeking, Recovering, Keeping, Kept, search_from
  <2> QED BY <1>3, <1>4, <2>1
<1>6. ASSUME NEW n \in 0 .. Len(ps), n < Len(ps), n \in Good PROVE n + 1 \in Good
  <2>1. n + 1 \in 0 .. Len(ps) /\ ps[n + 1] \in Pages /\ f[n + 1] = try_recovery(f[n], ps[n + 1])
    BY <1>3, <1>4, <1>6
  <2> QED BY <1>6, <2>1, OneRecoveryKeeps
<1>7. Len(ps) \in Good
  <2> HIDE DEF Good
  <2>1. \A n \in 0 .. Len(ps) : n \in Good
    BY <1>4, <1>5, <1>6, PrefixInduction
  <2> QED BY <1>4, <2>1
<1> QED BY <1>1, <1>2, <1>7

\* Only a page that decides nothing is left for one found behind it.
LEMMA BokRecoveryKeeps ==
    ASSUME NEW w, NEW p \in Pages, Keeping(w, {p}, {p}), NEW f, Answering(f), AgentType # "LOCAL_EVENT"
    PROVE  LET r == bok_recovery(w, p, f) IN
           Kept(r.work, {p, r.page}) /\ (r.page = p \/ ~Deciding(p))
<1> DEFINE r == bok_recovery(w, p, f)
           none(x, q) == search_from(x, q, {})
<1>1. Kept(w, {p})
  BY DEF Keeping
<1>2. CASE AgentType # "MACRO" \/ ~IsBok(p)
  <2>1. r.work = w /\ r.page = p
    BY <1>2 DEF bok_recovery, search_from
  <2> HIDE DEF r
  <2>2. Kept(r.work, {p, r.page})
    BY <1>1, <2>1 DEF Kept
  <2> QED BY <2>1, <2>2 DEF r
<1>3. CASE AgentType = "MACRO" /\ IsBok(p)
  <2> DEFINE detail == bok_detail(w, p, f)
             last == bok_attachment(detail.work, detail.page, f)
             urls == Prefix(Page[p].detail_urls, AttachmentLimit)
             pages == [i \in DOMAIN urls |-> f[urls[i]]]
             decided == {q \in Pages : BokUsable(q)}
  <2>1. r = last
    BY <1>3 DEF bok_recovery
  <2>2. CASE BokUsable(p)
    <3>1. detail.work = w /\ detail.page = p
      BY <2>2 DEF bok_detail, search_from
    <3> HIDE DEF detail
    <3>2. last.work = w /\ last.page = p
      BY <2>2, <3>1 DEF bok_attachment, search_from
    <3> HIDE DEF r, last
    <3>3. Kept(r.work, {p, r.page})
      BY <1>1, <2>1, <3>2 DEF Kept
    <3> QED BY <2>1, <3>2, <3>3 DEF r
  <2>3. CASE ~BokUsable(p)
    <3>1. pages \in Seq(Pages)
      <4>1. urls \in Seq(DOMAIN f)
        BY LinksAreAnswered, PrefixIsPart, IntakeLimits
      <4> HIDE DEF urls
      <4> QED BY <4>1, LinksArePages
    <3>2. detail = recover(w, p, pages, decided)
      BY <2>3 DEF bok_detail
    <3>3. \A c \in Pages : Deciding(c) => c \in decided
      BY DEF Deciding
    <3> HIDE DEF pages, decided
    <3>4. Seeking(recover(w, p, pages, decided), p)
      BY <1>3, <3>1, <3>3, RecoveryKeeps DEF decided
    <3>5. Seeking(detail, p)
      BY <3>2, <3>4
    <3> HIDE DEF detail
    <3> DEFINE x == detail.work
               q == detail.page
               ps == fetch_with_attachments(q, f)
               good == {c \in Pages : (Usable(c) \/ LowPriority(c)) /\ BokUsable(c)}
    <3>6. Kept(x, {p, q}) /\ Collected(x, {p}) /\ q \in Pages
      BY <3>5 DEF Seeking, Recovering
    <3>7. last = none(x, q) \/ (last = recover(x, q, ps, good) /\ ~BokUsable(q))
      BY DEF bok_attachment
    <3>8. CASE last = none(x, q)
      <4>1. last.work = x /\ last.page = q
        BY <3>8 DEF search_from
      <4> QED BY <2>1, <2>3, <3>6, <4>1 DEF Deciding
    <3>9. CASE last = recover(x, q, ps, good) /\ ~BokUsable(q)
      <4>1. q = p
        BY <3>5, <3>9 DEF Seeking
      <4>2. Keeping(x, {p}, {p})
        BY <3>6, <4>1 DEF Keeping, Kept
      <4>3. ps \in Seq(Pages) /\ good \in SUBSET {c \in Pages : BokUsable(c)}
        BY <3>6, AttachmentsArePages
      <4>4. \A c \in Pages : Deciding(c) => c \in good
        BY DEF Deciding
      <4> HIDE DEF x, ps, good, q
      <4>5. Seeking(recover(x, p, ps, good), p)
        BY <1>3, <4>2, <4>3, <4>4, RecoveryKeeps
      <4>6. Seeking(last, p)
        BY <3>9, <4>1, <4>5
      <4> HIDE DEF last
      <4> QED BY <2>1, <2>3, <4>6 DEF Seeking, Deciding
    <3> QED BY <3>7, <3>8, <3>9
  <2> QED BY <2>2, <2>3
<1> QED BY <1>2, <1>3

\* The last step decides about the page taken in the end.
LEMMA SettleKeeps ==
    ASSUME NEW w, NEW p \in Pages, NEW q \in Pages, Collected(w, {p}), Kept(w, {p, q}), q = p \/ ~Deciding(p)
    PROVE  Kept(settle(w, q), {})
<1> DEFINE v == Judge(w, q, "REFERENCE_FINDINGS_ONLY", "", FALSE)
           met == [v EXCEPT !.findings = @ \cup {q}]
           dropped == Judge(w, q, "SOURCE_CONTENT_UNUSABLE", "", FALSE)
           queued == Enqueue(w, q)
           s == settle(w, q)
<1>1. DOMAIN w = WorkFields /\ w.queue \in Seq(Pages)
  BY DEF Collected, Sound
<1>2. Kept(w, {q})
  BY DEF Kept
<1>3. s = met \/ s = queued \/ (s = dropped /\ ~Deciding(q))
  BY DEF settle, Unusable, Deciding
<1>4. met.saved = w.saved /\ met.queue = w.queue /\ met.findings = w.findings \cup {q}
  BY <1>1 DEF Judge, WorkFields
<1>5. dropped.saved = w.saved /\ dropped.queue = w.queue /\ dropped.findings = w.findings
  BY <1>1 DEF Judge, WorkFields
<1>6. queued.saved = w.saved /\ queued.findings = w.findings /\ ToSet(queued.queue) = ToSet(w.queue) \cup {q}
  BY <1>1, EnqueueChanges
<1> HIDE DEF met, queued, dropped, s
<1>7. CASE s = met
  BY <1>2, <1>4, <1>7 DEF Kept, s
<1>8. CASE s = queued
  BY <1>2, <1>6, <1>8 DEF Kept, s
<1>9. CASE s = dropped /\ ~Deciding(q)
  BY <1>2, <1>5, <1>9 DEF Kept, s
<1> QED BY <1>3, <1>7, <1>8, <1>9

\* A document fetched for a hit, with all that is found behind it.
LEMMA TakeDocumentKeeps ==
    ASSUME NEW w, Keeping(w, {}, {}), NEW p \in Pages, NEW f, Answering(f), AgentType # "LOCAL_EVENT"
    PROVE  Kept(take_document(w, p, f), {})
<1> DEFINE v == take_document(w, p, f)
           y == Save(w, p)
           h == Hold(y, p)
           new == See(h, p)
           traversed == traverse(new, p, f)
           rest(x) == settle(bok_recovery(x, p, f).work, bok_recovery(x, p, f).page)
<1>1. DOMAIN w = WorkFields /\ w.seen \subseteq w.saved /\ Kept(w, {})
  BY DEF Keeping, Collected, Sound
<1>2. /\ DOMAIN y = WorkFields /\ y.saved = w.saved \cup {p} /\ y.queue = w.queue /\ y.findings = w.findings
      /\ DOMAIN h = WorkFields /\ h.saved = w.saved \cup {p} /\ h.queue = w.queue /\ h.findings = w.findings
      /\ new.saved = w.saved \cup {p} /\ new.queue = w.queue /\ new.findings = w.findings
  BY <1>1, SaveChanges, StoringChanges
<1>3. CASE ~Fetched(p)
  <2>1. v = Judge(y, p, "SOURCE_CONTENT_UNUSABLE", access_reason(p), FALSE)
    BY <1>3 DEF take_document, Unusable
  <2> HIDE DEF y, v
  <2>2. v.saved = w.saved \cup {p} /\ v.queue = w.queue /\ v.findings = w.findings
    BY <1>2, <2>1 DEF Judge, WorkFields
  <2>3. Kept(v, {})
    BY <1>1, <1>3, <2>2 DEF Kept, Deciding
  <2> QED BY <2>3 DEF v
<1>4. CASE Fetched(p) /\ p \in w.seen
  <2>1. v = Judge(h, p, "DUPLICATE_SOURCE", "", FALSE)
    BY <1>4 DEF take_document
  <2> HIDE DEF h, v
  <2>2. v.saved = w.saved /\ v.queue = w.queue /\ v.findings = w.findings
    BY <1>1, <1>2, <1>4, <2>1 DEF Judge, WorkFields
  <2>3. Kept(v, {})
    BY <1>1, <2>2 DEF Kept
  <2> QED BY <2>3 DEF v
<1>5. CASE Fetched(p) /\ p \notin w.seen
  <2>1. Keeping(new, {p}, {p})
    <3>1. Collected(new, {} \cup {p})
      BY <1>5, FirstSightIsSound DEF Keeping
    <3>2. {} \cup {p} = {p}
      OBVIOUS
    <3> HIDE DEF new
    <3>3. Kept(new, {p})
      BY <1>1, <1>2 DEF Kept
    <3> QED BY <3>1, <3>2, <3>3 DEF Keeping
  <2>2. ASSUME NEW x, Keeping(x, {p}, {p}) PROVE Kept(rest(x), {})
    <3>1. LET r == bok_recovery(x, p, f) IN Collected(r.work, {p}) /\ r.page \in Pages
      BY <2>2, BokRecoveryIsSound DEF Keeping
    <3>2. LET r == bok_recovery(x, p, f) IN Kept(r.work, {p, r.page}) /\ (r.page = p \/ ~Deciding(p))
      BY <2>2, BokRecoveryKeeps
    <3> QED BY <3>1, <3>2, SettleKeeps
  <2>3. ~is_local_listing(p)
    BY DEF is_local_listing
  <2>4. CASE routes_and_traverses(p)
    <3>1. v = IF Usable(p) THEN rest(traversed) ELSE traversed
      BY <1>5, <2>3, <2>4 DEF take_document
    <3> HIDE DEF new
    <3>2. Keeping(traversed, {p}, {p})
      BY <2>1, TraversalKeeps
    <3>3. ~LowPriority(p)
      BY <2>4 DEF routes_and_traverses, LowPriority
    <3> HIDE DEF traversed, v, rest
    <3>4. Kept(traversed, {p})
      BY <3>2 DEF Keeping
    <3>5. ~Usable(p) => Kept(traversed, {})
      BY <3>3, <3>4 DEF Kept, Deciding
    <3>6. Kept(v, {})
      BY <2>2, <3>1, <3>2, <3>5
    <3> QED BY <3>6 DEF v
  <2>5. CASE ~routes_and_traverses(p)
    <3>1. v = rest(new)
      BY <1>5, <2>3, <2>5 DEF take_document
    <3> HIDE DEF new, v, rest
    <3>2. Kept(v, {})
      BY <2>1, <2>2, <3>1
    <3> QED BY <3>2 DEF v
  <2> QED BY <2>4, <2>5
<1> QED BY <1>3, <1>4, <1>5

\* What the loops after that do to the work takes no decision back.
LEMMA LateWorkKeeps ==
    ASSUME IInv, select_documents \/ extraction_failed \/ extracted
    PROVE  work'.saved = work.saved /\ work'.queue = work.queue /\ work.findings \subseteq work'.findings
<1>1. DOMAIN work = WorkFields
  BY DEF IInv, Worked, Sound
<1>2. CASE select_documents
  <2>1. PICK excluded : work' = AllUnusable(work, excluded, "PREFILTER_BUDGET_EXCLUDED")
    BY <1>2 DEF select_documents
  <2> QED BY <1>1, <2>1 DEF AllUnusable, WorkFields
<1>3. CASE extraction_failed
  <2>1. PICK code : work' = Judge(work, Document, "PROVIDER_ERROR", code, TRUE)
    BY <1>3 DEF extraction_failed
  <2> QED BY <1>1, <2>1 DEF Judge, WorkFields
<1>4. CASE extracted
  <2>1. PICK status \in Extractions \cap {"CANDIDATES_EXTRACTED", "REFERENCE_FINDINGS_ONLY", "NO_DISCRETE_EVENT"} :
           \E finding \in (IF status = "REFERENCE_FINDINGS_ONLY" THEN BOOLEAN ELSE {FALSE}) :
              work' = [Judge(work, Document, status, "", TRUE)
                          EXCEPT !.findings = IF finding THEN @ \cup {Document} ELSE @]
    BY <1>4, Zenon DEF extracted
  <2> DEFINE v == Judge(work, Document, status, "", TRUE)
  <2>2. \/ work' = [v EXCEPT !.findings = @ \cup {Document}]
        \/ work' = [v EXCEPT !.findings = @]
    BY <2>1, Zenon
  <2>3. DOMAIN v = WorkFields /\ v.saved = work.saved /\ v.queue = work.queue /\ v.findings = work.findings
    BY <1>1 DEF Judge, WorkFields
  <2> HIDE DEF v
  <2> QED BY <2>2, <2>3 DEF WorkFields
<1> QED BY <1>2, <1>3, <1>4

\* No decision of the central bank that may be extracted is lost, whatever the
\* pages of the macro agent hold and wherever they lead.
THEOREM NoDecisionIsLost == Spec => []DecisionsAreKept
<1> DEFINE KeptInv == AgentType = "MACRO" => Kept(work, {})
<1>1. Init => KeptInv
  BY DEF Init, Kept, NoWork
<1>2. IInv /\ KeptInv /\ [Next]_vars => KeptInv'
  <2> SUFFICES ASSUME IInv, KeptInv, [Next]_vars, AgentType' = "MACRO" PROVE Kept(work, {})'
    OBVIOUS
  <2>1. agent' = agent
    BY NothingIsTakenBack DEF IInv, Worked
  <2>2. AgentType = "MACRO" /\ Kept(work, {})
    BY <2>1, AgentStays
  <2>3. Kept(work', {}) => Kept(work, {})'
    BY <2>1 DEF Kept, Deciding, Fetched, BokUsable, Usable, LowPriority, Page
  <2>4. CASE UNCHANGED work
    <3>1. Kept(work', {})
      BY <2>2, <2>4
    <3> QED BY <2>3, <3>1
  <2>5. CASE fetch_answered
    <3>1. PICK p \in Pages, f \in LinkedFetches : work' = take_document(work, p, f)
      BY <2>5 DEF fetch_answered
    <3>2. Collected(work, {}) /\ Answering(f)
      BY <2>5, AgentFacts DEF IInv, Worked, EarlyStages, Collected, fetch_answered, FetchLoop, ControlTypes
    <3>3. Kept(work', {})
      BY <2>2, <3>1, <3>2, TakeDocumentKeeps DEF Keeping
    <3> QED BY <2>3, <3>3
  <2>6. CASE select_documents \/ extraction_failed \/ extracted
    <3>1. Kept(work', {})
      BY <2>2, <2>6, LateWorkKeeps DEF Kept
    <3> QED BY <2>3, <3>1
  <2> QED BY <2>4, <2>5, <2>6, WhoChanges
<1>3. KeptInv => DecisionsAreKept
  BY DEF Kept, Deciding, DecisionsAreKept
<1> HIDE DEF KeptInv
<1> QED BY <1>1, <1>2, <1>3, Invariance, PTL DEF Spec

=============================================================================
