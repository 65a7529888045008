------------------------ MODULE PolicyPipeline_proofs ------------------------
(***************************************************************************)
(* What the policy agent's bundle says of its extraction is true, whatever   *)
(* documents there are and whatever they are answered with, and however      *)
(* often requests are slow, refused or beyond repair; reconciliation neither *)
(* loses nor doubles what was extracted; what is recommended at the end is   *)
(* open, grounded and uncontested; a stored policy keeps its identity; and   *)
(* every variable keeps its type.                                            *)
(***************************************************************************)
EXTENDS PolicyPipeline, SequenceLemmas

\* All that a document may be answered with, and the candidates made of it.
Given == (UNION {ToSet(found) : found \in UNION {Offered(r) : r \in DOMAIN Snapshot}})
            \cup (UNION {Fallback(r) : r \in DOMAIN Snapshot})
Candidates == {candidate(x[1], x[2], x[3]) : x \in (DOMAIN Snapshot) \X Nat \X Given}

Visited(n) == {source_of(Reads[i]) : i \in 1 .. n}
Endings == {"ANSWERED", "FAILED", "FALLBACK"}
BundleFields == {"status", "cut", "failures", "timeouts", "reasons"}

\* What the loop's state can hold.
LoopTypes ==
    /\ phase \in {"EXTRACTING", "MERGING", "SAVING", "DONE"} /\ at \in Nat \ {0}
    /\ policies \in Seq(Candidates)
    /\ DOMAIN bundle = BundleFields /\ bundle.status \in {"COMPLETED", "PARTIAL"}
    /\ DOMAIN ending \subseteq Sources /\ \A s \in DOMAIN ending : ending[s] \in Endings
    /\ handed \in HandedOver

\* Failures, their traces and the status agree at every moment.
Honest ==
    /\ bundle.status = "PARTIAL" <=> handed.status = "PARTIAL" \/ bundle.failures # {}
    /\ bundle.cut # "NONE" => bundle.failures # {}
    /\ bundle.failures = {} => \A s \in DOMAIN ending : ending[s] # "FAILED"
    /\ bundle.failures # {} /\ bundle.cut = "NONE" => \E s \in DOMAIN ending : ending[s] = "FAILED"
    /\ policies = <<>> => \A s \in DOMAIN ending : ending[s] # "FALLBACK"

\* A cut loop stopped at a document, which is protected only if the run was cancelled.
CutWhere ==
    bundle.cut # "NONE" =>
        \E c \in 1 .. Len(Reads) :
            /\ DOMAIN ending = Visited(c - 1)
            /\ bundle.cut = "RUN_CANCELLED" \/ source_of(Reads[c]) \notin Protected

\* Unless it is cut, the loop leaves no document behind.
Looping ==
    /\ phase = "EXTRACTING" => bundle.reasons = handed.reasons
    /\ phase = "EXTRACTING" /\ bundle.cut = "NONE" =>
          at <= Len(Reads) + 1 /\ DOMAIN ending = Visited(at - 1)
    /\ phase = "EXTRACTING" /\ bundle.cut # "NONE" => at > Len(Reads)
    /\ request # NoRequest => phase = "EXTRACTING" /\ at <= Len(Reads)

LoopInv == LoopTypes /\ Honest /\ CutWhere /\ Looping /\ PolicyBundleTellsTheTruth

\* The documents read are snapshots.
LEMMA ReadsFacts ==
    /\ Reads \in Seq(DOMAIN Snapshot) /\ Len(Reads) \in Nat
    /\ \A i \in 1 .. Len(Reads) : Reads[i] \in DOMAIN Snapshot
    /\ Sources = Visited(Len(Reads))
<1>1. Reads \in Seq(DOMAIN Snapshot)
  BY PolicyAssumption
<1>2. Len(Reads) \in Nat /\ DOMAIN Reads = 1 .. Len(Reads)
      /\ \A i \in 1 .. Len(Reads) : Reads[i] \in DOMAIN Snapshot
  BY <1>1
<1> QED BY <1>1, <1>2 DEF Sources, Visited

\* One document further.
LEMMA VisitedNext ==
    ASSUME NEW n \in Nat \ {0}
    PROVE  Visited(n) = Visited(n - 1) \cup {source_of(Reads[n])}
<1>1. 1 .. n = (1 .. (n - 1)) \cup {n}
  OBVIOUS
<1> QED BY <1>1 DEF Visited

\* Every document is of another source.
LEMMA ReadOnce ==
    ASSUME NEW n \in 1 .. Len(Reads), NEW c \in 1 .. Len(Reads)
    PROVE  source_of(Reads[n]) \notin Visited(c - 1) <=> n >= c
<1>1. DOMAIN Reads = 1 .. Len(Reads) /\ Len(Reads) \in Nat
  BY ReadsFacts
<1>2. \A i \in 1 .. Len(Reads) : source_of(Reads[n]) = source_of(Reads[i]) => n = i
  BY <1>1, PolicyAssumption
<1>3. \A i \in 1 .. (c - 1) : i \in 1 .. Len(Reads) /\ i < c
  BY <1>1
<1>4. ASSUME ~(n >= c) PROVE n \in 1 .. (c - 1)
  BY <1>1, <1>4
<1> QED BY <1>2, <1>3, <1>4 DEF Visited

\* The answers are sequences of what is given; so is a fallback.
LEMMA AnswersAreGiven ==
    ASSUME NEW r \in DOMAIN Snapshot
    PROVE  /\ \A found \in Offered(r) : found \in Seq(Given)
           /\ SetToSeq(Fallback(r)) \in Seq(Given)
           /\ Fallback(r) # {} => SetToSeq(Fallback(r)) # <<>>
<1>1. ASSUME NEW found \in Offered(r) PROVE found \in Seq(Given)
  <2>1. found \in Seq(ToSet(found))
    BY PolicyAssumption
  <2>2. ToSet(found) \subseteq Given
    BY DEF Given
  <2> QED BY <2>1, <2>2
<1> DEFINE F == Fallback(r)
<1>2. IsFiniteSet(F) /\ F \subseteq Given
  BY PolicyAssumption DEF Given
<1> HIDE DEF F
<1>3. SetToSeq(F) \in Seq(F) /\ ToSet(SetToSeq(F)) = F
  BY <1>2, SetAsSequence
<1>4. SetToSeq(F) \in Seq(Given)
  BY <1>2, <1>3
<1>5. ToSet(<<>>) = {}
  BY DEF ToSet
<1>6. F # {} => SetToSeq(F) # <<>>
  BY <1>3, <1>5
<1> QED BY <1>1, <1>4, <1>6 DEF F

\* What is found is added to the candidates.
LEMMA CandidatesGrow ==
    ASSUME policies \in Seq(Candidates), NEW r \in DOMAIN Snapshot, NEW found \in Seq(Given)
    PROVE  LET more == policies \o [i \in DOMAIN found |-> candidate(r, i, found[i])] IN
           /\ more \in Seq(Candidates)
           /\ more = <<>> => policies = <<>> /\ found = <<>>
<1> DEFINE new == [i \in DOMAIN found |-> candidate(r, i, found[i])]
<1>1. DOMAIN found = 1 .. Len(found) /\ Len(found) \in Nat /\ \A i \in 1 .. Len(found) : found[i] \in Given
  OBVIOUS
<1>2. \A i \in 1 .. Len(found) : candidate(r, i, found[i]) \in Candidates
  <2> TAKE i \in 1 .. Len(found)
  <2>1. <<r, i, found[i]>> \in (DOMAIN Snapshot) \X Nat \X Given
    BY <1>1
  <2> HIDE DEF candidate
  <2> QED BY <2>1 DEF Candidates
<1> HIDE DEF Candidates, candidate
<1>3. new \in Seq(Candidates) /\ Len(new) = Len(found)
  <2>1. new = [i \in 1 .. Len(found) |-> candidate(r, i, found[i])]
    BY <1>1
  <2> QED BY <1>1, <1>2, <2>1
<1> HIDE DEF new
<1>4. policies \o new \in Seq(Candidates) /\ Len(policies \o new) = Len(policies) + Len(found)
      /\ Len(policies) \in Nat
  BY <1>3
<1>5. policies \o new = <<>> => Len(policies) = 0 /\ Len(found) = 0
  BY <1>1, <1>4
<1>6. (Len(policies) = 0 => policies = <<>>) /\ (Len(found) = 0 => found = <<>>)
  OBVIOUS
<1> QED BY <1>4, <1>5, <1>6 DEF new

\* The document the loop is at.
LEMMA DocumentFacts ==
    ASSUME LoopInv, phase = "EXTRACTING", at <= Len(Reads)
    PROVE  /\ at \in 1 .. Len(Reads) /\ document \in DOMAIN Snapshot /\ source_of(document) \in Sources
           /\ bundle.cut = "NONE" /\ DOMAIN ending = Visited(at - 1)
           /\ Visited(at) = Visited(at - 1) \cup {source_of(document)} /\ source_of(document) \notin DOMAIN ending
<1>1. at \in 1 .. Len(Reads) /\ document \in DOMAIN Snapshot
  BY ReadsFacts DEF LoopInv, LoopTypes, document
<1>2. source_of(document) \in Sources
  BY <1>1, ReadsFacts DEF Visited, document
<1>3. bundle.cut = "NONE" /\ DOMAIN ending = Visited(at - 1)
  BY <1>1, ReadsFacts DEF LoopInv, Looping
<1>4. Visited(at) = Visited(at - 1) \cup {source_of(document)}
  BY <1>1, ReadsFacts, VisitedNext DEF document
<1>5. source_of(document) \notin DOMAIN ending
  <2>1. at >= at
    BY DEF LoopInv, LoopTypes
  <2> QED BY <1>1, <1>3, <2>1, ReadOnce DEF document
<1> QED BY <1>1, <1>2, <1>3, <1>4, <1>5

\* An answer ends the document.
LEMMA TakeStep ==
    ASSUME LoopInv, phase = "EXTRACTING", at <= Len(Reads), NEW found \in Seq(Given),
           NEW how \in {"ANSWERED", "FALLBACK"}, how = "FALLBACK" => found # <<>>, take(found, how)
    PROVE  LoopInv'
<1>1. /\ phase' = phase /\ bundle' = bundle /\ at' = at + 1 /\ request' = NoRequest /\ handed' = handed
      /\ policies' = policies \o [i \in DOMAIN found |-> candidate(document, i, found[i])]
      /\ ending' = [s \in DOMAIN ending \cup {source_of(document)} |-> IF s \in DOMAIN ending THEN ending[s] ELSE how]
  BY DEF take, ends, saving
<1>2. policies' \in Seq(Candidates) /\ (policies' = <<>> => policies = <<>> /\ found = <<>>)
  BY <1>1, DocumentFacts, CandidatesGrow DEF LoopInv, LoopTypes
<1>3. /\ DOMAIN ending' = Visited(at) /\ DOMAIN ending' \subseteq Sources
      /\ \A s \in DOMAIN ending' : (s \in DOMAIN ending /\ ending'[s] = ending[s]) \/ ending'[s] = how
      /\ \A s \in DOMAIN ending : s \in DOMAIN ending' /\ ending'[s] = ending[s]
  BY <1>1, DocumentFacts DEF LoopInv, LoopTypes
<1>4. LoopTypes'
  BY <1>1, <1>2, <1>3 DEF LoopInv, LoopTypes, Endings
<1>5. Honest'
  BY <1>1, <1>2, <1>3 DEF LoopInv, Honest
<1>6. Looping'
  <2>1. (at + 1) - 1 = at /\ at + 1 <= Len(Reads) + 1 /\ bundle.cut = "NONE"
    BY ReadsFacts, DocumentFacts
  <2> QED BY <1>1, <1>3, <2>1 DEF LoopInv, Looping
<1>7. CutWhere'
  BY <1>1, DocumentFacts DEF CutWhere
<1> QED BY <1>1, <1>4, <1>5, <1>6, <1>7 DEF LoopInv, PolicyBundleTellsTheTruth

\* A document that is given up ends failed, and the bundle says so.
LEMMA GiveUpStep ==
    ASSUME LoopInv, phase = "EXTRACTING", at <= Len(Reads), NEW code, give_up(code)
    PROVE  LoopInv'
<1>1. /\ phase' = phase /\ policies' = policies /\ at' = at + 1 /\ request' = NoRequest /\ handed' = handed
      /\ ending' = [s \in DOMAIN ending \cup {source_of(document)} |->
                       IF s \in DOMAIN ending THEN ending[s] ELSE "FAILED"]
  BY DEF give_up, ends, saving
<1>2. /\ DOMAIN bundle' = BundleFields /\ bundle'.status = "PARTIAL" /\ bundle'.failures # {}
      /\ bundle'.cut = bundle.cut /\ bundle'.reasons = bundle.reasons
  BY DEF give_up, LoopInv, LoopTypes, BundleFields
<1>3. /\ DOMAIN ending' = Visited(at) /\ DOMAIN ending' \subseteq Sources
      /\ \A s \in DOMAIN ending' : (s \in DOMAIN ending /\ ending'[s] = ending[s]) \/ ending'[s] = "FAILED"
      /\ source_of(document) \in DOMAIN ending' /\ ending'[source_of(document)] = "FAILED"
  BY <1>1, DocumentFacts DEF LoopInv, LoopTypes
<1>4. LoopTypes'
  BY <1>1, <1>2, <1>3 DEF LoopInv, LoopTypes, Endings
<1>5. Honest'
  BY <1>1, <1>2, <1>3 DEF LoopInv, Honest
<1>6. Looping'
  <2>1. (at + 1) - 1 = at /\ at + 1 <= Len(Reads) + 1 /\ bundle.cut = "NONE"
    BY ReadsFacts, DocumentFacts
  <2> QED BY <1>1, <1>2, <1>3, <2>1 DEF LoopInv, Looping
<1>7. CutWhere'
  BY <1>2, DocumentFacts DEF CutWhere
<1> QED BY <1>1, <1>4, <1>5, <1>6, <1>7 DEF LoopInv, PolicyBundleTellsTheTruth

\* A cut loop says so.
LEMMA CutStep ==
    ASSUME LoopInv, Waiting, NEW code \in {"RUN_CANCELLED", "AGENT_WALL_CLOCK_DEADLINE_EXHAUSTED"}, cut_short(code),
           code = "RUN_CANCELLED" \/ source_of(document) \notin Protected
    PROVE  LoopInv'
<1>1. /\ phase = "EXTRACTING" /\ phase' = phase /\ policies' = policies /\ ending' = ending
      /\ request' = request /\ request = NoRequest /\ at' = Len(Reads) + 1 /\ handed' = handed
  BY DEF cut_short, Waiting, saving
<1>2. /\ DOMAIN bundle' = BundleFields /\ bundle'.status = "PARTIAL" /\ bundle'.failures # {}
      /\ bundle'.cut = code /\ bundle'.reasons = bundle.reasons
  BY DEF cut_short, LoopInv, LoopTypes, BundleFields
<1>3. LoopTypes'
  BY <1>1, <1>2, ReadsFacts DEF LoopInv, LoopTypes
<1>4. Honest'
  BY <1>1, <1>2 DEF LoopInv, Honest
<1>5. Looping'
  BY <1>1, <1>2, ReadsFacts DEF LoopInv, Looping
<1>6. CutWhere'
  <2>1. at \in 1 .. Len(Reads) /\ DOMAIN ending = Visited(at - 1)
    BY DocumentFacts DEF Waiting
  <2>2. code = "RUN_CANCELLED" \/ source_of(Reads[at]) \notin Protected
    BY DEF document
  <2> QED BY <1>1, <1>2, <2>1, <2>2 DEF CutWhere
<1> QED BY <1>1, <1>3, <1>4, <1>5, <1>6 DEF LoopInv, PolicyBundleTellsTheTruth

\* What a cut leaves out.
LEMMA CutLeavesOut ==
    ASSUME LoopInv, bundle.cut # "NONE"
    PROVE  /\ \E s \in Sources : left_out(s)
           /\ \A i \in DOMAIN Reads :
                 left_out(source_of(Reads[i])) /\ source_of(Reads[i]) \in Protected =>
                    \/ bundle.cut = "RUN_CANCELLED"
                    \/ \E j \in 1..(i - 1) : left_out(source_of(Reads[j])) /\ source_of(Reads[j]) \notin Protected
<1>1. PICK c \in 1 .. Len(Reads) :
         /\ DOMAIN ending = Visited(c - 1)
         /\ bundle.cut = "RUN_CANCELLED" \/ source_of(Reads[c]) \notin Protected
  BY DEF LoopInv, CutWhere
<1>2. DOMAIN Reads = 1 .. Len(Reads) /\ Len(Reads) \in Nat
  BY ReadsFacts
<1>3. \A i \in 1 .. Len(Reads) : left_out(source_of(Reads[i])) <=> i >= c
  <2> TAKE i \in 1 .. Len(Reads)
  <2>1. source_of(Reads[i]) \notin Visited(c - 1) <=> i >= c
    BY <1>1, ReadOnce
  <2>2. left_out(source_of(Reads[i])) <=> source_of(Reads[i]) \notin DOMAIN ending
    BY DEF left_out
  <2> QED BY <1>1, <2>1, <2>2
<1>4. left_out(source_of(Reads[c])) /\ source_of(Reads[c]) \in Sources
  BY <1>2, <1>3 DEF Sources
<1>5. ASSUME NEW i \in 1 .. Len(Reads), i >= c, i # c PROVE c \in 1 .. (i - 1)
  BY <1>2, <1>5
<1> QED BY <1>1, <1>2, <1>3, <1>4, <1>5

\* The reason that is added, told from the documents.
LEMMA OwnReasons ==
    ASSUME NEW all, NEW mine, mine \subseteq policy_reasons, all \cap policy_reasons = {}
    PROVE  (all \cup mine) \ policy_reasons = all /\ (all \cup mine) \cap policy_reasons = mine
OBVIOUS

\* The bundle that is returned.
LEMMA ReturnStep ==
    ASSUME LoopInv, Return
    PROVE  LoopInv'
<1>1. /\ phase = "EXTRACTING" /\ at > Len(Reads) /\ phase' = "MERGING" /\ handed' = handed
      /\ at' = at /\ request' = request /\ policies' = policies /\ ending' = ending
  BY DEF Return, saving
<1>2. /\ DOMAIN bundle' = BundleFields /\ bundle'.status = bundle.status /\ bundle'.failures = bundle.failures
      /\ bundle'.cut = bundle.cut /\ bundle'.reasons = no_result_reasons
  BY DEF Return, LoopInv, LoopTypes, BundleFields
<1>3. LoopTypes' /\ Honest' /\ CutWhere'
  BY <1>1, <1>2 DEF LoopInv, LoopTypes, Honest, CutWhere
<1>4. Looping'
  <2>1. request = NoRequest
    BY <1>1, ReadsFacts DEF LoopInv, LoopTypes, Looping
  <2> QED BY <1>1, <1>2, <2>1 DEF Looping
<1>5. bundle.cut = "NONE" => DOMAIN ending = Sources
  <2>1. bundle.cut = "NONE" => at = Len(Reads) + 1
    BY <1>1, ReadsFacts DEF LoopInv, LoopTypes, Looping
  <2>2. bundle.cut = "NONE" => at - 1 = Len(Reads)
    BY <2>1, ReadsFacts
  <2> QED BY <1>1, <2>2, ReadsFacts DEF LoopInv, Looping
<1>6. bundle.cut = "NONE" <=> \A s \in Sources : ~left_out(s)
  BY <1>5, CutLeavesOut DEF left_out
<1>7. bundle.failures = {} => bundle.cut = "NONE" /\ \A s \in DOMAIN ending : ending[s] # "FAILED"
  BY DEF LoopInv, Honest
<1>8. bundle.failures # {} /\ bundle.cut = "NONE" <=> bundle.cut = "NONE" /\ \E s \in Sources : ending[s] = "FAILED"
  BY <1>5, <1>7 DEF LoopInv, Honest
<1>9. policies = <<>> =>
          (bundle.failures = {} <=> bundle.cut = "NONE" /\ \A s \in Sources : ending[s] = "ANSWERED")
  <2>1. \A s \in DOMAIN ending : ending[s] \in Endings
    BY DEF LoopInv, LoopTypes
  <2>2. policies = <<>> => \A s \in DOMAIN ending : ending[s] # "FALLBACK"
    BY DEF LoopInv, Honest
  <2> QED BY <1>5, <1>7, <1>8, <2>1, <2>2 DEF Endings
<1>10. bundle.reasons = handed.reasons /\ handed.reasons \cap policy_reasons = {}
  BY <1>1, PolicyAssumption DEF LoopInv, LoopTypes, Looping
<1> DEFINE mine == {reason \in policy_reasons :
                  /\ policies = <<>>
                  /\ CASE reason = "POLICY_EXTRACTION_INCOMPLETE" -> \E s \in Sources : left_out(s)
                       [] reason = "POLICY_EXTRACTION_FAILED" ->
                             /\ \A s \in Sources : ~left_out(s)
                             /\ \E s \in Sources : ending[s] = "FAILED"
                       [] reason = "NO_POLICY_CANDIDATES" ->
                             \A s \in Sources : ~left_out(s) /\ ending[s] = "ANSWERED"}
           all == IF policies = <<>> THEN handed.reasons ELSE handed.reasons \ event_only_reasons
<1>11. no_result_reasons = all \cup mine
  <2>1. CASE policies # <<>>
    <3>1. mine = {}
      BY <2>1
    <3> QED BY <1>10, <2>1, <3>1 DEF no_result_reasons
  <2>2. CASE policies = <<>>
    <3>1. "POLICY_EXTRACTION_INCOMPLETE" \in mine <=> bundle.cut # "NONE"
      BY <1>6, <2>2 DEF policy_reasons
    <3>2. "POLICY_EXTRACTION_FAILED" \in mine <=> bundle.cut = "NONE" /\ bundle.failures # {}
      BY <1>6, <1>8, <2>2 DEF policy_reasons
    <3>3. "NO_POLICY_CANDIDATES" \in mine <=> bundle.failures = {}
      BY <1>6, <1>9, <2>2 DEF policy_reasons
    <3>4. mine \subseteq {"POLICY_EXTRACTION_INCOMPLETE", "POLICY_EXTRACTION_FAILED", "NO_POLICY_CANDIDATES"}
      BY DEF policy_reasons
    <3> HIDE DEF mine
    <3>5. mine = {IF bundle.cut # "NONE" THEN "POLICY_EXTRACTION_INCOMPLETE"
                  ELSE IF bundle.failures # {} THEN "POLICY_EXTRACTION_FAILED" ELSE "NO_POLICY_CANDIDATES"}
      BY <1>7, <3>1, <3>2, <3>3, <3>4
    <3> QED BY <1>10, <2>2, <3>5 DEF no_result_reasons
  <2> QED BY <2>1, <2>2
<1>12. no_result_reasons \ policy_reasons = all /\ no_result_reasons \cap policy_reasons = mine
  <2>1. mine \subseteq policy_reasons /\ all \cap policy_reasons = {}
    BY <1>10
  <2> HIDE DEF mine, all
  <2> QED BY <1>11, <2>1, OwnReasons
<1>13. bundle.failures = {} => \A s \in Sources : ~left_out(s) /\ ending[s] # "FAILED"
  BY <1>5, <1>6, <1>7
<1>14. bundle.status = "PARTIAL" <=> handed.status = "PARTIAL" \/ bundle.failures # {}
  BY DEF LoopInv, Honest
<1>15. \A i \in DOMAIN Reads :
          left_out(source_of(Reads[i])) /\ source_of(Reads[i]) \in Protected =>
             \/ bundle.cut = "RUN_CANCELLED"
             \/ \E j \in 1..(i - 1) : left_out(source_of(Reads[j])) /\ source_of(Reads[j]) \notin Protected
  BY <1>6, CutLeavesOut DEF Sources
<1>16. PolicyBundleTellsTheTruth'
  BY <1>1, <1>2, <1>12, <1>13, <1>14, <1>15 DEF PolicyBundleTellsTheTruth, left_out
<1> QED BY <1>3, <1>4, <1>16 DEF LoopInv

\* It holds at the start.
LEMMA LoopInvInit == Init => LoopInv
<1> SUFFICES ASSUME Init PROVE LoopInv
  OBVIOUS
<1>1. /\ phase = "EXTRACTING" /\ at = 1 /\ request = NoRequest /\ policies = <<>> /\ ending = <<>>
      /\ bundle = [status |-> handed.status, cut |-> "NONE", failures |-> {}, timeouts |-> 0,
                   reasons |-> handed.reasons]
      /\ handed \in HandedOver
  BY DEF Init
<1>2. DOMAIN <<>> = {} /\ Visited(0) = {} /\ <<>> \in Seq(Candidates)
  BY DEF Visited
<1>3. LoopTypes
  BY <1>1, <1>2, PolicyAssumption DEF LoopTypes, BundleFields
<1>4. Honest /\ CutWhere
  BY <1>1, <1>2 DEF Honest, CutWhere
<1>5. Looping
  BY <1>1, <1>2, ReadsFacts DEF Looping
<1> QED BY <1>1, <1>3, <1>4, <1>5 DEF LoopInv, PolicyBundleTellsTheTruth

\* Every step keeps it.
LEMMA LoopInvStep == LoopInv /\ [Next]_vars => LoopInv'
<1> SUFFICES ASSUME LoopInv, [Next]_vars PROVE LoopInv'
  OBVIOUS
<1>1. ASSUME phase' = phase, at' = at, bundle' = bundle, policies' = policies, ending' = ending,
             handed' = handed, request' # NoRequest => phase = "EXTRACTING" /\ at <= Len(Reads)
      PROVE  LoopInv'
  BY <1>1 DEF LoopInv, LoopTypes, Honest, CutWhere, Looping, left_out, PolicyBundleTellsTheTruth
<1>2. ASSUME phase # "EXTRACTING", phase' \in {"MERGING", "SAVING", "DONE"}, at' \in Nat \ {0}, bundle' = bundle,
             policies' = policies, ending' = ending, request' = request,
             handed' = handed
      PROVE  LoopInv'
  BY <1>2 DEF LoopInv, LoopTypes, Honest, CutWhere, Looping, left_out, PolicyBundleTellsTheTruth
<1>3. Asked => phase = "EXTRACTING" /\ at <= Len(Reads)
  BY DEF Asked, LoopInv, Looping
<1>4. at \in Nat \ {0} /\ (request # NoRequest => phase = "EXTRACTING" /\ at <= Len(Reads))
  BY DEF LoopInv, LoopTypes, Looping
<1>5. CASE Age \/ UNCHANGED vars
  BY <1>1, <1>4, <1>5 DEF Age, vars, saving
<1>6. CASE Stopped \/ Exhausted
  BY <1>6, CutStep DEF Stopped, Exhausted
<1>7. CASE Ask
  BY <1>1, <1>7 DEF Ask, Waiting, saving
<1>8. CASE Answered
  <2>1. PICK found \in Offered(document) : take(found, "ANSWERED")
    BY <1>8 DEF Answered
  <2>2. phase = "EXTRACTING" /\ at <= Len(Reads)
    BY <1>3, <1>8 DEF Answered
  <2>3. found \in Seq(Given)
    BY <2>2, DocumentFacts, AnswersAreGiven
  <2> QED BY <2>1, <2>2, <2>3, TakeStep
<1>9. ASSUME NEW code, Busy(code) \/ Failed(code) PROVE LoopInv'
  <2>1. phase = "EXTRACTING" /\ at <= Len(Reads)
    BY <1>3, <1>9 DEF Busy, Failed
  <2>2. \/ give_up(code)
        \/ UNCHANGED <<phase, at, bundle, policies, ending, handed>>
    BY <1>9 DEF Busy, Failed, saving
  <2> QED BY <1>1, <2>1, <2>2, GiveUpStep
<1>10. CASE Unparsed
  <2>1. phase = "EXTRACTING" /\ at <= Len(Reads)
    BY <1>3, <1>10 DEF Unparsed
  <2>2. \/ give_up("SCHEMA_VALIDATION_FAILED")
        \/ UNCHANGED <<phase, at, bundle, policies, ending, handed>>
    BY <1>10 DEF Unparsed, saving
  <2> QED BY <1>1, <2>1, <2>2, GiveUpStep
<1>11. CASE RepairFailed
  <2>1. phase = "EXTRACTING" /\ at <= Len(Reads)
    BY <1>3, <1>11 DEF RepairFailed
  <2>2. \/ give_up("POLICY_SCHEMA_REPAIR_FAILED")
        \/ Fallback(document) # {} /\ take(SetToSeq(Fallback(document)), "FALLBACK")
    BY <1>11 DEF RepairFailed
  <2>3. SetToSeq(Fallback(document)) \in Seq(Given) /\ (Fallback(document) # {} => SetToSeq(Fallback(document)) # <<>>)
    BY <2>1, DocumentFacts, AnswersAreGiven
  <2>4. CASE give_up("POLICY_SCHEMA_REPAIR_FAILED")
    BY <2>1, <2>4, GiveUpStep
  <2>5. CASE Fallback(document) # {} /\ take(SetToSeq(Fallback(document)), "FALLBACK")
    BY <2>1, <2>3, <2>5, TakeStep
  <2> QED BY <2>2, <2>4, <2>5
<1>12. CASE Return
  BY <1>12, ReturnStep
<1>13. CASE Merge \/ Save \/ Recommend
  BY <1>2, <1>4, <1>13 DEF Merge, Save, Recommend
<1>14. CASE Mismatched
  <2>1. PICK code : give_up(code)
    BY <1>14 DEF Mismatched
  <2>2. phase = "EXTRACTING" /\ at <= Len(Reads)
    BY <1>3, <1>14 DEF Mismatched
  <2> QED BY <2>1, <2>2, GiveUpStep
<1> QED BY <1>5, <1>6, <1>7, <1>8, <1>9, <1>10, <1>11, <1>12, <1>13, <1>14 DEF Next

\* PolicyBundleTellsTheTruth holds: whatever the base agent hands over, a bundle
\* without failures answered every document, a deadline costs no protected
\* document before an unprotected one, and the reasons are those handed over
\* with the one the documents gave.
THEOREM BundleIsTrue == Spec => []PolicyBundleTellsTheTruth
<1>1. LoopInv => PolicyBundleTellsTheTruth
  BY DEF LoopInv
<1> QED BY <1>1, LoopInvInit, LoopInvStep, PTL DEF Spec

-----------------------------------------------------------------------------
(* Reconciliation loses nothing: what a list of results accounts for.        *)

Shaped(p) == {"extractor_id", "sources", "evidence", "members"} \subseteq DOMAIN p
QuotesOf(p) == {e.quote : e \in p.evidence}
Identifiers(p) == {p.extractor_id} \cup p.members
IdentifiersOf(X) == {x.extractor_id : x \in X}

\* The result r speaks for the candidate x.
Stands(r, x) ==
    x.extractor_id \in Identifiers(r) /\ x.sources \subseteq r.sources /\ QuotesOf(x) \subseteq QuotesOf(r)

\* The results rs speak for the candidates X, and no candidate for two of them.
Accounts(rs, X) ==
    /\ rs \in Seq(ToSet(rs))
    /\ \A j \in DOMAIN rs : Shaped(rs[j]) /\ Identifiers(rs[j]) \subseteq IdentifiersOf(X)
    /\ \A j, k \in DOMAIN rs : j # k => Identifiers(rs[j]) \cap Identifiers(rs[k]) = {}
    /\ \A x \in X : \E j \in DOMAIN rs : Stands(rs[j], x)

\* Nobody is accounted for by nothing.
LEMMA NothingAccounts == Accounts(<<>>, {})
<1>1. <<>> \in Seq(ToSet(<<>>)) /\ DOMAIN <<>> = {}
  OBVIOUS
<1> QED BY <1>1 DEF Accounts

\* One result for a set of candidates.
LEMMA OneAccounts ==
    ASSUME NEW X, NEW r, Shaped(r), Identifiers(r) \subseteq IdentifiersOf(X), \A x \in X : Stands(r, x)
    PROVE  Accounts(<<r>>, X)
<1> DEFINE s == <<r>>
<1>1. s \in Seq({r}) /\ DOMAIN s = {1} /\ s[1] = r
  OBVIOUS
<1> HIDE DEF s
<1>2. s \in Seq(ToSet(s))
  BY <1>1, OwnRange
<1> QED BY <1>1, <1>2 DEF Accounts, s

\* One more candidate, with a result of its own.
LEMMA AppendAccounts ==
    ASSUME NEW rs, NEW X, Accounts(rs, X), NEW x, NEW r, Shaped(r), Identifiers(r) = {x.extractor_id},
           Stands(r, x), x.extractor_id \notin IdentifiersOf(X)
    PROVE  Accounts(Append(rs, r), X \cup {x})
<1> DEFINE a == Append(rs, r)
           n == Len(rs)
<1>1. rs \in Seq(ToSet(rs) \cup {r})
  <2>1. rs \in Seq(ToSet(rs))
    BY DEF Accounts
  <2> QED BY <2>1, OwnRange
<1>2. /\ a \in Seq(ToSet(rs) \cup {r}) /\ DOMAIN rs = 1 .. n /\ n \in Nat /\ DOMAIN a = 1 .. (n + 1)
      /\ a[n + 1] = r /\ \A i \in 1 .. n : a[i] = rs[i]
  <2>1. \A S : rs \in Seq(S) /\ r \in S =>
              /\ a \in Seq(S) /\ DOMAIN rs = 1 .. n /\ n \in Nat /\ DOMAIN a = 1 .. (n + 1)
              /\ a[n + 1] = r /\ \A i \in 1 .. n : a[i] = rs[i]
    OBVIOUS
  <2> HIDE DEF a, n
  <2> QED BY <1>1, <2>1
<1>3. a \in Seq(ToSet(a))
  <2> HIDE DEF a
  <2> QED BY <1>2, OwnRange
<1>4. IdentifiersOf(X \cup {x}) = IdentifiersOf(X) \cup {x.extractor_id}
  BY DEF IdentifiersOf
<1> HIDE DEF a, n
<1>5. \A i \in DOMAIN a : (i \in DOMAIN rs /\ a[i] = rs[i]) \/ (i = n + 1 /\ a[i] = r)
  BY <1>2
<1>6. \A i \in DOMAIN rs : Shaped(rs[i]) /\ Identifiers(rs[i]) \subseteq IdentifiersOf(X)
  BY DEF Accounts
<1>7. \A i \in DOMAIN a : Shaped(a[i]) /\ Identifiers(a[i]) \subseteq IdentifiersOf(X \cup {x})
  <2> TAKE i \in DOMAIN a
  <2> HIDE DEF Shaped, Identifiers, IdentifiersOf
  <2> QED BY <1>4, <1>5, <1>6
<1>8. \A i, j \in DOMAIN a : i # j => Identifiers(a[i]) \cap Identifiers(a[j]) = {}
  <2> SUFFICES ASSUME NEW i \in DOMAIN a, NEW j \in DOMAIN a, i # j PROVE Identifiers(a[i]) \cap Identifiers(a[j]) = {}
    OBVIOUS
  <2>1. CASE i \in DOMAIN rs /\ j \in DOMAIN rs
    BY <1>2, <2>1 DEF Accounts
  <2>2. CASE i \in DOMAIN rs /\ j = n + 1
    <3>1. Identifiers(a[i]) \subseteq IdentifiersOf(X) /\ Identifiers(a[j]) = {x.extractor_id}
      BY <1>2, <1>6, <2>2
    <3> QED BY <3>1
  <2>3. CASE i = n + 1 /\ j \in DOMAIN rs
    <3>1. Identifiers(a[j]) \subseteq IdentifiersOf(X) /\ Identifiers(a[i]) = {x.extractor_id}
      BY <1>2, <1>6, <2>3
    <3> QED BY <3>1
  <2> QED BY <1>5, <2>1, <2>2, <2>3
<1>9. \A y \in X \cup {x} : \E j \in DOMAIN a : Stands(a[j], y)
  <2> SUFFICES ASSUME NEW y \in X \cup {x} PROVE \E j \in DOMAIN a : Stands(a[j], y)
    OBVIOUS
  <2>1. CASE y = x
    BY <1>2, <2>1
  <2>2. CASE y \in X
    <3>1. PICK j \in DOMAIN rs : Stands(rs[j], y)
      BY <2>2 DEF Accounts
    <3>2. j \in DOMAIN a /\ a[j] = rs[j]
      BY <1>2, <3>1
    <3> QED BY <3>1, <3>2
  <2> QED BY <2>1, <2>2
<1> QED BY <1>3, <1>7, <1>8, <1>9 DEF Accounts, a

\* Two lists of results for two sets of candidates.
LEMMA ConcatAccounts ==
    ASSUME NEW S, NEW rs \in Seq(S), NEW X, Accounts(rs, X), NEW ts \in Seq(S), NEW Y, Accounts(ts, Y),
           IdentifiersOf(X) \cap IdentifiersOf(Y) = {}
    PROVE  Accounts(rs \o ts, X \cup Y)
<1> DEFINE a == rs \o ts
           n == Len(rs)
<1>1. /\ DOMAIN rs = 1 .. n /\ DOMAIN ts = 1 .. Len(ts) /\ n \in Nat /\ Len(ts) \in Nat
      /\ a \in Seq(S) /\ DOMAIN a = 1 .. (n + Len(ts))
      /\ \A i \in 1 .. n + Len(ts) : a[i] = IF i <= n THEN rs[i] ELSE ts[i - n]
  BY ConcatProperties
<1>2. a \in Seq(ToSet(a))
  <2> HIDE DEF a
  <2> QED BY <1>1, OwnRange
<1>3. IdentifiersOf(X \cup Y) = IdentifiersOf(X) \cup IdentifiersOf(Y)
  BY DEF IdentifiersOf
<1> HIDE DEF a, n
<1>4. \A i \in DOMAIN a : \/ i \in DOMAIN rs /\ a[i] = rs[i]
                          \/ i - n \in DOMAIN ts /\ a[i] = ts[i - n] /\ i \in Int
  BY <1>1
<1>5. /\ \A i \in DOMAIN rs : Shaped(rs[i]) /\ Identifiers(rs[i]) \subseteq IdentifiersOf(X)
      /\ \A i \in DOMAIN ts : Shaped(ts[i]) /\ Identifiers(ts[i]) \subseteq IdentifiersOf(Y)
  BY DEF Accounts
<1>6. /\ \A i, j \in DOMAIN rs : i # j => Identifiers(rs[i]) \cap Identifiers(rs[j]) = {}
      /\ \A i, j \in DOMAIN ts : i # j => Identifiers(ts[i]) \cap Identifiers(ts[j]) = {}
  BY DEF Accounts
<1>7. \A i \in DOMAIN a : Shaped(a[i]) /\ Identifiers(a[i]) \subseteq IdentifiersOf(X \cup Y)
  <2> TAKE i \in DOMAIN a
  <2> HIDE DEF Shaped, Identifiers, IdentifiersOf
  <2> QED BY <1>3, <1>4, <1>5
<1>8. \A i, j \in DOMAIN a : i # j => Identifiers(a[i]) \cap Identifiers(a[j]) = {}
  <2> SUFFICES ASSUME NEW i \in DOMAIN a, NEW j \in DOMAIN a, i # j PROVE Identifiers(a[i]) \cap Identifiers(a[j]) = {}
    OBVIOUS
  <2>0. i \in Int /\ j \in Int /\ n \in Nat
    BY <1>1
  <2> HIDE DEF Identifiers, IdentifiersOf
  <2>1. CASE i \in DOMAIN rs /\ a[i] = rs[i] /\ j \in DOMAIN rs /\ a[j] = rs[j]
    BY <1>6, <2>1
  <2>2. CASE i - n \in DOMAIN ts /\ a[i] = ts[i - n] /\ j - n \in DOMAIN ts /\ a[j] = ts[j - n]
    <3>1. i - n # j - n
      BY <2>0
    <3> QED BY <1>6, <2>2, <3>1
  <2>3. CASE i \in DOMAIN rs /\ a[i] = rs[i] /\ j - n \in DOMAIN ts /\ a[j] = ts[j - n]
    <3>1. Identifiers(a[i]) \subseteq IdentifiersOf(X) /\ Identifiers(a[j]) \subseteq IdentifiersOf(Y)
      BY <1>5, <2>3
    <3> QED BY <3>1
  <2>4. CASE j \in DOMAIN rs /\ a[j] = rs[j] /\ i - n \in DOMAIN ts /\ a[i] = ts[i - n]
    <3>1. Identifiers(a[j]) \subseteq IdentifiersOf(X) /\ Identifiers(a[i]) \subseteq IdentifiersOf(Y)
      BY <1>5, <2>4
    <3> QED BY <3>1
  <2> QED BY <1>4, <2>1, <2>2, <2>3, <2>4
<1>9. \A y \in X \cup Y : \E j \in DOMAIN a : Stands(a[j], y)
  <2> SUFFICES ASSUME NEW y \in X \cup Y PROVE \E j \in DOMAIN a : Stands(a[j], y)
    OBVIOUS
  <2>1. CASE y \in X
    <3>1. PICK j \in DOMAIN rs : Stands(rs[j], y)
      BY <2>1 DEF Accounts
    <3>2. j \in DOMAIN a /\ a[j] = rs[j]
      BY <1>1, <3>1
    <3> QED BY <3>1, <3>2
  <2>2. CASE y \in Y
    <3>1. PICK j \in DOMAIN ts : Stands(ts[j], y)
      BY <2>2 DEF Accounts
    <3>2. n + j \in DOMAIN a /\ a[n + j] = ts[j]
      <4>1. j \in 1 .. Len(ts) /\ n + j \in 1 .. (n + Len(ts)) /\ ~(n + j <= n) /\ (n + j) - n = j
        BY <1>1, <3>1
      <4> QED BY <1>1, <4>1
    <3> QED BY <3>1, <3>2
  <2> QED BY <2>1, <2>2
<1> QED BY <1>2, <1>7, <1>8, <1>9 DEF Accounts, a

\* The results of groups that share no candidate, one after the other.
LEMMA FlattenAccounts ==
    ASSUME NEW S, NEW ss \in Seq(Seq(S)), NEW Xs,
           \A i \in 1 .. Len(ss) : Accounts(ss[i], Xs[i]),
           \A i, j \in 1 .. Len(ss) : i # j => IdentifiersOf(Xs[i]) \cap IdentifiersOf(Xs[j]) = {}
    PROVE  Accounts(FlattenSeq(ss), UNION {Xs[i] : i \in 1 .. Len(ss)})
<1>1. PICK f \in [0 .. Len(ss) -> Seq(S)] : Concatenates(f, ss, Len(ss)) /\ FlattenSeq(ss) = f[Len(ss)]
  BY FlattenSteps
<1>2. Len(ss) \in Nat /\ \A i \in 1 .. Len(ss) : ss[i] \in Seq(S)
  OBVIOUS
<1> DEFINE N == Len(ss)
           Before(n) == UNION {Xs[i] : i \in 1 .. n}
           Good == {n \in 0 .. N : Accounts(f[n], Before(n))}
<1>3. 0 \in Good
  <2>1. f[0] = <<>> /\ Before(0) = {} /\ 0 \in 0 .. N
    BY <1>1, <1>2 DEF Concatenates
  <2> QED BY <2>1, NothingAccounts
<1>4. ASSUME NEW n \in 0 .. N, n < N, n \in Good PROVE n + 1 \in Good
  <2>1. n \in Nat /\ n + 1 \in 1 .. N /\ n + 1 \in 0 .. N
    BY <1>2, <1>4
  <2>2. f[n + 1] = f[n] \o ss[n + 1] /\ f[n] \in Seq(S) /\ ss[n + 1] \in Seq(S)
    BY <1>1, <1>2, <1>4, <2>1 DEF Concatenates
  <2>3. 1 .. (n + 1) = (1 .. n) \cup {n + 1} /\ \A i \in 1 .. n : i \in 1 .. N /\ i # n + 1
    BY <1>2, <2>1
  <2>4. Before(n + 1) = Before(n) \cup Xs[n + 1]
    BY <2>3
  <2>5. IdentifiersOf(Before(n)) = UNION {IdentifiersOf(Xs[i]) : i \in 1 .. n}
    BY DEF IdentifiersOf
  <2>6. \A i \in 1 .. n : IdentifiersOf(Xs[i]) \cap IdentifiersOf(Xs[n + 1]) = {}
    <3> HIDE DEF IdentifiersOf
    <3> QED BY <2>1, <2>3
  <2>7. IdentifiersOf(Before(n)) \cap IdentifiersOf(Xs[n + 1]) = {}
    <3> HIDE DEF IdentifiersOf, Before
    <3> QED BY <2>5, <2>6
  <2>8. Accounts(f[n], Before(n)) /\ Accounts(ss[n + 1], Xs[n + 1])
    BY <1>4, <2>1
  <2> HIDE DEF Before
  <2>9. Accounts(f[n] \o ss[n + 1], Before(n) \cup Xs[n + 1])
    BY <2>2, <2>7, <2>8, ConcatAccounts
  <2> QED BY <2>1, <2>2, <2>4, <2>9
<1>5. N \in Good
  <2> HIDE DEF Good
  <2>1. \A n \in 0 .. N : n \in Good
    <3> HIDE DEF N
    <3>1. N \in Nat
      BY <1>2 DEF N
    <3> QED BY <3>1, <1>3, <1>4, PrefixInduction
  <2> QED BY <1>2, <2>1
<1> QED BY <1>1, <1>5

-----------------------------------------------------------------------------
(* One group: its primary, its merge and its notices.                        *)

\* A candidate as an agent extracts it: of one source, and nothing merged yet.
Single(p) ==
    /\ Shaped(p) /\ p.members = {} /\ IsFiniteSet(p.evidence)
    /\ \E s : p.sources = {s}
    /\ notice_day(p) \in Int

\* Different candidates have different extraction identifiers.
Keyed(X) ==
    /\ \A x \in X : Single(x)
    /\ \A x, y \in X : x.extractor_id = y.extractor_id => x = y

\* The documents in hand are snapshots.
InHand(in_docs) == \A s \in DOMAIN in_docs : in_docs[s] \in DOMAIN Snapshot

\* Whatever is sorted by a number, ties by position, is ordered.
LEMMA NumbersOrder ==
    ASSUME NEW n \in Nat, NEW key, \A i \in 1 .. n : key[i] \in Int, NEW R,
           \A i, j \in 1 .. n : <<i, j>> \in R <=> key[i] < key[j] \/ (i < j /\ ~(key[j] < key[i]))
    PROVE  Orders(R, n)
<1>1. \A i \in 1 .. n : <<i, i>> \notin R
  OBVIOUS
<1>2. \A i, j \in 1 .. n : i # j => <<i, j>> \in R \/ <<j, i>> \in R
  OBVIOUS
<1>3. \A i, j, k \in 1 .. n : <<i, j>> \in R /\ <<j, k>> \in R => <<i, k>> \in R
  OBVIOUS
<1> QED BY <1>1, <1>2, <1>3 DEF Orders

\* The days of notices order them, and those of one day stay as they are.
LEMMA DaysOrder ==
    ASSUME NEW X, NEW s \in Seq(X), \A x \in X : notice_day(x) \in Int
    PROVE  Orders(by_notice_day(s), Len(s))
<1> DEFINE key == [i \in 1 .. Len(s) |-> notice_day(s[i])]
           R == by_notice_day(s)
<1>1. Len(s) \in Nat /\ DOMAIN s = 1 .. Len(s) /\ \A i \in 1 .. Len(s) : s[i] \in X
  OBVIOUS
<1> HIDE DEF notice_day
<1>2. \A i \in 1 .. Len(s) : key[i] = notice_day(s[i]) /\ key[i] \in Int
  BY <1>1
<1> HIDE DEF key
<1>3. R = {q \in (1 .. Len(s)) \X (1 .. Len(s)) :
             \/ notice_day(s[q[1]]) < notice_day(s[q[2]])
             \/ (q[1] < q[2] /\ ~(notice_day(s[q[2]]) < notice_day(s[q[1]])))}
  BY <1>1 DEF by_notice_day
<1> HIDE DEF R
<1>4. \A i, j \in 1 .. Len(s) : <<i, j>> \in R <=> key[i] < key[j] \/ (i < j /\ ~(key[j] < key[i]))
  BY <1>2, <1>3
<1>5. Orders(R, Len(s))
  <2> DEFINE n == Len(s)
  <2>1. n \in Nat
    BY <1>1
  <2>2. \A i \in 1 .. n : key[i] \in Int
    BY <1>2
  <2>3. \A i, j \in 1 .. n : <<i, j>> \in R <=> key[i] < key[j] \/ (i < j /\ ~(key[j] < key[i]))
    BY <1>4
  <2> HIDE DEF n
  <2>4. Orders(R, n)
    BY <2>1, <2>2, <2>3, NumbersOrder
  <2> QED BY <2>4 DEF n
<1> QED BY <1>5 DEF R

\* The comparison of two strengths, which are four numbers.
LEMMA StrongerFacts ==
    ASSUME NEW a, NEW b, a \in Int \X Int \X Int \X Int, b \in Int \X Int \X Int \X Int
    PROVE  stronger(a, b) <=> \/ a[1] > b[1]
                              \/ a[1] = b[1] /\ a[2] > b[2]
                              \/ a[1] = b[1] /\ a[2] = b[2] /\ a[3] > b[3]
                              \/ a[1] = b[1] /\ a[2] = b[2] /\ a[3] = b[3] /\ a[4] > b[4]
<1>1. DOMAIN a = 1 .. 4 /\ 1 .. 4 = {1, 2, 3, 4}
  OBVIOUS
<1>2. 1 .. (1 - 1) = {} /\ 1 .. (2 - 1) = {1} /\ 1 .. (3 - 1) = {1, 2} /\ 1 .. (4 - 1) = {1, 2, 3}
  OBVIOUS
<1> QED BY <1>1, <1>2 DEF stronger

\* Whatever is sorted by strength, ties by position, is ordered.
LEMMA StrengthsOrder ==
    ASSUME NEW n \in Nat, NEW key, \A i \in 1 .. n : key[i] \in Int \X Int \X Int \X Int, NEW R,
           \A i, j \in 1 .. n :
              <<i, j>> \in R <=> stronger(key[i], key[j]) \/ (i < j /\ ~stronger(key[j], key[i]))
    PROVE  Orders(R, n)
<1> DEFINE Above(a, b) == \/ a[1] > b[1]
                          \/ a[1] = b[1] /\ a[2] > b[2]
                          \/ a[1] = b[1] /\ a[2] = b[2] /\ a[3] > b[3]
                          \/ a[1] = b[1] /\ a[2] = b[2] /\ a[3] = b[3] /\ a[4] > b[4]
<1>1. \A i, j \in 1 .. n : stronger(key[i], key[j]) <=> Above(key[i], key[j])
  BY StrongerFacts
<1>2. \A i \in 1 .. n : key[i][1] \in Int /\ key[i][2] \in Int /\ key[i][3] \in Int /\ key[i][4] \in Int
  OBVIOUS
<1>3. \A i, j \in 1 .. n : <<i, j>> \in R <=> Above(key[i], key[j]) \/ (i < j /\ ~Above(key[j], key[i]))
  <2> HIDE DEF Above
  <2> TAKE i, j \in 1 .. n
  <2>1. (stronger(key[i], key[j]) <=> Above(key[i], key[j])) /\ (stronger(key[j], key[i]) <=> Above(key[j], key[i]))
    BY <1>1
  <2>2. <<i, j>> \in R <=> stronger(key[i], key[j]) \/ (i < j /\ ~stronger(key[j], key[i]))
    OBVIOUS
  <2> QED BY <2>1, <2>2
<1>4. \A i \in 1 .. n : <<i, i>> \notin R
  BY <1>2, <1>3
<1>5. \A i, j \in 1 .. n : i # j => <<i, j>> \in R \/ <<j, i>> \in R
  BY <1>2, <1>3
<1>6. ASSUME NEW i \in 1 .. n, NEW j \in 1 .. n, NEW k \in 1 .. n, <<i, j>> \in R, <<j, k>> \in R
      PROVE  <<i, k>> \in R
  <2>1. Above(key[i], key[j]) \/ (i < j /\ ~Above(key[j], key[i]))
    BY <1>3, <1>6
  <2>2. Above(key[j], key[k]) \/ (j < k /\ ~Above(key[k], key[j]))
    BY <1>3, <1>6
  <2>3. Above(key[i], key[k]) \/ (i < k /\ ~Above(key[k], key[i]))
    BY <1>2, <2>1, <2>2
  <2> QED BY <1>3, <2>3
<1> QED BY <1>4, <1>5, <1>6 DEF Orders

\* The strength of a candidate of one source is four numbers.
LEMMA StrengthTypes ==
    ASSUME NEW in_docs, InHand(in_docs), NEW p, Single(p)
    PROVE  strength(p, in_docs) \in Int \X Int \X Int \X Int
<1>1. PICK s : p.sources = {s}
  BY DEF Single
<1> DEFINE here == p.sources \cap DOMAIN in_docs
           official == {t \in here : Snapshot[in_docs[t]].official}
           documents == {Snapshot[r] : r \in related(p, in_docs)}
           dates == {d.published : d \in documents}
<1>2. Cardinality(p.evidence) \in Int
  BY FS_CardinalityType DEF Single
<1>3. Cardinality(official) \in Int
  <2>1. official = {} \/ official = {s}
    BY <1>1
  <2> HIDE DEF official
  <2> QED BY <2>1, FS_EmptySet, FS_Singleton
<1>4. documents # {} => Max(dates) \in Int
  <2> SUFFICES ASSUME documents # {} PROVE Max(dates) \in Int
    OBVIOUS
  <2>1. s \in DOMAIN in_docs /\ related(p, in_docs) = {in_docs[s]}
    BY <1>1 DEF related
  <2>2. dates = {Snapshot[in_docs[s]].published}
    BY <2>1
  <2>3. Snapshot[in_docs[s]].published \in Int
    BY <2>1, PolicyAssumption DEF InHand
  <2> HIDE DEF dates
  <2> QED BY <2>2, <2>3 DEF Max
<1> HIDE DEF official, dates
<1>5. strength(p, in_docs) =
        <<IF p.years # {} \/ (\E d \in documents : d.years # {}) THEN 1 ELSE 0, Cardinality(official),
          Cardinality(p.evidence), IF documents = {} THEN 0 ELSE Max(dates)>>
  BY DEF strength, official, dates
<1> HIDE DEF documents
<1> QED BY <1>2, <1>3, <1>4, <1>5

\* Strength orders candidates, and of equally strong ones the first comes first.
LEMMA StrengthOrders ==
    ASSUME NEW in_docs, InHand(in_docs), NEW X, NEW s \in Seq(X), \A x \in X : Single(x)
    PROVE  Orders(by_strength(s, in_docs), Len(s))
<1> DEFINE n == Len(s)
           key == [i \in 1 .. n |-> strength(s[i], in_docs)]
           R == by_strength(s, in_docs)
<1>1. n \in Nat /\ DOMAIN s = 1 .. n /\ \A i \in 1 .. n : s[i] \in X
  OBVIOUS
<1>2. \A i \in 1 .. n : key[i] = strength(s[i], in_docs) /\ key[i] \in Int \X Int \X Int \X Int
  <2> TAKE i \in 1 .. n
  <2>1. strength(s[i], in_docs) \in Int \X Int \X Int \X Int
    BY <1>1, StrengthTypes
  <2> HIDE DEF strength
  <2> QED BY <2>1
<1> HIDE DEF strength, stronger, key
<1>3. R = {q \in (1 .. n) \X (1 .. n) :
             \/ stronger(strength(s[q[1]], in_docs), strength(s[q[2]], in_docs))
             \/ (q[1] < q[2] /\ ~stronger(strength(s[q[2]], in_docs), strength(s[q[1]], in_docs)))}
  BY <1>1 DEF by_strength
<1> HIDE DEF R, n
<1>4. \A i, j \in 1 .. n :
         <<i, j>> \in R <=> stronger(key[i], key[j]) \/ (i < j /\ ~stronger(key[j], key[i]))
  BY <1>2, <1>3
<1>5. Orders(R, n)
  BY <1>1, <1>2, <1>4, StrengthsOrder
<1> QED BY <1>5 DEF R, n

\* The primary of a group is one of its candidates.
LEMMA PrimaryIsOne ==
    ASSUME NEW in_docs, InHand(in_docs), NEW X, NEW s \in Seq(X), \A x \in X : Single(x), s # <<>>
    PROVE  canonical_policy_primary(s, in_docs) \in ToSet(s)
<1> DEFINE R == by_strength(s, in_docs)
           a == Arranged(s, R)
<1>1. Orders(R, Len(s))
  BY StrengthOrders
<1> HIDE DEF R
<1>2. a \in Seq(X) /\ ToSet(a) = ToSet(s) /\ Len(a) = Len(s)
  BY <1>1, ArrangedRange
<1>3. Len(s) \in Nat \ {0}
  OBVIOUS
<1> HIDE DEF a
<1>4. 1 \in DOMAIN a
  BY <1>2, <1>3
<1>5. a[1] \in ToSet(a)
  BY <1>4 DEF ToSet
<1> QED BY <1>2, <1>5 DEF canonical_policy_primary, a, R

\* The originals of a group come to one result, which speaks for all of them.
LEMMA MergeAccounts ==
    ASSUME NEW in_docs, InHand(in_docs), NEW X, Keyed(X), NEW s \in Seq(X), s # <<>>
    PROVE  Accounts(<<merge_originals(s, in_docs)>>, ToSet(s))
<1> DEFINE all == ToSet(s)
           primary == canonical_policy_primary(s, in_docs)
           m == merge_originals(s, in_docs)
           fields == merge_consistent_policy_fields(primary, s)
<1>1. all \subseteq X /\ \A x \in all : Single(x)
  BY OwnRange DEF Keyed
<1>2. primary \in all /\ Single(primary)
  <2>1. \A x \in X : Single(x)
    BY DEF Keyed
  <2> QED BY <1>1, <2>1, PrimaryIsOne
<1> HIDE DEF primary
<1>3. DOMAIN fields = DOMAIN primary /\ fields.extractor_id = primary.extractor_id /\ fields.members = {}
  BY <1>2 DEF Single, Shaped, merge_consistent_policy_fields
<1> HIDE DEF fields, all
<1>4. /\ Shaped(m) /\ m.extractor_id = primary.extractor_id
      /\ m.members = IF Len(s) = 1 THEN {} ELSE {p.extractor_id : p \in all}
      /\ m.sources = UNION {p.sources : p \in all} /\ m.evidence = UNION {p.evidence : p \in all}
  BY <1>2, <1>3 DEF Single, Shaped, merge_originals, all, primary, fields
<1> HIDE DEF m
<1>5. Identifiers(m) = IdentifiersOf(all)
  <2>1. CASE Len(s) = 1
    <3>1. DOMAIN s = {1}
      BY <2>1
    <3>2. all = {s[1]}
      BY <3>1 DEF all, ToSet
    <3> QED BY <1>2, <1>4, <2>1, <3>2 DEF Identifiers, IdentifiersOf
  <2>2. CASE Len(s) # 1
    BY <1>2, <1>4, <2>2 DEF Identifiers, IdentifiersOf
  <2> QED BY <2>1, <2>2
<1>6. \A x \in all : Stands(m, x)
  BY <1>4, <1>5 DEF Stands, IdentifiersOf, QuotesOf
<1>7. Accounts(<<m>>, all)
  BY <1>4, <1>5, <1>6, OneAccounts
<1> QED BY <1>7 DEF m, all

\* A notice becomes a result of its own.
LEMMA LinkAccounts ==
    ASSUME NEW rs, NEW X, Accounts(rs, X), NEW p, Single(p), p.extractor_id \notin IdentifiersOf(X)
    PROVE  Accounts(link_notice(rs, p), X \cup {p})
<1> DEFINE linked == IF rs = <<>> THEN p ELSE [p EXCEPT !.supersedes = Last(rs).id]
           r == IF p.notice = "TERMINATION" /\ p.codes = {} THEN [linked EXCEPT !.validation = "CLOSED"] ELSE linked
<1>1. link_notice(rs, p) = Append(rs, r)
  BY DEF link_notice
<1>2. /\ DOMAIN linked = DOMAIN p /\ linked.extractor_id = p.extractor_id /\ linked.sources = p.sources
      /\ linked.evidence = p.evidence /\ linked.members = {}
  BY DEF Single, Shaped
<1> HIDE DEF linked
<1>3. /\ DOMAIN r = DOMAIN p /\ r.extractor_id = p.extractor_id /\ r.sources = p.sources
      /\ r.evidence = p.evidence /\ r.members = {}
  BY <1>2 DEF Single, Shaped
<1> HIDE DEF r
<1>4. Shaped(r) /\ Identifiers(r) = {p.extractor_id} /\ Stands(r, p)
  BY <1>3 DEF Single, Shaped, Identifiers, Stands, QuotesOf
<1>5. Accounts(Append(rs, r), X \cup {p})
  BY <1>4, AppendAccounts
<1> QED BY <1>1, <1>5

Linking == INSTANCE SequenceLemmas WITH Op <- link_notice

\* So the notices of a group are added one by one.
LEMMA NoticesAccount ==
    ASSUME NEW X, Keyed(X), NEW Y, Y \subseteq X, NEW kept, Accounts(kept, Y),
           NEW s \in Seq(X), IsInjective(s), ToSet(s) \cap Y = {}
    PROVE  Accounts(FoldLeft(link_notice, kept, s), Y \cup ToSet(s))
<1> DEFINE N == Len(s)
           Before(n) == Y \cup {s[i] : i \in 1 .. n}
<1>1. N \in Nat /\ DOMAIN s = 1 .. N /\ \A i \in 1 .. N : s[i] \in X /\ s[i] \in ToSet(s)
  <2>1. N \in Nat /\ DOMAIN s = 1 .. N /\ \A i \in 1 .. N : s[i] \in X
    OBVIOUS
  <2> QED BY <2>1 DEF ToSet
<1>2. PICK f : Linking!Folds(f, kept, s, Len(s)) /\ Linking!FoldLeft(link_notice, kept, s) = f[Len(s)]
  BY Linking!FoldSteps
<1>r. FoldLeft(link_notice, kept, s) = f[N]
  <2>1. FoldLeft(link_notice, kept, s) = Linking!FoldLeft(link_notice, kept, s)
    BY DEF FoldLeft, MapThenFoldSet, Max, Linking!FoldLeft, Linking!MapThenFoldSet, Linking!Max
  <2> QED BY <1>2, <2>1
<1>3. f[0] = kept /\ \A i \in 0 .. N : i < N => f[i + 1] = link_notice(f[i], s[i + 1])
  BY <1>2 DEF Linking!Folds
<1> DEFINE Good == {n \in 0 .. N : Accounts(f[n], Before(n))}
<1> HIDE DEF N
<1>4. 0 \in Good
  <2>1. 0 \in 0 .. N /\ Before(0) = Y
    BY <1>1
  <2> QED BY <1>3, <2>1
<1>5. ASSUME NEW n \in 0 .. N, n < N, n \in Good PROVE n + 1 \in Good
  <2>1. n \in Nat /\ n + 1 \in 1 .. N /\ n + 1 \in 0 .. N /\ \A i \in 1 .. n : i \in 1 .. N /\ i # n + 1
    BY <1>1, <1>5
  <2>2. 1 .. (n + 1) = (1 .. n) \cup {n + 1}
    BY <2>1
  <2>3. Before(n + 1) = Before(n) \cup {s[n + 1]}
    BY <2>2
  <2>4. Before(n) \subseteq X /\ s[n + 1] \in X /\ s[n + 1] \notin Before(n)
    <3>1. \A i \in 1 .. n : s[i] # s[n + 1]
      BY <1>1, <2>1 DEF IsInjective
    <3> QED BY <1>1, <2>1, <3>1
  <2> HIDE DEF Before
  <2>5. s[n + 1].extractor_id \notin IdentifiersOf(Before(n)) /\ Single(s[n + 1])
    BY <2>4 DEF Keyed, IdentifiersOf
  <2>6. Accounts(link_notice(f[n], s[n + 1]), Before(n) \cup {s[n + 1]})
    BY <1>5, <2>5, LinkAccounts
  <2> QED BY <1>3, <1>5, <2>1, <2>3, <2>6
<1>6. N \in Good
  <2> HIDE DEF Good
  <2>1. \A n \in 0 .. N : n \in Good
    BY <1>1, <1>4, <1>5, PrefixInduction
  <2> QED BY <1>1, <2>1
<1>7. Before(N) = Y \cup ToSet(s)
  BY <1>1 DEF ToSet
<1>8. Accounts(f[N], Before(N))
  BY <1>6
<1> HIDE DEF Before
<1> QED BY <1>r, <1>7, <1>8

\* What becomes of a group speaks for each of its candidates.
LEMMA GroupAccounts ==
    ASSUME NEW in_docs, InHand(in_docs), NEW X, Keyed(X), NEW group \in Seq(X), IsInjective(group)
    PROVE  Accounts(reconcile_group(group, in_docs), ToSet(group))
<1> DEFINE told == {i \in DOMAIN group : is_notice(group[i])}
           originals == Chosen(group, (DOMAIN group) \ told)
           notices == Chosen(group, told)
           kept == IF originals = <<>> THEN <<>> ELSE <<merge_originals(originals, in_docs)>>
           sorted == Arranged(notices, by_notice_day(notices))
<1>1. told \subseteq DOMAIN group
  OBVIOUS
<1> HIDE DEF told
<1>2. /\ originals \in Seq(X) /\ ToSet(originals) = {group[i] : i \in (DOMAIN group) \ told}
      /\ notices \in Seq(X) /\ ToSet(notices) = {group[i] : i \in told}
      /\ IsInjective(notices)
  <2>1. ((DOMAIN group) \ told) \cap DOMAIN group = (DOMAIN group) \ told /\ told \cap DOMAIN group = told
    BY <1>1
  <2>2. originals \in Seq(X) /\ ToSet(originals) = {group[i] : i \in ((DOMAIN group) \ told) \cap DOMAIN group}
    BY ChosenRange
  <2>3. notices \in Seq(X) /\ ToSet(notices) = {group[i] : i \in told \cap DOMAIN group}
    BY ChosenRange
  <2>4. IsInjective(notices)
    BY ChosenInjective
  <2> HIDE DEF originals, notices
  <2> QED BY <2>1, <2>2, <2>3, <2>4
<1> HIDE DEF originals, notices
<1>3. Accounts(kept, ToSet(originals))
  <2>1. CASE originals = <<>>
    <3>1. ToSet(<<>>) = {}
      BY DEF ToSet
    <3> QED BY <2>1, <3>1, NothingAccounts
  <2>2. CASE originals # <<>>
    BY <1>2, <2>2, MergeAccounts
  <2> QED BY <2>1, <2>2
<1>4. Orders(by_notice_day(notices), Len(notices))
  <2>1. \A x \in X : notice_day(x) \in Int
    BY DEF Keyed, Single
  <2> QED BY <1>2, <2>1, DaysOrder
<1>5. sorted \in Seq(X) /\ ToSet(sorted) = ToSet(notices) /\ IsInjective(sorted)
  BY <1>2, <1>4, ArrangedRange
<1> HIDE DEF sorted, kept
<1>6. ToSet(originals) \subseteq X /\ ToSet(sorted) \cap ToSet(originals) = {}
      /\ ToSet(originals) \cup ToSet(sorted) = ToSet(group)
  <2>1. \A i, j \in DOMAIN group : group[i] = group[j] => i = j
    BY DEF IsInjective
  <2>2. ToSet(group) = {group[i] : i \in DOMAIN group}
    BY DEF ToSet
  <2>3. \A i \in DOMAIN group : group[i] \in X
    OBVIOUS
  <2> QED BY <1>1, <1>2, <1>5, <2>1, <2>2, <2>3
<1>7. Accounts(FoldLeft(link_notice, kept, sorted), ToSet(originals) \cup ToSet(sorted))
  BY <1>3, <1>5, <1>6, NoticesAccount
<1>8. reconcile_group(group, in_docs) = FoldLeft(link_notice, kept, sorted)
  BY DEF reconcile_group, told, originals, notices, kept, sorted
<1> QED BY <1>6, <1>7, <1>8

-----------------------------------------------------------------------------
(* The groups.                                                              *)

\* Nothing that both state tells them apart.
Kin(p, q) ==
    p.name = q.name /\ p.type = q.type /\ differing(p.terms, q.terms) = {}

\* gs divides the candidates T; those of a group do not contradict each other.
Divides(gs, X, T) ==
    /\ gs \in Seq(Seq(X))
    /\ \A i \in 1 .. Len(gs) : IsInjective(gs[i])
    /\ \A i, j \in 1 .. Len(gs) : i # j => ToSet(gs[i]) \cap ToSet(gs[j]) = {}
    /\ UNION {ToSet(gs[i]) : i \in 1 .. Len(gs)} = T
    /\ \A i \in 1 .. Len(gs) : \A p, q \in ToSet(gs[i]) : Kin(p, q)

\* A candidate joins one group, or starts one.
LEMMA AnotherDivides ==
    ASSUME NEW in_docs, NEW X, NEW T, NEW gs, Divides(gs, X, T), NEW p \in X, p \notin T
    PROVE  Divides(with_another(gs, p, in_docs), X, T \cup {p})
<1> DEFINE n == Len(gs)
           open == {i \in DOMAIN gs : joins(gs[i], p, in_docs)}
<1>1. /\ gs \in Seq(Seq(X)) /\ n \in Nat /\ DOMAIN gs = 1 .. n
      /\ \A i \in 1 .. n : gs[i] \in Seq(X)
  BY DEF Divides
<1>2. \A i \in 1 .. n : p \notin ToSet(gs[i])
  BY DEF Divides
<1>3. open \subseteq 1 .. n /\ 1 .. n \subseteq Nat
  BY <1>1
<1>k. Kin(p, p)
  BY DEF Kin, differing
<1>j. \A i \in open : \A q \in ToSet(gs[i]) : Kin(p, q) /\ Kin(q, p)
  <2> TAKE i \in open
  <2> TAKE q \in ToSet(gs[i])
  <2>1. PICK k \in DOMAIN gs[i] : q = gs[i][k]
    BY DEF ToSet
  <2>2. policies_semantically_equivalent(p, q, in_docs)
    BY <2>1 DEF joins
  <2>3. p.name = q.name /\ p.type = q.type /\ differing(p.terms, q.terms) = {}
    BY <2>2 DEF policies_semantically_equivalent, same_programme
  <2> QED BY <2>3 DEF Kin, differing
<1> HIDE DEF open, Kin
<1>4. CASE open = {}
  <2> DEFINE one == <<p>>
             g == Append(gs, one)
  <2>1. with_another(gs, p, in_docs) = g
    BY <1>4 DEF with_another, open
  <2>2. one \in Seq(X) /\ ToSet(one) = {p} /\ IsInjective(one)
    <3>1. one \in Seq(X) /\ DOMAIN one = {1} /\ one[1] = p
      OBVIOUS
    <3> HIDE DEF one
    <3> QED BY <3>1 DEF ToSet, IsInjective
  <2> HIDE DEF one
  <2>3. /\ g \in Seq(Seq(X)) /\ Len(g) = n + 1 /\ g[n + 1] = one /\ \A i \in 1 .. n : g[i] = gs[i]
    <3> DEFINE Q == Seq(X)
    <3>1. gs \in Seq(Q) /\ one \in Q
      BY <1>1, <2>2
    <3> HIDE DEF Q
    <3>2. /\ g \in Seq(Q) /\ Len(g) = n + 1 /\ g[n + 1] = one /\ \A i \in 1 .. n : g[i] = gs[i]
      BY <3>1
    <3> QED BY <3>2 DEF Q
  <2> HIDE DEF g
  <2>4. 1 .. (n + 1) = (1 .. n) \cup {n + 1} /\ n + 1 \notin 1 .. n
    BY <1>1
  <2> HIDE DEF n
  <2>5. \A i \in 1 .. (n + 1) : IsInjective(g[i])
    BY <2>2, <2>3, <2>4 DEF Divides, n
  <2>6. ASSUME NEW i \in 1 .. (n + 1), NEW j \in 1 .. (n + 1), i # j PROVE ToSet(g[i]) \cap ToSet(g[j]) = {}
    <3>1. CASE i \in 1 .. n /\ j \in 1 .. n
      BY <2>3, <2>6, <3>1 DEF Divides, n
    <3>2. CASE i \in 1 .. n /\ j = n + 1
      BY <1>2, <2>2, <2>3, <3>2
    <3>3. CASE i = n + 1 /\ j \in 1 .. n
      BY <1>2, <2>2, <2>3, <3>3
    <3> QED BY <2>4, <2>6, <3>1, <3>2, <3>3
  <2>7. UNION {ToSet(g[i]) : i \in 1 .. (n + 1)} = T \cup {p}
    <3>1. UNION {ToSet(g[i]) : i \in 1 .. (n + 1)} = (UNION {ToSet(g[i]) : i \in 1 .. n}) \cup ToSet(g[n + 1])
      BY <2>4
    <3>2. {ToSet(g[i]) : i \in 1 .. n} = {ToSet(gs[i]) : i \in 1 .. n}
      BY <2>3
    <3>3. UNION {ToSet(gs[i]) : i \in 1 .. n} = T
      BY DEF Divides, n
    <3> QED BY <2>2, <2>3, <3>1, <3>2, <3>3
  <2>8. \A i \in 1 .. (n + 1) : \A a, c \in ToSet(g[i]) : Kin(a, c)
    <3>1. \A i \in 1 .. n : \A a, c \in ToSet(g[i]) : Kin(a, c)
      BY <2>3 DEF Divides, n
    <3>2. \A a, c \in ToSet(g[n + 1]) : Kin(a, c)
      BY <1>k, <2>2, <2>3
    <3> QED BY <2>4, <3>1, <3>2
  <2> QED BY <2>1, <2>3, <2>5, <2>6, <2>7, <2>8 DEF Divides
<1>5. CASE open # {}
  <2> DEFINE k == Min(open)
             more == Append(gs[k], p)
             g == [gs EXCEPT ![k] = more]
  <2>1. k \in 1 .. n
    BY <1>3, <1>5, LeastPosition
  <2>k. k \in open
    BY <1>3, <1>5, LeastPosition
  <2>2. with_another(gs, p, in_docs) = g
    BY <1>5 DEF with_another, open
  <2> HIDE DEF k
  <2>3. more \in Seq(X) /\ ToSet(more) = ToSet(gs[k]) \cup {p} /\ IsInjective(more)
    <3>1. gs[k] \in Seq(X) /\ IsInjective(gs[k]) /\ p \notin ToSet(gs[k])
      BY <1>1, <1>2, <2>1 DEF Divides
    <3> QED BY <3>1, AppendRange, InjectiveAppend
  <2> HIDE DEF more
  <2>4. /\ g \in Seq(Seq(X)) /\ Len(g) = n /\ g[k] = more /\ \A i \in 1 .. n : i # k => g[i] = gs[i]
    <3> DEFINE Q == Seq(X)
    <3>1. gs \in Seq(Q) /\ more \in Q
      BY <1>1, <2>3
    <3> HIDE DEF Q
    <3>2. /\ g \in Seq(Q) /\ Len(g) = n /\ g[k] = more /\ \A i \in 1 .. n : i # k => g[i] = gs[i]
      BY <3>1, <2>1
    <3> QED BY <3>2 DEF Q
  <2> HIDE DEF g, n
  <2>5. \A i \in 1 .. n : IsInjective(g[i])
    BY <2>3, <2>4 DEF Divides, n
  <2>6. ASSUME NEW i \in 1 .. n, NEW j \in 1 .. n, i # j PROVE ToSet(g[i]) \cap ToSet(g[j]) = {}
    <3>1. ToSet(gs[i]) \cap ToSet(gs[j]) = {}
      BY <2>6 DEF Divides, n
    <3>2. p \notin ToSet(gs[i]) /\ p \notin ToSet(gs[j])
      BY <1>2
    <3>3. ToSet(g[i]) = IF i = k THEN ToSet(gs[i]) \cup {p} ELSE ToSet(gs[i])
      BY <2>3, <2>4
    <3>4. ToSet(g[j]) = IF j = k THEN ToSet(gs[j]) \cup {p} ELSE ToSet(gs[j])
      BY <2>3, <2>4
    <3> QED BY <2>6, <3>1, <3>2, <3>3, <3>4
  <2>7. UNION {ToSet(g[i]) : i \in 1 .. n} = T \cup {p}
    <3>1. \A i \in 1 .. n : ToSet(g[i]) = IF i = k THEN ToSet(gs[i]) \cup {p} ELSE ToSet(gs[i])
      BY <2>3, <2>4
    <3>2. UNION {ToSet(g[i]) : i \in 1 .. n} = (UNION {ToSet(gs[i]) : i \in 1 .. n}) \cup {p}
      BY <2>1, <3>1
    <3>3. UNION {ToSet(gs[i]) : i \in 1 .. n} = T
      BY DEF Divides, n
    <3> QED BY <3>2, <3>3
  <2>8. \A i \in 1 .. n : \A a, c \in ToSet(g[i]) : Kin(a, c)
    <3> TAKE i \in 1 .. n
    <3>1. \A a, c \in ToSet(gs[i]) : Kin(a, c)
      BY DEF Divides, n
    <3>2. CASE i = k
      <4>1. ToSet(g[i]) = ToSet(gs[k]) \cup {p}
        BY <2>3, <2>4, <3>2
      <4>2. \A q \in ToSet(gs[k]) : Kin(p, q) /\ Kin(q, p)
        BY <1>j, <2>k
      <4> QED BY <1>k, <3>1, <3>2, <4>1, <4>2
    <3>3. CASE i # k
      BY <2>4, <3>1, <3>3
    <3> QED BY <3>2, <3>3
  <2> QED BY <2>2, <2>4, <2>5, <2>6, <2>7, <2>8 DEF Divides
<1> QED BY <1>4, <1>5

\* f follows the grouping of s, from nothing to its n-th candidate.
Follows(f, s, in_docs, n) ==
    f[0] = <<>> /\ \A i \in 0 .. n : i < n => f[i + 1] = with_another(f[i], s[i + 1], in_docs)

\* Any list can be grouped, prefix by prefix.
LEMMA GroupingExists ==
    ASSUME NEW s, NEW in_docs, NEW N \in Nat
    PROVE  \E f : f = [i \in 0 .. N |-> f[i]] /\ Follows(f, s, in_docs, N)
<1> DEFINE Good == {n \in 0 .. N : \E f : f = [i \in 0 .. n |-> f[i]] /\ Follows(f, s, in_docs, n)}
<1> HIDE DEF with_another
<1>1. 0 \in Good
  <2> DEFINE f == [i \in 0 .. 0 |-> <<>>]
  <2>1. f[0] = <<>> /\ f = [i \in 0 .. 0 |-> f[i]]
    OBVIOUS
  <2>2. Follows(f, s, in_docs, 0)
    BY <2>1 DEF Follows
  <2> HIDE DEF f
  <2> QED BY <2>1, <2>2
<1>2. ASSUME NEW n \in 0 .. N, n < N, n \in Good PROVE n + 1 \in Good
  <2>1. PICK f : f = [i \in 0 .. n |-> f[i]] /\ Follows(f, s, in_docs, n)
    BY <1>2
  <2>2. n \in Nat /\ n + 1 \in 0 .. N
    BY <1>2
  <2> DEFINE g == [i \in 0 .. (n + 1) |-> IF i = n + 1 THEN with_another(f[n], s[n + 1], in_docs) ELSE f[i]]
  <2>3. \A i \in 0 .. n : g[i] = f[i]
    BY <2>2
  <2>4. g[n + 1] = with_another(f[n], s[n + 1], in_docs)
    BY <2>2
  <2>5. g = [i \in 0 .. (n + 1) |-> g[i]]
    OBVIOUS
  <2> HIDE DEF g
  <2>6. ASSUME NEW i \in 0 .. (n + 1), i < n + 1 PROVE g[i + 1] = with_another(g[i], s[i + 1], in_docs)
    <3>1. CASE i = n
      <4>1. g[n] = f[n]
        BY <2>2, <2>3
      <4> QED BY <2>4, <3>1, <4>1
    <3>2. CASE i # n
      <4>1. i \in 0 .. n /\ i + 1 \in 0 .. n /\ i < n
        BY <2>2, <2>6, <3>2
      <4>2. f[i + 1] = with_another(f[i], s[i + 1], in_docs)
        BY <2>1, <4>1 DEF Follows
      <4> QED BY <2>3, <4>1, <4>2
    <3> QED BY <3>1, <3>2
  <2>7. g[0] = <<>>
    BY <2>1, <2>2, <2>3 DEF Follows
  <2>8. Follows(g, s, in_docs, n + 1)
    BY <2>6, <2>7 DEF Follows
  <2> QED BY <2>2, <2>5, <2>8
<1>3. N \in Good
  <2> HIDE DEF Good
  <2>1. \A n \in 0 .. N : n \in Good
    BY <1>1, <1>2, PrefixInduction
  <2> QED BY <2>1
<1> QED BY <1>3

\* grouped is the last of these groupings.
LEMMA GroupingSteps ==
    ASSUME NEW X, NEW s \in Seq(X), NEW in_docs
    PROVE  \E f : Follows(f, s, in_docs, Len(s)) /\ grouped(s, in_docs) = f[Len(s)]
<1> DEFINE N == Len(s)
           part(g, n) == IF n = 0 THEN <<>> ELSE with_another(g[n - 1], s[n], in_docs)
           Rec(g) == g = [n \in 0 .. N |-> part(g, n)]
           h == CHOOSE g : Rec(g)
<1>1. N \in Nat
  OBVIOUS
<1>2. grouped(s, in_docs) = h[N]
  BY DEF grouped
<1> HIDE DEF N, with_another
<1>3. PICK f : f = [i \in 0 .. N |-> f[i]] /\ Follows(f, s, in_docs, N)
  BY <1>1, GroupingExists
<1>4. ASSUME NEW n \in 0 .. N PROVE f[n] = part(f, n)
  <2>1. CASE n = 0
    BY <1>3, <2>1 DEF Follows
  <2>2. CASE n # 0
    <3>1. n - 1 \in 0 .. N /\ n - 1 < N /\ (n - 1) + 1 = n
      BY <1>1, <2>2
    <3>2. f[(n - 1) + 1] = with_another(f[n - 1], s[(n - 1) + 1], in_docs)
      BY <1>3, <3>1 DEF Follows
    <3> QED BY <2>2, <3>1, <3>2
  <2> QED BY <2>1, <2>2
<1>5. Rec(f)
  <2> HIDE DEF part
  <2>1. [n \in 0 .. N |-> f[n]] = [n \in 0 .. N |-> part(f, n)]
    BY <1>4
  <2> QED BY <1>3, <2>1
<1>6. Rec(h)
  <2> HIDE DEF Rec
  <2> QED BY <1>5
<1> HIDE DEF h
<1>7. \A n \in 0 .. N : h[n] = part(h, n)
  <2> HIDE DEF part
  <2> QED BY <1>6
<1>8. h[0] = <<>>
  BY <1>1, <1>7
<1>9. ASSUME NEW i \in 0 .. N, i < N PROVE h[i + 1] = with_another(h[i], s[i + 1], in_docs)
  <2>1. i + 1 \in 0 .. N /\ (i + 1) - 1 = i /\ i + 1 # 0
    BY <1>1, <1>9
  <2> QED BY <1>7, <2>1
<1>10. Follows(h, s, in_docs, N)
  BY <1>8, <1>9 DEF Follows
<1> QED BY <1>2, <1>10 DEF N

\* The groups divide the candidates.
LEMMA GroupedDivides ==
    ASSUME NEW X, NEW s \in Seq(X), IsInjective(s), NEW in_docs
    PROVE  Divides(grouped(s, in_docs), X, ToSet(s))
<1> DEFINE N == Len(s)
           Before(n) == {s[i] : i \in 1 .. n}
<1>1. N \in Nat /\ DOMAIN s = 1 .. N /\ \A i \in 1 .. N : s[i] \in X
  OBVIOUS
<1>2. PICK f : Follows(f, s, in_docs, N) /\ grouped(s, in_docs) = f[N]
  BY GroupingSteps
<1> DEFINE Good == {n \in 0 .. N : Divides(f[n], X, Before(n))}
<1> HIDE DEF N
<1>3. 0 \in Good
  <2>1. f[0] = <<>> /\ Before(0) = {} /\ 0 \in 0 .. N
    BY <1>1, <1>2 DEF Follows
  <2>2. <<>> \in Seq(Seq(X)) /\ Len(<<>>) = 0 /\ 1 .. 0 = {}
    OBVIOUS
  <2>3. Divides(<<>>, X, {})
    BY <2>2 DEF Divides
  <2> QED BY <2>1, <2>3
<1>4. ASSUME NEW n \in 0 .. N, n < N, n \in Good PROVE n + 1 \in Good
  <2>1. n \in Nat /\ n + 1 \in 1 .. N /\ n + 1 \in 0 .. N /\ \A i \in 1 .. n : i \in 1 .. N /\ i # n + 1
    BY <1>1, <1>4
  <2>2. 1 .. (n + 1) = (1 .. n) \cup {n + 1}
    BY <2>1
  <2>3. Before(n + 1) = Before(n) \cup {s[n + 1]}
    BY <2>2
  <2>4. s[n + 1] \in X /\ s[n + 1] \notin Before(n)
    <3>1. \A i \in 1 .. n : s[i] # s[n + 1]
      BY <1>1, <2>1 DEF IsInjective
    <3> QED BY <1>1, <2>1, <3>1
  <2>5. f[n + 1] = with_another(f[n], s[n + 1], in_docs)
    BY <1>2, <1>4 DEF Follows
  <2>6. Divides(f[n], X, Before(n))
    BY <1>4
  <2> HIDE DEF Before
  <2>7. Divides(with_another(f[n], s[n + 1], in_docs), X, Before(n) \cup {s[n + 1]})
    BY <2>4, <2>6, AnotherDivides
  <2> QED BY <2>1, <2>3, <2>5, <2>7
<1>5. N \in Good
  <2> HIDE DEF Good
  <2>1. \A n \in 0 .. N : n \in Good
    BY <1>1, <1>3, <1>4, PrefixInduction
  <2> QED BY <1>1, <2>1
<1>6. Before(N) = ToSet(s)
  BY <1>1 DEF ToSet
<1>7. Divides(f[N], X, Before(N))
  BY <1>5
<1> HIDE DEF Before
<1> QED BY <1>2, <1>6, <1>7

-----------------------------------------------------------------------------
(* Reconciliation as a whole.                                               *)

\* A mark of a conflict takes nothing from a result.
LEMMA MarkedAccounts ==
    ASSUME NEW rs, NEW X, Accounts(rs, X), NEW s, NEW in_docs
    PROVE  Accounts([i \in DOMAIN rs |-> marked(rs[i], s, in_docs)], X)
<1> DEFINE ts == [i \in DOMAIN rs |-> marked(rs[i], s, in_docs)]
           n == Len(rs)
<1>1. DOMAIN rs = 1 .. n /\ n \in Nat
  <2>1. \A S : rs \in Seq(S) => DOMAIN rs = 1 .. n /\ n \in Nat
    OBVIOUS
  <2>2. rs \in Seq(ToSet(rs))
    BY DEF Accounts
  <2> HIDE DEF n
  <2> QED BY <2>1, <2>2
<1>2. \A i \in DOMAIN rs : Shaped(rs[i]) /\ Identifiers(rs[i]) \subseteq IdentifiersOf(X)
  BY DEF Accounts
<1>3. \A i \in DOMAIN rs : /\ Shaped(ts[i]) /\ Identifiers(ts[i]) = Identifiers(rs[i])
                           /\ ts[i].sources = rs[i].sources /\ QuotesOf(ts[i]) = QuotesOf(rs[i])
  <2> TAKE i \in DOMAIN rs
  <2> DEFINE r == rs[i]
             t == marked(r, s, in_docs)
  <2>1. Shaped(r)
    BY <1>2
  <2>2. t = r \/ t = [r EXCEPT !.validation = "CONFLICTED", !.codes = @ \cup {"SOURCE_CONFLICT"},
                               !.recommendation_codes = @ \cup {"SOURCE_CONFLICT"}]
    BY DEF marked
  <2>3. ts[i] = t
    OBVIOUS
  <2> HIDE DEF ts, t, r
  <2>4. Shaped(t) /\ t.extractor_id = r.extractor_id /\ t.members = r.members /\ t.sources = r.sources
        /\ t.evidence = r.evidence
    BY <2>1, <2>2 DEF Shaped
  <2> QED BY <2>3, <2>4 DEF Identifiers, QuotesOf, r
<1>4. ts = [i \in 1 .. n |-> ts[i]] /\ DOMAIN ts = 1 .. n
  BY <1>1
<1> HIDE DEF ts, n
<1>5. ts \in Seq(ToSet(ts))
  BY <1>1, <1>4, SequenceOfValues
<1>6. \A x \in X : \E j \in DOMAIN ts : Stands(ts[j], x)
  <2> TAKE x \in X
  <2>1. PICK j \in DOMAIN rs : Stands(rs[j], x)
    BY DEF Accounts
  <2>2. Stands(ts[j], x)
    BY <1>3, <2>1 DEF Stands
  <2> QED BY <1>1, <1>4, <2>1, <2>2
<1>7. \A j, k \in DOMAIN ts : j # k => Identifiers(ts[j]) \cap Identifiers(ts[k]) = {}
  <2>1. \A j, k \in DOMAIN rs : j # k => Identifiers(rs[j]) \cap Identifiers(rs[k]) = {}
    BY DEF Accounts
  <2> HIDE DEF Identifiers
  <2> QED BY <1>1, <1>3, <1>4, <2>1
<1>8. \A j \in DOMAIN ts : Shaped(ts[j]) /\ Identifiers(ts[j]) \subseteq IdentifiersOf(X)
  BY <1>1, <1>2, <1>3, <1>4
<1> QED BY <1>5, <1>6, <1>7, <1>8 DEF Accounts, ts

\* Reconciliation speaks for every candidate it is given, once.
LEMMA ReconcileAccounts ==
    ASSUME NEW in_docs, InHand(in_docs), NEW X, Keyed(X), NEW s \in Seq(X), IsInjective(s)
    PROVE  Accounts(reconcile(s, in_docs), ToSet(s))
<1> DEFINE groups == grouped(s, in_docs)
           n == Len(groups)
           ss == [i \in 1 .. n |-> reconcile_group(groups[i], in_docs)]
           Xs == [i \in 1 .. n |-> ToSet(groups[i])]
           S == UNION {ToSet(ss[i]) : i \in 1 .. n}
           result == FlattenSeq(ss)
<1>1. Divides(groups, X, ToSet(s))
  BY GroupedDivides
<1> HIDE DEF groups
<1>2. /\ n \in Nat /\ DOMAIN groups = 1 .. n /\ \A i \in 1 .. n : groups[i] \in Seq(X) /\ IsInjective(groups[i])
  BY <1>1 DEF Divides
<1>3. \A i \in 1 .. n : ss[i] = reconcile_group(groups[i], in_docs) /\ Xs[i] = ToSet(groups[i])
  OBVIOUS
<1>4. \A i \in 1 .. n : Accounts(ss[i], Xs[i])
  BY <1>2, <1>3, GroupAccounts
<1>5. ss = [i \in 1 .. n |-> ss[i]] /\ DOMAIN ss = 1 .. n
  OBVIOUS
<1> HIDE DEF ss
<1>6. ss \in Seq(Seq(S)) /\ Len(ss) = n
  <2>1. \A i \in 1 .. n : ss[i] \in Seq(S)
    <3> TAKE i \in 1 .. n
    <3>1. ss[i] \in Seq(ToSet(ss[i])) /\ ToSet(ss[i]) \subseteq S
      BY <1>4 DEF Accounts
    <3> HIDE DEF S
    <3> QED BY <3>1, OwnRange
  <2> HIDE DEF S
  <2> QED BY <1>2, <1>5, <2>1
<1>7. \A i, j \in 1 .. n : i # j => IdentifiersOf(Xs[i]) \cap IdentifiersOf(Xs[j]) = {}
  <2> TAKE i, j \in 1 .. n
  <2> HAVE i # j
  <2>1. ToSet(groups[i]) \cap ToSet(groups[j]) = {}
    BY <1>1 DEF Divides
  <2>2. ToSet(groups[i]) \subseteq X /\ ToSet(groups[j]) \subseteq X
    BY <1>2, OwnRange
  <2>3. IdentifiersOf(ToSet(groups[i])) \cap IdentifiersOf(ToSet(groups[j])) = {}
    BY <2>1, <2>2 DEF IdentifiersOf, Keyed
  <2> QED BY <1>3, <2>3
<1>8. UNION {Xs[i] : i \in 1 .. n} = ToSet(s)
  <2>1. {Xs[i] : i \in 1 .. n} = {ToSet(groups[i]) : i \in 1 .. n}
    BY <1>3
  <2> QED BY <1>1, <2>1 DEF Divides
<1> HIDE DEF Xs, S, n
<1>9. Accounts(result, UNION {Xs[i] : i \in 1 .. n})
  <2>1. \A i \in 1 .. Len(ss) : Accounts(ss[i], Xs[i])
    BY <1>4, <1>6
  <2>2. \A i, j \in 1 .. Len(ss) : i # j => IdentifiersOf(Xs[i]) \cap IdentifiersOf(Xs[j]) = {}
    BY <1>6, <1>7
  <2>3. Accounts(result, UNION {Xs[i] : i \in 1 .. Len(ss)})
    BY <1>6, <2>1, <2>2, FlattenAccounts
  <2> QED BY <1>6, <2>3
<1>10. reconcile(s, in_docs) = [i \in DOMAIN result |-> marked(result[i], s, in_docs)]
  BY <1>2 DEF reconcile, ss, groups, n
<1> HIDE DEF result
<1>11. Accounts(result, ToSet(s))
  BY <1>8, <1>9
<1>12. Accounts([i \in DOMAIN result |-> marked(result[i], s, in_docs)], ToSet(s))
  BY <1>11, MarkedAccounts
<1> QED BY <1>10, <1>12

-----------------------------------------------------------------------------
(* From the extraction loop to reconciliation.                              *)

\* A candidate as the loop keeps it: of one source, with finitely many quotes.
Raw(p) ==
    /\ Shaped(p) /\ "terms" \in DOMAIN p /\ p.members = {} /\ IsFiniteSet(p.evidence)
    /\ \A e \in p.evidence : "quote" \in DOMAIN e
    /\ \E s : p.sources = {s}
    /\ notice_day(p) \in Int

\* What is done to each member of a finite set leaves it finite.
LEMMA FiniteImage ==
    ASSUME NEW T, IsFiniteSet(T), NEW f, DOMAIN f = T
    PROVE  IsFiniteSet({f[x] : x \in T})
<1> DEFINE s == SetToSeq(T)
<1>1. s \in Seq(T) /\ ToSet(s) = T
  BY SetAsSequence
<1> HIDE DEF s
<1>2. IsFiniteSet({f[x] : x \in ToSet(s)})
  BY <1>1, ImageIsFinite
<1> QED BY <1>1, <1>2

\* The days of a candidate are days of the calendar.
LEMMA DaysAreNumbers ==
    ASSUME NEW p, \A field \in DateFields \cap DOMAIN p.terms : p.terms[field] \in Int
    PROVE  notice_day(p) \in Int
BY DEF notice_day, DateFields

\* Whatever a document is answered with is a candidate.
LEMMA GivenAreCandidates ==
    ASSUME NEW facts \in Given
    PROVE  IsCandidate(facts)
<1>1. CASE facts \in UNION {Fallback(q) : q \in DOMAIN Snapshot}
  <2>1. PICK q \in DOMAIN Snapshot : facts \in Fallback(q)
    BY <1>1
  <2> HIDE DEF IsCandidate
  <2> QED BY <2>1, PolicyAssumption
<1>2. CASE facts \in UNION {ToSet(found) : found \in UNION {Offered(q) : q \in DOMAIN Snapshot}}
  <2>1. PICK q \in DOMAIN Snapshot : \E found \in Offered(q) : facts \in ToSet(found)
    BY <1>2
  <2>2. PICK found \in Offered(q) : facts \in ToSet(found)
    BY <2>1
  <2>3. \A given \in ToSet(found) : IsCandidate(given)
    BY <2>1, <2>2, PolicyAssumption
  <2> QED BY <2>2, <2>3
<1> QED BY <1>1, <1>2 DEF Given

\* Whatever a document is answered with makes such a candidate.
LEMMA CandidateIsRaw ==
    ASSUME NEW r, NEW i, NEW facts \in Given
    PROVE  /\ Raw(candidate(r, i, facts))
           /\ candidate(r, i, facts).extractor_id = policy_extractor_id(r, i)
<1>1. IsCandidate(facts)
  BY GivenAreCandidates
<1> DEFINE T == facts.evidence
           f == [e \in T |-> [e EXCEPT !.source = source_of(r), !.revision = r]]
           p == candidate(r, i, facts)
<1>2. /\ {"extractor_id", "sources", "evidence", "members", "terms"} \subseteq DOMAIN facts
      /\ facts.members = {} /\ IsFiniteSet(T) /\ \A e \in T : "quote" \in DOMAIN e
      /\ \A field \in DateFields \cap DOMAIN facts.terms : facts.terms[field] \in Int
  BY <1>1, ReliefAssumption DEF IsCandidate, CandidateFields, QuoteFields
<1> HIDE DEF policy_extractor_id, source_of
<1>3. /\ DOMAIN p = DOMAIN facts /\ p.extractor_id = policy_extractor_id(r, i) /\ p.sources = {source_of(r)}
      /\ p.members = {} /\ p.terms = facts.terms
      /\ p.evidence = {[e EXCEPT !.source = source_of(r), !.revision = r] : e \in T}
  BY <1>2 DEF candidate
<1> HIDE DEF p, T
<1>4. p.evidence = {f[e] : e \in T} /\ DOMAIN f = T
  BY <1>3
<1>5. \A e \in T : "quote" \in DOMAIN f[e]
  BY <1>2
<1> HIDE DEF f
<1>6. IsFiniteSet(p.evidence) /\ \A e \in p.evidence : "quote" \in DOMAIN e
  BY <1>2, <1>4, <1>5, FiniteImage
<1>7. notice_day(p) \in Int
  BY <1>2, <1>3, DaysAreNumbers
<1> QED BY <1>2, <1>3, <1>6, <1>7 DEF Raw, Shaped, p

\* Identification and validation change neither what a candidate is known by
\* nor what it rests on.
LEMMA ValidatedKeeps ==
    ASSUME NEW p, Raw(p), NEW in_docs
    PROVE  LET v == validate_policy_candidate(canonicalize_policy_identity(p, in_docs), in_docs) IN
           /\ Single(v) /\ v.extractor_id = p.extractor_id /\ v.sources = p.sources
           /\ QuotesOf(v) = QuotesOf(p)
<1> DEFINE c == canonicalize_policy_identity(p, in_docs)
           v == validate_policy_candidate(c, in_docs)
           T == p.evidence
           f == [e \in T |-> IF in_hand(c, e, in_docs) THEN rebound(e, in_docs) ELSE e]
<1>1. /\ DOMAIN c = DOMAIN p /\ c.extractor_id = p.extractor_id /\ c.sources = p.sources
      /\ c.evidence = p.evidence /\ c.members = p.members /\ c.terms = p.terms
  <2> HIDE DEF semantic_policy_identity_parts
  <2> QED BY DEF canonicalize_policy_identity, Raw, Shaped
<1> HIDE DEF c
<1>2. /\ DOMAIN v = DOMAIN p /\ v.extractor_id = p.extractor_id /\ v.sources = p.sources
      /\ v.members = p.members /\ v.terms = p.terms
      /\ v.evidence = {IF in_hand(c, e, in_docs) THEN rebound(e, in_docs) ELSE e : e \in c.evidence}
  BY <1>1 DEF validate_policy_candidate, Raw, Shaped
<1>3. \A e \in T : f[e].quote = e.quote
  <2> TAKE e \in T
  <2>1. "quote" \in DOMAIN e
    BY DEF Raw
  <2>2. rebound(e, in_docs).quote = e.quote
    BY <2>1 DEF rebound
  <2> QED BY <2>2
<1>4. v.evidence = {f[e] : e \in T} /\ DOMAIN f = T
  BY <1>1, <1>2
<1> HIDE DEF f, v, T
<1>5. IsFiniteSet(v.evidence)
  BY <1>4, FiniteImage DEF Raw, T
<1>6. QuotesOf(v) = QuotesOf(p)
  BY <1>3, <1>4 DEF QuotesOf, T
<1>7. notice_day(v) = notice_day(p)
  BY <1>2 DEF notice_day
<1>8. Single(v)
  BY <1>2, <1>5, <1>7 DEF Raw, Single, Shaped
<1> QED BY <1>2, <1>6, <1>8 DEF v, c

\* Sorting by identifier, in any order of them, keeps what there is.
LEMMA SortedRange ==
    ASSUME NEW X, NEW found \in Seq(X), IsInjective(found), NEW sorted \in by_identifier(found)
    PROVE  sorted \in Seq(X) /\ IsInjective(sorted) /\ ToSet(sorted) = ToSet(found)
<1> DEFINE n == Len(found)
           T == {found[i].id : i \in DOMAIN found}
           own == [i \in DOMAIN found |-> found[i].id]
<1>1. n \in Nat /\ DOMAIN found = 1 .. n /\ \A i \in 1 .. n : found[i] \in X
  OBVIOUS
<1>2. IsFiniteSet(T)
  <2>1. IsFiniteSet(1 .. n)
    BY <1>1, FS_Interval
  <2>2. T = {own[i] : i \in 1 .. n} /\ DOMAIN own = 1 .. n
    BY <1>1
  <2> HIDE DEF T, own, n
  <2> QED BY <2>1, <2>2, FiniteImage
<1>3. PICK ids \in SetToSeqs(T) :
         sorted = FlattenSeq([k \in DOMAIN ids |-> Chosen(found, {i \in DOMAIN found : found[i].id = ids[k]})])
  BY DEF by_identifier
<1>4. ids \in Seq(T) /\ IsInjective(ids) /\ ToSet(ids) = T
  <2> HIDE DEF T
  <2> QED BY <1>2, <1>3, EnumerationRange
<1> DEFINE At(k) == {i \in DOMAIN found : found[i].id = ids[k]}
           ss == [k \in DOMAIN ids |-> Chosen(found, At(k))]
           m == Len(ids)
<1>5. m \in Nat /\ DOMAIN ids = 1 .. m
  <2> HIDE DEF T
  <2> QED BY <1>4
<1>6. \A k \in 1 .. m : /\ ss[k] \in Seq(X) /\ IsInjective(ss[k]) /\ ToSet(ss[k]) = {found[i] : i \in At(k)}
  <2> TAKE k \in 1 .. m
  <2>1. ss[k] = Chosen(found, At(k)) /\ At(k) \cap DOMAIN found = At(k)
    BY <1>5
  <2> HIDE DEF At, ss
  <2> QED BY <2>1, ChosenRange, ChosenInjective
<1>7. ss \in Seq(Seq(X)) /\ Len(ss) = m
  <2>1. ss = [k \in 1 .. m |-> ss[k]]
    BY <1>5
  <2> DEFINE Q == Seq(X)
  <2>2. \A k \in 1 .. m : ss[k] \in Q
    BY <1>6
  <2> HIDE DEF Q, ss, m
  <2>3. ss \in Seq(Q) /\ Len(ss) = m
    BY <1>5, <2>1, <2>2
  <2> QED BY <2>3 DEF Q
<1>8. \A k, l \in 1 .. m : k # l => ToSet(ss[k]) \cap ToSet(ss[l]) = {}
  <2> TAKE k, l \in 1 .. m
  <2> HAVE k # l
  <2>1. ids[k] # ids[l]
    BY <1>4, <1>5 DEF IsInjective
  <2>2. \A i \in At(k), j \in At(l) : found[i] # found[j]
    BY <2>1
  <2>3. ToSet(ss[k]) = {found[i] : i \in At(k)} /\ ToSet(ss[l]) = {found[i] : i \in At(l)}
    BY <1>6
  <2> HIDE DEF At, ss
  <2> QED BY <2>2, <2>3
<1>9. UNION {ToSet(ss[k]) : k \in 1 .. m} = ToSet(found)
  <2>1. \A i \in DOMAIN found : \E k \in 1 .. m : i \in At(k)
    <3> TAKE i \in DOMAIN found
    <3>1. found[i].id \in ToSet(ids)
      BY <1>4
    <3>2. PICK k \in DOMAIN ids : ids[k] = found[i].id
      BY <3>1 DEF ToSet
    <3> QED BY <1>5, <3>2
  <2>2. \A k \in 1 .. m : At(k) \subseteq DOMAIN found /\ ToSet(ss[k]) = {found[i] : i \in At(k)}
    BY <1>6
  <2>3. ToSet(found) = {found[i] : i \in DOMAIN found}
    BY DEF ToSet
  <2> HIDE DEF At, ss
  <2>4. ASSUME NEW x \in ToSet(found) PROVE \E k \in 1 .. m : x \in ToSet(ss[k])
    <3>1. PICK i \in DOMAIN found : x = found[i]
      BY <2>3
    <3> QED BY <2>1, <2>2, <3>1
  <2>5. \A k \in 1 .. m : ToSet(ss[k]) \subseteq ToSet(found)
    BY <2>2, <2>3
  <2> HIDE DEF m
  <2> QED BY <2>4, <2>5
<1>10. sorted = FlattenSeq(ss)
  BY <1>3
<1> HIDE DEF ss, m
<1>11. FlattenSeq(ss) \in Seq(X) /\ ToSet(FlattenSeq(ss)) = UNION {ToSet(ss[k]) : k \in 1 .. Len(ss)}
  BY <1>7, FlattenRange
<1>12. IsInjective(FlattenSeq(ss))
  BY <1>6, <1>7, <1>8, FlattenInjective
<1> QED BY <1>7, <1>9, <1>10, <1>11, <1>12

\* Where the candidates come from: the document and the place in its answer.
Tracked ==
    /\ \A i, j \in DOMAIN policies : policies[i].extractor_id = policies[j].extractor_id => i = j
    /\ phase = "EXTRACTING" =>
          \A i \in DOMAIN policies : \E k \in 1 .. Len(Reads), m \in Nat :
              k < at /\ policies[i].extractor_id = policy_extractor_id(Reads[k], m)

\* An answer brings candidates of a document that was not read before.
LEMMA TrackedTake ==
    ASSUME LoopInv, Tracked, phase = "EXTRACTING", at <= Len(Reads), NEW found \in Seq(Given), NEW how,
           take(found, how)
    PROVE  Tracked'
<1> DEFINE new == [i \in DOMAIN found |-> candidate(document, i, found[i])]
           n == Len(policies)
<1>1. policies' = policies \o new /\ at' = at + 1 /\ phase' = phase
  BY DEF take
<1>2. at \in 1 .. Len(Reads) /\ Len(Reads) \in Nat
  BY DocumentFacts, ReadsFacts
<1>3. /\ DOMAIN found = 1 .. Len(found) /\ Len(found) \in Nat
      /\ \A i \in 1 .. Len(found) : found[i] \in Given
  OBVIOUS
<1>4. DOMAIN new = 1 .. Len(found) /\ \A i \in 1 .. Len(found) :
         new[i] = candidate(document, i, found[i]) /\ new[i].extractor_id = policy_extractor_id(document, i)
  <2> HIDE DEF candidate, policy_extractor_id
  <2> QED BY <1>3, CandidateIsRaw
<1>5. \E S : policies \in Seq(S) /\ new \in Seq(S) /\ Len(new) = Len(found)
  <2>1. policies \in Seq(Candidates)
    BY DEF LoopInv, LoopTypes
  <2>2. new = [i \in 1 .. Len(found) |-> new[i]]
    BY <1>3
  <2> DEFINE S == Candidates \cup ToSet(new)
  <2> HIDE DEF new, candidate
  <2>3. new \in Seq(ToSet(new)) /\ Len(new) = Len(found)
    BY <1>3, <1>4, <2>2, SequenceOfValues
  <2>4. policies \in Seq(S)
    <3>1. ToSet(policies) \subseteq S
      BY <2>1, OwnRange
    <3> HIDE DEF S
    <3> QED BY <2>1, <3>1, OwnRange
  <2>5. new \in Seq(S)
    <3>1. ToSet(new) \subseteq S
      OBVIOUS
    <3> HIDE DEF S
    <3> QED BY <2>3, <3>1, OwnRange
  <2> QED BY <2>3, <2>4, <2>5
<1> HIDE DEF new
<1>6. PICK S : policies \in Seq(S) /\ new \in Seq(S) /\ Len(new) = Len(found)
  BY <1>5
<1> DEFINE more == policies \o new
<1>7. /\ n \in Nat /\ DOMAIN policies = 1 .. n /\ DOMAIN more = 1 .. (n + Len(new))
      /\ \A i \in 1 .. n + Len(new) : more[i] = IF i <= n THEN policies[i] ELSE new[i - n]
  <2> HIDE DEF more
  <2>1. policies \in Seq(S) /\ new \in Seq(S)
    BY <1>6
  <2>2. /\ more \in Seq(S) /\ Len(more) = Len(policies) + Len(new)
        /\ \A i \in 1 .. Len(policies) + Len(new) :
              more[i] = IF i <= Len(policies) THEN policies[i] ELSE new[i - Len(policies)]
    BY <2>1, ConcatProperties DEF more
  <2>3. n \in Nat /\ DOMAIN policies = 1 .. n
    BY <2>1
  <2>4. DOMAIN more = 1 .. Len(more)
    BY <2>2
  <2> QED BY <2>2, <2>3, <2>4
<1> HIDE DEF more, n
<1>8. \A i \in DOMAIN more :
         \/ i \in DOMAIN policies /\ more[i] = policies[i]
         \/ i - n \in 1 .. Len(found) /\ more[i] = new[i - n] /\ i \in Int
  BY <1>3, <1>6, <1>7
<1>9. \A k, l \in 1 .. Len(Reads) : Reads[k] = Reads[l] => k = l
  <2>1. DOMAIN Reads = 1 .. Len(Reads)
    BY ReadsFacts
  <2> QED BY <2>1, PolicyAssumption
<1>10. \A r, q, i, j : policy_extractor_id(r, i) = policy_extractor_id(q, j) => r = q /\ i = j
  <2> TAKE r, q, i, j
  <2>1. policy_extractor_id(r, i).revision = r /\ policy_extractor_id(r, i).index = i
    BY DEF policy_extractor_id
  <2>2. policy_extractor_id(q, j).revision = q /\ policy_extractor_id(q, j).index = j
    BY DEF policy_extractor_id
  <2> QED BY <2>1, <2>2
<1>11. \A i \in DOMAIN policies, j \in 1 .. Len(found) : policies[i].extractor_id # new[j].extractor_id
  <2> TAKE i \in DOMAIN policies, j \in 1 .. Len(found)
  <2>1. PICK k \in 1 .. Len(Reads), m \in Nat : k < at /\ policies[i].extractor_id = policy_extractor_id(Reads[k], m)
    BY DEF Tracked
  <2>2. Reads[k] # Reads[at]
    BY <1>2, <1>9, <2>1
  <2> HIDE DEF policy_extractor_id
  <2> QED BY <1>4, <1>10, <2>1, <2>2 DEF document
<1>12. ASSUME NEW i \in DOMAIN more, NEW j \in DOMAIN more, more[i].extractor_id = more[j].extractor_id PROVE i = j
  <2>1. CASE i \in DOMAIN policies /\ more[i] = policies[i] /\ j \in DOMAIN policies /\ more[j] = policies[j]
    BY <1>12, <2>1 DEF Tracked
  <2>2. CASE i \in DOMAIN policies /\ more[i] = policies[i] /\ j - n \in 1 .. Len(found) /\ more[j] = new[j - n]
    BY <1>11, <1>12, <2>2
  <2>3. CASE j \in DOMAIN policies /\ more[j] = policies[j] /\ i - n \in 1 .. Len(found) /\ more[i] = new[i - n]
    BY <1>11, <1>12, <2>3
  <2>4. CASE /\ i - n \in 1 .. Len(found) /\ more[i] = new[i - n] /\ i \in Int
             /\ j - n \in 1 .. Len(found) /\ more[j] = new[j - n] /\ j \in Int
    <3>1. policy_extractor_id(document, i - n) = policy_extractor_id(document, j - n)
      BY <1>4, <1>12, <2>4
    <3>2. i - n = j - n
      BY <1>10, <3>1
    <3> QED BY <1>7, <2>4, <3>2
  <2> QED BY <1>8, <2>1, <2>2, <2>3, <2>4
<1>13. ASSUME NEW i \in DOMAIN more
       PROVE  \E k \in 1 .. Len(Reads), m \in Nat :
                 k < at + 1 /\ more[i].extractor_id = policy_extractor_id(Reads[k], m)
  <2>1. CASE i \in DOMAIN policies /\ more[i] = policies[i]
    <3>1. PICK k \in 1 .. Len(Reads), m \in Nat : k < at /\ policies[i].extractor_id = policy_extractor_id(Reads[k], m)
      BY <2>1 DEF Tracked
    <3>2. k < at + 1
      BY <1>2, <3>1
    <3> QED BY <2>1, <3>1, <3>2
  <2>2. CASE i - n \in 1 .. Len(found) /\ more[i] = new[i - n]
    <3>1. more[i].extractor_id = policy_extractor_id(Reads[at], i - n) /\ i - n \in Nat /\ at < at + 1
      BY <1>2, <1>4, <2>2 DEF document
    <3> QED BY <1>2, <3>1
  <2> QED BY <1>8, <2>1, <2>2
<1>14. policies' = more
  BY <1>1 DEF more
<1> QED BY <1>1, <1>12, <1>13, <1>14 DEF Tracked

\* The candidates, identified and validated, are told apart by where they come
\* from.
LEMMA ValidatedRange ==
    ASSUME LoopInv, Tracked, NEW in_docs
    PROVE  /\ validated(in_docs) \in Seq(ToSet(validated(in_docs))) /\ IsInjective(validated(in_docs))
           /\ Keyed(ToSet(validated(in_docs)))
           /\ \A i \in DOMAIN policies :
                 /\ validated(in_docs)[i] \in ToSet(validated(in_docs))
                 /\ validated(in_docs)[i].extractor_id = policies[i].extractor_id
                 /\ validated(in_docs)[i].sources = policies[i].sources
                 /\ QuotesOf(validated(in_docs)[i]) = QuotesOf(policies[i])
<1> DEFINE v == validated(in_docs)
           n == Len(policies)
<1>1. n \in Nat /\ DOMAIN policies = 1 .. n /\ \A i \in 1 .. n : Raw(policies[i])
  <2>1. policies \in Seq(Candidates)
    BY DEF LoopInv, LoopTypes
  <2>2. \A p \in Candidates : Raw(p)
    <3> TAKE p \in Candidates
    <3>1. PICK x \in (DOMAIN Snapshot) \X Nat \X Given : p = candidate(x[1], x[2], x[3])
      BY DEF Candidates
    <3>2. x[3] \in Given
      BY <3>1
    <3> QED BY <3>1, <3>2, CandidateIsRaw
  <2> HIDE DEF Candidates
  <2> QED BY <2>1, <2>2
<1>2. /\ DOMAIN v = 1 .. n /\ v = [i \in 1 .. n |-> v[i]]
      /\ \A i \in 1 .. n :
            v[i] = validate_policy_candidate(canonicalize_policy_identity(policies[i], in_docs), in_docs)
  BY <1>1 DEF validated
<1> HIDE DEF v
<1>3. \A i \in 1 .. n : /\ Single(v[i]) /\ v[i].extractor_id = policies[i].extractor_id
                        /\ v[i].sources = policies[i].sources /\ QuotesOf(v[i]) = QuotesOf(policies[i])
  <2> HIDE DEF validate_policy_candidate, canonicalize_policy_identity, Single, QuotesOf
  <2> QED BY <1>1, <1>2, ValidatedKeeps
<1> HIDE DEF n
<1>4. v \in Seq(ToSet(v)) /\ ToSet(v) = {v[i] : i \in 1 .. n}
  BY <1>1, <1>2, SequenceOfValues
<1>5. \A i, j \in 1 .. n : v[i].extractor_id = v[j].extractor_id => i = j
  BY <1>1, <1>3 DEF Tracked
<1>6. IsInjective(v)
  BY <1>2, <1>5 DEF IsInjective
<1>7. Keyed(ToSet(v))
  BY <1>3, <1>4, <1>5 DEF Keyed
<1> QED BY <1>1, <1>3, <1>4, <1>6, <1>7 DEF v

\* The documents of the merge are snapshots.
LEMMA MergedInHand ==
    ASSUME NEW in_docs \in merged_documents
    PROVE  InHand(in_docs)
<1>1. held \subseteq DOMAIN Snapshot
  BY ReadsFacts, PolicyAssumption DEF held
<1>2. \A s \in DOMAIN in_docs : in_docs[s] \in held
  BY DEF merged_documents
<1> QED BY <1>1, <1>2 DEF InHand

\* The merge speaks for every candidate, once.
LEMMA MergeStep ==
    ASSUME LoopInv, Tracked, Merge
    PROVE  NothingExtractedVanishes'
<1>1. docs' \in merged_documents /\ policies' = policies
  BY DEF Merge
<1> DEFINE v == validated(docs')
<1>2. PICK sorted \in by_identifier(v) : results' = reconcile(sorted, docs')
  BY DEF Merge
<1>3. InHand(docs')
  BY <1>1, MergedInHand
<1>4. v \in Seq(ToSet(v)) /\ IsInjective(v) /\ Keyed(ToSet(v))
  BY ValidatedRange
<1>5. \A i \in DOMAIN policies : /\ v[i] \in ToSet(v) /\ v[i].extractor_id = policies[i].extractor_id
                                 /\ v[i].sources = policies[i].sources /\ QuotesOf(v[i]) = QuotesOf(policies[i])
  BY ValidatedRange
<1> HIDE DEF v
<1>6. sorted \in Seq(ToSet(v)) /\ IsInjective(sorted) /\ ToSet(sorted) = ToSet(v)
  BY <1>2, <1>4, SortedRange
<1> DEFINE rs == reconcile(sorted, docs')
<1>7. Accounts(rs, ToSet(v))
  BY <1>3, <1>4, <1>6, ReconcileAccounts
<1> HIDE DEF rs
<1>8. ASSUME NEW i \in DOMAIN policies
      PROVE  \E j \in DOMAIN rs :
                /\ represents(rs[j], policies[i]) /\ policies[i].sources \subseteq rs[j].sources
                /\ QuotesOf(policies[i]) \subseteq QuotesOf(rs[j])
                /\ \A k \in DOMAIN rs \ {j} : ~represents(rs[k], policies[i])
  <2>1. PICK j \in DOMAIN rs : Stands(rs[j], v[i])
    BY <1>5, <1>7 DEF Accounts
  <2>2. \A k \in DOMAIN rs : represents(rs[k], policies[i]) <=> policies[i].extractor_id \in Identifiers(rs[k])
    BY DEF represents, Identifiers
  <2>3. policies[i].extractor_id \in Identifiers(rs[j])
    BY <1>5, <2>1 DEF Stands
  <2>4. \A k \in DOMAIN rs \ {j} : Identifiers(rs[k]) \cap Identifiers(rs[j]) = {}
    BY <1>7, <2>1 DEF Accounts
  <2>5. \A k \in DOMAIN rs \ {j} : ~represents(rs[k], policies[i])
    <3> HIDE DEF Identifiers
    <3> QED BY <2>2, <2>3, <2>4
  <2>6. policies[i].sources \subseteq rs[j].sources /\ QuotesOf(policies[i]) \subseteq QuotesOf(rs[j])
    BY <1>5, <2>1 DEF Stands
  <2> QED BY <2>1, <2>2, <2>3, <2>5, <2>6
<1>9. results' = rs
  BY <1>2 DEF rs
<1> HIDE DEF represents
<1> QED BY <1>1, <1>8, <1>9 DEF NothingExtractedVanishes, QuotesOf

\* What the merge leaves is not touched again.
LossInv == LoopInv /\ Tracked /\ NothingExtractedVanishes

\* It holds at the start.
LEMMA LossInvInit == Init => LossInv
<1> SUFFICES ASSUME Init PROVE LossInv
  OBVIOUS
<1>1. phase = "EXTRACTING" /\ policies = <<>> /\ DOMAIN policies = {}
  BY DEF Init
<1> QED BY <1>1, LoopInvInit DEF LossInv, Tracked, NothingExtractedVanishes

\* Every step keeps it.
LEMMA LossInvStep == LossInv /\ [Next]_vars => LossInv'
<1> SUFFICES ASSUME LossInv, [Next]_vars PROVE Tracked' /\ NothingExtractedVanishes'
  BY LoopInvStep DEF LossInv
<1>1. LoopInv /\ Tracked /\ NothingExtractedVanishes
  BY DEF LossInv
<1>2. at \in Nat \ {0}
  BY <1>1 DEF LoopInv, LoopTypes
<1>3. ASSUME policies' = policies, phase = "EXTRACTING", phase' = phase, at' >= at, at' \in Nat
      PROVE  Tracked' /\ NothingExtractedVanishes'
  <2>1. \A i \in DOMAIN policies : \E k \in 1 .. Len(Reads), m \in Nat :
           k < at' /\ policies[i].extractor_id = policy_extractor_id(Reads[k], m)
    <3> TAKE i \in DOMAIN policies
    <3>1. PICK k \in 1 .. Len(Reads), m \in Nat : k < at /\ policies[i].extractor_id = policy_extractor_id(Reads[k], m)
      BY <1>1, <1>3 DEF Tracked
    <3>2. k < at'
      BY <1>2, <1>3, <3>1, ReadsFacts
    <3> QED BY <3>1, <3>2
  <2> QED BY <1>1, <1>3, <2>1 DEF Tracked, NothingExtractedVanishes
<1>4. ASSUME policies' = policies, phase' # "EXTRACTING", phase' = "MERGING" \/ NothingExtractedVanishes'
      PROVE  Tracked' /\ NothingExtractedVanishes'
  BY <1>1, <1>4 DEF Tracked, NothingExtractedVanishes
<1>5. ASSUME NEW found \in Seq(Given), NEW how, phase = "EXTRACTING", at <= Len(Reads), take(found, how)
      PROVE  Tracked' /\ NothingExtractedVanishes'
  <2>1. Tracked'
    BY <1>1, <1>5, TrackedTake
  <2> QED BY <1>5, <2>1 DEF take, NothingExtractedVanishes
<1>6. Asked => phase = "EXTRACTING" /\ at <= Len(Reads)
  BY <1>1 DEF Asked, LoopInv, Looping
<1>7. CASE UNCHANGED vars
  BY <1>1, <1>7 DEF vars, Tracked, NothingExtractedVanishes
<1>8. CASE Age \/ Ask
  BY <1>2, <1>3, <1>8 DEF Age, Ask, Waiting
<1>9. CASE Stopped \/ Exhausted
  BY <1>2, <1>3, <1>9, ReadsFacts DEF Stopped, Exhausted, cut_short, Waiting
<1>10. CASE Answered
  <2>1. PICK found \in Offered(document) : take(found, "ANSWERED")
    BY <1>10 DEF Answered
  <2>2. phase = "EXTRACTING" /\ at <= Len(Reads)
    BY <1>6, <1>10 DEF Answered
  <2>3. found \in Seq(Given)
    BY <1>1, <2>2, DocumentFacts, AnswersAreGiven
  <2> QED BY <1>5, <2>1, <2>2, <2>3
<1>11. CASE RepairFailed
  <2>1. phase = "EXTRACTING" /\ at <= Len(Reads)
    BY <1>6, <1>11 DEF RepairFailed
  <2>2. \/ give_up("POLICY_SCHEMA_REPAIR_FAILED")
        \/ take(SetToSeq(Fallback(document)), "FALLBACK")
    BY <1>11 DEF RepairFailed
  <2>3. SetToSeq(Fallback(document)) \in Seq(Given)
    BY <1>1, <2>1, DocumentFacts, AnswersAreGiven
  <2>4. CASE give_up("POLICY_SCHEMA_REPAIR_FAILED")
    BY <1>2, <1>3, <2>1, <2>4 DEF give_up
  <2>5. CASE take(SetToSeq(Fallback(document)), "FALLBACK")
    BY <1>5, <2>1, <2>3, <2>5
  <2> QED BY <2>2, <2>4, <2>5
<1>12. ASSUME NEW code, Busy(code) \/ Failed(code) PROVE Tracked' /\ NothingExtractedVanishes'
  <2>1. phase = "EXTRACTING"
    BY <1>6, <1>12 DEF Busy, Failed
  <2>2. give_up(code) \/ UNCHANGED <<phase, at, policies>>
    BY <1>12 DEF Busy, Failed
  <2> QED BY <1>2, <1>3, <2>1, <2>2 DEF give_up
<1>13. CASE Unparsed
  <2>1. phase = "EXTRACTING"
    BY <1>6, <1>13 DEF Unparsed
  <2>2. give_up("SCHEMA_VALIDATION_FAILED") \/ UNCHANGED <<phase, at, policies>>
    BY <1>13 DEF Unparsed
  <2> QED BY <1>2, <1>3, <2>1, <2>2 DEF give_up
<1>14. CASE Return
  BY <1>4, <1>14 DEF Return
<1>15. CASE Merge
  <2>1. policies' = policies /\ phase' = "SAVING"
    BY <1>15 DEF Merge
  <2> QED BY <1>1, <1>4, <1>15, <2>1, MergeStep
<1>16. CASE Save \/ Recommend
  <2>1. policies' = policies /\ results' = results /\ phase = "SAVING" /\ phase' \in {"SAVING", "DONE"}
    BY <1>16 DEF Save, Recommend
  <2>2. NothingExtractedVanishes'
    BY <1>1, <2>1 DEF NothingExtractedVanishes
  <2> QED BY <1>4, <2>1, <2>2
<1>17. CASE Mismatched
  <2>1. phase = "EXTRACTING" /\ \E code \in {"CONTEXT_MISMATCH", "SOURCE_REVISION_MISMATCH"} : give_up(code)
    BY <1>6, <1>17 DEF Mismatched
  <2> QED BY <1>2, <1>3, <2>1 DEF give_up
<1> QED BY <1>7, <1>8, <1>9, <1>10, <1>11, <1>12, <1>13, <1>14, <1>15, <1>16, <1>17 DEF Next

\* NothingExtractedVanishes holds: every extracted candidate is in exactly one
\* reconciled result, which names its source and its quotes, whatever the
\* candidates, the documents and the order of the identifiers.
THEOREM NothingVanishes == Spec => []NothingExtractedVanishes
<1>1. LossInv => NothingExtractedVanishes
  BY DEF LossInv
<1> QED BY <1>1, LossInvInit, LossInvStep, PTL DEF Spec

-----------------------------------------------------------------------------
(* What validation makes of one candidate.                                  *)

\* A candidate with all its fields, of one source.
Whole(p) ==
    /\ CandidateFields \subseteq DOMAIN p /\ p.members = {}
    /\ \E s : p.sources = {s}
    /\ p.evidence # {} /\ \A e \in p.evidence : QuoteFields \subseteq DOMAIN e
    /\ p.lists = [l \in Lists |-> p.lists[l]]
    /\ p.terms = [f \in DOMAIN p.terms |-> p.terms[f]]
    /\ \A f \in DOMAIN p.terms : p.terms[f] \in Amounts
    /\ p.conditions \in Seq(ToSet(p.conditions))

\* A candidate that is known by its facts.
Known(p) == Identified(p) /\ Ruled(p)

\* A quote stands in the document in hand, which can be trusted.
Stood(p, e, in_docs) ==
    /\ in_hand(p, e, in_docs) /\ e.revision = in_docs[e.source]
    /\ e.start \in positions(in_docs[e.source], e.quote)
    /\ LET d == Snapshot[in_docs[e.source]] IN d.access = "OK" /\ ~d.flagged /\ d.type # "OTHER"

\* Its quotes say what its terms say.
Quoted(p) ==
    \A f \in NumericFields \cup DateFields :
        field_quotes(p, f) # {} => f \in DOMAIN p.terms /\ p.terms[f] \in stated(p, f)

\* What VALIDATED means of one candidate.
Valid(p, in_docs) ==
    /\ \A e \in p.evidence : Stood(p, e, in_docs)
    /\ Quoted(p)
    /\ p.notice # "TERMINATION" /\ ~assess_policy_semantics(p).explicitly_closed
    /\ p.status \in {"OPEN", "SCHEDULED", "STATUS_UNCONFIRMED", "BUDGET_EXHAUSTED"}
    /\ p.status = "OPEN" =>
          /\ "start" \in DOMAIN p.terms /\ p.terms["start"] <= Today
          /\ "end" \in DOMAIN p.terms /\ Today <= p.terms["end"]
Checked(p, in_docs) == Whole(p) /\ Known(p) /\ (p.validation = "VALIDATED" => Valid(p, in_docs))

\* The loop keeps candidates whole.
LEMMA CandidateIsWhole ==
    ASSUME NEW r, NEW i, NEW facts \in Given
    PROVE  Whole(candidate(r, i, facts))
<1> DEFINE p == candidate(r, i, facts)
           T == facts.evidence
<1>1. IsCandidate(facts)
  BY GivenAreCandidates
<1>2. CandidateFields \subseteq DOMAIN facts /\ \A e \in T : QuoteFields \subseteq DOMAIN e
  BY <1>1 DEF IsCandidate
<1> HIDE DEF policy_extractor_id, source_of
<1>3. /\ DOMAIN p = DOMAIN facts /\ p.sources = {source_of(r)} /\ p.members = facts.members
      /\ p.terms = facts.terms /\ p.lists = facts.lists /\ p.conditions = facts.conditions
      /\ p.evidence = {[e EXCEPT !.source = source_of(r), !.revision = r] : e \in T}
  BY <1>2 DEF candidate, CandidateFields
<1> HIDE DEF p, T
<1>4. \A e \in p.evidence : QuoteFields \subseteq DOMAIN e
  BY <1>2, <1>3
<1>5. CandidateFields \subseteq DOMAIN p /\ p.members = {} /\ p.evidence # {} /\ \E s : p.sources = {s}
  BY <1>1, <1>3 DEF IsCandidate, T
<1>6. /\ p.lists = [l \in Lists |-> p.lists[l]]
      /\ p.terms = [f \in DOMAIN p.terms |-> p.terms[f]] /\ \A f \in DOMAIN p.terms : p.terms[f] \in Amounts
      /\ p.conditions \in Seq(ToSet(p.conditions))
  BY <1>1, <1>3 DEF IsCandidate
<1> QED BY <1>4, <1>5, <1>6 DEF Whole, p

\* A candidate is known by rules of its own, at least one for each of its fields.
LEMMA KnownRules ==
    ASSUME NEW p, p.conditions \in Seq(ToSet(p.conditions))
    PROVE  known_rules(p) \subseteq rules(p) /\ ruled_fields(p) = {k.field : k \in known_rules(p)}
<1> DEFINE cs == p.conditions
           of(f) == {i \in DOMAIN cs : cs[i].field = f}
<1>1. Len(cs) \in Nat /\ DOMAIN cs = 1 .. Len(cs) /\ ToSet(cs) = {cs[i] : i \in 1 .. Len(cs)}
  <2>1. Len(cs) \in Nat /\ DOMAIN cs = 1 .. Len(cs)
    OBVIOUS
  <2> QED BY <2>1 DEF ToSet
<1>2. eligibility_map(p) = [f \in ruled_fields(p) |-> rendered(cs[Max(of(f))])]
  BY DEF eligibility_map, ruled_fields
<1>3. \A f \in ruled_fields(p) : Max(of(f)) \in of(f)
  <2> TAKE f \in ruled_fields(p)
  <2>1. of(f) \subseteq 1 .. Len(cs) /\ of(f) # {}
    BY <1>1 DEF ruled_fields
  <2> HIDE DEF of, cs
  <2> QED BY <1>1, <2>1, LastPosition
<1>4. known_rules(p) = {[field |-> f, rule |-> rendered(cs[Max(of(f))])] : f \in ruled_fields(p)}
  <2> HIDE DEF of, cs, rendered
  <2> QED BY <1>2 DEF known_rules
<1>5. \A f \in ruled_fields(p) : cs[Max(of(f))] \in ToSet(cs) /\ cs[Max(of(f))].field = f
  BY <1>1, <1>3
<1> HIDE DEF of, cs
<1>6. ASSUME NEW k \in known_rules(p) PROVE k \in rules(p)
  <2>1. PICK f \in ruled_fields(p) : k = [field |-> f, rule |-> rendered(cs[Max(of(f))])]
    BY <1>4, <1>6
  <2>2. PICK c \in ToSet(cs) : c = cs[Max(of(f))] /\ c.field = f
    BY <1>5
  <2>3. k = [field |-> c.field, rule |-> rendered(c)]
    BY <2>1, <2>2
  <2> HIDE DEF rendered
  <2> QED BY <2>3 DEF rules, cs
<1>7. {k.field : k \in known_rules(p)} = ruled_fields(p)
  <2> DEFINE rule(f) == rendered(cs[Max(of(f))])
  <2>1. known_rules(p) = {[field |-> f, rule |-> rule(f)] : f \in ruled_fields(p)}
    BY <1>4
  <2> HIDE DEF rule
  <2>2. \A f \in ruled_fields(p) : [field |-> f, rule |-> rule(f)] \in known_rules(p)
    BY <2>1
  <2>3. \A f \in ruled_fields(p) : f \in {k.field : k \in known_rules(p)}
    <3> TAKE f \in ruled_fields(p)
    <3>1. [field |-> f, rule |-> rule(f)].field = f
      OBVIOUS
    <3> QED BY <2>2, <3>1
  <2>4. \A k \in known_rules(p) : k.field \in ruled_fields(p)
    BY <2>1
  <2> HIDE DEF known_rules, ruled_fields
  <2> QED BY <2>3, <2>4
<1> QED BY <1>6, <1>7

\* Identification writes only the identifier and the fingerprint.
LEMMA IdentityKeeps ==
    ASSUME NEW p, Whole(p), NEW in_docs
    PROVE  LET c == canonicalize_policy_identity(p, in_docs) IN
           Whole(c) /\ Known(c) /\ DOMAIN c = DOMAIN p
<1> DEFINE c == canonicalize_policy_identity(p, in_docs)
           parts == semantic_policy_identity_parts(p, in_docs)
<1>1. /\ parts.name = p.name /\ parts.type = p.type /\ parts.lists = p.lists
      /\ parts.terms = written(p.terms) /\ parts.conditions = known_rules(p)
  <2> HIDE DEF policy_provider_authority, program_years, status_class, written, known_rules
  <2> QED BY DEF semantic_policy_identity_parts
<1>2. c = [p EXCEPT !.fingerprint = parts, !.id = [of |-> "one", facts |-> parts]]
  <2> HIDE DEF semantic_policy_identity_parts
  <2> QED BY DEF canonicalize_policy_identity
<1> HIDE DEF parts
<1>3. CandidateFields \subseteq DOMAIN p
  BY DEF Whole
<1>4. /\ DOMAIN c = DOMAIN p /\ c.fingerprint = parts /\ c.id = [of |-> "one", facts |-> parts]
      /\ c.name = p.name /\ c.type = p.type /\ c.lists = p.lists /\ c.terms = p.terms
      /\ c.conditions = p.conditions /\ c.sources = p.sources /\ c.evidence = p.evidence /\ c.members = p.members
  BY <1>2, <1>3 DEF CandidateFields
<1>5. p.conditions \in Seq(ToSet(p.conditions))
  BY DEF Whole
<1> HIDE DEF c
<1>6. Ruled(c)
  <2>1. known_rules(p) \subseteq rules(p) /\ ruled_fields(p) = {k.field : k \in known_rules(p)}
    BY <1>5, KnownRules
  <2>2. rules(c) = rules(p) /\ ruled_fields(c) = ruled_fields(p)
    BY <1>4 DEF rules, ruled_fields
  <2> QED BY <1>1, <1>4, <2>1, <2>2 DEF Ruled
<1>7. Whole(c) /\ Identified(c)
  <2> HIDE DEF written, known_rules
  <2> QED BY <1>1, <1>4 DEF Whole, Identified
<1> QED BY <1>4, <1>6, <1>7 DEF Known, c

\* Validation: a candidate is VALIDATED only if it is what the word promises.
LEMMA ValidationChecks ==
    ASSUME NEW c, Whole(c), Known(c), NEW in_docs
    PROVE  Checked(validate_policy_candidate(c, in_docs), in_docs)
<1> DEFINE v == validate_policy_candidate(c, in_docs)
           new(e) == IF in_hand(c, e, in_docs) THEN rebound(e, in_docs) ELSE e
           semantic == assess_policy_semantics(c).codes
           bad == source_codes(c, in_docs) \cup UNION {evidence_codes(c, e, in_docs) : e \in c.evidence}
<1>1. CandidateFields \subseteq DOMAIN c /\ \A e \in c.evidence : QuoteFields \subseteq DOMAIN e
  BY DEF Whole
<1>2. /\ DOMAIN v = DOMAIN c /\ v.evidence = {new(e) : e \in c.evidence} /\ v.status = application_status(c)
      /\ v.validation = IF bad # {} THEN "REJECTED" ELSE IF closed(c) THEN "CLOSED"
                        ELSE IF semantic # {} THEN "PARTIALLY_VALIDATED" ELSE "VALIDATED"
      /\ v.id = c.id /\ v.fingerprint = c.fingerprint /\ v.sources = c.sources /\ v.members = c.members
      /\ v.name = c.name /\ v.type = c.type /\ v.lists = c.lists /\ v.terms = c.terms
      /\ v.conditions = c.conditions /\ v.notice = c.notice
  <2> HIDE DEF application_status, closed, assess_policy_semantics, source_codes, evidence_codes, in_hand, rebound,
               recommendation_codes
  <2> QED BY <1>1 DEF validate_policy_candidate, CandidateFields
<1> HIDE DEF v, bad, semantic
<1>3. \A e \in c.evidence :
         /\ QuoteFields \subseteq DOMAIN new(e) /\ new(e).source = e.source /\ new(e).quote = e.quote
         /\ new(e).fields = e.fields
  <2> TAKE e \in c.evidence
  <2>1. QuoteFields \subseteq DOMAIN e
    BY <1>1
  <2>2. /\ DOMAIN rebound(e, in_docs) = DOMAIN e /\ rebound(e, in_docs).source = e.source
        /\ rebound(e, in_docs).quote = e.quote /\ rebound(e, in_docs).fields = e.fields
    BY <2>1 DEF rebound, QuoteFields
  <2> QED BY <2>1, <2>2
<1>4. Whole(v)
  <2>1. v.evidence # {} /\ \A n \in v.evidence : QuoteFields \subseteq DOMAIN n
    <3> HIDE DEF new
    <3> QED BY <1>2, <1>3 DEF Whole
  <2> QED BY <1>1, <1>2, <2>1 DEF Whole
<1>5. Known(v)
  BY <1>2 DEF Known, Identified, Ruled, rules, ruled_fields
<1>6. ASSUME v.validation = "VALIDATED" PROVE Valid(v, in_docs)
  <2>1. bad = {} /\ ~closed(c) /\ semantic = {}
    BY <1>2, <1>6
  <2>2. \A e \in v.evidence : Stood(v, e, in_docs)
    <3> TAKE n \in v.evidence
    <3>1. PICK e \in c.evidence : n = new(e)
      BY <1>2
    <3>2. evidence_codes(c, e, in_docs) = {} /\ source_codes(c, in_docs) = {}
      BY <2>1 DEF bad
    <3>3. in_hand(c, e, in_docs)
      BY <3>2 DEF evidence_codes
    <3>4. n = rebound(e, in_docs)
      BY <3>1, <3>3
    <3>5. n.revision = in_docs[e.source] /\ n.start \in positions(in_docs[e.source], e.quote)
      <4> HIDE DEF rebound, positions
      <4> QED BY <3>2, <3>3, <3>4 DEF evidence_codes
    <3>6. n.source = e.source /\ n.quote = e.quote
      BY <1>3, <3>1
    <3>7. in_hand(v, n, in_docs)
      BY <1>2, <3>3, <3>6 DEF in_hand
    <3> DEFINE d == Snapshot[in_docs[e.source]]
    <3>8. d \in {Snapshot[r] : r \in related(c, in_docs)}
      BY <3>3 DEF in_hand, related
    <3>9. d.access = "OK" /\ ~d.flagged /\ d.type # "OTHER"
      <4> HIDE DEF d
      <4> QED BY <3>2, <3>8 DEF source_codes
    <3> QED BY <3>5, <3>6, <3>7, <3>9 DEF Stood
  <2>3. \A f : field_quotes(v, f) = field_quotes(c, f)
    <3> TAKE f
    <3>1. \A n \in v.evidence : \E e \in c.evidence : n = new(e)
      BY <1>2
    <3>2. \A e \in c.evidence : new(e) \in v.evidence
      BY <1>2
    <3> HIDE DEF new
    <3> QED BY <1>3, <3>1, <3>2 DEF field_quotes
  <2>4. \A f : stated(v, f) = stated(c, f)
    BY <2>3 DEF stated
  <2>5. Quoted(v)
    <3>1. SUFFICES ASSUME NEW f \in NumericFields \cup DateFields, field_quotes(c, f) # {}
                   PROVE  f \in DOMAIN c.terms /\ c.terms[f] \in stated(c, f)
      BY <1>2, <2>3, <2>4 DEF Quoted
    <3>2. field_codes(c, f) = {}
      <4>1. field_codes(c, f) \subseteq semantic
        <5> HIDE DEF field_codes, collateral_codes, budget_codes
        <5> QED BY DEF semantic, assess_policy_semantics
      <4> QED BY <2>1, <4>1
    <3> HIDE DEF field_quotes, stated, missing_code
    <3>3. f \in DOMAIN c.terms
      BY <3>1, <3>2 DEF field_codes
    <3> QED BY <3>1, <3>2, <3>3 DEF field_codes
  <2>6. ~assess_policy_semantics(v).explicitly_closed
    <3>1. ~\E e \in c.evidence : Quote[e.quote].closed
      BY <2>1 DEF closed, assess_policy_semantics
    <3>2. \A n \in v.evidence : \E e \in c.evidence : n.quote = e.quote
      <4> HIDE DEF new
      <4> QED BY <1>2, <1>3
    <3> QED BY <3>1, <3>2 DEF assess_policy_semantics
  <2>7. v.notice # "TERMINATION" /\ ~ended(c)
    BY <1>2, <2>1 DEF closed
  <2>8. v.status \in {"OPEN", "SCHEDULED", "STATUS_UNCONFIRMED", "BUDGET_EXHAUSTED"}
    <3> HIDE DEF closed
    <3> QED BY <1>2, <2>1 DEF application_status
  <2>9. ASSUME v.status = "OPEN"
        PROVE  /\ "start" \in DOMAIN v.terms /\ v.terms["start"] <= Today
               /\ "end" \in DOMAIN v.terms /\ Today <= v.terms["end"]
    <3>1. "start" \in DOMAIN c.terms /\ ~(c.terms["start"] > Today) /\ "end" \in DOMAIN c.terms
      <4> HIDE DEF closed
      <4> QED BY <1>2, <2>1, <2>9 DEF application_status
    <3>2. c.terms["start"] \in Int /\ c.terms["end"] \in Int /\ Today \in Int
      BY <3>1, ReliefAssumption, PolicyAssumption DEF Whole
    <3>3. ~(c.terms["end"] < Today)
      BY <2>7, <3>1 DEF ended
    <3> QED BY <1>2, <3>1, <3>2, <3>3
  <2> QED BY <2>2, <2>5, <2>6, <2>7, <2>8, <2>9 DEF Valid
<1> QED BY <1>4, <1>5, <1>6 DEF Checked, v

-----------------------------------------------------------------------------
(* What the originals of one group come to.                                 *)

Overlaying == INSTANCE SequenceLemmas WITH Op <- over

\* m keeps of the first n functions what they say, and nothing else.
Overlaid(m, fs, n) ==
    /\ DOMAIN m = UNION {DOMAIN fs[i] : i \in 1 .. n}
    /\ \A k \in DOMAIN m : \E i \in 1 .. n : k \in DOMAIN fs[i] /\ m[k] = fs[i][k]
    /\ n # 0 => m = [k \in DOMAIN m |-> m[k]]

\* An overlay has all the fields, each with what one of the functions says.
LEMMA OverlayFacts ==
    ASSUME NEW N \in Nat, NEW fs, DOMAIN fs = 1 .. N, fs = [i \in 1 .. N |-> fs[i]]
    PROVE  Overlaid(overlay(fs), fs, N)
<1>0. fs \in Seq(ToSet(fs)) /\ Len(fs) = N
  BY SequenceOfValues
<1>1. PICK g : Overlaying!Folds(g, <<>>, fs, Len(fs)) /\ Overlaying!FoldLeft(over, <<>>, fs) = g[Len(fs)]
  BY <1>0, Overlaying!FoldSteps
<1>2. overlay(fs) = g[N]
  <2>1. FoldLeft(over, <<>>, fs) = Overlaying!FoldLeft(over, <<>>, fs)
    BY DEF FoldLeft, MapThenFoldSet, Max, Overlaying!FoldLeft, Overlaying!MapThenFoldSet, Overlaying!Max
  <2> QED BY <1>0, <1>1, <2>1 DEF overlay
<1>3. g[0] = <<>> /\ \A i \in 0 .. N : i < N => g[i + 1] = over(g[i], fs[i + 1])
  BY <1>0, <1>1 DEF Overlaying!Folds
<1> DEFINE Good == {n \in 0 .. N : Overlaid(g[n], fs, n)}
<1>4. 0 \in Good
  <2>1. DOMAIN g[0] = {} /\ 1 .. 0 = {} /\ 0 \in 0 .. N
    BY <1>3
  <2> QED BY <2>1 DEF Overlaid
<1>5. ASSUME NEW n \in 0 .. N, n < N, n \in Good PROVE n + 1 \in Good
  <2> DEFINE m == g[n]
             f == fs[n + 1]
             h == g[n + 1]
  <2>1. n + 1 \in 0 .. N /\ n \in Nat /\ n + 1 # 0
    BY <1>5
  <2>2. 1 .. (n + 1) = (1 .. n) \cup {n + 1}
    BY <2>1
  <2>3. h = [k \in DOMAIN m \cup DOMAIN f |-> IF k \in DOMAIN m THEN m[k] ELSE f[k]]
    BY <1>3, <1>5 DEF over
  <2>4. Overlaid(m, fs, n)
    BY <1>5
  <2>5. h = [k \in DOMAIN h |-> h[k]] /\ DOMAIN h = DOMAIN m \cup DOMAIN f
        /\ \A k \in DOMAIN h : h[k] = IF k \in DOMAIN m THEN m[k] ELSE f[k]
    BY <2>3
  <2> HIDE DEF h, m
  <2>6. DOMAIN h = UNION {DOMAIN fs[i] : i \in 1 .. (n + 1)}
    <3>1. UNION {DOMAIN fs[i] : i \in 1 .. (n + 1)} = (UNION {DOMAIN fs[i] : i \in 1 .. n}) \cup DOMAIN fs[n + 1]
      BY <2>2
    <3> QED BY <2>4, <2>5, <3>1 DEF Overlaid
  <2>7. \A k \in DOMAIN h : \E i \in 1 .. (n + 1) : k \in DOMAIN fs[i] /\ h[k] = fs[i][k]
    <3> TAKE k \in DOMAIN h
    <3>1. CASE k \in DOMAIN m
      <4>1. PICK i \in 1 .. n : k \in DOMAIN fs[i] /\ m[k] = fs[i][k]
        BY <2>4, <3>1 DEF Overlaid
      <4>2. i \in 1 .. (n + 1) /\ h[k] = m[k]
        BY <2>2, <2>5, <3>1
      <4> QED BY <4>1, <4>2
    <3>2. CASE k \notin DOMAIN m
      <4>1. k \in DOMAIN fs[n + 1] /\ h[k] = fs[n + 1][k] /\ n + 1 \in 1 .. (n + 1)
        BY <2>1, <2>5, <3>2
      <4> QED BY <4>1
    <3> QED BY <3>1, <3>2
  <2>8. Overlaid(h, fs, n + 1)
    BY <2>5, <2>6, <2>7 DEF Overlaid
  <2> QED BY <2>1, <2>8 DEF h
<1>6. N \in Good
  <2> HIDE DEF Good
  <2>1. \A n \in 0 .. N : n \in Good
    BY <1>4, <1>5, PrefixInduction
  <2> QED BY <2>1
<1> QED BY <1>2, <1>6

\* What is found first is one of the values, or what was there before.
LEMMA InformativeIsOne ==
    ASSUME NEW N \in Nat, NEW values, DOMAIN values = 1 .. N, values = [i \in 1 .. N |-> values[i]],
           NEW unknown, NEW default
    PROVE  first_informative(values, unknown, default) \in {default} \cup {values[i] : i \in 1 .. N}
<1> DEFINE I == {i \in DOMAIN values : values[i] \notin unknown}
           known == Chosen(values, I)
<1>1. values \in Seq(ToSet(values)) /\ ToSet(values) = {values[i] : i \in 1 .. N}
  BY SequenceOfValues
<1>2. first_informative(values, unknown, default) = IF known = <<>> THEN default ELSE known[1]
  BY DEF first_informative
<1> HIDE DEF I
<1>3. known \in Seq(ToSet(values))
  BY <1>1, ChosenRange
<1> HIDE DEF known
<1>4. known # <<>> => known[1] \in ToSet(values)
  BY <1>3
<1> QED BY <1>1, <1>2, <1>4

\* m is what functions that do not contradict each other say together.
Together(m, fs, N) ==
    /\ m = [k \in DOMAIN m |-> m[k]] /\ DOMAIN m = UNION {DOMAIN fs[i] : i \in 1 .. N}
    /\ \A i \in 1 .. N : \A k \in DOMAIN fs[i] : m[k] = fs[i][k]
    /\ populated({fs[i] : i \in 1 .. N}) = [k \in DOMAIN m |-> {m[k]}]

\* Then the overlay says what each of them says.
LEMMA OverlayAgrees ==
    ASSUME NEW N \in Nat \ {0}, NEW fs, DOMAIN fs = 1 .. N, fs = [i \in 1 .. N |-> fs[i]],
           \A i, j \in 1 .. N : differing(fs[i], fs[j]) = {}
    PROVE  Together(overlay(fs), fs, N)
<1> DEFINE m == overlay(fs)
           F == {fs[i] : i \in 1 .. N}
<1>1. Overlaid(m, fs, N)
  BY OverlayFacts
<1> HIDE DEF m
<1>2. m = [k \in DOMAIN m |-> m[k]] /\ DOMAIN m = UNION {DOMAIN fs[i] : i \in 1 .. N}
  BY <1>1 DEF Overlaid
<1>3. ASSUME NEW i \in 1 .. N, NEW k \in DOMAIN fs[i] PROVE m[k] = fs[i][k]
  <2>1. k \in DOMAIN m
    BY <1>2
  <2>2. PICK j \in 1 .. N : k \in DOMAIN fs[j] /\ m[k] = fs[j][k]
    BY <1>1, <2>1 DEF Overlaid
  <2>3. differing(fs[i], fs[j]) = {}
    OBVIOUS
  <2> QED BY <2>2, <2>3 DEF differing
<1>4. UNION {DOMAIN f : f \in F} = DOMAIN m
  BY <1>2
<1>5. \A k \in DOMAIN m : {f[k] : f \in {f \in F : k \in DOMAIN f}} = {m[k]}
  <2> TAKE k \in DOMAIN m
  <2>1. PICK i \in 1 .. N : k \in DOMAIN fs[i] /\ m[k] = fs[i][k]
    BY <1>1 DEF Overlaid
  <2>2. \A f \in F : k \in DOMAIN f => f[k] = m[k]
    BY <1>3
  <2>3. fs[i] \in F
    OBVIOUS
  <2> HIDE DEF F
  <2> QED BY <2>1, <2>2, <2>3
<1> HIDE DEF F
<1>6. populated(F) = [k \in DOMAIN m |-> {f[k] : f \in {f \in F : k \in DOMAIN f}}]
  BY <1>4 DEF populated
<1>7. populated(F) = [k \in DOMAIN m |-> {m[k]}]
  BY <1>5, <1>6
<1> QED BY <1>2, <1>3, <1>7 DEF Together, m, F

\* A result r rests on the candidates Y: it is known by theirs, has what they
\* have, and is no better than any of them.
Rests(r, Y) ==
    /\ Y # {} /\ CandidateFields \subseteq DOMAIN r
    /\ Identifiers(r) = IdentifiersOf(Y)
    /\ r.sources = UNION {y.sources : y \in Y} /\ r.evidence = UNION {y.evidence : y \in Y}
    /\ r.validation = "VALIDATED" => \A y \in Y : y.validation = "VALIDATED"
    /\ r.status \in {y.status : y \in Y}
    /\ DOMAIN r.terms = UNION {DOMAIN y.terms : y \in Y}
    /\ \A y \in Y : \A f \in DOMAIN y.terms : r.terms[f] = y.terms[f]

\* Functions that are known by their values' singletons are known.
LEMMA SingletonsTell ==
    ASSUME NEW f, NEW g, f = [k \in DOMAIN f |-> f[k]], g = [k \in DOMAIN g |-> g[k]],
           [k \in DOMAIN f |-> {f[k]}] = [k \in DOMAIN g |-> {g[k]}]
    PROVE  f = g
<1> DEFINE F == [k \in DOMAIN f |-> {f[k]}]
           G == [k \in DOMAIN g |-> {g[k]}]
<1>1. F = G
  OBVIOUS
<1>2. DOMAIN F = DOMAIN f /\ DOMAIN G = DOMAIN g
  OBVIOUS
<1>3. DOMAIN f = DOMAIN g
  BY <1>1, <1>2
<1>4. \A k \in DOMAIN f : F[k] = {f[k]} /\ G[k] = {g[k]}
  BY <1>3
<1> HIDE DEF F, G
<1>5. \A k \in DOMAIN f : f[k] = g[k]
  <2> TAKE k \in DOMAIN f
  <2>1. {f[k]} = {g[k]}
    BY <1>1, <1>4
  <2> QED BY <2>1
<1> QED BY <1>3, <1>5

\* So results of one identifier are of one fingerprint and of the same facts.
LEMMA IdentifierTells ==
    ASSUME NEW r, NEW q, Sealed(r), Sealed(q), r.id = q.id
    PROVE  r.fingerprint = q.fingerprint /\ stored_facts(r) = stored_facts(q)
<1>1. \A x, y : [of |-> "one", facts |-> x] # [merged |-> y]
  OBVIOUS
<1>5. r.fingerprint = q.fingerprint => ruled_fields(r) = ruled_fields(q)
  BY DEF Sealed, Ruled
<1>2. CASE Identified(r) /\ Identified(q)
  <2>1. [of |-> "one", facts |-> r.fingerprint] = [of |-> "one", facts |-> q.fingerprint]
    BY <1>2 DEF Identified
  <2>2. r.fingerprint = q.fingerprint
    BY <2>1
  <2> HIDE DEF written
  <2> QED BY <1>2, <1>5, <2>2 DEF Identified, stored_facts
<1>3. CASE Joined(r) /\ Joined(q)
  <2>1. [merged |-> r.fingerprint] = [merged |-> q.fingerprint]
    BY <1>3 DEF Joined
  <2>2. r.fingerprint = q.fingerprint
    BY <2>1
  <2>3. r.name = q.name /\ r.type = q.type /\ r.lists = q.lists
    BY <1>3, <2>2 DEF Joined
  <2>4. r.terms = q.terms
    <3> DEFINE a == r.terms
               b == q.terms
    <3>1. /\ a = [k \in DOMAIN a |-> a[k]] /\ b = [k \in DOMAIN b |-> b[k]]
          /\ [k \in DOMAIN a |-> {a[k]}] = [k \in DOMAIN b |-> {b[k]}]
      BY <1>3, <2>2 DEF Joined, Sealed
    <3> HIDE DEF a, b
    <3>2. a = b
      BY <3>1, SingletonsTell
    <3> QED BY <3>2 DEF a, b
  <2> HIDE DEF written
  <2> QED BY <1>5, <2>2, <2>3, <2>4 DEF stored_facts
<1>4. ~(Identified(r) /\ Joined(q)) /\ ~(Joined(r) /\ Identified(q))
  BY <1>1 DEF Identified, Joined
<1> QED BY <1>2, <1>3, <1>4 DEF Sealed

\* A sequence without its repetitions has the same members.
LEMMA UniqueRange ==
    ASSUME NEW s, s \in Seq(ToSet(s))
    PROVE  ordered_unique(s) \in Seq(ToSet(s)) /\ ToSet(ordered_unique(s)) = ToSet(s)
<1> DEFINE N == Len(s)
           I == {i \in DOMAIN s : \A j \in 1..(i - 1) : s[j] # s[i]}
<1>1. N \in Nat /\ DOMAIN s = 1 .. N
  OBVIOUS
<1>2. ordered_unique(s) \in Seq(ToSet(s)) /\ ToSet(ordered_unique(s)) = {s[i] : i \in I \cap DOMAIN s}
  <2> HIDE DEF I
  <2>1. Chosen(s, I) \in Seq(ToSet(s)) /\ ToSet(Chosen(s, I)) = {s[i] : i \in I \cap DOMAIN s}
    BY ChosenRange
  <2> QED BY <2>1 DEF ordered_unique, I
<1>3. ASSUME NEW k \in 1 .. N PROVE \E i \in I \cap DOMAIN s : s[i] = s[k]
  <2> DEFINE T == {i \in 1 .. N : s[i] = s[k]}
  <2>1. T \subseteq Nat /\ T # {}
    BY <1>1
  <2>2. PICK i \in T : \A x \in T : i <= x
    <3> HIDE DEF T
    <3> QED BY <2>1, NatLeast
  <2>3. \A j \in 1 .. (i - 1) : j \in 1 .. N /\ ~(i <= j)
    BY <1>1, <2>2
  <2>4. i \in I
    BY <1>1, <2>2, <2>3
  <2> QED BY <1>1, <2>2, <2>4
<1>4. ToSet(s) = {s[k] : k \in 1 .. N}
  BY <1>1 DEF ToSet
<1> HIDE DEF I, N
<1> QED BY <1>1, <1>2, <1>3, <1>4

\* A condition all members of a finite set agree on, if it has one value.
LEMMA OneValue ==
    ASSUME NEW S, NEW s \in Seq(S), NEW f, DOMAIN f = ToSet(s), Cardinality({f[x] : x \in ToSet(s)}) = 1
    PROVE  \A x, y \in ToSet(s) : f[x] = f[y]
<1> DEFINE V == {f[x] : x \in ToSet(s)}
<1>1. IsFiniteSet(V)
  BY ImageIsFinite
<1>2. Cardinality(V) = 1
  OBVIOUS
<1>3. \A x \in ToSet(s) : f[x] \in V
  OBVIOUS
<1> HIDE DEF V
<1>4. PICK v : V = {v}
  BY <1>1, <1>2, FS_Singleton
<1> QED BY <1>3, <1>4

\* The originals of a group come to a result that rests on all of them.
LEMMA MergeRests ==
    ASSUME NEW in_docs, InHand(in_docs), NEW X, Keyed(X), \A x \in X : Whole(x) /\ Known(x),
           NEW s \in Seq(X), s # <<>>, \A p, q \in ToSet(s) : Kin(p, q)
    PROVE  Rests(merge_originals(s, in_docs), ToSet(s)) /\ Sealed(merge_originals(s, in_docs))
<1> DEFINE all == ToSet(s)
           N == Len(s)
           primary == canonical_policy_primary(s, in_docs)
           m == merge_originals(s, in_docs)
           fields == merge_consistent_policy_fields(primary, s)
           terms == [i \in DOMAIN s |-> s[i].terms]
           conditions == [i \in DOMAIN s |-> s[i].conditions]
           statuses == [i \in DOMAIN s |-> s[i].status]
           fp == semantic_policy_merge_fingerprint(all, in_docs)
           lists == [l \in Lists |-> UNION {p.lists[l] : p \in all}]
<1>1. N \in Nat \ {0} /\ DOMAIN s = 1 .. N /\ all = {s[i] : i \in 1 .. N} /\ all \subseteq X
  <2>1. N \in Nat \ {0} /\ DOMAIN s = 1 .. N /\ \A i \in 1 .. N : s[i] \in X
    OBVIOUS
  <2> QED BY <2>1 DEF ToSet
<1>2. primary \in all
  <2>1. \A x \in X : Single(x)
    BY DEF Keyed
  <2> QED BY <2>1, PrimaryIsOne
<1>3. Accounts(<<m>>, all)
  BY MergeAccounts
<1>4. CandidateFields \subseteq DOMAIN primary
  BY <1>1, <1>2 DEF Whole
<1> HIDE DEF all, N, primary
<1>5. /\ DOMAIN terms = 1 .. N /\ terms = [i \in 1 .. N |-> terms[i]] /\ \A i \in 1 .. N : terms[i] = s[i].terms
      /\ DOMAIN conditions = 1 .. N /\ conditions = [i \in 1 .. N |-> conditions[i]]
      /\ \A i \in 1 .. N : conditions[i] = s[i].conditions
      /\ DOMAIN statuses = 1 .. N /\ statuses = [i \in 1 .. N |-> statuses[i]]
      /\ \A i \in 1 .. N : statuses[i] = s[i].status
  BY <1>1
<1> DEFINE status == first_informative(statuses, {"UNKNOWN", "STATUS_UNCONFIRMED"}, primary.status)
<1>6. /\ DOMAIN fields = DOMAIN primary /\ fields.terms = overlay(terms)
      /\ fields.conditions = ordered_unique(FlattenSeq(conditions))
      /\ fields.status = status /\ fields.name = primary.name /\ fields.type = primary.type
      /\ fields.lists = lists /\ fields.id = primary.id /\ fields.fingerprint = primary.fingerprint
  <2> HIDE DEF first_informative, overlay, ordered_unique
  <2> QED BY <1>4 DEF merge_consistent_policy_fields, CandidateFields, all
<1> HIDE DEF fields, terms, conditions, statuses, status, lists
<1>7. /\ DOMAIN m = DOMAIN primary /\ m.terms = overlay(terms)
      /\ m.conditions = ordered_unique(FlattenSeq(conditions))
      /\ m.status = status /\ m.name = primary.name /\ m.type = primary.type /\ m.lists = lists
      /\ m.sources = UNION {p.sources : p \in all} /\ m.evidence = UNION {p.evidence : p \in all}
      /\ m.validation = reconciled_status(primary, all)
      /\ IF N = 1 THEN m.id = primary.id /\ m.fingerprint = primary.fingerprint
         ELSE m.id = [merged |-> fp] /\ m.fingerprint = fp
  <2> HIDE DEF fp, overlay, reconciled_status, ordered_unique
  <2> QED BY <1>4, <1>6 DEF merge_originals, CandidateFields, all, primary, fields, fp, N
<1> HIDE DEF m
<1>8. Together(m.terms, terms, N)
  <2>1. \A i, j \in 1 .. N : differing(terms[i], terms[j]) = {}
    <3> TAKE i, j \in 1 .. N
    <3>1. Kin(s[i], s[j])
      BY <1>1 DEF all
    <3>2. terms[i] = s[i].terms /\ terms[j] = s[j].terms
      BY <1>5
    <3> QED BY <3>1, <3>2 DEF Kin
  <2> QED BY <1>1, <1>5, <1>7, <2>1, OverlayAgrees
<1>9. ToSet(m.conditions) = UNION {ToSet(p.conditions) : p \in all}
  <2> DEFINE flat == FlattenSeq(conditions)
  <2>1. \A i \in 1 .. N : conditions[i] \in Seq(ToSet(conditions[i]))
    <3> TAKE i \in 1 .. N
    <3>1. Whole(s[i])
      BY <1>1
    <3>2. conditions[i] = s[i].conditions
      BY <1>5
    <3>3. s[i].conditions \in Seq(ToSet(s[i].conditions))
      BY <3>1 DEF Whole
    <3> QED BY <3>2, <3>3
  <2>2. flat \in Seq(ToSet(flat)) /\ ToSet(flat) = UNION {ToSet(conditions[i]) : i \in 1 .. N}
    BY <1>1, <1>5, <2>1, FlattenOwn
  <2> HIDE DEF flat
  <2>3. ToSet(ordered_unique(flat)) = ToSet(flat)
    BY <2>2, UniqueRange
  <2>4. ToSet(m.conditions) = UNION {ToSet(conditions[i]) : i \in 1 .. N}
    BY <1>7, <2>2, <2>3 DEF flat
  <2> QED BY <1>1, <1>5, <2>4
<1>10. status \in {p.status : p \in all}
  <2>1. status \in {primary.status} \cup {statuses[i] : i \in 1 .. N}
    <3> DEFINE unknown == {"UNKNOWN", "STATUS_UNCONFIRMED"}
               default == primary.status
    <3>1. N \in Nat /\ DOMAIN statuses = 1 .. N /\ statuses = [i \in 1 .. N |-> statuses[i]]
      BY <1>1, <1>5
    <3> HIDE DEF unknown, default
    <3>2. first_informative(statuses, unknown, default) \in {default} \cup {statuses[i] : i \in 1 .. N}
      BY <3>1, InformativeIsOne
    <3> QED BY <3>2 DEF status, unknown, default
  <2> QED BY <1>1, <1>2, <1>5, <2>1
<1>11. m.validation = "VALIDATED" => \A p \in all : p.validation = "VALIDATED"
  <2> SUFFICES ASSUME m.validation = "VALIDATED" PROVE \A p \in all : p.validation = "VALIDATED"
    OBVIOUS
  <2> DEFINE f == [p \in all |-> <<p.validation, p.codes>>]
  <2>1. Cardinality({<<p.validation, p.codes>> : p \in all}) = 1 /\ primary.validation = "VALIDATED"
    BY <1>7 DEF reconciled_status
  <2>2. {<<p.validation, p.codes>> : p \in all} = {f[p] : p \in all} /\ DOMAIN f = all
    OBVIOUS
  <2>3. \A p \in all : f[p] = <<p.validation, p.codes>>
    OBVIOUS
  <2> HIDE DEF f
  <2>4. \A p, q \in all : f[p] = f[q]
    BY <2>1, <2>2, OneValue DEF all
  <2>5. \A p \in all : <<p.validation, p.codes>> = <<primary.validation, primary.codes>>
    BY <1>2, <2>3, <2>4
  <2> QED BY <2>1, <2>5
<1>12. Identifiers(m) = IdentifiersOf(all)
  <2>1. DOMAIN <<m>> = {1} /\ <<m>>[1] = m
    OBVIOUS
  <2>2. Identifiers(m) \subseteq IdentifiersOf(all) /\ \A x \in all : Stands(m, x)
    BY <1>3, <2>1 DEF Accounts
  <2> QED BY <2>2 DEF Stands, IdentifiersOf
<1>13. Rests(m, all)
  <2>1. all # {} /\ CandidateFields \subseteq DOMAIN m
    BY <1>2, <1>4, <1>7
  <2>2. DOMAIN m.terms = UNION {DOMAIN y.terms : y \in all}
    <3>1. DOMAIN m.terms = UNION {DOMAIN terms[i] : i \in 1 .. N}
      BY <1>8 DEF Together
    <3> QED BY <1>1, <1>5, <3>1
  <2>3. \A y \in all : \A f \in DOMAIN y.terms : m.terms[f] = y.terms[f]
    <3>1. \A i \in 1 .. N : \A f \in DOMAIN terms[i] : m.terms[f] = terms[i][f]
      BY <1>8 DEF Together
    <3> QED BY <1>1, <1>5, <3>1
  <2> QED BY <1>7, <1>10, <1>11, <1>12, <2>1, <2>2, <2>3 DEF Rests
<1>14. CASE N = 1
  <2>1. all = {primary} /\ terms[1] = primary.terms
    BY <1>1, <1>2, <1>5, <1>14
  <2>2. Whole(primary) /\ Identified(primary) /\ Ruled(primary)
    BY <1>1, <1>2 DEF Known
  <2>3. m.terms = primary.terms
    <3> DEFINE a == m.terms
               b == primary.terms
    <3>1. a = [k \in DOMAIN a |-> a[k]] /\ DOMAIN a = DOMAIN b /\ \A k \in DOMAIN b : a[k] = b[k]
      BY <1>8, <1>14, <2>1 DEF Together
    <3>2. b = [k \in DOMAIN b |-> b[k]]
      BY <2>2 DEF Whole
    <3> HIDE DEF a, b
    <3>3. a = b
      BY <3>1, <3>2
    <3> QED BY <3>3 DEF a, b
  <2>4. Ruled(m)
    <3>1. ToSet(m.conditions) = ToSet(primary.conditions)
      BY <1>9, <2>1
    <3> QED BY <1>7, <1>14, <2>2, <3>1 DEF Ruled, rules, ruled_fields
  <2>5. m.lists = primary.lists
    <3>1. lists = [l \in Lists |-> primary.lists[l]]
      BY <2>1 DEF lists
    <3> QED BY <1>7, <2>2, <3>1 DEF Whole
  <2>6. Identified(m)
    BY <1>7, <1>14, <2>2, <2>3, <2>5 DEF Identified
  <2> QED BY <1>8, <1>13, <2>4, <2>6 DEF Together, Sealed, m, all
<1>15. CASE N # 1
  <2>1. /\ fp.name = {p.name : p \in all} /\ fp.type = {p.type : p \in all} /\ fp.lists = lists
        /\ fp.terms = populated({p.terms : p \in all}) /\ fp.conditions = UNION {known_rules(p) : p \in all}
    <3> HIDE DEF populated, known_rules, policy_provider_authority, program_years, status_class
    <3> QED BY DEF semantic_policy_merge_fingerprint, lists
  <2> HIDE DEF fp
  <2>2. \A p \in all : p.name = primary.name /\ p.type = primary.type
    BY <1>2 DEF Kin, all
  <2>3. fp.name = {m.name} /\ fp.type = {m.type}
    BY <1>2, <1>7, <2>1, <2>2
  <2>4. {p.terms : p \in all} = {terms[i] : i \in 1 .. N}
    BY <1>1, <1>5
  <2>5. fp.terms = [k \in DOMAIN m.terms |-> {m.terms[k]}]
    BY <1>8, <2>1, <2>4 DEF Together
  <2>6. Joined(m)
    BY <1>7, <1>15, <2>1, <2>3, <2>5 DEF Joined
  <2>7. Ruled(m)
    <3>1. \A p \in all : known_rules(p) \subseteq rules(p) /\ ruled_fields(p) = {k.field : k \in known_rules(p)}
      BY <1>1, KnownRules DEF Whole
    <3>2. rules(m) = UNION {rules(p) : p \in all} /\ ruled_fields(m) = UNION {ruled_fields(p) : p \in all}
      <4> HIDE DEF rendered
      <4> QED BY <1>9 DEF rules, ruled_fields
    <3>3. {k.field : k \in UNION {known_rules(p) : p \in all}} = UNION {{k.field : k \in known_rules(p)} : p \in all}
      OBVIOUS
    <3>4. m.fingerprint.conditions = UNION {known_rules(p) : p \in all}
      BY <1>7, <1>15, <2>1
    <3>5. UNION {known_rules(p) : p \in all} \subseteq rules(m)
      <4> HIDE DEF known_rules, rules
      <4> QED BY <3>1, <3>2
    <3>6. ruled_fields(m) = {k.field : k \in m.fingerprint.conditions}
      <4> HIDE DEF known_rules, ruled_fields
      <4> QED BY <3>1, <3>2, <3>3, <3>4
    <3> QED BY <3>4, <3>5, <3>6 DEF Ruled
  <2> QED BY <1>8, <1>13, <2>6, <2>7 DEF Together, Sealed, m, all
<1> QED BY <1>14, <1>15

\* r is sealed, and rests on some of the candidates T.
Supported(r, T) == Sealed(r) /\ \E Y \in SUBSET T : Rests(r, Y)
AllSupported(rs, T) == rs \in Seq(ToSet(rs)) /\ \A r \in ToSet(rs) : Supported(r, T)

\* A notice rests on itself.
LEMMA LinkSupported ==
    ASSUME NEW T, NEW rs, AllSupported(rs, T), NEW p \in T, Whole(p), Known(p)
    PROVE  AllSupported(link_notice(rs, p), T)
<1> DEFINE linked == IF rs = <<>> THEN p ELSE [p EXCEPT !.supersedes = Last(rs).id]
           r == IF p.notice = "TERMINATION" /\ p.codes = {} THEN [linked EXCEPT !.validation = "CLOSED"] ELSE linked
<1>1. link_notice(rs, p) = Append(rs, r)
  BY DEF link_notice
<1>2. CandidateFields \subseteq DOMAIN p
  BY DEF Whole
<1>3. /\ DOMAIN linked = DOMAIN p /\ linked.extractor_id = p.extractor_id /\ linked.sources = p.sources
      /\ linked.evidence = p.evidence /\ linked.members = p.members /\ linked.validation = p.validation
      /\ linked.status = p.status /\ linked.terms = p.terms /\ linked.conditions = p.conditions
      /\ linked.id = p.id /\ linked.fingerprint = p.fingerprint /\ linked.name = p.name /\ linked.type = p.type
      /\ linked.lists = p.lists
  BY <1>2 DEF CandidateFields
<1> HIDE DEF linked
<1>4. /\ DOMAIN r = DOMAIN p /\ r.extractor_id = p.extractor_id /\ r.sources = p.sources
      /\ r.evidence = p.evidence /\ r.members = p.members /\ r.validation \in {p.validation, "CLOSED"}
      /\ r.status = p.status /\ r.terms = p.terms /\ r.conditions = p.conditions
      /\ r.id = p.id /\ r.fingerprint = p.fingerprint /\ r.name = p.name /\ r.type = p.type
      /\ r.lists = p.lists
  BY <1>2, <1>3 DEF CandidateFields
<1> HIDE DEF r
<1>5. Sealed(r)
  BY <1>4 DEF Sealed, Known, Identified, Ruled, rules, ruled_fields, Whole
<1>6. Rests(r, {p})
  <2>1. Identifiers(r) = IdentifiersOf({p})
    BY <1>4 DEF Identifiers, IdentifiersOf, Whole
  <2> QED BY <1>2, <1>4, <2>1 DEF Rests
<1>7. Supported(r, T)
  BY <1>5, <1>6 DEF Supported
<1>8. Append(rs, r) \in Seq(ToSet(Append(rs, r))) /\ ToSet(Append(rs, r)) = ToSet(rs) \cup {r}
  <2> DEFINE S == ToSet(rs) \cup {r}
  <2>1. rs \in Seq(S) /\ r \in S
    <3>1. rs \in Seq(ToSet(rs)) /\ ToSet(rs) \subseteq S
      BY DEF AllSupported
    <3> HIDE DEF S
    <3> QED BY <3>1, OwnRange DEF S
  <2>2. ToSet(Append(rs, r)) = S
    <3> HIDE DEF S
    <3>1. ToSet(Append(rs, r)) = ToSet(rs) \cup {r}
      BY <2>1, AppendRange
    <3> QED BY <3>1 DEF S
  <2>3. Append(rs, r) \in Seq(S)
    <3> HIDE DEF S
    <3> QED BY <2>1
  <2> QED BY <2>2, <2>3
<1>9. AllSupported(Append(rs, r), T)
  BY <1>7, <1>8 DEF AllSupported
<1> QED BY <1>1, <1>9

\* So do all the notices of a group.
LEMMA NoticesSupported ==
    ASSUME NEW T, \A x \in T : Whole(x) /\ Known(x), NEW kept, AllSupported(kept, T), NEW s \in Seq(T)
    PROVE  AllSupported(FoldLeft(link_notice, kept, s), T)
<1> DEFINE N == Len(s)
<1>1. N \in Nat /\ DOMAIN s = 1 .. N /\ \A i \in 1 .. N : s[i] \in T
  OBVIOUS
<1>2. PICK f : Linking!Folds(f, kept, s, Len(s)) /\ Linking!FoldLeft(link_notice, kept, s) = f[Len(s)]
  BY Linking!FoldSteps
<1>3. FoldLeft(link_notice, kept, s) = f[N]
  <2>1. FoldLeft(link_notice, kept, s) = Linking!FoldLeft(link_notice, kept, s)
    BY DEF FoldLeft, MapThenFoldSet, Max, Linking!FoldLeft, Linking!MapThenFoldSet, Linking!Max
  <2> QED BY <1>2, <2>1
<1>4. f[0] = kept /\ \A i \in 0 .. N : i < N => f[i + 1] = link_notice(f[i], s[i + 1])
  BY <1>2 DEF Linking!Folds
<1> DEFINE Good == {n \in 0 .. N : AllSupported(f[n], T)}
<1> HIDE DEF N
<1>5. 0 \in Good
  BY <1>1, <1>4
<1>6. ASSUME NEW n \in 0 .. N, n < N, n \in Good PROVE n + 1 \in Good
  <2>1. n + 1 \in 1 .. N /\ n + 1 \in 0 .. N
    BY <1>1, <1>6
  <2>2. s[n + 1] \in T
    BY <1>1, <2>1
  <2>3. AllSupported(link_notice(f[n], s[n + 1]), T)
    BY <1>6, <2>2, LinkSupported
  <2> QED BY <1>4, <1>6, <2>1, <2>3
<1>7. N \in Good
  <2> HIDE DEF Good
  <2>1. \A n \in 0 .. N : n \in Good
    BY <1>1, <1>5, <1>6, PrefixInduction
  <2> QED BY <1>1, <2>1
<1> QED BY <1>3, <1>7

\* Whatever comes of a group rests on its candidates.
LEMMA GroupSupported ==
    ASSUME NEW in_docs, InHand(in_docs), NEW X, Keyed(X), \A x \in X : Whole(x) /\ Known(x),
           NEW group \in Seq(X), \A p, q \in ToSet(group) : Kin(p, q)
    PROVE  AllSupported(reconcile_group(group, in_docs), ToSet(group))
<1> DEFINE T == ToSet(group)
           told == {i \in DOMAIN group : is_notice(group[i])}
           originals == Chosen(group, (DOMAIN group) \ told)
           notices == Chosen(group, told)
           kept == IF originals = <<>> THEN <<>> ELSE <<merge_originals(originals, in_docs)>>
           sorted == Arranged(notices, by_notice_day(notices))
<1>1. group \in Seq(T) /\ T \subseteq X /\ \A x \in T : Whole(x) /\ Known(x)
  <2>1. group \in Seq(T) /\ T \subseteq X
    BY OwnRange
  <2> QED BY <2>1
<1> HIDE DEF T, told
<1>2. originals \in Seq(T) /\ ToSet(originals) \subseteq T /\ notices \in Seq(T)
  <2>1. originals \in Seq(T) /\ notices \in Seq(T)
    BY <1>1, ChosenRange
  <2> HIDE DEF originals, notices
  <2> QED BY <2>1, OwnRange
<1> HIDE DEF originals, notices
<1>3. AllSupported(kept, T)
  <2>1. CASE originals = <<>>
    <3>1. ToSet(<<>>) = {} /\ <<>> \in Seq({})
      BY DEF ToSet
    <3> QED BY <2>1, <3>1 DEF AllSupported
  <2>2. CASE originals # <<>>
    <3> DEFINE m == merge_originals(originals, in_docs)
    <3>1. originals \in Seq(X)
      BY <1>1, <1>2, OwnRange
    <3>2. \A p, q \in ToSet(originals) : Kin(p, q)
      BY <1>2 DEF T
    <3>3. Rests(m, ToSet(originals)) /\ Sealed(m)
      BY <2>2, <3>1, <3>2, MergeRests
    <3>4. kept = <<m>>
      BY <2>2
    <3> HIDE DEF m
    <3>5. Supported(m, T)
      BY <1>2, <3>3 DEF Supported
    <3>6. ToSet(<<m>>) = {m} /\ <<m>> \in Seq({m})
      <4>1. DOMAIN <<m>> = {1} /\ <<m>>[1] = m
        OBVIOUS
      <4> QED BY <4>1 DEF ToSet
    <3> HIDE DEF kept
    <3> QED BY <3>4, <3>5, <3>6 DEF AllSupported
  <2> QED BY <2>1, <2>2
<1>4. sorted \in Seq(T)
  <2>1. \A x \in T : notice_day(x) \in Int
    BY <1>1 DEF Keyed, Single
  <2>2. Orders(by_notice_day(notices), Len(notices))
    BY <1>2, <2>1, DaysOrder
  <2> QED BY <1>2, <2>2, ArrangedRange
<1> HIDE DEF sorted, kept
<1>5. AllSupported(FoldLeft(link_notice, kept, sorted), T)
  BY <1>1, <1>3, <1>4, NoticesSupported
<1>6. reconcile_group(group, in_docs) = FoldLeft(link_notice, kept, sorted)
  BY DEF reconcile_group, told, originals, notices, kept, sorted
<1> QED BY <1>5, <1>6 DEF T

\* No two of the candidates T contradict each other on a source of r.
Undisputed(r, T, in_docs) ==
    \A s \in r.sources : \A p, q \in T :
        s \in p.sources \cup q.sources => material_policy_conflicts(p, q, in_docs) = {}

\* A result of reconciliation rests on candidates, and is valid only undisputed.
Settled(r, T, in_docs) == Supported(r, T) /\ (r.validation = "VALIDATED" => Undisputed(r, T, in_docs))

\* A mark takes nothing but the validation.
LEMMA MarkedSettled ==
    ASSUME NEW r, NEW T, Supported(r, T), NEW s, ToSet(s) = T, NEW in_docs
    PROVE  Settled(marked(r, s, in_docs), T, in_docs)
<1> DEFINE m == marked(r, s, in_docs)
<1>1. PICK Y \in SUBSET T : Rests(r, Y)
  BY DEF Supported
<1>2. CandidateFields \subseteq DOMAIN r
  BY <1>1 DEF Rests
<1>3. CASE contested(r, s, in_docs)
  <2>1. m = [r EXCEPT !.validation = "CONFLICTED", !.codes = @ \cup {"SOURCE_CONFLICT"},
                      !.recommendation_codes = @ \cup {"SOURCE_CONFLICT"}]
    BY <1>3 DEF marked
  <2> HIDE DEF m
  <2>2. /\ DOMAIN m = DOMAIN r /\ m.validation = "CONFLICTED" /\ m.extractor_id = r.extractor_id
        /\ m.members = r.members /\ m.sources = r.sources /\ m.evidence = r.evidence /\ m.status = r.status
        /\ m.terms = r.terms /\ m.conditions = r.conditions /\ m.id = r.id /\ m.fingerprint = r.fingerprint
        /\ m.name = r.name /\ m.type = r.type /\ m.lists = r.lists
    BY <1>2, <2>1 DEF CandidateFields
  <2>3. Rests(m, Y)
    BY <1>1, <2>2 DEF Rests, Identifiers
  <2>4. Sealed(m)
    BY <2>2 DEF Supported, Sealed, Identified, Joined, Ruled, rules, ruled_fields
  <2> QED BY <2>2, <2>3, <2>4 DEF Settled, Supported, m
<1>4. CASE ~contested(r, s, in_docs)
  <2>1. m = r
    BY <1>4 DEF marked
  <2>2. ASSUME NEW t \in r.sources, NEW p \in T, NEW q \in T, t \in p.sources \cup q.sources
        PROVE  material_policy_conflicts(p, q, in_docs) = {}
    <3>1. conflicts_by_source(s, t, in_docs) = {}
      <4> HIDE DEF conflicts_by_source
      <4> QED BY <1>4 DEF contested
    <3>2. material_policy_conflicts(p, q, in_docs) \subseteq conflicts_by_source(s, t, in_docs)
      <4> HIDE DEF material_policy_conflicts
      <4> QED BY <2>2 DEF conflicts_by_source
    <3> QED BY <3>1, <3>2
  <2>3. Undisputed(r, T, in_docs)
    <3> HIDE DEF material_policy_conflicts
    <3> QED BY <2>2 DEF Undisputed
  <2> QED BY <2>1, <2>3 DEF Settled, m
<1> QED BY <1>3, <1>4

\* Every result of reconciliation is settled.
LEMMA ReconcileSettled ==
    ASSUME NEW in_docs, InHand(in_docs), NEW X, Keyed(X), \A x \in X : Whole(x) /\ Known(x),
           NEW s \in Seq(X), IsInjective(s)
    PROVE  /\ reconcile(s, in_docs) \in Seq(ToSet(reconcile(s, in_docs)))
           /\ \A r \in ToSet(reconcile(s, in_docs)) : Settled(r, ToSet(s), in_docs)
<1> DEFINE T == ToSet(s)
           groups == grouped(s, in_docs)
           n == Len(groups)
           ss == [i \in 1 .. n |-> reconcile_group(groups[i], in_docs)]
           flat == FlattenSeq(ss)
           rs == [i \in DOMAIN flat |-> marked(flat[i], s, in_docs)]
<1>1. Divides(groups, X, T)
  BY GroupedDivides
<1> HIDE DEF groups, T
<1>2. /\ n \in Nat /\ DOMAIN groups = 1 .. n /\ \A i \in 1 .. n : groups[i] \in Seq(X)
      /\ \A i \in 1 .. n : ToSet(groups[i]) \subseteq T
      /\ \A i \in 1 .. n : \A p, q \in ToSet(groups[i]) : Kin(p, q)
  BY <1>1 DEF Divides
<1>3. reconcile(s, in_docs) = rs
  <2> HIDE DEF marked, reconcile_group
  <2> QED BY <1>2 DEF reconcile, groups
<1>4. \A i \in 1 .. n : AllSupported(ss[i], T)
  <2> TAKE i \in 1 .. n
  <2> DEFINE g == groups[i]
  <2>1. g \in Seq(X) /\ \A p, q \in ToSet(g) : Kin(p, q)
    BY <1>2
  <2>2. ss[i] = reconcile_group(g, in_docs) /\ ToSet(g) \subseteq T
    BY <1>2
  <2> HIDE DEF g, ss
  <2>3. AllSupported(ss[i], ToSet(g))
    BY <2>1, <2>2, GroupSupported
  <2> QED BY <2>2, <2>3 DEF AllSupported, Supported
<1>5. ss = [i \in 1 .. n |-> ss[i]] /\ DOMAIN ss = 1 .. n
  OBVIOUS
<1> HIDE DEF ss
<1>6. flat \in Seq(ToSet(flat)) /\ ToSet(flat) = UNION {ToSet(ss[i]) : i \in 1 .. n}
  <2>1. \A i \in 1 .. n : ss[i] \in Seq(ToSet(ss[i]))
    BY <1>4 DEF AllSupported
  <2> HIDE DEF n
  <2> QED BY <1>2, <1>5, <2>1, FlattenOwn
<1>7. \A r \in ToSet(flat) : Supported(r, T)
  BY <1>4, <1>6 DEF AllSupported
<1> HIDE DEF flat
<1>8. DOMAIN flat = 1 .. Len(flat) /\ Len(flat) \in Nat /\ \A i \in DOMAIN flat : flat[i] \in ToSet(flat)
  <2>1. \A S : flat \in Seq(S) => DOMAIN flat = 1 .. Len(flat) /\ Len(flat) \in Nat /\ \A i \in DOMAIN flat : flat[i] \in S
    OBVIOUS
  <2> QED BY <1>6, <2>1
<1>9. /\ DOMAIN rs = 1 .. Len(flat) /\ rs = [i \in 1 .. Len(flat) |-> rs[i]]
      /\ \A i \in 1 .. Len(flat) : rs[i] = marked(flat[i], s, in_docs)
  <2> HIDE DEF marked
  <2> QED BY <1>8
<1> HIDE DEF rs
<1>10. rs \in Seq(ToSet(rs)) /\ ToSet(rs) = {rs[i] : i \in 1 .. Len(flat)}
  BY <1>8, <1>9, SequenceOfValues
<1>11. \A i \in 1 .. Len(flat) : Settled(rs[i], T, in_docs)
  <2> TAKE i \in 1 .. Len(flat)
  <2>1. Supported(flat[i], T)
    BY <1>7, <1>8
  <2>2. Settled(marked(flat[i], s, in_docs), T, in_docs)
    BY <2>1, MarkedSettled DEF T
  <2> QED BY <1>9, <2>2
<1> QED BY <1>3, <1>10, <1>11 DEF T

-----------------------------------------------------------------------------
(* The ranking.                                                             *)

\* What a result says is among the amounts.
LEMMA SupportedAmounts ==
    ASSUME NEW r, NEW T, \A x \in T : Whole(x), Supported(r, T)
    PROVE  \A f \in DOMAIN r.terms : r.terms[f] \in Amounts
<1>1. PICK Y \in SUBSET T : Rests(r, Y)
  BY DEF Supported
<1> TAKE f \in DOMAIN r.terms
<1>2. PICK y \in Y : f \in DOMAIN y.terms
  BY <1>1 DEF Rests
<1> QED BY <1>1, <1>2 DEF Rests, Whole

\* Points are numbers.
LEMMA ScoreIsNumber ==
    ASSUME NEW p, \A f \in DOMAIN p.terms : p.terms[f] \in Amounts
    PROVE  score(p) \in Int
<1> DEFINE funded == apply_funding_terms(p)
           told == Simulate(funded)
<1>1. \A f : term(p, f) \in Amounts
  BY ReliefAssumption DEF term
<1>2. \A f : term(p, f) \in Int
  BY <1>1, ReliefAssumption
<1>3. funding(p) \in Amounts \cup {required_funding}
  <2> HIDE DEF required_funding, term
  <2> QED BY <1>1 DEF funding, smaller
<1>4. drawn(p) \in BOOLEAN
  BY DEF drawn
<1>5. funded \in [inflow : Amounts \cup {required_funding}, loan : BOOLEAN, deferred : Amounts, discount : Amounts]
  <2> HIDE DEF required_funding, term, funding, drawn
  <2>1. 0 \in Amounts
    BY ReliefAssumption
  <2>2. (IF p.type = "GRANT" \/ drawn(p) THEN funding(p) ELSE 0) \in Amounts \cup {required_funding}
    BY <1>3, <2>1
  <2>3. (IF p.type = "REPAYMENT_DEFERRAL" THEN term(p, "grace") ELSE 0) \in Amounts
    BY <1>1, <2>1
  <2> QED BY <1>1, <1>4, <2>2, <2>3 DEF apply_funding_terms
<1> HIDE DEF funded
<1>6. told.burn \in Int /\ told.interest \in Int
  <2>1. {Simulate(funded).burn, Simulate(funded).interest} \subseteq Int
    <3> HIDE DEF required_funding
    <3> QED BY <1>5, ReliefAssumption
  <2> QED BY <2>1
<1>7. Baseline.burn \in Int /\ Baseline.interest \in Int
  BY ReliefAssumption
<1>8. runway_extension_days(p) \in Int
  <2>1. runway_extension_days(p) =
          IF Baseline.burn = -1 THEN 0
          ELSE larger(0, (IF told.burn = -1 THEN HorizonEnd ELSE told.burn) - Baseline.burn)
    BY DEF runway_extension_days, funded
  <2> HIDE DEF told
  <2> QED BY <1>6, <1>7, <2>1 DEF larger, HorizonEnd
<1>9. interest_savings(p) \in Int
  <2>1. interest_savings(p) = larger(0, Baseline.interest - told.interest)
    BY DEF interest_savings, funded
  <2> HIDE DEF told
  <2> QED BY <1>6, <1>7, <2>1 DEF larger
<1> HIDE DEF told
<1> DEFINE a == IF Baseline.burn # -1 /\ ("start" \in DOMAIN p.terms => p.terms["start"] <= Baseline.burn)
                THEN 60 ELSE 0
           b == smaller(90, runway_extension_days(p))
           c == smaller(60, 3 * interest_savings(p))
           d == IF "collateral" \in DOMAIN p.other /\ p.other["collateral"] THEN 30 ELSE 0
           e == smaller(30, 3 * term(p, "grace"))
<1>10. a \in Int /\ b \in Int /\ c \in Int /\ d \in Int /\ e \in Int
  BY <1>2, <1>8, <1>9 DEF smaller
<1>11. score(p) = 300 + a + b + c - d + e
  BY DEF score
<1> HIDE DEF a, b, c, d, e
<1> QED BY <1>10, <1>11

\* Only positions of eligible results are ranked.
LEMMA RankedAreEligible ==
    ASSUME NEW rs, NEW T, \A x \in T : Whole(x), rs \in Seq(ToSet(rs)), \A r \in ToSet(rs) : Supported(r, T)
    PROVE  \A n \in DOMAIN recommend(rs) :
              /\ recommend(rs)[n] \in DOMAIN rs
              /\ eligibility(rs[recommend(rs)[n]]) = "ELIGIBLE_ON_DECLARED_RULES"
<1> DEFINE N == Len(rs)
           own == [i \in DOMAIN rs |-> i]
           I == {i \in DOMAIN rs : eligibility(rs[i]) = "ELIGIBLE_ON_DECLARED_RULES"}
           places == Chosen(own, I)
           R == by_score(places, rs)
           a == Arranged(places, R)
<1>1. N \in Nat /\ DOMAIN rs = 1 .. N /\ \A i \in 1 .. N : rs[i] \in ToSet(rs)
  <2>1. \A S : rs \in Seq(S) => N \in Nat /\ DOMAIN rs = 1 .. N /\ \A i \in 1 .. N : rs[i] \in S
    OBVIOUS
  <2> HIDE DEF N
  <2> QED BY <2>1
<1>2. \A i \in 1 .. N : score(rs[i]) \in Int
  BY <1>1, SupportedAmounts, ScoreIsNumber
<1>3. recommend(rs) = a
  <2> HIDE DEF eligibility, by_score
  <2> QED BY DEF recommend
<1> HIDE DEF N
<1>4. own \in Seq(1 .. N) /\ DOMAIN own = 1 .. N /\ \A i \in 1 .. N : own[i] = i
  BY <1>1
<1>5. I \subseteq 1 .. N
  BY <1>1
<1> HIDE DEF own, I
<1>6. places \in Seq(1 .. N) /\ ToSet(places) = {own[i] : i \in I \cap DOMAIN own}
  BY <1>4, ChosenRange
<1>7. ToSet(places) = I
  BY <1>4, <1>5, <1>6
<1> HIDE DEF places
<1> DEFINE m == Len(places)
           key == [i \in 1 .. m |-> -score(rs[places[i]])]
<1>8. m \in Nat /\ DOMAIN places = 1 .. m /\ \A i \in 1 .. m : places[i] \in 1 .. N
  <2>1. \A S : places \in Seq(S) => m \in Nat /\ DOMAIN places = 1 .. m /\ \A i \in 1 .. m : places[i] \in S
    OBVIOUS
  <2> HIDE DEF m
  <2> QED BY <1>6, <2>1
<1> HIDE DEF score, m
<1>9. \A i \in 1 .. m : key[i] = -score(rs[places[i]]) /\ score(rs[places[i]]) \in Int /\ key[i] \in Int
  BY <1>2, <1>8
<1> HIDE DEF key
<1>10. R = {q \in (1 .. m) \X (1 .. m) :
              \/ score(rs[places[q[1]]]) > score(rs[places[q[2]]])
              \/ (q[1] < q[2] /\ ~(score(rs[places[q[2]]]) > score(rs[places[q[1]]])))}
  BY <1>8 DEF by_score
<1> HIDE DEF R
<1>11. \A i, j \in 1 .. m : <<i, j>> \in R <=> key[i] < key[j] \/ (i < j /\ ~(key[j] < key[i]))
  <2> TAKE i, j \in 1 .. m
  <2>1. <<i, j>> \in R <=> \/ score(rs[places[i]]) > score(rs[places[j]])
                           \/ (i < j /\ ~(score(rs[places[j]]) > score(rs[places[i]])))
    BY <1>10
  <2> QED BY <1>9, <2>1
<1>12. Orders(R, m)
  BY <1>8, <1>9, <1>11, NumbersOrder
<1>13. a \in Seq(1 .. N) /\ ToSet(a) = I
  BY <1>6, <1>7, <1>12, ArrangedRange DEF m
<1> HIDE DEF a
<1>14. \A n \in DOMAIN a : a[n] \in I
  BY <1>13 DEF ToSet
<1> QED BY <1>1, <1>3, <1>5, <1>14 DEF I

\* What RecommendedAreUncontested says of one result r, put together from
\* candidates among T.
Uncontested(r, T, in_docs) ==
    /\ r.status = "OPEN" /\ term(r, "start") <= Today /\ Today <= term(r, "end")
    /\ r.evidence # {} /\ \A e \in r.evidence : Stood(r, e, in_docs)
    /\ Quoted(r)
    /\ \A q \in {p \in T : represents(r, p)}, other \in T : material_policy_conflicts(q, other, in_docs) = {}
    /\ ~\E q \in {p \in T : represents(r, p)} :
          q.notice = "TERMINATION" \/ assess_policy_semantics(q).explicitly_closed

\* An eligible result is valid, and its status lets it through.
LEMMA EligibleIsValid ==
    ASSUME NEW r, eligibility(r) = "ELIGIBLE_ON_DECLARED_RULES"
    PROVE  /\ r.validation = "VALIDATED"
           /\ r.status \notin {"BUDGET_EXHAUSTED", "SCHEDULED", "STATUS_UNCONFIRMED"}
<1>1. gate(r) # "PASSED" => gate(r) = "ELIGIBLE_ON_DECLARED_RULES"
  <2> HIDE DEF gate
  <2> QED BY DEF eligibility
<1>2. gate(r) = "PASSED"
  BY <1>1 DEF gate
<1> QED BY <1>2 DEF gate

\* Such a result is uncontested.
LEMMA EligibleIsUncontested ==
    ASSUME NEW T, Keyed(T), NEW in_docs, \A x \in T : Checked(x, in_docs),
           NEW r, Settled(r, T, in_docs), eligibility(r) = "ELIGIBLE_ON_DECLARED_RULES"
    PROVE  Uncontested(r, T, in_docs)
<1>1. r.validation = "VALIDATED" /\ r.status \notin {"BUDGET_EXHAUSTED", "SCHEDULED", "STATUS_UNCONFIRMED"}
  BY EligibleIsValid
<1>2. PICK Y \in SUBSET T : Rests(r, Y)
  BY DEF Settled, Supported
<1>3. \A y \in Y : Whole(y) /\ Valid(y, in_docs)
  BY <1>1, <1>2 DEF Rests, Checked
<1>4. Undisputed(r, T, in_docs)
  BY <1>1 DEF Settled
<1>5. \A y \in Y : \A f \in DOMAIN y.terms : f \in DOMAIN r.terms /\ r.terms[f] = y.terms[f]
  BY <1>2 DEF Rests
<1>6. \A y \in Y : y.sources \subseteq r.sources /\ y.evidence \subseteq r.evidence
  BY <1>2 DEF Rests
<1>7. \A q \in T : represents(r, q) => q \in Y
  <2> TAKE q \in T
  <2> HAVE represents(r, q)
  <2>1. q.extractor_id \in Identifiers(r)
    BY DEF represents, Identifiers
  <2>2. PICK y \in Y : y.extractor_id = q.extractor_id
    BY <1>2, <2>1 DEF Rests, IdentifiersOf
  <2> QED BY <2>2 DEF Keyed
<1>8. r.status = "OPEN" /\ term(r, "start") <= Today /\ Today <= term(r, "end")
  <2>1. PICK y \in Y : r.status = y.status
    BY <1>2 DEF Rests
  <2>2. r.status = "OPEN"
    BY <1>1, <1>3, <2>1 DEF Valid
  <2>3. /\ "start" \in DOMAIN y.terms /\ y.terms["start"] <= Today
        /\ "end" \in DOMAIN y.terms /\ Today <= y.terms["end"]
    BY <1>3, <2>1, <2>2 DEF Valid
  <2> QED BY <1>5, <2>2, <2>3 DEF term
<1>9. \A e \in r.evidence : Stood(r, e, in_docs)
  <2> TAKE e \in r.evidence
  <2>1. PICK y \in Y : e \in y.evidence
    BY <1>2 DEF Rests
  <2>2. Stood(y, e, in_docs)
    BY <1>3, <2>1 DEF Valid
  <2> QED BY <1>6, <2>1, <2>2 DEF Stood, in_hand
<1>10. ASSUME NEW f \in NumericFields \cup DateFields, field_quotes(r, f) # {}
       PROVE  f \in DOMAIN r.terms /\ r.terms[f] \in stated(r, f)
  <2>1. PICK e \in r.evidence : f \in e.fields
    BY <1>10 DEF field_quotes
  <2>2. PICK y \in Y : e \in y.evidence
    BY <1>2, <2>1 DEF Rests
  <2>3. field_quotes(y, f) # {} /\ field_quotes(y, f) \subseteq field_quotes(r, f)
    BY <1>6, <2>1, <2>2 DEF field_quotes
  <2>4. f \in DOMAIN y.terms /\ y.terms[f] \in stated(y, f)
    BY <1>3, <2>3, <1>10 DEF Valid, Quoted
  <2>5. stated(y, f) \subseteq stated(r, f)
    BY <2>3 DEF stated
  <2> QED BY <1>5, <2>4, <2>5
<1>11. ASSUME NEW q \in {p \in T : represents(r, p)}, NEW other \in T
       PROVE  material_policy_conflicts(q, other, in_docs) = {}
  <2>1. q \in T /\ q \in Y
    BY <1>7
  <2>2. PICK s : q.sources = {s}
    BY <1>3, <2>1 DEF Whole
  <2>3. s \in r.sources
    BY <1>6, <2>1, <2>2
  <2> HIDE DEF material_policy_conflicts
  <2> QED BY <1>4, <2>1, <2>2, <2>3 DEF Undisputed
<1>12. \A q \in {p \in T : represents(r, p)} :
          q.notice # "TERMINATION" /\ ~assess_policy_semantics(q).explicitly_closed
  <2> HIDE DEF assess_policy_semantics
  <2> QED BY <1>3, <1>7 DEF Valid
<1>13. r.evidence # {}
  <2>1. PICK y \in Y : y.evidence # {}
    BY <1>2, <1>3 DEF Rests, Whole
  <2> QED BY <1>6, <2>1
<1> QED BY <1>8, <1>9, <1>10, <1>11, <1>12, <1>13 DEF Uncontested, Quoted

\* Every candidate is checked before it is reconciled.
LEMMA ValidatedChecked ==
    ASSUME LoopInv, NEW in_docs
    PROVE  \A x \in ToSet(validated(in_docs)) : Checked(x, in_docs)
<1> DEFINE n == Len(policies)
           v == validated(in_docs)
<1>1. DOMAIN policies = 1 .. n /\ \A i \in 1 .. n : Whole(policies[i])
  <2>1. policies \in Seq(Candidates)
    BY DEF LoopInv, LoopTypes
  <2>2. \A p \in Candidates : Whole(p)
    <3> TAKE p \in Candidates
    <3>1. PICK x \in (DOMAIN Snapshot) \X Nat \X Given : p = candidate(x[1], x[2], x[3])
      BY DEF Candidates
    <3>2. x[3] \in Given
      BY <3>1
    <3> HIDE DEF Whole
    <3> QED BY <3>1, <3>2, CandidateIsWhole
  <2> HIDE DEF Candidates
  <2> QED BY <2>1, <2>2
<1>2. /\ DOMAIN v = 1 .. n
      /\ \A i \in 1 .. n :
            v[i] = validate_policy_candidate(canonicalize_policy_identity(policies[i], in_docs), in_docs)
  <2> HIDE DEF validate_policy_candidate, canonicalize_policy_identity
  <2> QED BY <1>1 DEF validated
<1> HIDE DEF v, n
<1>3. \A i \in 1 .. n : Checked(v[i], in_docs)
  <2> TAKE i \in 1 .. n
  <2> DEFINE c == canonicalize_policy_identity(policies[i], in_docs)
  <2>1. Whole(c) /\ Known(c)
    BY <1>1, IdentityKeeps
  <2> HIDE DEF c
  <2>2. Checked(validate_policy_candidate(c, in_docs), in_docs)
    BY <2>1, ValidationChecks
  <2> QED BY <1>2, <2>2 DEF c
<1>4. \A x \in ToSet(v) : \E i \in 1 .. n : x = v[i]
  BY <1>2 DEF ToSet
<1> QED BY <1>3, <1>4 DEF v

\* What is true of results, rows and ranks.
ResultsSettled ==
    phase \in {"SAVING", "DONE"} =>
        /\ results \in Seq(ToSet(results))
        /\ \A r \in ToSet(results) : Settled(r, ToSet(validated(docs)), docs)
RowsAreSealed == \A id \in DOMAIN rows : rows[id].id = id /\ Sealed(rows[id])
RankInv ==
    /\ LossInv /\ ResultsSettled /\ RowsAreSealed /\ RecommendedAreUncontested
    /\ phase # "DONE" => ranked = <<>>

\* The merge settles the results.
LEMMA MergeSettles ==
    ASSUME LossInv, Merge
    PROVE  ResultsSettled'
<1> DEFINE v == validated(docs')
<1>1. docs' \in merged_documents /\ policies' = policies /\ LoopInv /\ Tracked
  BY DEF Merge, LossInv
<1>2. PICK sorted \in by_identifier(v) : results' = reconcile(sorted, docs')
  BY DEF Merge
<1>3. InHand(docs')
  BY <1>1, MergedInHand
<1>4. v \in Seq(ToSet(v)) /\ IsInjective(v) /\ Keyed(ToSet(v))
  BY <1>1, ValidatedRange
<1>5. \A x \in ToSet(v) : Whole(x) /\ Known(x)
  BY <1>1, ValidatedChecked DEF Checked
<1>6. validated(docs)' = v
  BY <1>1 DEF validated
<1> HIDE DEF v
<1>7. sorted \in Seq(ToSet(v)) /\ IsInjective(sorted) /\ ToSet(sorted) = ToSet(v)
  BY <1>2, <1>4, SortedRange
<1> DEFINE rs == reconcile(sorted, docs')
<1>8. rs \in Seq(ToSet(rs)) /\ \A r \in ToSet(rs) : Settled(r, ToSet(sorted), docs')
  BY <1>3, <1>4, <1>5, <1>7, ReconcileSettled
<1>9. results' = rs
  BY <1>2
<1> HIDE DEF rs
<1>10. results' \in Seq(ToSet(results')) /\ \A r \in ToSet(results') : Settled(r, ToSet(v), docs')
  BY <1>7, <1>8, <1>9
<1> QED BY <1>6, <1>10 DEF ResultsSettled

\* The recommendation ranks uncontested results.
LEMMA RecommendStep ==
    ASSUME RankInv, Recommend
    PROVE  RecommendedAreUncontested'
<1> DEFINE T == ToSet(validated(docs))
<1>1. /\ phase = "SAVING" /\ ranked' = recommend(results) /\ results' = results /\ docs' = docs
      /\ policies' = policies
  BY DEF Recommend
<1>2. LoopInv /\ Tracked /\ results \in Seq(ToSet(results)) /\ \A r \in ToSet(results) : Settled(r, T, docs)
  BY <1>1 DEF RankInv, LossInv, ResultsSettled
<1>3. Keyed(T) /\ \A x \in T : Checked(x, docs)
  BY <1>2, ValidatedRange, ValidatedChecked
<1>4. validated(docs)' = validated(docs)
  BY <1>1 DEF validated
<1>5. \A j : (behind(j))' = {p \in T : represents(results[j], p)}
  BY <1>1, <1>4 DEF behind
<1> HIDE DEF T
<1>6. \A n \in DOMAIN recommend(results) :
         /\ recommend(results)[n] \in DOMAIN results
         /\ eligibility(results[recommend(results)[n]]) = "ELIGIBLE_ON_DECLARED_RULES"
  BY <1>2, <1>3, RankedAreEligible DEF Checked, Settled
<1>7. \A n \in DOMAIN recommend(results) : Uncontested(results[recommend(results)[n]], T, docs)
  <2> TAKE n \in DOMAIN recommend(results)
  <2> DEFINE r == results[recommend(results)[n]]
  <2>1. r \in ToSet(results) /\ eligibility(r) = "ELIGIBLE_ON_DECLARED_RULES"
    BY <1>6 DEF ToSet
  <2> HIDE DEF r
  <2>2. Settled(r, T, docs)
    BY <1>2, <2>1
  <2>3. Uncontested(r, T, docs)
    BY <1>3, <2>1, <2>2, EligibleIsUncontested
  <2> QED BY <2>3 DEF r
<1> QED BY <1>1, <1>4, <1>5, <1>7 DEF RecommendedAreUncontested, Uncontested, Quoted, Stood, T

\* Nothing is saved or ranked at the start.
LEMMA RankInvInit == Init => RankInv
<1> SUFFICES ASSUME Init PROVE RankInv
  OBVIOUS
<1>1. /\ phase = "EXTRACTING" /\ rows = Earlier /\ ranked = <<>> /\ DOMAIN ranked = {}
  BY DEF Init
<1> QED BY <1>1, LossInvInit, PolicyAssumption DEF RankInv, ResultsSettled, RowsAreSealed, RecommendedAreUncontested

\* What is saved is a result.
LEMMA SaveStep ==
    ASSUME RowsAreSealed, ResultsSettled, at \in Nat \ {0}, results \in Seq(ToSet(results)), Save
    PROVE  RowsAreSealed'
<1>1. phase = "SAVING" /\ phase' \in {"SAVING", "DONE"} /\ results' = results
  BY DEF Save
<1>2. CASE collides(results[at])
  BY <1>1, <1>2 DEF Save, RowsAreSealed
<1>3. CASE ~collides(results[at])
  <2> DEFINE p == results[at]
  <2>1. at \in DOMAIN results
    <3>1. \A S : results \in Seq(S) => DOMAIN results = 1 .. Len(results) /\ Len(results) \in Nat
      OBVIOUS
    <3>2. at <= Len(results)
      BY DEF Save
    <3> QED BY <3>1, <3>2
  <2>2. rows' = [id \in DOMAIN rows \cup {p.id} |-> IF id = p.id THEN p ELSE rows[id]]
    BY <1>3 DEF Save, save
  <2>3. Sealed(p)
    BY <1>1, <2>1 DEF ResultsSettled, Settled, Supported, ToSet
  <2> HIDE DEF p
  <2>4. \A id \in DOMAIN rows' : rows'[id].id = id /\ Sealed(rows'[id])
    <3> TAKE id \in DOMAIN rows'
    <3>1. CASE id = p.id
      BY <2>2, <2>3, <3>1
    <3>2. CASE id # p.id
      <4>1. id \in DOMAIN rows /\ rows'[id] = rows[id]
        BY <2>2, <3>2
      <4> QED BY <4>1 DEF RowsAreSealed
    <3> QED BY <3>1, <3>2
  <2> QED BY <2>4 DEF RowsAreSealed
<1> QED BY <1>2, <1>3

\* Every step keeps it.
LEMMA RankInvStep == RankInv /\ [Next]_vars => RankInv'
<1> SUFFICES ASSUME RankInv, [Next]_vars
             PROVE  /\ ResultsSettled' /\ RowsAreSealed' /\ RecommendedAreUncontested'
                    /\ phase' # "DONE" => ranked' = <<>>
  BY LossInvStep DEF RankInv
<1>1. LossInv /\ ResultsSettled /\ RowsAreSealed /\ RecommendedAreUncontested /\ (phase # "DONE" => ranked = <<>>)
  BY DEF RankInv
<1>2. ASSUME phase \in {"EXTRACTING", "MERGING"}, phase' \in {"EXTRACTING", "MERGING"}, UNCHANGED <<rows, ranked>>
      PROVE  /\ ResultsSettled' /\ RowsAreSealed' /\ RecommendedAreUncontested'
             /\ phase' # "DONE" => ranked' = <<>>
  <2>1. ranked' = <<>> /\ DOMAIN ranked' = {} /\ rows' = rows
    BY <1>1, <1>2 DEF RowsAreSealed
  <2> QED BY <1>1, <1>2, <2>1 DEF ResultsSettled, RowsAreSealed, RecommendedAreUncontested
<1>3. CASE UNCHANGED vars
  <2>1. validated(docs)' = validated(docs)
    BY <1>3 DEF vars, validated
  <2> QED BY <1>1, <1>3, <2>1 DEF vars, ResultsSettled, RowsAreSealed, RecommendedAreUncontested, behind
<1>4. CASE Age \/ Stopped \/ Exhausted \/ Ask
  BY <1>2, <1>4 DEF Age, Stopped, Exhausted, Ask, Waiting, cut_short, saving
<1>5. ASSUME NEW found, NEW how, phase = "EXTRACTING", take(found, how)
      PROVE  phase' \in {"EXTRACTING", "MERGING"} /\ UNCHANGED <<rows, ranked>>
  BY <1>5 DEF take, saving
<1>6. ASSUME NEW code, phase = "EXTRACTING", give_up(code)
      PROVE  phase' \in {"EXTRACTING", "MERGING"} /\ UNCHANGED <<rows, ranked>>
  BY <1>6 DEF give_up, saving
<1>7. CASE Answered
  BY <1>2, <1>5, <1>7 DEF Answered, Asked
<1>8. CASE RepairFailed
  BY <1>2, <1>5, <1>6, <1>8 DEF RepairFailed, Asked
<1>9. ASSUME NEW code, Busy(code) \/ Failed(code)
      PROVE  /\ ResultsSettled' /\ RowsAreSealed' /\ RecommendedAreUncontested'
             /\ phase' # "DONE" => ranked' = <<>>
  BY <1>2, <1>6, <1>9 DEF Busy, Failed, Asked, saving
<1>10. CASE Unparsed
  BY <1>2, <1>6, <1>10 DEF Unparsed, Asked, saving
<1>11. CASE Return \/ Mismatched
  BY <1>2, <1>6, <1>11 DEF Return, Mismatched, Asked, saving
<1>12. CASE Merge
  <2>1. ResultsSettled'
    BY <1>1, <1>12, MergeSettles
  <2>2. ranked' = <<>> /\ DOMAIN ranked' = {} /\ rows' = rows /\ phase' = "SAVING"
    BY <1>1, <1>12 DEF Merge, RowsAreSealed
  <2> QED BY <1>1, <2>1, <2>2 DEF RowsAreSealed, RecommendedAreUncontested
<1>13. ASSUME phase = "SAVING", phase' \in {"SAVING", "DONE"}, UNCHANGED <<policies, docs, results>>
       PROVE  ResultsSettled'
  <2>1. validated(docs)' = validated(docs)
    BY <1>13 DEF validated
  <2> QED BY <1>1, <1>13, <2>1 DEF ResultsSettled
<1>14. CASE Save
  <2>1. phase = "SAVING" /\ phase' \in {"SAVING", "DONE"} /\ UNCHANGED <<policies, docs, results, ranked>>
    BY <1>14 DEF Save
  <2>2. ranked' = <<>> /\ DOMAIN ranked' = {}
    BY <1>1, <2>1
  <2>3. RowsAreSealed'
    <3>1. at \in Nat \ {0} /\ results \in Seq(ToSet(results))
      BY <1>1, <2>1 DEF LossInv, LoopInv, LoopTypes, ResultsSettled
    <3> QED BY <1>1, <1>14, <3>1, SaveStep
  <2> QED BY <1>13, <2>1, <2>2, <2>3 DEF RecommendedAreUncontested
<1>15. CASE Recommend
  <2>1. phase = "SAVING" /\ phase' = "DONE" /\ UNCHANGED <<policies, docs, results, rows>>
    BY <1>15 DEF Recommend
  <2>2. RecommendedAreUncontested'
    BY <1>15, RecommendStep
  <2>3. RowsAreSealed'
    BY <1>1, <2>1 DEF RowsAreSealed
  <2> QED BY <1>13, <2>1, <2>2, <2>3
<1> QED BY <1>3, <1>4, <1>7, <1>8, <1>9, <1>10, <1>11, <1>12, <1>14, <1>15 DEF Next

\* RecommendedAreUncontested holds: whatever was extracted, from whichever
\* documents, and however it was grouped and sorted, a ranked policy is open,
\* stands on quotes in trusted documents, and nothing speaks against it.
THEOREM OnlyUncontestedAreRecommended == Spec => []RecommendedAreUncontested
<1>1. RankInv => RecommendedAreUncontested
  BY DEF RankInv
<1> QED BY <1>1, RankInvInit, RankInvStep, PTL DEF Spec

\* A result and the row under its identifier are of one programme.
LEMMA RowAndResultAgree ==
    ASSUME RankInv, phase = "SAVING", NEW j \in DOMAIN results, results[j].id \in DOMAIN rows
    PROVE  /\ rows[results[j].id].fingerprint = results[j].fingerprint
           /\ stored_facts(rows[results[j].id]) = stored_facts(results[j])
           /\ rows[results[j].id].fingerprint.conditions \subseteq rules(results[j])
<1>1. Sealed(results[j])
  BY DEF RankInv, ResultsSettled, Settled, Supported, ToSet
<1>2. rows[results[j].id].id = results[j].id /\ Sealed(rows[results[j].id])
  BY DEF RankInv, RowsAreSealed
<1>3. /\ rows[results[j].id].fingerprint = results[j].fingerprint
      /\ stored_facts(rows[results[j].id]) = stored_facts(results[j])
  <2> HIDE DEF Sealed, stored_facts
  <2> QED BY <1>1, <1>2, IdentifierTells
<1>4. results[j].fingerprint.conditions \subseteq rules(results[j])
  BY <1>1 DEF Sealed, Ruled
<1> QED BY <1>3, <1>4

\* What a run leaves is what the next one may assume of the rows it finds
\* (PolicyAssumption): identifiers still stand for what an identity looks at of
\* the facts stored under them.
THEOREM RowsStaySealed == Spec => []RowsAreSealed
<1>1. RankInv => RowsAreSealed
  BY DEF RankInv
<1> QED BY <1>1, RankInvInit, RankInvStep, PTL DEF Spec

\* StoredPoliciesKeepIdentity holds: no save ever meets another fingerprint under
\* its identifier, and no row is ever rewritten with a name, type, list, term or
\* rule that its identity tells apart.
THEOREM StoredKeepIdentity == Spec => StoredPoliciesKeepIdentity
<1> DEFINE Keeps == \A id \in DOMAIN rows :
                       /\ id \in DOMAIN rows' /\ stored_facts(rows'[id]) = stored_facts(rows[id])
                       /\ rows[id].fingerprint.conditions \subseteq rules(rows'[id])
           Free == phase = "SAVING" /\ at \in DOMAIN results => ~collides(results[at])
<1>1. ASSUME RankInv PROVE Free
  <2> SUFFICES ASSUME phase = "SAVING", at \in DOMAIN results, collides(results[at]) PROVE FALSE
    OBVIOUS
  <2>1. results[at].id \in DOMAIN rows /\ rows[results[at].id].fingerprint # results[at].fingerprint
    BY DEF collides
  <2> QED BY <1>1, <2>1, RowAndResultAgree
<1>2. ASSUME RankInv, [Next]_vars PROVE Keeps
  <2>1. CASE rows' = rows
    BY <1>2, <2>1 DEF RankInv, RowsAreSealed, Sealed, Ruled
  <2>2. CASE rows' # rows
    <3>1. Save
      BY <1>2, <2>2 DEF Next, vars, saving, Age, Stopped, Exhausted, cut_short, Ask, Answered, take, Busy, Failed,
                        give_up, Mismatched, Unparsed, RepairFailed, Return, Merge, Recommend
    <3> DEFINE p == results[at]
    <3>2. phase = "SAVING" /\ rows' = [id \in DOMAIN rows \cup {p.id} |-> IF id = p.id THEN p ELSE rows[id]]
      BY <2>2, <3>1 DEF Save, save
    <3>3. at \in DOMAIN results
      <4>1. results \in Seq(ToSet(results)) /\ at \in Nat \ {0} /\ at <= Len(results)
        BY <1>2, <3>1, <3>2 DEF RankInv, LossInv, LoopInv, LoopTypes, ResultsSettled, Save
      <4>2. \A S : results \in Seq(S) => DOMAIN results = 1 .. Len(results) /\ Len(results) \in Nat
        OBVIOUS
      <4> QED BY <4>1, <4>2
    <3>4. ASSUME NEW id \in DOMAIN rows
          PROVE  /\ id \in DOMAIN rows' /\ stored_facts(rows'[id]) = stored_facts(rows[id])
                 /\ rows[id].fingerprint.conditions \subseteq rules(rows'[id])
      <4>1. id \in DOMAIN rows' /\ rows'[id] = IF id = p.id THEN p ELSE rows[id]
        BY <3>2
      <4>2. CASE id = p.id
        <5>1. /\ stored_facts(rows[id]) = stored_facts(results[at])
              /\ rows[id].fingerprint.conditions \subseteq rules(results[at])
          <6> HIDE DEF stored_facts, rules
          <6> QED BY <1>2, <3>2, <3>3, <4>2, RowAndResultAgree
        <5> HIDE DEF stored_facts, rules
        <5> QED BY <4>1, <4>2, <5>1
      <4>3. CASE id # p.id
        <5>1. rows[id].fingerprint.conditions \subseteq rules(rows[id])
          BY <1>2 DEF RankInv, RowsAreSealed, Sealed, Ruled
        <5> HIDE DEF stored_facts, rules
        <5> QED BY <4>1, <4>3, <5>1
      <4> QED BY <4>1, <4>2, <4>3
    <3> QED BY <3>4
  <2> QED BY <2>1, <2>2
<1>3. RankInv /\ [Next]_vars => [Keeps /\ Free]_vars
  BY <1>1, <1>2
<1> QED BY <1>3, RankInvInit, RankInvStep, PTL DEF Spec, StoredPoliciesKeepIdentity

-----------------------------------------------------------------------------
(* Types.                                                                   *)

\* What the loop, the saving and the ranking are at.
Placed ==
    /\ request \in [retries : -1 .. MaxRetries, repairing : BOOLEAN] /\ late \in BOOLEAN
    /\ phase \in {"EXTRACTING", "MERGING"} => at <= Len(Reads) + 1
    /\ phase \in {"SAVING", "DONE"} => at <= Len(results) + 1
    /\ \A i \in DOMAIN policies : policies[i].sources \subseteq Sources
    /\ ToSet(ranked) \subseteq DOMAIN results
TypeInv == RankInv /\ results \in Seq(ToSet(results)) /\ Placed

\* The larger of two lengths.
LEMMA LargerLength ==
    ASSUME NEW a \in Nat, NEW b \in Nat
    PROVE  Max({a, b}) \in Nat /\ a <= Max({a, b}) /\ b <= Max({a, b})
<1>1. \E x \in {a, b} : \A y \in {a, b} : x >= y
  <2>1. CASE a >= b
    BY <2>1
  <2>2. CASE ~(a >= b)
    BY <2>2
  <2> QED BY <2>1, <2>2
<1> QED BY <1>1 DEF Max

\* The invariant gives the types.
LEMMA TypeInvTypes == TypeInv => TypeOK
<1> SUFFICES ASSUME TypeInv PROVE TypeOK
  OBVIOUS
<1>1. RankInv /\ LoopTypes /\ Placed /\ results \in Seq(ToSet(results))
  BY DEF TypeInv, RankInv, LossInv, LoopInv
<1>2. Len(Reads) \in Nat /\ Len(results) \in Nat /\ DOMAIN results = 1 .. Len(results)
  <2>1. \A S : results \in Seq(S) => Len(results) \in Nat /\ DOMAIN results = 1 .. Len(results)
    OBVIOUS
  <2> QED BY <1>1, <2>1, ReadsFacts
<1>3. at \in 1 .. (Max({Len(Reads), Len(results)}) + 1)
  <2> DEFINE M == Max({Len(Reads), Len(results)})
  <2>1. M \in Nat /\ Len(Reads) <= M /\ Len(results) <= M
    BY <1>2, LargerLength
  <2> HIDE DEF M
  <2>2. at \in Nat \ {0} /\ (at <= Len(Reads) + 1 \/ at <= Len(results) + 1)
    BY <1>1 DEF LoopTypes, Placed
  <2>3. at \in 1 .. (M + 1)
    BY <1>2, <2>1, <2>2
  <2> QED BY <2>3 DEF M
<1>4. Sources \subseteq {source_of(r) : r \in held}
  BY DEF Sources, held
<1>5. \A id \in DOMAIN rows : rows[id].id = id
  BY <1>1 DEF RankInv, RowsAreSealed
<1>6. \A i \in DOMAIN policies : policies[i].sources \subseteq {source_of(r) : r \in held}
  BY <1>1, <1>4 DEF Placed
<1> QED BY <1>1, <1>3, <1>4, <1>5, <1>6 DEF TypeOK, LoopTypes, Placed

\* It holds at the start.
LEMMA TypeInvInit == Init => TypeInv
<1> SUFFICES ASSUME Init PROVE TypeInv
  OBVIOUS
<1>1. /\ phase = "EXTRACTING" /\ at = 1 /\ request = [retries |-> -1, repairing |-> FALSE] /\ late = FALSE
      /\ DOMAIN policies = {} /\ ranked = <<>> /\ results = <<>>
  BY DEF Init, NoRequest
<1>2. <<>> \in Seq(ToSet(<<>>)) /\ ToSet(<<>>) = {}
  BY DEF ToSet
<1>3. MaxRetries \in Nat /\ Len(Reads) \in Nat
  BY PolicyAssumption, ReadsFacts
<1>4. request \in [retries : -1 .. MaxRetries, repairing : BOOLEAN]
  BY <1>1, <1>3
<1>5. results \in Seq(ToSet(results)) /\ ToSet(ranked) = {}
  BY <1>1, <1>2
<1>6. Placed
  <2>1. phase \in {"EXTRACTING", "MERGING", "SAVING", "DONE"} /\ late \in BOOLEAN
    BY <1>1
  <2>2. at <= Len(Reads) + 1
    BY <1>1, <1>3
  <2>3. \A i \in DOMAIN policies : policies[i].sources \subseteq Sources
    BY <1>1
  <2>4. phase \notin {"SAVING", "DONE"}
    BY <1>1
  <2>5. \A S : ToSet(ranked) \subseteq S
    BY <1>5
  <2> HIDE DEF Sources
  <2> QED BY <1>4, <2>1, <2>2, <2>3, <2>4, <2>5 DEF Placed
<1> QED BY <1>5, <1>6, RankInvInit DEF TypeInv

\* An answer brings candidates of the document it is about.
LEMMA TakePlaced ==
    ASSUME TypeInv, phase = "EXTRACTING", at <= Len(Reads), NEW found \in Seq(Given), NEW how, take(found, how)
    PROVE  \A i \in DOMAIN policies' : policies'[i].sources \subseteq Sources
<1> DEFINE new == [i \in DOMAIN found |-> candidate(document, i, found[i])]
           n == Len(found)
<1>1. policies \in Seq(Candidates) /\ policies' = policies \o new /\ at \in Nat \ {0}
  BY DEF take, TypeInv, RankInv, LossInv, LoopInv, LoopTypes
<1>2. n \in Nat /\ DOMAIN found = 1 .. n /\ \A i \in 1 .. n : found[i] \in Given
  OBVIOUS
<1>3. source_of(document) \in Sources
  <2>1. at \in DOMAIN Reads
    BY <1>1, ReadsFacts
  <2> QED BY <2>1 DEF Sources, document
<1>4. \A i \in 1 .. n : new[i].sources \subseteq Sources
  <2> TAKE i \in 1 .. n
  <2> DEFINE facts == found[i]
  <2>1. new[i] = candidate(document, i, facts) /\ facts \in Given
    BY <1>2
  <2>2. "sources" \in DOMAIN facts
    BY <2>1, GivenAreCandidates DEF IsCandidate, CandidateFields
  <2> HIDE DEF facts, new, source_of, document, policy_extractor_id
  <2>3. candidate(document, i, facts).sources = {source_of(document)}
    BY <2>2 DEF candidate
  <2> QED BY <1>3, <2>1, <2>3
<1>5. new \in Seq(ToSet(new)) /\ ToSet(new) = {new[i] : i \in 1 .. n}
  <2>1. new = [i \in 1 .. n |-> new[i]] /\ DOMAIN new = 1 .. n
    BY <1>2
  <2> HIDE DEF new, n
  <2> QED BY <1>2, <2>1, SequenceOfValues
<1> HIDE DEF new
<1>6. ToSet(policies') = ToSet(policies) \cup ToSet(new)
  <2> DEFINE S == Candidates \cup ToSet(new)
  <2>1. ToSet(policies) \subseteq Candidates
    BY <1>1, OwnRange
  <2>2. policies \in Seq(S) /\ new \in Seq(S)
    <3>1. ToSet(policies) \subseteq S /\ ToSet(new) \subseteq S
      BY <2>1
    <3> HIDE DEF S
    <3> QED BY <1>1, <1>5, <3>1, OwnRange
  <2> HIDE DEF S
  <2> QED BY <1>1, <2>2, ConcatRange
<1>7. \A p \in ToSet(policies) : p.sources \subseteq Sources
  BY DEF ToSet, TypeInv, Placed
<1>8. \A p \in ToSet(policies') : p.sources \subseteq Sources
  BY <1>4, <1>5, <1>6, <1>7
<1> QED BY <1>8 DEF ToSet

\* Every step keeps the types.
LEMMA TypeInvStep == TypeInv /\ [Next]_vars => TypeInv'
<1> SUFFICES ASSUME TypeInv, [Next]_vars PROVE results' \in Seq(ToSet(results')) /\ Placed'
  BY RankInvStep DEF TypeInv
<1>1. RankInv /\ RankInv' /\ LoopTypes /\ Looping /\ Placed /\ results \in Seq(ToSet(results))
  BY RankInvStep DEF TypeInv, RankInv, LossInv, LoopInv
<1>2. Len(Reads) \in Nat /\ at \in Nat \ {0} /\ MaxRetries \in Nat
  BY <1>1, PolicyAssumption, ReadsFacts DEF LoopTypes
<1>3. NoRequest \in [retries : -1 .. MaxRetries, repairing : BOOLEAN]
  BY <1>2 DEF NoRequest
<1>4. Asked => phase = "EXTRACTING" /\ at <= Len(Reads)
  BY <1>1 DEF Asked, Looping
<1>5. ASSUME phase = "EXTRACTING", phase' \in {"EXTRACTING", "MERGING"}, UNCHANGED <<results, ranked>>,
             at' <= Len(Reads) + 1, request' \in [retries : -1 .. MaxRetries, repairing : BOOLEAN],
             late' \in BOOLEAN, \A i \in DOMAIN policies' : policies'[i].sources \subseteq Sources
      PROVE  results' \in Seq(ToSet(results')) /\ Placed'
  BY <1>1, <1>5 DEF Placed
<1>6. CASE UNCHANGED vars
  BY <1>1, <1>6 DEF vars, Placed
<1>7. CASE Age \/ Stopped \/ Exhausted \/ Ask
  <2>1. [retries |-> 0, repairing |-> FALSE] \in [retries : -1 .. MaxRetries, repairing : BOOLEAN]
    BY <1>2
  <2>2. at' <= Len(Reads) + 1
    BY <1>1, <1>2, <1>7 DEF Placed, Age, Stopped, Exhausted, Ask, Waiting, cut_short
  <2> QED BY <1>1, <1>5, <1>7, <2>1, <2>2
        DEF Placed, Age, Stopped, Exhausted, Ask, Waiting, cut_short, saving
<1>8. ASSUME NEW found \in Seq(Given), NEW how, Asked, take(found, how)
      PROVE  results' \in Seq(ToSet(results')) /\ Placed'
  <2>1. \A i \in DOMAIN policies' : policies'[i].sources \subseteq Sources
    BY <1>4, <1>8, TakePlaced
  <2>2. phase = "EXTRACTING" /\ at' <= Len(Reads) + 1
    BY <1>2, <1>4, <1>8 DEF take
  <2> QED BY <1>1, <1>3, <1>5, <1>8, <2>1, <2>2 DEF Placed, take, saving
<1>9. ASSUME NEW code, Asked, give_up(code)
      PROVE  results' \in Seq(ToSet(results')) /\ Placed'
  <2>1. phase = "EXTRACTING" /\ at' <= Len(Reads) + 1
    BY <1>2, <1>4, <1>9 DEF give_up
  <2> QED BY <1>1, <1>3, <1>5, <1>9, <2>1 DEF Placed, give_up, saving
<1>10. CASE Answered
  <2>1. PICK found \in Offered(document) : Asked /\ take(found, "ANSWERED")
    BY <1>10 DEF Answered
  <2>2. found \in Seq(Given)
    BY <1>1, <1>4, <2>1, DocumentFacts, AnswersAreGiven DEF RankInv, LossInv
  <2> QED BY <1>8, <2>1, <2>2
<1>11. CASE RepairFailed
  <2>1. Asked /\ \/ give_up("POLICY_SCHEMA_REPAIR_FAILED")
                 \/ take(SetToSeq(Fallback(document)), "FALLBACK")
    BY <1>11 DEF RepairFailed
  <2>2. SetToSeq(Fallback(document)) \in Seq(Given)
    BY <1>1, <1>4, <2>1, DocumentFacts, AnswersAreGiven DEF RankInv, LossInv
  <2> QED BY <1>8, <1>9, <2>1, <2>2
<1>12. ASSUME NEW code, Busy(code) PROVE results' \in Seq(ToSet(results')) /\ Placed'
  <2>1. CASE request.retries < MaxRetries
    <3>1. Asked /\ request' = [request EXCEPT !.retries = @ + 1] /\ UNCHANGED <<phase, at, late, policies, saving>>
      BY <1>12, <2>1 DEF Busy
    <3>2. request' \in [retries : -1 .. MaxRetries, repairing : BOOLEAN]
      BY <1>1, <1>2, <2>1, <3>1 DEF Placed
    <3>3. phase = "EXTRACTING" /\ at' <= Len(Reads) + 1
      BY <1>2, <1>4, <3>1
    <3> QED BY <1>1, <1>5, <3>1, <3>2, <3>3 DEF Placed, saving
  <2>2. CASE ~(request.retries < MaxRetries)
    BY <1>9, <1>12, <2>2 DEF Busy
  <2> QED BY <2>1, <2>2
<1>13. ASSUME NEW code, Failed(code) PROVE results' \in Seq(ToSet(results')) /\ Placed'
  BY <1>9, <1>13 DEF Failed
<1>14. CASE Unparsed
  <2>1. CASE is_official_trusted_source(document)
    <3>1. Asked /\ request' = [request EXCEPT !.repairing = TRUE] /\ UNCHANGED <<phase, at, late, policies, saving>>
      BY <1>14, <2>1 DEF Unparsed
    <3>2. request' \in [retries : -1 .. MaxRetries, repairing : BOOLEAN]
      BY <1>1, <3>1 DEF Placed
    <3>3. phase = "EXTRACTING" /\ at' <= Len(Reads) + 1
      BY <1>2, <1>4, <3>1
    <3> QED BY <1>1, <1>5, <3>1, <3>2, <3>3 DEF Placed, saving
  <2>2. CASE ~is_official_trusted_source(document)
    BY <1>9, <1>14, <2>2 DEF Unparsed
  <2> QED BY <2>1, <2>2
<1>15. CASE Return
  BY <1>1, <1>5, <1>15 DEF Return, Placed, saving
<1>16. CASE Merge
  <2>1. phase' = "SAVING" /\ at' = 1 /\ UNCHANGED <<request, late, policies, ranked>> /\ phase = "MERGING"
    BY <1>16 DEF Merge
  <2>2. results' \in Seq(ToSet(results'))
    BY <1>1, <2>1 DEF RankInv, ResultsSettled
  <2>3. Len(results') \in Nat
    <3>1. \A s, S : s \in Seq(S) => Len(s) \in Nat
      OBVIOUS
    <3> QED BY <2>2, <3>1
  <2>4. ToSet(ranked') = {}
    BY <1>1, <2>1 DEF RankInv, ToSet
  <2> QED BY <1>1, <2>1, <2>2, <2>3, <2>4 DEF Placed
<1>17. CASE Save
  <2>1. /\ phase = "SAVING" /\ phase' \in {"SAVING", "DONE"} /\ at <= Len(results) /\ at' \in {at, at + 1}
        /\ UNCHANGED <<request, late, policies, results, ranked>>
    BY <1>17 DEF Save
  <2>2. Len(results) \in Nat
    <3>1. \A s, S : s \in Seq(S) => Len(s) \in Nat
      OBVIOUS
    <3> QED BY <1>1, <3>1
  <2>3. at' <= Len(results) + 1
    BY <1>2, <2>1, <2>2
  <2> QED BY <1>1, <2>1, <2>3 DEF Placed
<1>18. CASE Recommend
  <2>1. /\ phase = "SAVING" /\ phase' = "DONE" /\ ranked' = recommend(results)
        /\ UNCHANGED <<at, request, late, policies, results>>
    BY <1>18 DEF Recommend
  <2> DEFINE T == ToSet(validated(docs))
  <2>2. \A r \in ToSet(results) : Supported(r, T)
    BY <1>1, <2>1 DEF RankInv, ResultsSettled, Settled
  <2>3. \A x \in T : Whole(x)
    BY <1>1, ValidatedChecked DEF RankInv, LossInv, Checked
  <2> HIDE DEF T
  <2>4. \A n \in DOMAIN recommend(results) : recommend(results)[n] \in DOMAIN results
    BY <1>1, <2>2, <2>3, RankedAreEligible
  <2>5. ToSet(ranked') \subseteq DOMAIN results
    <3> HIDE DEF recommend
    <3> QED BY <2>1, <2>4 DEF ToSet
  <2> QED BY <1>1, <2>1, <2>5 DEF Placed
<1>19. CASE Mismatched
  BY <1>9, <1>19 DEF Mismatched
<1> QED BY <1>6, <1>7, <1>10, <1>11, <1>12, <1>13, <1>14, <1>15, <1>16, <1>17, <1>18, <1>19 DEF Next

\* The types hold: the loop stays among its documents and the saving among its
\* results, a request is retried at most MaxRetries times, every candidate is of
\* a document read, and only results are stored and ranked.
THEOREM PolicyTypes == Spec => []TypeOK
BY TypeInvTypes, TypeInvInit, TypeInvStep, PTL DEF Spec

=============================================================================
