---------------------------- MODULE SequenceLemmas ----------------------------
(***************************************************************************)
(* What the recursive operators of the models compute, for sequences of any  *)
(* length: FlattenSeq, Chosen, FoldLeft and sums.  The library's rules of    *)
(* induction take a predicate as a parameter, which the provers cannot       *)
(* instantiate; here the induction is carried by a set, and rests on the     *)
(* least element of a set of numbers (which the library proves to exist).    *)
(* A recursive definition is a CHOOSE of a function that satisfies its       *)
(* equation: each lemma first shows that such a function exists.             *)
(***************************************************************************)
EXTENDS Selections, SequencesExt, TLAPS, WellFoundedInduction, SequenceTheorems,
        FiniteSetTheorems

CONSTANT Op(_, _)   \* the step of a fold

-----------------------------------------------------------------------------
(* Induction.                                                               *)

\* Every non-empty set of natural numbers has a least element.
LEMMA NatLeast ==
    ASSUME NEW T, T \subseteq Nat, T # {}
    PROVE  \E n \in T : \A m \in T : n <= m
<1>1. \E x \in T : \A y \in T : ~(<<y, x>> \in OpToRel(<, Nat))
  BY NatLessThanWellFounded, WFMin
<1>2. ASSUME NEW x \in Nat, NEW y \in Nat, y < x PROVE <<y, x>> \in OpToRel(<, Nat)
  BY <1>2 DEF OpToRel
<1>3. PICK n \in T : \A m \in T : ~(m < n)
  BY <1>1, <1>2
<1> QED BY <1>3

\* A set that has 0, and the successor of each of its members below N, has all
\* the numbers up to N.
LEMMA PrefixInduction ==
    ASSUME NEW N \in Nat, NEW Good, 0 \in Good,
           \A n \in 0 .. N : n < N /\ n \in Good => n + 1 \in Good
    PROVE  \A n \in 0 .. N : n \in Good
<1> DEFINE Bad == {n \in 0 .. N : n \notin Good}
<1> SUFFICES ASSUME Bad # {} PROVE FALSE
  OBVIOUS
<1>1. Bad \subseteq Nat
  OBVIOUS
<1>2. PICK n \in Bad : \A m \in Bad : n <= m
  BY <1>1, NatLeast
<1>3. n \in 0 .. N /\ n # 0 /\ n \notin Good
  OBVIOUS
<1>4. n - 1 \in 0 .. N /\ n - 1 < N /\ n - 1 \notin Bad
  BY <1>2, <1>3
<1>5. (n - 1) + 1 \in Good
  BY <1>4
<1> QED BY <1>3, <1>5

-----------------------------------------------------------------------------
(* FlattenSeq.                                                              *)

\* f concatenates the first n of the sequences ss, one after the other.
Concatenates(f, ss, n) ==
    f[0] = <<>> /\ \A i \in 0 .. n : i < n => f[i + 1] = f[i] \o ss[i + 1]

\* Any sequence of sequences can be concatenated, prefix by prefix.
LEMMA ConcatenationExists ==
    ASSUME NEW S, NEW ss \in Seq(Seq(S))
    PROVE  \E f \in [0 .. Len(ss) -> Seq(S)] : Concatenates(f, ss, Len(ss))
<1> DEFINE N == Len(ss)
           Good == {n \in 0 .. N : \E f \in [0 .. n -> Seq(S)] : Concatenates(f, ss, n)}
<1>n. N \in Nat /\ \A i \in 1 .. N : ss[i] \in Seq(S)
  OBVIOUS
<1> HIDE DEF N
<1>1. 0 \in Good
  <2>1. [i \in 0 .. 0 |-> <<>>] \in [0 .. 0 -> Seq(S)]
    OBVIOUS
  <2>2. Concatenates([i \in 0 .. 0 |-> <<>>], ss, 0)
    BY DEF Concatenates
  <2>3. 0 \in 0 .. N
    BY <1>n
  <2> QED BY <2>1, <2>2, <2>3
<1>2. ASSUME NEW n \in 0 .. N, n < N, n \in Good PROVE n + 1 \in Good
  <2>1. PICK f \in [0 .. n -> Seq(S)] : Concatenates(f, ss, n)
    BY <1>2
  <2>2. n \in Nat /\ n + 1 \in 1 .. N /\ n + 1 \in 0 .. N
    BY <1>2, <1>n
  <2>3. f[n] \o ss[n + 1] \in Seq(S)
    BY <1>n, <2>2
  <2> DEFINE g == [i \in 0 .. (n + 1) |-> IF i = n + 1 THEN f[n] \o ss[n + 1] ELSE f[i]]
  <2>4. g \in [0 .. (n + 1) -> Seq(S)]
    <3>1. ASSUME NEW i \in 0 .. (n + 1), i # n + 1 PROVE f[i] \in Seq(S)
      BY <2>2, <3>1
    <3> QED BY <2>3, <3>1
  <2>5. Concatenates(g, ss, n + 1)
    <3>0. g[0] = <<>>
      BY <2>1, <2>2 DEF Concatenates
    <3>1. g[n + 1] = g[n] \o ss[n + 1]
      <4>1. g[n] = f[n] /\ g[n + 1] = f[n] \o ss[n + 1]
        BY <2>2
      <4> QED BY <4>1
    <3>2. ASSUME NEW i \in 0 .. n, i < n PROVE g[i + 1] = g[i] \o ss[i + 1]
      <4>1. g[i + 1] = f[i + 1] /\ g[i] = f[i]
        BY <2>2, <3>2
      <4> QED BY <2>1, <3>2, <4>1 DEF Concatenates
    <3> HIDE DEF g
    <3>3. ASSUME NEW i \in 0 .. (n + 1), i < n + 1 PROVE g[i + 1] = g[i] \o ss[i + 1]
      <4>1. i = n \/ (i \in 0 .. n /\ i < n)
        BY <2>2, <3>3
      <4> QED BY <3>1, <3>2, <4>1
    <3> QED BY <3>0, <3>3 DEF Concatenates
  <2> QED BY <2>2, <2>4, <2>5
<1>3. N \in Good
  <2> HIDE DEF Good
  <2>1. \A n \in 0 .. N : n \in Good
    BY <1>n, <1>1, <1>2, PrefixInduction
  <2> QED BY <2>1, <1>n
<1> QED BY <1>3 DEF N

\* FlattenSeq is the last of these prefixes.
LEMMA FlattenSteps ==
    ASSUME NEW S, NEW ss \in Seq(Seq(S))
    PROVE  \E f \in [0 .. Len(ss) -> Seq(S)] :
              Concatenates(f, ss, Len(ss)) /\ FlattenSeq(ss) = f[Len(ss)]
<1>1. PICK f \in [0 .. Len(ss) -> Seq(S)] : Concatenates(f, ss, Len(ss))
  BY ConcatenationExists
<1>n. Len(ss) \in Nat /\ \A i \in 1 .. Len(ss) : ss[i] \in Seq(S)
  OBVIOUS
<1>2. CASE Len(ss) = 0
  <2>1. FlattenSeq(ss) = <<>>
    BY <1>2 DEF FlattenSeq
  <2> QED BY <1>1, <1>2, <2>1 DEF Concatenates
<1>3. CASE Len(ss) # 0
  <2> DEFINE part(g, i) == IF i = 1 THEN ss[i] ELSE g[i - 1] \o ss[i]
             Rec(g) == g = [i \in 1 .. Len(ss) |-> part(g, i)]
             e == [i \in 1 .. Len(ss) |-> f[i]]
             h == CHOOSE g : Rec(g)
  <2>1. FlattenSeq(ss) = h[Len(ss)]
    BY <1>3 DEF FlattenSeq
  <2>2. ASSUME NEW i \in 1 .. Len(ss) PROVE f[i] = part(e, i)
    <3>1. i - 1 \in 0 .. Len(ss) /\ i - 1 < Len(ss) /\ (i - 1) + 1 = i
      BY <1>n
    <3>2. f[i] = f[i - 1] \o ss[i]
      BY <1>1, <3>1 DEF Concatenates
    <3>3. CASE i = 1
      <4>1. f[i - 1] = <<>> /\ ss[1] \in Seq(S)
        BY <1>1, <1>n, <3>3 DEF Concatenates
      <4> QED BY <3>2, <3>3, <4>1, ConcatEmptySeq
    <3>4. CASE i # 1
      <4>1. e[i - 1] = f[i - 1]
        BY <1>n, <3>4
      <4> QED BY <3>2, <3>4, <4>1
    <3> QED BY <3>3, <3>4
  <2>3. Rec(e)
    <3> HIDE DEF part
    <3> QED BY <2>2
  <2>4. Rec(h)
    <3> HIDE DEF Rec
    <3> QED BY <2>3
  <2> HIDE DEF h
  <2>5. \A i \in 1 .. Len(ss) : h[i] = part(h, i)
    <3> HIDE DEF part
    <3> QED BY <2>4
  <2> DEFINE Same == {n \in 0 .. Len(ss) : n # 0 => h[n] = f[n]}
  <2>6. 0 \in Same
    BY <1>n
  <2>7. ASSUME NEW n \in 0 .. Len(ss), n < Len(ss), n \in Same PROVE n + 1 \in Same
    <3>1. n + 1 \in 1 .. Len(ss) /\ n + 1 \in 0 .. Len(ss) /\ (n + 1) - 1 = n
      BY <1>n, <2>7
    <3>2. h[n + 1] = part(h, n + 1) /\ f[n + 1] = part(e, n + 1)
      <4> HIDE DEF part
      <4> QED BY <2>2, <2>5, <3>1
    <3>3. n # 0 => e[n] = f[n]
      BY <1>n
    <3>4. part(h, n + 1) = part(e, n + 1)
      BY <1>n, <2>7, <3>1, <3>3
    <3> QED BY <3>1, <3>2, <3>4
  <2>8. \A n \in 0 .. Len(ss) : n \in Same
    <3> HIDE DEF Same
    <3> QED BY <1>n, <2>6, <2>7, PrefixInduction
  <2>9. h[Len(ss)] = f[Len(ss)]
    BY <1>n, <1>3, <2>8
  <2> QED BY <1>1, <2>1, <2>9
<1> QED BY <1>2, <1>3

\* A concatenation has the members of both sequences.
LEMMA ConcatRange ==
    ASSUME NEW S, NEW s \in Seq(S), NEW t \in Seq(S)
    PROVE  s \o t \in Seq(S) /\ ToSet(s \o t) = ToSet(s) \cup ToSet(t)
<1>1. /\ s \o t \in Seq(S) /\ Len(s \o t) = Len(s) + Len(t)
      /\ \A i \in 1 .. Len(s) + Len(t) : (s \o t)[i] = IF i <= Len(s) THEN s[i] ELSE t[i - Len(s)]
  BY ConcatProperties
<1>2. DOMAIN s = 1 .. Len(s) /\ DOMAIN t = 1 .. Len(t) /\ DOMAIN (s \o t) = 1 .. (Len(s) + Len(t))
  BY <1>1
<1>3. Len(s) \in Nat /\ Len(t) \in Nat
  OBVIOUS
<1> DEFINE st == s \o t
<1> HIDE DEF st
<1>4. ASSUME NEW i \in DOMAIN s PROVE s[i] \in ToSet(st)
  <2>1. i \in DOMAIN st /\ st[i] = s[i]
    BY <1>1, <1>2, <1>3 DEF st
  <2> QED BY <2>1 DEF ToSet
<1>5. ASSUME NEW i \in DOMAIN t PROVE t[i] \in ToSet(st)
  <2>1. Len(s) + i \in DOMAIN st /\ st[Len(s) + i] = t[i]
    BY <1>1, <1>2, <1>3 DEF st
  <2> QED BY <2>1 DEF ToSet
<1>6. ASSUME NEW i \in DOMAIN st PROVE st[i] \in ToSet(s) \cup ToSet(t)
  <2>1. CASE i <= Len(s)
    <3>1. i \in DOMAIN s /\ st[i] = s[i]
      BY <1>1, <1>2, <1>3, <2>1 DEF st
    <3> QED BY <3>1 DEF ToSet
  <2>2. CASE ~(i <= Len(s))
    <3>1. i - Len(s) \in DOMAIN t /\ st[i] = t[i - Len(s)]
      BY <1>1, <1>2, <1>3, <2>2 DEF st
    <3> QED BY <3>1 DEF ToSet
  <2> QED BY <2>1, <2>2
<1>7. ToSet(st) = ToSet(s) \cup ToSet(t)
  BY <1>4, <1>5, <1>6 DEF ToSet
<1> QED BY <1>1, <1>7 DEF st

\* A flattened sequence has the members of all its sequences, and no others
\* (the merged documents and candidates of the agents).
LEMMA FlattenRange ==
    ASSUME NEW S, NEW ss \in Seq(Seq(S))
    PROVE  FlattenSeq(ss) \in Seq(S) /\ ToSet(FlattenSeq(ss)) = UNION {ToSet(ss[i]) : i \in 1 .. Len(ss)}
<1>1. PICK f \in [0 .. Len(ss) -> Seq(S)] :
         Concatenates(f, ss, Len(ss)) /\ FlattenSeq(ss) = f[Len(ss)]
  BY FlattenSteps
<1>n. Len(ss) \in Nat /\ \A i \in 1 .. Len(ss) : ss[i] \in Seq(S)
  OBVIOUS
<1> DEFINE Parts(n) == UNION {ToSet(ss[i]) : i \in 1 .. n}
           Good == {n \in 0 .. Len(ss) : ToSet(f[n]) = Parts(n)}
<1>2. 0 \in Good
  <2>1. ToSet(<<>>) = {}
    BY DEF ToSet
  <2> QED BY <1>1, <1>n, <2>1 DEF Concatenates
<1>3. ASSUME NEW n \in 0 .. Len(ss), n < Len(ss), n \in Good PROVE n + 1 \in Good
  <2>1. n + 1 \in 1 .. Len(ss) /\ n + 1 \in 0 .. Len(ss) /\ 1 .. (n + 1) = (1 .. n) \cup {n + 1}
    BY <1>n, <1>3
  <2>2. f[n + 1] = f[n] \o ss[n + 1]
    BY <1>1, <1>3 DEF Concatenates
  <2>3. ToSet(f[n + 1]) = ToSet(f[n]) \cup ToSet(ss[n + 1])
    <3>1. f[n] \in Seq(S) /\ ss[n + 1] \in Seq(S)
      BY <1>n, <2>1
    <3> QED BY <2>2, <3>1, ConcatRange
  <2>4. Parts(n + 1) = Parts(n) \cup ToSet(ss[n + 1])
    BY <2>1
  <2> QED BY <1>3, <2>1, <2>3, <2>4
<1>4. Len(ss) \in Good
  <2> HIDE DEF Good
  <2>1. \A n \in 0 .. Len(ss) : n \in Good
    BY <1>n, <1>2, <1>3, PrefixInduction
  <2> QED BY <1>n, <2>1
<1> QED BY <1>1, <1>4, <1>n

-----------------------------------------------------------------------------
(* Chosen.                                                                  *)

\* f chooses from the first n members of s those at the positions in I.
Chooses(f, s, I, n) ==
    /\ f[0] = <<>>
    /\ \A i \in 0 .. n : i < n => f[i + 1] = IF i + 1 \in I THEN Append(f[i], s[i + 1]) ELSE f[i]

\* Any set of positions can be chosen from any sequence, prefix by prefix.
LEMMA ChoiceExists ==
    ASSUME NEW S, NEW s \in Seq(S), NEW I
    PROVE  \E f \in [0 .. Len(s) -> Seq(S)] : Chooses(f, s, I, Len(s))
<1> DEFINE N == Len(s)
           next(f, n) == IF n + 1 \in I THEN Append(f[n], s[n + 1]) ELSE f[n]
           Good == {n \in 0 .. N : \E f \in [0 .. n -> Seq(S)] : Chooses(f, s, I, n)}
<1>n. N \in Nat /\ \A i \in 1 .. N : s[i] \in S
  OBVIOUS
<1> HIDE DEF N
<1>1. 0 \in Good
  <2>1. [i \in 0 .. 0 |-> <<>>] \in [0 .. 0 -> Seq(S)]
    OBVIOUS
  <2>2. Chooses([i \in 0 .. 0 |-> <<>>], s, I, 0)
    BY DEF Chooses
  <2>3. 0 \in 0 .. N
    BY <1>n
  <2> QED BY <2>1, <2>2, <2>3
<1>2. ASSUME NEW n \in 0 .. N, n < N, n \in Good PROVE n + 1 \in Good
  <2>1. PICK f \in [0 .. n -> Seq(S)] : Chooses(f, s, I, n)
    BY <1>2
  <2>2. n \in Nat /\ n + 1 \in 1 .. N /\ n + 1 \in 0 .. N
    BY <1>2, <1>n
  <2>3. next(f, n) \in Seq(S)
    BY <1>n, <2>2
  <2> DEFINE g == [i \in 0 .. (n + 1) |-> IF i = n + 1 THEN next(f, n) ELSE f[i]]
  <2>4. g \in [0 .. (n + 1) -> Seq(S)]
    <3>1. ASSUME NEW i \in 0 .. (n + 1), i # n + 1 PROVE f[i] \in Seq(S)
      BY <2>2, <3>1
    <3> HIDE DEF next
    <3> QED BY <2>3, <3>1
  <2>5. \A i \in 0 .. n : g[i] = f[i]
    BY <2>2
  <2>6. g[n + 1] = next(f, n)
    BY <2>2
  <2> HIDE DEF g
  <2>7. ASSUME NEW i \in 0 .. (n + 1), i < n + 1 PROVE g[i + 1] = next(g, i)
    <3>1. CASE i = n
      BY <2>2, <2>5, <2>6, <3>1
    <3>2. CASE i # n
      <4>1. i \in 0 .. n /\ i + 1 \in 0 .. n /\ i < n
        BY <2>2, <2>7, <3>2
      <4>2. f[i + 1] = next(f, i)
        BY <2>1, <4>1 DEF Chooses
      <4>3. g[i] = f[i] /\ g[i + 1] = f[i + 1]
        BY <2>5, <4>1
      <4> QED BY <4>2, <4>3
    <3> QED BY <3>1, <3>2
  <2>8. g[0] = <<>>
    BY <2>1, <2>2, <2>5 DEF Chooses
  <2>9. Chooses(g, s, I, n + 1)
    BY <2>7, <2>8 DEF Chooses
  <2> QED BY <2>2, <2>4, <2>9
<1>3. N \in Good
  <2> HIDE DEF Good
  <2>1. \A n \in 0 .. N : n \in Good
    BY <1>n, <1>1, <1>2, PrefixInduction
  <2> QED BY <2>1, <1>n
<1> QED BY <1>3 DEF N

\* Chosen is the last of these choices.
LEMMA ChosenSteps ==
    ASSUME NEW S, NEW s \in Seq(S), NEW I
    PROVE  \E f \in [0 .. Len(s) -> Seq(S)] : Chooses(f, s, I, Len(s)) /\ Chosen(s, I) = f[Len(s)]
<1>1. PICK f \in [0 .. Len(s) -> Seq(S)] : Chooses(f, s, I, Len(s))
  BY ChoiceExists
<1> DEFINE N == Len(s)
           part(g, n) == IF n = 0 THEN <<>>
                         ELSE IF n \in I THEN Append(g[n - 1], s[n]) ELSE g[n - 1]
           Rec(g) == g = [n \in 0 .. N |-> part(g, n)]
           h == CHOOSE g : Rec(g)
<1>n. N \in Nat
  OBVIOUS
<1>2. Chosen(s, I) = h[N]
  BY DEF Chosen
<1> HIDE DEF N
<1>3. ASSUME NEW n \in 0 .. N PROVE f[n] = part(f, n)
  <2>1. CASE n = 0
    BY <1>1, <2>1 DEF Chooses
  <2>2. CASE n # 0
    <3>1. n - 1 \in 0 .. N /\ n - 1 < N /\ (n - 1) + 1 = n
      BY <1>n, <2>2
    <3>2. f[(n - 1) + 1] = IF (n - 1) + 1 \in I THEN Append(f[n - 1], s[(n - 1) + 1]) ELSE f[n - 1]
      BY <1>1, <3>1 DEF Chooses, N
    <3> QED BY <2>2, <3>1, <3>2
  <2> QED BY <2>1, <2>2
<1>4. Rec(f)
  <2> HIDE DEF part
  <2>1. f \in [0 .. N -> Seq(S)]
    BY DEF N
  <2> QED BY <1>3, <2>1
<1>5. Rec(h)
  <2> HIDE DEF Rec
  <2> QED BY <1>4
<1> HIDE DEF h
<1>6. \A n \in 0 .. N : h[n] = part(h, n)
  <2> HIDE DEF part
  <2> QED BY <1>5
<1> DEFINE Same == {n \in 0 .. N : h[n] = f[n]}
<1>7. 0 \in Same
  BY <1>3, <1>6, <1>n
<1>8. ASSUME NEW n \in 0 .. N, n < N, n \in Same PROVE n + 1 \in Same
  <2>1. n + 1 \in 0 .. N /\ (n + 1) - 1 = n /\ n + 1 # 0
    BY <1>8, <1>n
  <2>2. h[n + 1] = part(h, n + 1) /\ f[n + 1] = part(f, n + 1)
    <3> HIDE DEF part
    <3> QED BY <1>3, <1>6, <2>1
  <2> QED BY <1>8, <2>1, <2>2
<1>9. h[N] = f[N]
  <2>1. \A n \in 0 .. N : n \in Same
    <3> HIDE DEF Same
    <3> QED BY <1>n, <1>7, <1>8, PrefixInduction
  <2> QED BY <1>n, <2>1
<1> QED BY <1>1, <1>2, <1>9 DEF N

\* Append adds its member, and no other.
LEMMA AppendRange ==
    ASSUME NEW S, NEW s \in Seq(S), NEW x \in S
    PROVE  ToSet(Append(s, x)) = ToSet(s) \cup {x}
<1>1. /\ DOMAIN s = 1 .. Len(s) /\ DOMAIN Append(s, x) = 1 .. (Len(s) + 1) /\ Len(s) \in Nat
      /\ \A i \in 1 .. Len(s) : Append(s, x)[i] = s[i]
      /\ Append(s, x)[Len(s) + 1] = x
  OBVIOUS
<1> QED BY <1>1 DEF ToSet

\* A list comprehension with a condition has the members that fulfil it, and
\* no others.
LEMMA ChosenRange ==
    ASSUME NEW S, NEW s \in Seq(S), NEW I
    PROVE  Chosen(s, I) \in Seq(S) /\ ToSet(Chosen(s, I)) = {s[i] : i \in I \cap DOMAIN s}
<1>1. PICK f \in [0 .. Len(s) -> Seq(S)] : Chooses(f, s, I, Len(s)) /\ Chosen(s, I) = f[Len(s)]
  BY ChosenSteps
<1>n. Len(s) \in Nat /\ DOMAIN s = 1 .. Len(s) /\ \A i \in 1 .. Len(s) : s[i] \in S
  OBVIOUS
<1> DEFINE Kept(n) == {s[i] : i \in I \cap (1 .. n)}
           Good == {n \in 0 .. Len(s) : ToSet(f[n]) = Kept(n)}
<1>2. 0 \in Good
  <2>1. ToSet(<<>>) = {}
    BY DEF ToSet
  <2> QED BY <1>1, <1>n, <2>1 DEF Chooses
<1>3. ASSUME NEW n \in 0 .. Len(s), n < Len(s), n \in Good PROVE n + 1 \in Good
  <2>1. n + 1 \in 1 .. Len(s) /\ n + 1 \in 0 .. Len(s) /\ 1 .. (n + 1) = (1 .. n) \cup {n + 1}
    BY <1>n, <1>3
  <2>2. f[n + 1] = IF n + 1 \in I THEN Append(f[n], s[n + 1]) ELSE f[n]
    BY <1>1, <1>3 DEF Chooses
  <2>3. f[n] \in Seq(S) /\ s[n + 1] \in S
    BY <1>n, <2>1
  <2>4. CASE n + 1 \in I
    <3>1. ToSet(f[n + 1]) = ToSet(f[n]) \cup {s[n + 1]}
      BY <2>2, <2>3, <2>4, AppendRange
    <3>2. Kept(n + 1) = Kept(n) \cup {s[n + 1]}
      BY <2>1, <2>4
    <3> QED BY <1>3, <2>1, <3>1, <3>2
  <2>5. CASE n + 1 \notin I
    <3>1. Kept(n + 1) = Kept(n)
      BY <2>1, <2>5
    <3> QED BY <1>3, <2>1, <2>2, <2>5, <3>1
  <2> QED BY <2>4, <2>5
<1>4. Len(s) \in Good
  <2> HIDE DEF Good
  <2>1. \A n \in 0 .. Len(s) : n \in Good
    BY <1>n, <1>2, <1>3, PrefixInduction
  <2> QED BY <1>n, <2>1
<1> QED BY <1>1, <1>4, <1>n

-----------------------------------------------------------------------------
(* FoldLeft.                                                                *)

\* f is the way of a left fold of Op over the first n members of s.
Folds(f, base, s, n) ==
    f[0] = base /\ \A i \in 0 .. n : i < n => f[i + 1] = Op(f[i], s[i + 1])

\* The library folds over sets of positions, the largest one first.
LEMMA MaxOfPrefix ==
    ASSUME NEW n \in Nat, NEW t \in SUBSET (1 .. (n + 1)), n + 1 \in t
    PROVE  Max(t) = n + 1
<1>1. \A y \in t : n + 1 >= y
  OBVIOUS
<1>2. \A x \in t : (\A y \in t : x >= y) => x = n + 1
  OBVIOUS
<1> QED BY <1>1, <1>2 DEF Max

\* FoldLeft applies Op to the members one by one, from the first to the last.
LEMMA FoldSteps ==
    ASSUME NEW base, NEW S, NEW s \in Seq(S)
    PROVE  \E f : Folds(f, base, s, Len(s)) /\ FoldLeft(Op, base, s) = f[Len(s)]
<1> DEFINE N == Len(s)
           part(g, t) == IF t = {} THEN base ELSE Op(g[t \ {Max(t)}], s[Max(t)])
           Rec(g, n) == g = [t \in SUBSET (1 .. n) |-> part(g, t)]
           Good == {n \in 0 .. N : \E g : Rec(g, n)}
<1>n. N \in Nat /\ DOMAIN s = 1 .. N
  OBVIOUS
<1> HIDE DEF N
<1>u. ASSUME NEW g, NEW n, Rec(g, n), NEW t \in SUBSET (1 .. n) PROVE g[t] = part(g, t)
  <2> HIDE DEF part
  <2> QED BY <1>u
<1>1. 0 \in Good
  <2> DEFINE g == [t \in SUBSET (1 .. 0) |-> base]
  <2>1. \A t \in SUBSET (1 .. 0) : t = {}
    OBVIOUS
  <2>2. Rec(g, 0)
    BY <2>1
  <2> QED BY <1>n, <2>2
<1>2. ASSUME NEW n \in 0 .. N, n < N, n \in Good PROVE n + 1 \in Good
  <2>1. PICK g : Rec(g, n)
    BY <1>2
  <2>2. n \in Nat /\ n + 1 \in 0 .. N
    BY <1>2, <1>n
  <2> DEFINE e == [t \in SUBSET (1 .. (n + 1)) |->
                      IF n + 1 \in t THEN Op(g[t \ {n + 1}], s[n + 1]) ELSE g[t]]
  <2>3. ASSUME NEW t \in SUBSET (1 .. (n + 1)) PROVE e[t] = part(e, t)
    <3>1. CASE n + 1 \in t
      <4>1. Max(t) = n + 1 /\ t # {}
        BY <2>2, <3>1, MaxOfPrefix
      <4>2. t \ {n + 1} \in SUBSET (1 .. (n + 1)) /\ n + 1 \notin t \ {n + 1}
        OBVIOUS
      <4>3. e[t \ {n + 1}] = g[t \ {n + 1}]
        BY <4>2
      <4> QED BY <3>1, <4>1, <4>3
    <3>2. CASE n + 1 \notin t
      <4>1. t \in SUBSET (1 .. n) /\ t \ {Max(t)} \in SUBSET (1 .. (n + 1)) /\ n + 1 \notin t \ {Max(t)}
        <5>1. \A x \in t : x \in 1 .. n
          BY <2>2, <3>2
        <5> QED BY <3>2, <5>1
      <4>2. e[t] = g[t] /\ e[t \ {Max(t)}] = g[t \ {Max(t)}]
        BY <3>2, <4>1
      <4>3. g[t] = part(g, t)
        BY <1>u, <2>1, <4>1
      <4> QED BY <4>2, <4>3
    <3> QED BY <3>1, <3>2
  <2>4. Rec(e, n + 1)
    <3> HIDE DEF part
    <3> QED BY <2>3
  <2> HIDE DEF Rec
  <2> QED BY <2>2, <2>4
<1>3. \E g : Rec(g, N)
  <2>1. N \in Good
    <3> HIDE DEF Good
    <3> QED BY <1>n, <1>1, <1>2, PrefixInduction
  <2> HIDE DEF Rec
  <2> QED BY <2>1
<1> DEFINE h == CHOOSE g : Rec(g, N)
<1>4. Rec(h, N)
  <2> HIDE DEF Rec
  <2> QED BY <1>3
<1>5. FoldLeft(Op, base, s) = h[1 .. N]
  BY <1>n DEF FoldLeft, MapThenFoldSet
<1> HIDE DEF h
<1> DEFINE f == [n \in 0 .. N |-> h[1 .. n]]
<1>6. f[0] = base
  <2>1. 1 .. 0 = {} /\ {} \in SUBSET (1 .. N) /\ 0 \in 0 .. N
    BY <1>n
  <2>2. h[{}] = part(h, {})
    BY <1>4, <1>u, <2>1
  <2> QED BY <2>1, <2>2
<1>7. ASSUME NEW n \in 0 .. N, n < N PROVE f[n + 1] = Op(f[n], s[n + 1])
  <2>1. n \in Nat /\ n + 1 \in 0 .. N /\ 1 .. (n + 1) \in SUBSET (1 .. N) /\ n + 1 \in 1 .. (n + 1)
    BY <1>7, <1>n
  <2>2. h[1 .. (n + 1)] = part(h, 1 .. (n + 1))
    BY <1>4, <1>u, <2>1
  <2>3. Max(1 .. (n + 1)) = n + 1
    BY <2>1, MaxOfPrefix
  <2>4. (1 .. (n + 1)) \ {n + 1} = 1 .. n
    BY <2>1
  <2>5. h[1 .. (n + 1)] = Op(h[1 .. n], s[n + 1])
    BY <2>1, <2>2, <2>3, <2>4
  <2> QED BY <2>1, <2>5
<1>8. f[N] = h[1 .. N]
  BY <1>n
<1> HIDE DEF f
<1>9. Folds(f, base, s, N) /\ FoldLeft(Op, base, s) = f[N]
  BY <1>5, <1>6, <1>7, <1>8 DEF Folds
<1> QED BY <1>9 DEF N

-----------------------------------------------------------------------------
(* Members, positions and repetition.                                      *)

\* A sequence is one of its own members, and splits into head and tail.
LEMMA OwnRange ==
    ASSUME NEW S, NEW s \in Seq(S)
    PROVE  /\ s \in Seq(ToSet(s)) /\ ToSet(s) \subseteq S
           /\ \A T : ToSet(s) \subseteq T => s \in Seq(T)
<1>1. DOMAIN s = 1 .. Len(s) /\ Len(s) \in Nat /\ \A i \in 1 .. Len(s) : s[i] \in S
  OBVIOUS
<1>2. \A i \in 1 .. Len(s) : s[i] \in ToSet(s)
  BY <1>1 DEF ToSet
<1>3. s = [i \in 1 .. Len(s) |-> s[i]]
  OBVIOUS
<1>4. ASSUME NEW T, ToSet(s) \subseteq T PROVE s \in Seq(T)
  <2>1. \A i \in 1 .. Len(s) : s[i] \in T
    BY <1>2, <1>4
  <2> QED BY <1>1, <1>3, <2>1
<1> QED BY <1>1, <1>4 DEF ToSet

\* A sequence that is not empty is its head and its tail.
LEMMA HeadAndTail ==
    ASSUME NEW S, NEW s \in Seq(S), s # <<>>
    PROVE  Head(s) \in S /\ Tail(s) \in Seq(S) /\ ToSet(s) = {Head(s)} \cup ToSet(Tail(s))
<1>1. /\ Head(s) \in S /\ Tail(s) \in Seq(S)
      /\ DOMAIN s = 1 .. Len(s) /\ Len(s) \in Nat \ {0} /\ Head(s) = s[1]
      /\ DOMAIN Tail(s) = 1 .. (Len(s) - 1)
      /\ \A i \in 1 .. (Len(s) - 1) : Tail(s)[i] = s[i + 1]
  OBVIOUS
<1> DEFINE t == Tail(s)
<1> HIDE DEF t
<1>2. \A i \in DOMAIN s : i = 1 \/ (i - 1 \in DOMAIN t /\ t[i - 1] = s[i])
  BY <1>1 DEF t
<1>3. \A i \in DOMAIN t : i + 1 \in DOMAIN s /\ t[i] = s[i + 1]
  BY <1>1 DEF t
<1>4. 1 \in DOMAIN s
  BY <1>1
<1>5. ToSet(s) = {s[1]} \cup ToSet(t)
  <2>1. ASSUME NEW i \in DOMAIN s PROVE s[i] \in {s[1]} \cup ToSet(t)
    BY <1>2 DEF ToSet
  <2>2. ASSUME NEW i \in DOMAIN t PROVE t[i] \in ToSet(s)
    BY <1>3 DEF ToSet
  <2> QED BY <1>4, <2>1, <2>2 DEF ToSet
<1> QED BY <1>1, <1>5 DEF t

\* A set of positions that is not empty has a last one.
LEMMA LastPosition ==
    ASSUME NEW n \in Nat, NEW T, T \subseteq 1 .. n, T # {}
    PROVE  Max(T) \in T /\ \A x \in T : x <= Max(T)
<1> DEFINE D == {n - x : x \in T}
<1>1. D \subseteq Nat /\ D # {}
  <2>1. \A x \in T : x \in 1 .. n /\ n - x \in Nat
    OBVIOUS
  <2> QED BY <2>1
<1>2. PICK d \in D : \A e \in D : d <= e
  BY <1>1, NatLeast
<1>3. PICK x \in T : d = n - x
  BY <1>2
<1>4. \A y \in T : x >= y
  <2>1. \A y \in T : n - x <= n - y
    BY <1>2, <1>3
  <2> QED BY <2>1
<1>5. Max(T) \in T /\ \A y \in T : Max(T) >= y
  BY <1>4 DEF Max
<1> QED BY <1>5

\* A function on the first n positions is a sequence of its values.
LEMMA SequenceOfValues ==
    ASSUME NEW n \in Nat, NEW f, DOMAIN f = 1 .. n, f = [i \in 1 .. n |-> f[i]]
    PROVE  f \in Seq(ToSet(f)) /\ ToSet(f) = {f[i] : i \in 1 .. n} /\ Len(f) = n
<1>1. f \in Seq({f[i] : i \in 1 .. n})
  OBVIOUS
<1>2. ToSet(f) = {f[i] : i \in 1 .. n}
  BY DEF ToSet
<1> QED BY <1>1, <1>2

\* A sequence of sequences, each of its own members, flattens to their members.
LEMMA FlattenOwn ==
    ASSUME NEW n \in Nat, NEW ss, ss = [i \in 1 .. n |-> ss[i]], DOMAIN ss = 1 .. n,
           \A i \in 1 .. n : ss[i] \in Seq(ToSet(ss[i]))
    PROVE  /\ FlattenSeq(ss) \in Seq(ToSet(FlattenSeq(ss)))
           /\ ToSet(FlattenSeq(ss)) = UNION {ToSet(ss[i]) : i \in 1 .. n}
<1> DEFINE S == UNION {ToSet(ss[i]) : i \in 1 .. n}
<1>1. \A i \in 1 .. n : ss[i] \in Seq(S)
  <2> SUFFICES ASSUME NEW i \in 1 .. n PROVE ss[i] \in Seq(S)
    OBVIOUS
  <2>1. ToSet(ss[i]) \subseteq S
    OBVIOUS
  <2> HIDE DEF S
  <2> QED BY <2>1, OwnRange
<1> HIDE DEF S
<1>2. ss \in Seq(Seq(S)) /\ Len(ss) = n
  BY <1>1
<1>3. FlattenSeq(ss) \in Seq(S) /\ ToSet(FlattenSeq(ss)) = UNION {ToSet(ss[i]) : i \in 1 .. n}
  BY <1>2, FlattenRange
<1> QED BY <1>3, OwnRange

\* No member twice: what is left of such a sequence, and what joins to one.
LEMMA InjectiveTail ==
    ASSUME NEW S, NEW s \in Seq(S), s # <<>>, IsInjective(s)
    PROVE  IsInjective(Tail(s)) /\ Head(s) \notin ToSet(Tail(s))
<1> DEFINE t == Tail(s)
<1>1. /\ DOMAIN s = 1 .. Len(s) /\ Len(s) \in Nat \ {0} /\ Head(s) = s[1]
      /\ DOMAIN t = 1 .. (Len(s) - 1)
      /\ \A i \in 1 .. (Len(s) - 1) : t[i] = s[i + 1]
  OBVIOUS
<1> HIDE DEF t
<1>2. \A i \in DOMAIN t : i \in Int /\ i >= 1 /\ i + 1 \in DOMAIN s /\ t[i] = s[i + 1] /\ 1 \in DOMAIN s
  BY <1>1
<1>3. ASSUME NEW i \in DOMAIN t, NEW j \in DOMAIN t, t[i] = t[j] PROVE i = j
  <2>1. i + 1 = j + 1
    BY <1>2, <1>3 DEF IsInjective
  <2> QED BY <1>2, <2>1
<1>4. ASSUME NEW i \in DOMAIN t, t[i] = s[1] PROVE FALSE
  <2>1. i + 1 = 1
    BY <1>2, <1>4 DEF IsInjective
  <2> QED BY <1>2, <2>1
<1>5. IsInjective(t) /\ Head(s) \notin ToSet(t)
  BY <1>1, <1>3, <1>4 DEF IsInjective, ToSet
<1> QED BY <1>5 DEF t

\* Two sequences without repetition that share no member join to one.
LEMMA InjectiveConcat ==
    ASSUME NEW S, NEW s \in Seq(S), NEW t \in Seq(S), IsInjective(s), IsInjective(t),
           ToSet(s) \cap ToSet(t) = {}
    PROVE  IsInjective(s \o t)
<1>1. /\ DOMAIN s = 1 .. Len(s) /\ DOMAIN t = 1 .. Len(t) /\ Len(s) \in Nat /\ Len(t) \in Nat
      /\ DOMAIN (s \o t) = 1 .. (Len(s) + Len(t))
      /\ \A i \in 1 .. Len(s) + Len(t) : (s \o t)[i] = IF i <= Len(s) THEN s[i] ELSE t[i - Len(s)]
  BY ConcatProperties
<1> DEFINE st == s \o t
<1>2. \A i \in DOMAIN st : \/ i \in DOMAIN s /\ st[i] = s[i]
                           \/ i - Len(s) \in DOMAIN t /\ st[i] = t[i - Len(s)] /\ i \in Int /\ i \notin DOMAIN s
  BY <1>1
<1> HIDE DEF st
<1>3. \A i \in DOMAIN s, j \in DOMAIN t : s[i] # t[j]
  BY DEF ToSet
<1>4. ASSUME NEW i \in DOMAIN st, NEW j \in DOMAIN st, st[i] = st[j] PROVE i = j
  <2>1. CASE i \in DOMAIN s /\ st[i] = s[i]
    <3>1. j \in DOMAIN s /\ st[j] = s[j]
      BY <1>2, <1>3, <1>4, <2>1
    <3> QED BY <1>4, <2>1, <3>1 DEF IsInjective
  <2>2. CASE i - Len(s) \in DOMAIN t /\ st[i] = t[i - Len(s)] /\ i \in Int
    <3>1. j - Len(s) \in DOMAIN t /\ st[j] = t[j - Len(s)] /\ j \in Int
      BY <1>2, <1>3, <1>4, <2>2
    <3>2. i - Len(s) = j - Len(s)
      BY <1>4, <2>2, <3>1 DEF IsInjective
    <3> QED BY <1>1, <2>2, <3>1, <3>2
  <2> QED BY <1>2, <2>1, <2>2
<1> QED BY <1>4 DEF IsInjective, st

\* A new member at the end repeats nothing.
LEMMA InjectiveAppend ==
    ASSUME NEW S, NEW s \in Seq(S), NEW x \in S, IsInjective(s), x \notin ToSet(s)
    PROVE  IsInjective(Append(s, x))
<1>1. /\ DOMAIN s = 1 .. Len(s) /\ DOMAIN Append(s, x) = 1 .. (Len(s) + 1) /\ Len(s) \in Nat
      /\ \A i \in 1 .. Len(s) : Append(s, x)[i] = s[i]
      /\ Append(s, x)[Len(s) + 1] = x
  OBVIOUS
<1>2. \A i \in 1 .. Len(s) : s[i] # x
  BY <1>1 DEF ToSet
<1> QED BY <1>1, <1>2 DEF IsInjective

\* Sequences without repetition that share no member flatten to one.
LEMMA FlattenInjective ==
    ASSUME NEW S, NEW ss \in Seq(Seq(S)),
           \A i \in 1 .. Len(ss) : IsInjective(ss[i]),
           \A i, j \in 1 .. Len(ss) : i # j => ToSet(ss[i]) \cap ToSet(ss[j]) = {}
    PROVE  IsInjective(FlattenSeq(ss))
<1>2. Len(ss) \in Nat /\ \A i \in 1 .. Len(ss) : ss[i] \in Seq(S)
  OBVIOUS
<1>3. PICK f \in [0 .. Len(ss) -> Seq(S)] : Concatenates(f, ss, Len(ss)) /\ FlattenSeq(ss) = f[Len(ss)]
  BY FlattenSteps
<1> DEFINE Parts(m) == UNION {ToSet(ss[i]) : i \in 1 .. m}
           Good == {m \in 0 .. Len(ss) : ToSet(f[m]) = Parts(m) /\ IsInjective(f[m])}
<1>4. 0 \in Good
  <2>1. ToSet(<<>>) = {} /\ IsInjective(<<>>)
    BY DEF ToSet, IsInjective
  <2> QED BY <1>2, <1>3, <2>1 DEF Concatenates
<1>5. ASSUME NEW m \in 0 .. Len(ss), m < Len(ss), m \in Good PROVE m + 1 \in Good
  <2>0. m \in Nat /\ m < Len(ss)
    BY <1>2, <1>5
  <2>1. /\ m + 1 \in 1 .. Len(ss) /\ m + 1 \in 0 .. Len(ss) /\ m + 1 \notin 1 .. m
        /\ m + 1 \in 1 .. (m + 1) /\ 1 .. m \subseteq 1 .. Len(ss) /\ 1 .. m \subseteq 1 .. (m + 1)
    BY <1>2, <2>0
  <2>2. f[m + 1] = f[m] \o ss[m + 1]
    BY <1>3, <1>5 DEF Concatenates
  <2>3. f[m] \in Seq(S) /\ ss[m + 1] \in Seq(S)
    BY <1>2, <2>1
  <2>4. ToSet(f[m + 1]) = ToSet(f[m]) \cup ToSet(ss[m + 1])
    BY <2>2, <2>3, ConcatRange
  <2>5. Parts(m + 1) = Parts(m) \cup ToSet(ss[m + 1])
    <3> HIDE <1>5
    <3>1. \A i \in 1 .. (m + 1) : i \in 1 .. m \/ i = m + 1
      BY <2>0
    <3>3. Parts(m + 1) \subseteq Parts(m) \cup ToSet(ss[m + 1])
      BY <3>1
    <3>4. Parts(m) \subseteq Parts(m + 1) /\ ToSet(ss[m + 1]) \subseteq Parts(m + 1)
      BY <2>1
    <3> QED BY <3>3, <3>4
  <2>8. ToSet(f[m]) = Parts(m) /\ IsInjective(f[m])
    BY <1>5
  <2>9. \A i \in 1 .. m : ToSet(ss[i]) \cap ToSet(ss[m + 1]) = {}
    BY <2>1
  <2>6. ToSet(f[m]) \cap ToSet(ss[m + 1]) = {}
    BY <2>8, <2>9
  <2>7. IsInjective(f[m + 1])
    <3>1. IsInjective(f[m]) /\ IsInjective(ss[m + 1])
      BY <2>8, <2>1
    <3> QED BY <2>2, <2>3, <2>6, <3>1, InjectiveConcat
  <2>10. ToSet(f[m + 1]) = Parts(m + 1)
    BY <2>4, <2>5, <2>8
  <2> QED BY <2>1, <2>7, <2>10
<1>6. Len(ss) \in Good
  <2> HIDE DEF Good
  <2>1. \A m \in 0 .. Len(ss) : m \in Good
    BY <1>2, <1>4, <1>5, PrefixInduction
  <2> QED BY <1>2, <2>1
<1> QED BY <1>3, <1>6

\* Chosen takes its members from different positions.
LEMMA ChosenPositions ==
    ASSUME NEW S, NEW s \in Seq(S), NEW I
    PROVE  \E p : /\ DOMAIN p = DOMAIN Chosen(s, I) /\ IsInjective(p)
                  /\ \A k \in DOMAIN p : p[k] \in I \cap DOMAIN s /\ Chosen(s, I)[k] = s[p[k]]
<1>1. PICK f \in [0 .. Len(s) -> Seq(S)] : Chooses(f, s, I, Len(s)) /\ Chosen(s, I) = f[Len(s)]
  BY ChosenSteps
<1>n. Len(s) \in Nat /\ DOMAIN s = 1 .. Len(s) /\ \A i \in 1 .. Len(s) : s[i] \in S
  OBVIOUS
<1> DEFINE From(p, n) == /\ DOMAIN p = DOMAIN f[n] /\ IsInjective(p)
                         /\ \A k \in DOMAIN p : p[k] \in I \cap (1 .. n) /\ f[n][k] = s[p[k]]
           Good == {n \in 0 .. Len(s) : \E p : From(p, n)}
<1>2. 0 \in Good
  <2>1. f[0] = <<>> /\ DOMAIN f[0] = {}
    BY <1>1 DEF Chooses
  <2>2. From(<<>>, 0)
    BY <2>1 DEF IsInjective
  <2> QED BY <1>n, <2>2
<1>3. ASSUME NEW n \in 0 .. Len(s), n < Len(s), n \in Good PROVE n + 1 \in Good
  <2>1. n + 1 \in 1 .. Len(s) /\ n + 1 \in 0 .. Len(s) /\ 1 .. (n + 1) = (1 .. n) \cup {n + 1} /\ n + 1 \notin 1 .. n
    BY <1>n, <1>3
  <2>2. f[n + 1] = IF n + 1 \in I THEN Append(f[n], s[n + 1]) ELSE f[n]
    BY <1>1, <1>3 DEF Chooses
  <2>3. f[n] \in Seq(S) /\ s[n + 1] \in S
    BY <1>n, <2>1
  <2>4. PICK p : From(p, n)
    BY <1>3
  <2>5. CASE n + 1 \notin I
    <3>1. From(p, n + 1)
      BY <2>1, <2>2, <2>4, <2>5
    <3> QED BY <2>1, <3>1
  <2>6. CASE n + 1 \in I
    <3> DEFINE L == Len(f[n])
               q == [k \in 1 .. (L + 1) |-> IF k = L + 1 THEN n + 1 ELSE p[k]]
    <3>1. /\ DOMAIN f[n] = 1 .. L /\ L \in Nat /\ DOMAIN f[n + 1] = 1 .. (L + 1)
          /\ \A k \in 1 .. L : f[n + 1][k] = f[n][k]
          /\ f[n + 1][L + 1] = s[n + 1]
      BY <2>2, <2>3, <2>6
    <3>2. DOMAIN q = 1 .. (L + 1) /\ q[L + 1] = n + 1 /\ \A k \in 1 .. L : q[k] = p[k]
      BY <3>1
    <3>3. \A k \in 1 .. (L + 1) : k = L + 1 \/ k \in 1 .. L
      BY <3>1
    <3> HIDE DEF q, L
    <3>4. IsInjective(q)
      BY <2>1, <2>4, <3>1, <3>2, <3>3 DEF IsInjective
    <3>5. \A k \in DOMAIN q : q[k] \in I \cap (1 .. (n + 1)) /\ f[n + 1][k] = s[q[k]]
      BY <2>1, <2>4, <2>6, <3>1, <3>2, <3>3
    <3>6. From(q, n + 1)
      BY <3>1, <3>2, <3>4, <3>5
    <3> QED BY <2>1, <3>6
  <2> QED BY <2>5, <2>6
<1>4. Len(s) \in Good
  <2> HIDE DEF Good
  <2>1. \A n \in 0 .. Len(s) : n \in Good
    BY <1>n, <1>2, <1>3, PrefixInduction
  <2> QED BY <1>n, <2>1
<1> QED BY <1>1, <1>4, <1>n

\* The sequence of a finite set has its members, each once.
LEMMA SetAsSequence ==
    ASSUME NEW T, IsFiniteSet(T)
    PROVE  SetToSeq(T) \in Seq(T) /\ IsInjective(SetToSeq(T)) /\ ToSet(SetToSeq(T)) = T
<1> DEFINE n == Cardinality(T)
           s == SetToSeq(T)
<1>1. n \in Nat /\ ExistsBijection(1 .. n, T)
  BY FS_CardinalityType
<1>2. PICK f \in [1 .. n -> T] : IsInjective(f)
  BY <1>1 DEF ExistsBijection, Bijection, Injection
<1>3. s \in [1 .. n -> T] /\ IsInjective(s)
  BY <1>2 DEF SetToSeq
<1> HIDE DEF s
<1>4. s \in Injection(1 .. n, T)
  BY <1>3 DEF Injection
<1>5. IsFiniteSet(1 .. n) /\ Cardinality(1 .. n) = n
  BY <1>1, FS_Interval
<1>6. s \in Surjection(1 .. n, T)
  BY <1>4, <1>5, FS_Injection
<1>7. \A t \in T : \E i \in 1 .. n : s[i] = t
  BY <1>6 DEF Surjection
<1>8. ToSet(s) = T
  BY <1>3, <1>7 DEF ToSet
<1>9. s \in Seq(T)
  BY <1>1, <1>3
<1> QED BY <1>3, <1>8, <1>9 DEF s

\* The members of a sequence are finitely many; so are their images.
LEMMA ImageIsFinite ==
    ASSUME NEW S, NEW s \in Seq(S), NEW f, DOMAIN f = ToSet(s)
    PROVE  IsFiniteSet({f[x] : x \in ToSet(s)})
<1> DEFINE n == Len(s)
           T == {f[x] : x \in ToSet(s)}
           g == [i \in 1 .. n |-> f[s[i]]]
<1>1. n \in Nat /\ DOMAIN s = 1 .. n
  OBVIOUS
<1>2. ToSet(s) = {s[i] : i \in 1 .. n}
  BY <1>1 DEF ToSet
<1>3. g \in [1 .. n -> T] /\ \A t \in T : \E i \in 1 .. n : g[i] = t
  BY <1>2
<1>4. g \in Surjection(1 .. n, T)
  BY <1>3 DEF Surjection
<1>5. IsFiniteSet(1 .. n)
  BY <1>1, FS_Interval
<1> HIDE DEF g, T
<1>6. IsFiniteSet(T)
  BY <1>4, <1>5, FS_Surjection
<1> QED BY <1>6 DEF T

\* Every position of a concatenation comes from one of its parts.
LEMMA ConcatParts ==
    ASSUME NEW S, NEW s \in Seq(S), NEW t \in Seq(S)
    PROVE  /\ s \o t \in Seq(S)
           /\ \A i \in DOMAIN s : i \in DOMAIN (s \o t) /\ (s \o t)[i] = s[i]
           /\ \A i \in DOMAIN (s \o t) : i \in DOMAIN s \/ \E j \in DOMAIN t : (s \o t)[i] = t[j]
<1> DEFINE st == s \o t
<1>1. /\ DOMAIN s = 1 .. Len(s) /\ DOMAIN t = 1 .. Len(t) /\ Len(s) \in Nat /\ Len(t) \in Nat
      /\ st \in Seq(S) /\ DOMAIN st = 1 .. (Len(s) + Len(t))
      /\ \A i \in 1 .. Len(s) + Len(t) : st[i] = IF i <= Len(s) THEN s[i] ELSE t[i - Len(s)]
  BY ConcatProperties
<1> HIDE DEF st
<1>2. ASSUME NEW i \in DOMAIN st, i \notin DOMAIN s PROVE \E j \in DOMAIN t : st[i] = t[j]
  <2>1. i - Len(s) \in DOMAIN t /\ st[i] = t[i - Len(s)]
    BY <1>1, <1>2
  <2> QED BY <2>1
<1>3. \A i \in DOMAIN s : i \in DOMAIN st /\ st[i] = s[i]
  BY <1>1
<1> QED BY <1>1, <1>2, <1>3 DEF st

\* The least of a set of numbers is one of them.
LEMMA LeastPosition ==
    ASSUME NEW T, T \subseteq Nat, T # {}
    PROVE  Min(T) \in T /\ \A x \in T : Min(T) <= x
<1>1. PICK x \in T : \A y \in T : x <= y
  BY NatLeast
<1>2. Min(T) \in T /\ \A y \in T : Min(T) <= y
  BY <1>1 DEF Min
<1> QED BY <1>2

\* Choosing goes on where it stopped when a member is appended.
LEMMA ChosenAppend ==
    ASSUME NEW S, NEW s \in Seq(S), NEW x \in S, NEW I, NEW J,
           \A i \in 1 .. Len(s) : i \in I <=> i \in J
    PROVE  Chosen(Append(s, x), J) =
              IF Len(s) + 1 \in J THEN Append(Chosen(s, I), x) ELSE Chosen(s, I)
<1> DEFINE t == Append(s, x)
           N == Len(s)
<1>1. /\ N \in Nat /\ t \in Seq(S) /\ Len(t) = N + 1 /\ t[N + 1] = x
      /\ \A i \in 1 .. N : t[i] = s[i]
  OBVIOUS
<1>2. PICK f \in [0 .. N -> Seq(S)] : Chooses(f, s, I, N) /\ Chosen(s, I) = f[N]
  BY ChosenSteps
<1> HIDE DEF t, N
<1>3. PICK g \in [0 .. (N + 1) -> Seq(S)] : Chooses(g, t, J, N + 1) /\ Chosen(t, J) = g[N + 1]
  <2>1. \E g \in [0 .. Len(t) -> Seq(S)] : Chooses(g, t, J, Len(t)) /\ Chosen(t, J) = g[Len(t)]
    BY <1>1, ChosenSteps
  <2> QED BY <1>1, <2>1
<1> DEFINE Same == {n \in 0 .. N : f[n] = g[n]}
<1>4. 0 \in Same
  BY <1>1, <1>2, <1>3 DEF Chooses
<1>5. ASSUME NEW n \in 0 .. N, n < N, n \in Same PROVE n + 1 \in Same
  <2>1. n + 1 \in 0 .. N /\ n \in 0 .. (N + 1) /\ n < N + 1 /\ n + 1 \in 1 .. N
    BY <1>1, <1>5
  <2>2. f[n + 1] = IF n + 1 \in I THEN Append(f[n], s[n + 1]) ELSE f[n]
    BY <1>2, <1>5 DEF Chooses
  <2>3. g[n + 1] = IF n + 1 \in J THEN Append(g[n], t[n + 1]) ELSE g[n]
    BY <1>3, <2>1 DEF Chooses
  <2>4. (n + 1 \in I <=> n + 1 \in J) /\ t[n + 1] = s[n + 1]
    BY <1>1, <2>1 DEF N
  <2>5. f[n + 1] = g[n + 1]
    BY <1>5, <2>2, <2>3, <2>4
  <2> QED BY <2>1, <2>5
<1>6. f[N] = g[N]
  <2> HIDE DEF Same
  <2>1. \A n \in 0 .. N : n \in Same
    BY <1>1, <1>4, <1>5, PrefixInduction
  <2> QED BY <1>1, <2>1 DEF Same
<1>7. g[N + 1] = IF N + 1 \in J THEN Append(g[N], x) ELSE g[N]
  <2>1. N \in 0 .. (N + 1) /\ N < N + 1
    BY <1>1
  <2> QED BY <1>1, <1>3, <2>1 DEF Chooses
<1> QED BY <1>2, <1>3, <1>6, <1>7 DEF N, t

\* Nothing is chosen where no position is.
LEMMA ChosenNothing ==
    ASSUME NEW S, NEW s \in Seq(S), NEW I, I \cap DOMAIN s = {}
    PROVE  Chosen(s, I) = <<>>
<1> DEFINE d == Chosen(s, I)
<1>1. d \in Seq(S) /\ ToSet(d) = {s[i] : i \in I \cap DOMAIN s}
  BY ChosenRange
<1>2. ToSet(d) = {}
  BY <1>1
<1> HIDE DEF d
<1>3. DOMAIN d = 1 .. Len(d) /\ Len(d) \in Nat /\ (Len(d) = 0 => d = <<>>)
  BY <1>1
<1>4. \A i \in 1 .. Len(d) : FALSE
  BY <1>2, <1>3 DEF ToSet
<1> QED BY <1>3, <1>4 DEF d

-----------------------------------------------------------------------------
(* Sorting by counting.                                                     *)

\* R orders the positions 1 .. n strictly and totally.
Orders(R, n) ==
    /\ \A i \in 1 .. n : <<i, i>> \notin R
    /\ \A i, j \in 1 .. n : i # j => <<i, j>> \in R \/ <<j, i>> \in R
    /\ \A i, j, k \in 1 .. n : <<i, j>> \in R /\ <<j, k>> \in R => <<i, k>> \in R

\* The places that a strict order gives to n positions, the number of those
\* before it plus one, are the numbers from 1 to n.
LEMMA OrderHasPlaces ==
    ASSUME NEW n \in Nat, NEW R, Orders(R, n)
    PROVE  /\ \A i \in 1 .. n : Cardinality({j \in 1 .. n : <<j, i>> \in R}) + 1 \in 1 .. n
           /\ \A m \in 1 .. n : \E i \in 1 .. n : Cardinality({j \in 1 .. n : <<j, i>> \in R}) + 1 = m
<1> DEFINE D == 1 .. n
           Below(i) == {j \in D : <<j, i>> \in R}
           f == [i \in D |-> Cardinality(Below(i)) + 1]
<1>1. IsFiniteSet(D) /\ Cardinality(D) = n
  BY FS_Interval
<1>2. ASSUME NEW i \in D PROVE IsFiniteSet(Below(i)) /\ Cardinality(Below(i)) \in Nat /\ Cardinality(Below(i)) < n
  <2> DEFINE B == Below(i)
  <2>1. B \in SUBSET D /\ i \notin B /\ i \in D
    BY <1>2 DEF Orders
  <2> HIDE DEF B, D
  <2>2. IsFiniteSet(B) /\ Cardinality(B) <= n /\ (Cardinality(B) = n => B = D)
    BY <1>1, <2>1, FS_Subset
  <2>3. Cardinality(B) \in Nat
    BY <2>2, FS_CardinalityType
  <2>4. Cardinality(B) # n
    BY <2>1, <2>2
  <2> QED BY <2>2, <2>3, <2>4 DEF B
<1>3. f \in [D -> D]
  <2> HIDE DEF Below
  <2> QED BY <1>2
<1>4. ASSUME NEW i \in D, NEW k \in D, <<i, k>> \in R PROVE f[i] < f[k]
  <2>1. Below(i) \in SUBSET Below(k)
    BY <1>4 DEF Orders
  <2>2. i \in Below(k) /\ i \notin Below(i)
    BY <1>4 DEF Orders
  <2>3. f[i] = Cardinality(Below(i)) + 1 /\ f[k] = Cardinality(Below(k)) + 1
    OBVIOUS
  <2> DEFINE A == Below(i)
             B == Below(k)
  <2>4. IsFiniteSet(A) /\ Cardinality(A) \in Nat /\ IsFiniteSet(B) /\ Cardinality(B) \in Nat
    BY <1>2
  <2>5. A \in SUBSET B /\ A # B
    BY <2>1, <2>2
  <2> HIDE DEF A, B
  <2>6. Cardinality(A) <= Cardinality(B) /\ Cardinality(B) # Cardinality(A)
    BY <2>4, <2>5, FS_Subset
  <2>7. Cardinality(A) < Cardinality(B)
    BY <2>4, <2>6
  <2> HIDE DEF f
  <2> QED BY <2>3, <2>4, <2>7 DEF A, B
<1>5. f \in Injection(D, D)
  <2>1. \A i, k \in D : f[i] = f[k] => i = k
    <3>1. \A i, k \in D : i # k => <<i, k>> \in R \/ <<k, i>> \in R
      BY DEF Orders
    <3>2. \A i \in D : f[i] \in Nat
      BY <1>3
    <3> HIDE DEF f, D
    <3> TAKE i, k \in D
    <3>3. f[i] < f[k] => f[i] # f[k]
      BY <3>2
    <3>4. f[k] < f[i] => f[i] # f[k]
      BY <3>2
    <3> QED BY <1>4, <3>1, <3>3, <3>4
  <2> HIDE DEF f, D
  <2> QED BY <1>3, <2>1 DEF Injection, IsInjective
<1> HIDE DEF f, D
<1>6. f \in Surjection(D, D)
  BY <1>1, <1>5, FS_Injection
<1>7. \A m \in D : \E i \in D : f[i] = m
  BY <1>6 DEF Surjection
<1>8. \A i \in D : f[i] = Cardinality(Below(i)) + 1 /\ f[i] \in D
  BY <1>3 DEF f
<1> QED BY <1>7, <1>8 DEF D

\* What a sort makes of a list is the list, rearranged.
LEMMA ArrangedRange ==
    ASSUME NEW S, NEW s \in Seq(S), NEW R, Orders(R, Len(s))
    PROVE  /\ Arranged(s, R) \in Seq(S) /\ ToSet(Arranged(s, R)) = ToSet(s) /\ Len(Arranged(s, R)) = Len(s)
           /\ IsInjective(s) => IsInjective(Arranged(s, R))
<1> DEFINE n == Len(s)
           D == 1 .. n
           place(i) == Cardinality({j \in D : <<j, i>> \in R}) + 1
           c == [m \in D |-> CHOOSE i \in D : place(i) = m]
           a == Arranged(s, R)
<1>1. n \in Nat /\ DOMAIN s = D /\ \A i \in D : s[i] \in S
  OBVIOUS
<1>2. IsFiniteSet(D)
  BY <1>1, FS_Interval
<1>3. \A m \in D : \E i \in D : place(i) = m
  BY <1>1, OrderHasPlaces
<1>4. a = [m \in D |-> s[c[m]]]
  BY <1>1 DEF Arranged
<1> HIDE DEF place
<1>5. \A m \in D : c[m] \in D /\ place(c[m]) = m
  BY <1>3
<1> HIDE DEF c, a, n
<1>6. a \in Seq(S) /\ DOMAIN a = D /\ Len(a) = n
  <2>1. \A m \in D : s[c[m]] \in S
    BY <1>1, <1>5
  <2> QED BY <1>1, <1>4, <2>1
<1>7. \A m, k \in D : c[m] = c[k] => m = k
  BY <1>5
<1>8. \A i \in D : \E m \in D : c[m] = i
  <2> DEFINE f == [m \in D |-> c[m]]
  <2>1. f \in [D -> D] /\ \A m, k \in D : f[m] = f[k] => m = k
    BY <1>5, <1>7
  <2> HIDE DEF D
  <2>2. f \in Injection(D, D)
    <3>1. \A m, k \in DOMAIN f : f[m] = f[k] => m = k
      BY <2>1
    <3> QED BY <2>1, <3>1 DEF Injection, IsInjective
  <2>3. f \in Surjection(D, D)
    BY <1>2, <2>2, FS_Injection
  <2> QED BY <2>3 DEF Surjection
<1>9. ToSet(a) = ToSet(s)
  BY <1>1, <1>4, <1>5, <1>6, <1>8 DEF ToSet
<1>10. ASSUME IsInjective(s) PROVE IsInjective(a)
  <2>1. \A i, j \in D : s[i] = s[j] => i = j
    BY <1>1, <1>10 DEF IsInjective
  <2>2. \A m, k \in D : a[m] = a[k] => m = k
    BY <1>4, <1>5, <1>7, <2>1
  <2> QED BY <1>6, <2>2 DEF IsInjective
<1> QED BY <1>6, <1>9, <1>10 DEF a, n

\* A selection repeats nothing that the sequence does not repeat.
LEMMA ChosenInjective ==
    ASSUME NEW S, NEW s \in Seq(S), NEW I, IsInjective(s)
    PROVE  IsInjective(Chosen(s, I))
<1>1. PICK p : /\ DOMAIN p = DOMAIN Chosen(s, I) /\ IsInjective(p)
               /\ \A k \in DOMAIN p : p[k] \in I \cap DOMAIN s /\ Chosen(s, I)[k] = s[p[k]]
  BY ChosenPositions
<1> DEFINE d == Chosen(s, I)
<1> HIDE DEF d
<1>2. \A k, l \in DOMAIN d : d[k] = d[l] => k = l
  BY <1>1 DEF d, IsInjective
<1> QED BY <1>2 DEF IsInjective, d

\* An enumeration of a set has each of its members once.
LEMMA EnumerationRange ==
    ASSUME NEW T, IsFiniteSet(T), NEW ids \in SetToSeqs(T)
    PROVE  ids \in Seq(T) /\ IsInjective(ids) /\ ToSet(ids) = T
<1> DEFINE n == Cardinality(T)
           D == 1 .. n
<1>1. n \in Nat /\ IsFiniteSet(D) /\ Cardinality(D) = n
  BY FS_CardinalityType, FS_Interval
<1>2. ids \in [D -> T] /\ \A i, j \in D : i # j => ids[i] # ids[j]
  BY DEF SetToSeqs
<1>3. ids \in Injection(D, T) /\ IsInjective(ids)
  <2> HIDE DEF D
  <2>1. DOMAIN ids = D
    BY <1>2
  <2> QED BY <1>2, <2>1 DEF Injection, IsInjective
<1>4. ids \in Surjection(D, T)
  <2> HIDE DEF D
  <2> QED BY <1>1, <1>3, FS_Injection
<1>5. ids \in Seq(T) /\ DOMAIN ids = D
  BY <1>1, <1>2
<1>6. ToSet(ids) = T
  BY <1>2, <1>4, <1>5 DEF ToSet, Surjection
<1> QED BY <1>3, <1>5, <1>6

-----------------------------------------------------------------------------
(* Finite sets, and the sums over them.                                     *)

\* What the empty set has, and every set keeps when a member is added, every
\* finite set has.
LEMMA SetInduction ==
    ASSUME NEW S, IsFiniteSet(S), NEW Good, {} \in Good,
           \A T \in SUBSET S : \A x \in S \ T : T \in Good => T \cup {x} \in Good
    PROVE  S \in Good
<1> DEFINE n == Cardinality(S)
<1>1. n \in Nat /\ ExistsBijection(1 .. n, S)
  BY FS_CardinalityType
<1>2. PICK f \in [1 .. n -> S] : IsInjective(f) /\ \A x \in S : \E i \in 1 .. n : f[i] = x
  BY <1>1 DEF ExistsBijection, Bijection, Injection, Surjection
<1> HIDE DEF n
<1> DEFINE First(k) == {f[i] : i \in 1 .. k}
           Reached == {k \in 0 .. n : First(k) \in Good}
<1>3. 0 \in Reached
  <2>1. First(0) = {} /\ 0 \in 0 .. n
    BY <1>1
  <2> HIDE DEF First
  <2> QED BY <2>1
<1>4. ASSUME NEW k \in 0 .. n, k < n, k \in Reached PROVE k + 1 \in Reached
  <2>1. k + 1 \in 1 .. n /\ k + 1 \in 0 .. n /\ k \in Nat
    BY <1>1, <1>4
  <2>2. 1 .. (k + 1) = (1 .. k) \cup {k + 1}
    BY <2>1
  <2>3. First(k + 1) = First(k) \cup {f[k + 1]}
    BY <2>2
  <2>4. First(k) \in SUBSET S
    <3>1. \A i \in 1 .. k : i \in 1 .. n
      BY <1>1, <1>4
    <3>2. \A i \in 1 .. k : f[i] \in S
      BY <1>2, <3>1
    <3> QED BY <3>2
  <2>5. f[k + 1] \in S \ First(k)
    <3>1. ASSUME NEW i \in 1 .. k PROVE f[i] # f[k + 1]
      <4>1. i \in 1 .. n /\ k + 1 \in 1 .. n /\ i # k + 1
        BY <1>1, <1>4, <2>1
      <4>2. \A a, b \in DOMAIN f : f[a] = f[b] => a = b
        BY <1>2 DEF IsInjective
      <4> QED BY <4>1, <4>2
    <3> QED BY <1>2, <2>1, <3>1
  <2>6. First(k) \in Good
    BY <1>4
  <2> HIDE DEF First
  <2>7. First(k) \cup {f[k + 1]} \in Good
    BY <2>4, <2>5, <2>6
  <2> QED BY <2>1, <2>3, <2>7
<1>5. n \in Reached
  <2> HIDE DEF Reached
  <2>1. \A k \in 0 .. n : k \in Reached
    BY <1>1, <1>3, <1>4, PrefixInduction
  <2> QED BY <1>1, <2>1
<1>6. First(n) = S
  BY <1>2
<1> QED BY <1>5, <1>6

\* A strict order on a finite set that is not empty has a maximal member.
LEMMA MaximalMember ==
    ASSUME NEW S, IsFiniteSet(S), S # {}, NEW R,
           \A x \in S : <<x, x>> \notin R,
           \A x, y, z \in S : <<x, y>> \in R /\ <<y, z>> \in R => <<x, z>> \in R
    PROVE  \E m \in S : \A x \in S : <<m, x>> \notin R
<1> DEFINE Good == {T \in SUBSET S : T = {} \/ \E m \in T : \A x \in T : <<m, x>> \notin R}
<1>1. {} \in Good
  OBVIOUS
<1>2. ASSUME NEW T \in SUBSET S, NEW x \in S \ T, T \in Good PROVE T \cup {x} \in Good
  <2>1. CASE T = {}
    BY <2>1
  <2>2. CASE T # {}
    <3>1. PICK m \in T : \A y \in T : <<m, y>> \notin R
      BY <1>2, <2>2
    <3>2. CASE <<m, x>> \notin R
      BY <3>1, <3>2
    <3>3. CASE <<m, x>> \in R
      <4>1. ASSUME NEW y \in T, <<x, y>> \in R PROVE FALSE
        BY <3>1, <3>3, <4>1
      <4> QED BY <4>1
    <3> QED BY <3>2, <3>3
  <2> QED BY <2>1, <2>2
<1>3. S \in Good
  <2> HIDE DEF Good
  <2> QED BY <1>1, <1>2, SetInduction
<1> QED BY <1>3

\* The sums over the sets of a family.
Summing(h, f, family) ==
    \A T \in family : h[T] = IF T = {} THEN 0 ELSE LET x == CHOOSE x \in T : TRUE IN f[x] + h[T \ {x}]

\* The recursion by which a sum is defined.
Sums(h, f, S) ==
    h = [T \in SUBSET S |-> IF T = {} THEN 0 ELSE LET x == CHOOSE x \in T : TRUE IN f[x] + h[T \ {x}]]

LEMMA SumsExist ==
    ASSUME NEW f, NEW S, IsFiniteSet(S)
    PROVE  \E h : Sums(h, f, S)
<1> DEFINE N == Cardinality(S)
           Upto(k) == {T \in SUBSET S : Cardinality(T) <= k}
           next(h, T) == IF T = {} THEN 0 ELSE LET x == CHOOSE x \in T : TRUE IN f[x] + h[T \ {x}]
           Rec(h, k) == h = [T \in Upto(k) |-> next(h, T)]
           Good == {k \in 0 .. N : \E h : Rec(h, k)}
<1>n. N \in Nat
  BY FS_CardinalityType
<1>f. ASSUME NEW T \in SUBSET S
      PROVE  /\ Cardinality(T) \in Nat /\ Cardinality(T) <= N
             /\ (Cardinality(T) = 0) <=> (T = {})
             /\ \A x \in T : Cardinality(T \ {x}) = Cardinality(T) - 1
  <2>1. IsFiniteSet(T) /\ Cardinality(T) <= N
    BY FS_Subset
  <2> QED BY <2>1, FS_CardinalityType, FS_EmptySet, FS_RemoveElement
<1> HIDE DEF N
<1>1. 0 \in Good
  <2>1. \A T \in Upto(0) : T = {}
    BY <1>f
  <2> DEFINE h == [T \in Upto(0) |-> 0]
  <2>2. \A T \in Upto(0) : next(h, T) = 0
    BY <2>1
  <2> HIDE DEF next
  <2>3. Rec(h, 0)
    BY <2>2
  <2> HIDE DEF Rec, h
  <2> QED BY <1>n, <2>3
<1>2. ASSUME NEW k \in 0 .. N, k < N, k \in Good PROVE k + 1 \in Good
  <2>1. PICK h : Rec(h, k)
    BY <1>2
  <2> DEFINE g == [T \in Upto(k + 1) |-> next(h, T)]
  <2>k. k \in Nat /\ k + 1 \in 0 .. N
    BY <1>n, <1>2
  <2>2. ASSUME NEW T \in Upto(k) PROVE g[T] = h[T]
    <3>1. T \in Upto(k + 1)
      BY <1>f, <2>k
    <3>2. h[T] = next(h, T)
      <4> HIDE DEF next, Upto
      <4> QED BY <2>1
    <3> HIDE DEF next, Upto
    <3> QED BY <3>1, <3>2
  <2>3. ASSUME NEW T \in Upto(k + 1) PROVE next(g, T) = next(h, T)
    <3>1. CASE T = {}
      BY <3>1
    <3>2. CASE T # {}
      <4> DEFINE x == CHOOSE x \in T : TRUE
      <4>1. x \in T
        BY <3>2
      <4> HIDE DEF x
      <4>2. T \ {x} \in Upto(k)
        BY <1>f, <2>k, <4>1
      <4>3. g[T \ {x}] = h[T \ {x}]
        BY <2>2, <4>2
      <4> HIDE DEF g
      <4> QED BY <3>2, <4>3 DEF x
    <3> QED BY <3>1, <3>2
  <2>4. Rec(g, k + 1)
    <3> HIDE DEF next, Upto
    <3> QED BY <2>3
  <2> HIDE DEF Rec
  <2> QED BY <2>k, <2>4
<1>3. N \in Good
  <2> HIDE DEF Good
  <2>1. \A k \in 0 .. N : k \in Good
    BY <1>n, <1>1, <1>2, PrefixInduction
  <2> QED BY <1>n, <2>1
<1>4. Upto(N) = SUBSET S
  BY <1>f
<1>5. PICK h : Rec(h, N)
  BY <1>3
<1>6. h = [T \in SUBSET S |-> next(h, T)]
  <2> HIDE DEF next, Upto
  <2> QED BY <1>4, <1>5
<1> QED BY <1>6 DEF Sums

LEMMA SumSolves ==
    ASSUME NEW f, NEW S, IsFiniteSet(S)
    PROVE  \E h : Summing(h, f, SUBSET S) /\ SumFunctionOnSet(f, S) = h[S]
<1> DEFINE next(h, T) == IF T = {} THEN 0 ELSE LET x == CHOOSE x \in T : TRUE IN f[x] + h[T \ {x}]
           h0 == CHOOSE h : Sums(h, f, S)
<1>1. Sums(h0, f, S)
  BY SumsExist
<1>2. SumFunctionOnSet(f, S) = h0[S]
  BY DEF SumFunctionOnSet, FoldFunctionOnSet, MapThenFoldSet, Sums
<1> HIDE DEF h0
<1>3. \A T \in SUBSET S : h0[T] = next(h0, T)
  <2>1. h0 = [T \in SUBSET S |-> next(h0, T)]
    BY <1>1 DEF Sums
  <2> HIDE DEF next
  <2> QED BY <2>1
<1>4. Summing(h0, f, SUBSET S)
  BY <1>3 DEF Summing
<1> QED BY <1>2, <1>4

\* Two solutions agree where both are defined.
LEMMA SumsAgree ==
    ASSUME NEW f, NEW S, IsFiniteSet(S), NEW g, NEW h, Summing(g, f, SUBSET S), Summing(h, f, SUBSET S)
    PROVE  g[S] = h[S]
<1> DEFINE N == Cardinality(S)
           Good == {k \in 0 .. N : \A T \in SUBSET S : Cardinality(T) = k => g[T] = h[T]}
<1>n. N \in Nat
  BY FS_CardinalityType
<1>f. ASSUME NEW T \in SUBSET S
      PROVE  /\ Cardinality(T) \in Nat
             /\ (Cardinality(T) = 0) <=> (T = {})
             /\ \A x \in T : Cardinality(T \ {x}) = Cardinality(T) - 1
  <2>1. IsFiniteSet(T)
    BY FS_Subset
  <2> QED BY <2>1, FS_CardinalityType, FS_EmptySet, FS_RemoveElement
<1>1. 0 \in Good
  <2>1. g[{}] = 0 /\ h[{}] = 0
    BY DEF Summing
  <2>2. \A T \in SUBSET S : Cardinality(T) = 0 => g[T] = h[T]
    BY <1>f, <2>1
  <2> QED BY <1>n, <2>2
<1>2. ASSUME NEW k \in 0 .. N, k < N, k \in Good PROVE k + 1 \in Good
  <2>1. ASSUME NEW T \in SUBSET S, Cardinality(T) = k + 1 PROVE g[T] = h[T]
    <3> DEFINE x == CHOOSE x \in T : TRUE
    <3>1. T # {}
      BY <1>f, <2>1
    <3>2. x \in T
      BY <3>1
    <3>3. g[T] = f[x] + g[T \ {x}] /\ h[T] = f[x] + h[T \ {x}]
      BY <3>1 DEF Summing
    <3> HIDE DEF x
    <3>4. Cardinality(T \ {x}) = k /\ T \ {x} \in SUBSET S
      BY <1>f, <2>1, <3>2
    <3>5. g[T \ {x}] = h[T \ {x}]
      BY <1>2, <3>4
    <3> QED BY <3>3, <3>5
  <2>2. k + 1 \in 0 .. N
    BY <1>n, <1>2
  <2> QED BY <2>1, <2>2
<1>3. N \in Good
  <2> HIDE DEF Good
  <2>1. \A k \in 0 .. N : k \in Good
    <3> HIDE DEF N
    <3> QED BY <1>n, <1>1, <1>2, PrefixInduction
  <2> QED BY <1>n, <2>1
<1> QED BY <1>3

LEMMA SumNothing == \A f : SumFunctionOnSet(f, {}) = 0
<1> TAKE f
<1>1. PICK h : Summing(h, f, SUBSET {}) /\ SumFunctionOnSet(f, {}) = h[{}]
  BY SumSolves, FS_EmptySet
<1>2. {} \in SUBSET {}
  OBVIOUS
<1> QED BY <1>1, <1>2 DEF Summing

\* A sum is its chosen member's and the sum of the others.
LEMMA SumFirst ==
    ASSUME NEW f, NEW S, IsFiniteSet(S), S # {}
    PROVE  \E x \in S : SumFunctionOnSet(f, S) = f[x] + SumFunctionOnSet(f, S \ {x})
<1> DEFINE x == CHOOSE x \in S : TRUE
<1>1. x \in S
  OBVIOUS
<1>2. PICK h : Summing(h, f, SUBSET S) /\ SumFunctionOnSet(f, S) = h[S]
  BY SumSolves
<1>3. h[S] = f[x] + h[S \ {x}]
  BY <1>2 DEF Summing
<1> HIDE DEF x
<1>4. IsFiniteSet(S \ {x}) /\ SUBSET (S \ {x}) \subseteq SUBSET S
  BY FS_RemoveElement
<1>5. PICK g : Summing(g, f, SUBSET (S \ {x})) /\ SumFunctionOnSet(f, S \ {x}) = g[S \ {x}]
  BY <1>4, SumSolves
<1>6. Summing(h, f, SUBSET (S \ {x}))
  BY <1>2, <1>4 DEF Summing
<1>7. g[S \ {x}] = h[S \ {x}]
  BY <1>4, <1>5, <1>6, SumsAgree
<1> QED BY <1>1, <1>2, <1>3, <1>5, <1>7

\* A sum of whole numbers is one, and any member may be taken out of it.
Splits(f, T) ==
    /\ SumFunctionOnSet(f, T) \in Int
    /\ \A x \in T : SumFunctionOnSet(f, T) = f[x] + SumFunctionOnSet(f, T \ {x})

LEMMA SumSplits ==
    ASSUME NEW f, NEW S, IsFiniteSet(S), \A x \in S : f[x] \in Int
    PROVE  \A T \in SUBSET S : Splits(f, T)
<1> DEFINE N == Cardinality(S)
           Good == {k \in 0 .. N : \A T \in SUBSET S : Cardinality(T) <= k => Splits(f, T)}
<1>n. N \in Nat
  BY FS_CardinalityType
<1>f. ASSUME NEW T \in SUBSET S
      PROVE  /\ IsFiniteSet(T) /\ Cardinality(T) \in 0 .. N
             /\ (Cardinality(T) = 0) <=> (T = {})
             /\ \A x \in T : Cardinality(T \ {x}) = Cardinality(T) - 1
  <2>1. IsFiniteSet(T) /\ Cardinality(T) <= N
    BY FS_Subset
  <2>2. Cardinality(T) \in Nat
    BY <2>1, FS_CardinalityType
  <2> QED BY <1>n, <2>1, <2>2, FS_EmptySet, FS_RemoveElement
<1> HIDE DEF N
<1>1. 0 \in Good
  <2>1. ASSUME NEW T \in SUBSET S, Cardinality(T) <= 0 PROVE Splits(f, T)
    <3>1. T = {}
      BY <1>f, <1>n, <2>1
    <3> QED BY <3>1, SumNothing DEF Splits
  <2> QED BY <1>n, <2>1
<1>2. ASSUME NEW k \in 0 .. N, k < N, k \in Good PROVE k + 1 \in Good
  <2>1. ASSUME NEW T \in SUBSET S, Cardinality(T) <= k + 1, T # {} PROVE Splits(f, T)
    <3>1. T # {} /\ IsFiniteSet(T)
      BY <1>f, <2>1
    <3>2. PICK z \in T : SumFunctionOnSet(f, T) = f[z] + SumFunctionOnSet(f, T \ {z})
      BY <3>1, SumFirst
    <3>3. ASSUME NEW y \in T PROVE Splits(f, T \ {y})
      <4>1. Cardinality(T \ {y}) <= k /\ T \ {y} \in SUBSET S
        BY <1>f, <1>n, <1>2, <2>1
      <4> QED BY <1>2, <4>1
    <3>4. SumFunctionOnSet(f, T) \in Int
      BY <3>2, <3>3 DEF Splits
    <3>5. ASSUME NEW y \in T, y # z
          PROVE  SumFunctionOnSet(f, T) = f[y] + SumFunctionOnSet(f, T \ {y})
      <4>1. (T \ {z}) \ {y} = (T \ {y}) \ {z}
        OBVIOUS
      <4>2. /\ SumFunctionOnSet(f, T \ {z}) = f[y] + SumFunctionOnSet(f, (T \ {z}) \ {y})
            /\ SumFunctionOnSet(f, T \ {y}) = f[z] + SumFunctionOnSet(f, (T \ {y}) \ {z})
        BY <3>3, <3>5 DEF Splits
      <4>3. SumFunctionOnSet(f, (T \ {z}) \ {y}) \in Int
        <5>1. T \ {z} \in SUBSET S /\ (T \ {z}) \ {y} \in SUBSET S
          OBVIOUS
        <5>2. Cardinality(T \ {z}) = Cardinality(T) - 1 /\ Cardinality(T) \in 0 .. N
          BY <1>f
        <5>3. y \in T \ {z}
          BY <3>5
        <5>4. Cardinality((T \ {z}) \ {y}) = Cardinality(T \ {z}) - 1
          BY <1>f, <5>1, <5>3
        <5>5. Cardinality((T \ {z}) \ {y}) <= k
          BY <1>n, <1>2, <2>1, <5>2, <5>4
        <5> QED BY <1>2, <5>1, <5>5 DEF Splits
      <4>4. f[y] \in Int /\ f[z] \in Int
        OBVIOUS
      <4>5. PICK rest : rest = SumFunctionOnSet(f, (T \ {z}) \ {y})
        OBVIOUS
      <4>6. SumFunctionOnSet(f, T \ {z}) = f[y] + rest /\ SumFunctionOnSet(f, T \ {y}) = f[z] + rest
        BY <4>1, <4>2, <4>5
      <4>7. rest \in Int
        BY <4>3, <4>5
      <4> QED BY <3>2, <4>4, <4>6, <4>7
    <3> QED BY <3>2, <3>4, <3>5 DEF Splits
  <2>2. k + 1 \in 0 .. N
    BY <1>n, <1>2
  <2>3. \A T \in SUBSET S : Cardinality(T) <= k + 1 => Splits(f, T)
    <3>1. Splits(f, {})
      BY SumNothing DEF Splits
    <3> QED BY <2>1, <3>1
  <2> QED BY <2>2, <2>3
<1>3. \A k \in 0 .. N : k \in Good
  <2> HIDE DEF Good
  <2> QED BY <1>n, <1>1, <1>2, PrefixInduction
<1>4. N \in Good
  <2> HIDE DEF Good
  <2> QED BY <1>3, <1>n
<1> QED BY <1>4, <1>f

LEMMA SumType ==
    ASSUME NEW f, NEW S, IsFiniteSet(S), \A x \in S : f[x] \in Int
    PROVE  SumFunctionOnSet(f, S) \in Int
<1> QED BY SumSplits DEF Splits

LEMMA SumAdd ==
    ASSUME NEW f, NEW S, IsFiniteSet(S), NEW x, x \notin S, \A y \in S \cup {x} : f[y] \in Int
    PROVE  SumFunctionOnSet(f, S \cup {x}) = f[x] + SumFunctionOnSet(f, S)
<1>1. IsFiniteSet(S \cup {x}) /\ (S \cup {x}) \ {x} = S
  BY FS_AddElement
<1>2. Splits(f, S \cup {x})
  BY <1>1, SumSplits
<1> QED BY <1>1, <1>2 DEF Splits

\* What is added up decides the sum.
LEMMA SumSame ==
    ASSUME NEW f, NEW g, NEW S, IsFiniteSet(S), \A x \in S : f[x] \in Int /\ g[x] = f[x]
    PROVE  SumFunctionOnSet(g, S) = SumFunctionOnSet(f, S)
<1> DEFINE Good == {T \in SUBSET S : SumFunctionOnSet(g, T) = SumFunctionOnSet(f, T)}
<1>1. {} \in Good
  BY SumNothing
<1>2. ASSUME NEW T \in SUBSET S, NEW x \in S \ T, T \in Good PROVE T \cup {x} \in Good
  <2>1. IsFiniteSet(T)
    BY FS_Subset
  <2>2. /\ SumFunctionOnSet(f, T \cup {x}) = f[x] + SumFunctionOnSet(f, T)
        /\ SumFunctionOnSet(g, T \cup {x}) = g[x] + SumFunctionOnSet(g, T)
    BY <2>1, SumAdd
  <2> QED BY <1>2, <2>2
<1>3. S \in Good
  <2> HIDE DEF Good
  <2> QED BY <1>1, <1>2, SetInduction
<1> QED BY <1>3

\* A sum of differences is the difference of the sums.
LEMMA SumMinus ==
    ASSUME NEW f, NEW g, NEW h, NEW S, IsFiniteSet(S),
           \A x \in S : f[x] \in Int /\ g[x] \in Int /\ h[x] = f[x] - g[x]
    PROVE  SumFunctionOnSet(h, S) = SumFunctionOnSet(f, S) - SumFunctionOnSet(g, S)
<1> DEFINE Good == {T \in SUBSET S : SumFunctionOnSet(h, T) = SumFunctionOnSet(f, T) - SumFunctionOnSet(g, T)}
<1>1. {} \in Good
  BY SumNothing
<1>2. ASSUME NEW T \in SUBSET S, NEW x \in S \ T, T \in Good PROVE T \cup {x} \in Good
  <2>1. IsFiniteSet(T)
    BY FS_Subset
  <2>2. /\ SumFunctionOnSet(f, T \cup {x}) = f[x] + SumFunctionOnSet(f, T)
        /\ SumFunctionOnSet(g, T \cup {x}) = g[x] + SumFunctionOnSet(g, T)
        /\ SumFunctionOnSet(h, T \cup {x}) = h[x] + SumFunctionOnSet(h, T)
    BY <2>1, SumAdd
  <2>3. SumFunctionOnSet(f, T) \in Int /\ SumFunctionOnSet(g, T) \in Int
    BY <2>1, SumType
  <2> QED BY <1>2, <2>2, <2>3
<1>3. S \in Good
  <2> HIDE DEF Good
  <2> QED BY <1>1, <1>2, SetInduction
<1> QED BY <1>3

\* Members that count for nothing may be left out.
LEMMA SumDrop ==
    ASSUME NEW f, NEW S, IsFiniteSet(S), NEW U \in SUBSET S, \A x \in S : f[x] \in Int, \A x \in S \ U : f[x] = 0
    PROVE  SumFunctionOnSet(f, S) = SumFunctionOnSet(f, U)
<1> DEFINE Good == {T \in SUBSET S : SumFunctionOnSet(f, T) = SumFunctionOnSet(f, T \cap U)}
<1>1. {} \in Good
  <2>1. {} \cap U = {}
    OBVIOUS
  <2> QED BY <2>1
<1>2. ASSUME NEW T \in SUBSET S, NEW x \in S \ T, T \in Good PROVE T \cup {x} \in Good
  <2>1. IsFiniteSet(T) /\ IsFiniteSet(T \cap U)
    BY FS_Subset
  <2>2. SumFunctionOnSet(f, T \cup {x}) = f[x] + SumFunctionOnSet(f, T)
    BY <2>1, SumAdd
  <2>3. SumFunctionOnSet(f, T) \in Int
    BY <2>1, SumType
  <2>4. CASE x \in U
    <3>1. (T \cup {x}) \cap U = (T \cap U) \cup {x} /\ x \notin T \cap U
      BY <2>4
    <3>2. SumFunctionOnSet(f, (T \cap U) \cup {x}) = f[x] + SumFunctionOnSet(f, T \cap U)
      BY <2>1, <3>1, SumAdd
    <3> QED BY <1>2, <2>2, <3>1, <3>2
  <2>5. CASE x \notin U
    <3>1. (T \cup {x}) \cap U = T \cap U /\ f[x] = 0
      BY <2>5
    <3>2. SumFunctionOnSet(f, T \cup {x}) = SumFunctionOnSet(f, T)
      BY <2>2, <2>3, <3>1
    <3>3. SumFunctionOnSet(f, T \cup {x}) = SumFunctionOnSet(f, (T \cup {x}) \cap U)
      BY <1>2, <3>1, <3>2
    <3> QED BY <3>3
  <2> QED BY <2>4, <2>5
<1>3. S \in Good
  <2> HIDE DEF Good
  <2> QED BY <1>1, <1>2, SetInduction
<1>4. S \cap U = U
  OBVIOUS
<1> QED BY <1>3, <1>4

\* A sum of nothings is nothing.
LEMMA SumOfZeros ==
    ASSUME NEW f, NEW S, IsFiniteSet(S), \A x \in S : f[x] = 0
    PROVE  SumFunctionOnSet(f, S) = 0
<1>1. SumFunctionOnSet(f, S) = SumFunctionOnSet(f, {})
  BY SumDrop
<1> QED BY <1>1, SumNothing
=============================================================================
