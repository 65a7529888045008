------------------------------ MODULE Selections ------------------------------
(***************************************************************************)
(* What Python's list comprehensions with a condition keep of a list.  The   *)
(* prover knows nothing of SelectSeq, whose argument is an operator; here    *)
(* the condition is the set of the positions that fulfil it.  In the same    *)
(* way, what sorted() makes of a list goes by a relation on the positions.   *)
(***************************************************************************)
EXTENDS Integers, Sequences, FiniteSets

\* The members of s at the positions in I, in their order.
Chosen(s, I) ==
    LET kept[n \in 0 .. Len(s)] ==
            IF n = 0 THEN <<>>
            ELSE IF n \in I THEN Append(kept[n - 1], s[n]) ELSE kept[n - 1]
    IN kept[Len(s)]

\* The members of s in the order of R, a strict order of the positions of s.
Arranged(s, R) ==
    LET place(i) == Cardinality({j \in DOMAIN s : <<j, i>> \in R}) + 1
    IN [n \in DOMAIN s |-> s[CHOOSE i \in DOMAIN s : place(i) = n]]

=============================================================================
