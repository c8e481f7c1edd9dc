------------------------------ MODULE Filtering ------------------------------
(***************************************************************************)
(* What stays of a sequence when only some values are kept.  The built-in  *)
(* SelectSeq says the same of a predicate; this form takes a set and is    *)
(* defined by a recursive function, which proofs can unfold.  So is        *)
(* Joined, which says the same as FlattenSeq of the community modules.     *)
(***************************************************************************)
EXTENDS Naturals, Sequences

\* The elements of s that are in T, in their order.
Only(s, T) ==
    LET kept[i \in 0..Len(s)] ==
            IF i = 0 THEN <<>>
            ELSE IF s[i] \in T THEN Append(kept[i - 1], s[i]) ELSE kept[i - 1]
    IN  kept[Len(s)]

\* The sequences of ss, one after the other.
Joined(ss) ==
    LET joined[i \in 0..Len(ss)] ==
            IF i = 0 THEN <<>> ELSE joined[i - 1] \o ss[i]
    IN  joined[Len(ss)]
=============================================================================
