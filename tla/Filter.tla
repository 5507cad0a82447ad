--------------------------------- MODULE Filter ---------------------------------
(***************************************************************************)
(* Leaving elements out of a sequence, as loops that skip, list             *)
(* comprehensions and WHERE clauses do.  SelectSeq says the same by         *)
(* recursion over the sequence; the form used here names the places that    *)
(* stay, which is what the proofs reason about.                             *)
(***************************************************************************)
EXTENDS Naturals, Sequences, FiniteSets

(* How many of the places in I are not after i.                             *)
Rank(I, i) == Cardinality({j \in I : j <= i})

Place(I, k) == CHOOSE i \in I : Rank(I, i) = k

(* The elements of s at the places in I, in their order.                    *)
At(s, I) == [k \in 1 .. Cardinality(I) |-> s[Place(I, k)]]

================================================================================
