------------------------------- MODULE Places -------------------------------
(***************************************************************************)
(* Parts of a sequence given by a set of places: what SelectSeq selects    *)
(* with a test, Pick selects with the set of the places that pass it.      *)
(***************************************************************************)
EXTENDS Integers, FiniteSets, Sequences

\* How many places of S come up to i: the number of i, when i is one of them.
Rank(S, i) == Cardinality({j \in S : j <= i})

\* The r-th place of S.
Place(S, r) == CHOOSE i \in S : Rank(S, i) = r

\* The elements of s at the places in S, in order.
Pick(s, S) == [r \in 1 .. Cardinality(S) |-> s[Place(S, r)]]
=============================================================================
