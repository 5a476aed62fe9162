-------------------------------- MODULE Places --------------------------------
(***************************************************************************)
(* Orders of finite sets, and parts of sequences: what SetToSortSeq and    *)
(* SelectSeq compute, defined without recursion and without a choice among *)
(* permutations, so that theorems can be proved about what uses them.      *)
(***************************************************************************)
EXTENDS Integers, FiniteSets

\* The elements of S as a sequence; no two of them have the same key.
InOrder(S, key) ==
    [n \in 1..Cardinality(S) |->
        CHOOSE x \in S : Cardinality({y \in S : key[y] < key[x]}) = n - 1]

\* The elements of a sequence at some of its places, in their order.
Taken(seq, places) ==
    LET order == InOrder(places, [i \in places |-> i])
    IN [n \in DOMAIN order |-> seq[order[n]]]

=============================================================================
