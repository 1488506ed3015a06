-------------------------- MODULE MCLoadFulfilment --------------------------
(* Values for the constants of LoadFulfilment that a .cfg cannot write.      *)
EXTENDS LoadFulfilment, TLC

CONSTANTS v1, v2, d1, d2

\* Loads of half the order each.
MCHalves == [l \in Loads |-> 50]

\* One load of the whole order.
MCWhole == [l \in Loads |-> 100]

\* Each mixer has its driver ...
MCFixedPairs == {<<v1, d1>>, <<v2, d2>>}
\* ... or one driver is planned on both.
MCOneDriver == {<<v1, d1>>, <<v2, d1>>}

\* Loads and requests are interchangeable: no formula that is checked under it
\* names one.
MCSymmetry == Permutations(Loads) \union Permutations(Calls)
=============================================================================
