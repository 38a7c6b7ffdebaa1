-------------------------- MODULE MC_RayClusterPods --------------------------
(* Small instances of RayClusterPods: some head names, and some worker      *)
(* names of one group.                                                      *)
EXTENDS RayClusterPods, TLC

CONSTANTS h1, h2, h3, w1, w2, w3

HeadNamesOf == {h1, h2, h3}
MCGroupOf == [p \in Pods |-> IF p \in HeadNamesOf THEN "headgroup" ELSE "wg"]

\* The names of a group are interchangeable.
MCSymmetry ==
    Permutations(Pods \cap HeadNamesOf) \cup Permutations(Pods \ HeadNamesOf)

=============================================================================
