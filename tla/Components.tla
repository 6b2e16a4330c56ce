------------------------------ MODULE Components ------------------------------
(****************************************************************************)
(* What _union_find of src/hrm_adaptive_memory/memory_write/consolidation.py*)
(* computes: the clusters of names that a set of edges connects.            *)
(****************************************************************************)
EXTENDS Naturals, FiniteSets

\* The smallest set of names that holds name and is closed under the edges.
Component(edges, nodes, name) ==
    {m \in nodes :
        \A S \in SUBSET nodes :
            (name \in S /\ \A e \in edges : e[1] \in S <=> e[2] \in S) => m \in S}

\* Only clusters of several names are reported.
Clusters(edges, nodes) ==
    {K \in {Component(edges, nodes, n) : n \in nodes} : Cardinality(K) > 1}

=============================================================================
