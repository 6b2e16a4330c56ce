------------------------------- MODULE UnionFind -------------------------------
(****************************************************************************)
(* _union_find of src/hrm_adaptive_memory/memory_write/consolidation.py,    *)
(* one loop iteration at a time: a forest of parent links with path halving *)
(* in find, and union towards the smaller root.                             *)
(*                                                                          *)
(* Names are numbers so that min and max are those of the sort order.  A    *)
(* name that is its own parent stands for a key not yet in the dict, too:   *)
(* setdefault makes them the same.                                          *)
(****************************************************************************)
EXTENDS Components, Integers

CONSTANTS
    Names,
    MaxEdges  \* bound: edges processed

ASSUME NamesAreOrdered == Names \subseteq Nat /\ MaxEdges \in Nat

VARIABLES
    parent,   \* the dict
    edge,     \* the edge under way
    cursor,   \* x of find
    rootA,    \* ra, once found
    pc,       \* "Ready", "FindA", "FindB"
    united    \* history: edges processed

forestVars == <<parent, edge, cursor, rootA, pc, united>>

Smaller(a, b) == IF a < b THEN a ELSE b
Larger(a, b) == IF a < b THEN b ELSE a

ForestInit ==
    /\ parent = [n \in Names |-> n]
    /\ edge \in Names \X Names
    /\ cursor = edge[1] /\ rootA = edge[1]
    /\ pc = "Ready"
    /\ united = {}

\* for a, b in edges: union(a, b)
TakeEdge(a, b) ==
    /\ pc = "Ready"
    /\ Cardinality(united) < MaxEdges
    /\ edge' = <<a, b>>
    /\ cursor' = a
    /\ pc' = "FindA"
    /\ UNCHANGED <<parent, rootA, united>>

\* Mutant: the link is halved and the cursor stays.
HalveStaying ==
    /\ pc # "Ready"
    /\ parent[cursor] # cursor
    /\ parent' = [parent EXCEPT ![cursor] = parent[parent[cursor]]]
    /\ UNCHANGED <<edge, cursor, rootA, pc, united>>

\* parent[x] = parent[parent[x]]; x = parent[x]
Halve ==
    /\ pc # "Ready"
    /\ parent[cursor] # cursor
    /\ parent' = [parent EXCEPT ![cursor] = parent[parent[cursor]]]
    /\ cursor' = parent[parent[cursor]]
    /\ UNCHANGED <<edge, rootA, pc, united>>

FoundA ==
    /\ pc = "FindA"
    /\ parent[cursor] = cursor
    /\ rootA' = cursor
    /\ cursor' = edge[2]
    /\ pc' = "FindB"
    /\ UNCHANGED <<parent, edge, united>>

\* Mutant: the ends of the edge are linked, not their roots.
UnionEnds ==
    /\ pc = "FindB"
    /\ parent[cursor] = cursor
    /\ parent' = [parent EXCEPT ![Larger(edge[1], edge[2])] = Smaller(edge[1], edge[2])]
    /\ united' = united \cup {edge}
    /\ pc' = "Ready"
    /\ UNCHANGED <<edge, cursor, rootA>>

\* Mutant: the smaller root is linked to the larger.
UnionUpwards ==
    /\ pc = "FindB"
    /\ parent[cursor] = cursor
    /\ parent' = [parent EXCEPT ![Smaller(rootA, cursor)] = Larger(rootA, cursor)]
    /\ united' = united \cup {edge}
    /\ pc' = "Ready"
    /\ UNCHANGED <<edge, cursor, rootA>>

\* parent[max(ra, rb)] = min(ra, rb), which changes nothing when they are equal.
Union ==
    /\ pc = "FindB"
    /\ parent[cursor] = cursor
    /\ parent' = [parent EXCEPT ![Larger(rootA, cursor)] = Smaller(rootA, cursor)]
    /\ united' = united \cup {edge}
    /\ pc' = "Ready"
    /\ UNCHANGED <<edge, cursor, rootA>>

ForestNext ==
    \/ \E a, b \in Names : TakeEdge(a, b)
    \/ Halve \/ FoundA \/ Union

ForestSpec == ForestInit /\ [][ForestNext]_forestVars
FairForestSpec == ForestSpec /\ WF_forestVars(Halve) /\ WF_forestVars(FoundA) /\ WF_forestVars(Union)

-----------------------------------------------------------------------------
(* Properties *)

\* Every variable has its type.
ForestTypeOK ==
    /\ parent \in [Names -> Names]
    /\ edge \in Names \X Names /\ cursor \in Names /\ rootA \in Names
    /\ pc \in {"Ready", "FindA", "FindB"}
    /\ united \subseteq Names \X Names

\* Links never lead upwards, so there is no cycle for find to run in, whatever
\* order the edges come in.
LinksDescend == \A n \in Names : parent[n] <= n

\* Where find ends.
Root(p) ==
    LET up[n \in Names] == IF p[n] >= n THEN n ELSE up[p[n]]
    IN up

\* Between two unions the trees of the forest are the components of the edges
\* united so far: what clusters.setdefault(find(n), []) groups by.
TreesAreComponents ==
    pc = "Ready" =>
        \A n \in Names :
            {m \in Names : Root(parent)[m] = Root(parent)[n]} = Component(united, Names, n)

\* union returns: find reaches a root from every name.
UnionReturns == pc # "Ready" ~> pc = "Ready"

=============================================================================
