---------------------------- MODULE Consolidation ----------------------------
(****************************************************************************)
(* Derived groups over the retrievable claims                               *)
(* (src/hrm_adaptive_memory/memory_write/consolidation.py), computed twice: *)
(* by ConsolidationIndex, one event at a time, and by                       *)
(* consolidate_from_scratch, over all the records.                          *)
(*                                                                          *)
(* Names, values and contents are the normalised strings (_norm), so the    *)
(* formatting of cluster and group keys is left out: an alias-resolved      *)
(* entity is its cluster.                                                   *)
(****************************************************************************)
EXTENDS ClaimEvents, Components

CONSTANTS
    Entity,        \* [Claims -> _norm(canonical_entity)]
    Relation,      \* [Claims -> _norm(canonical_relation)]
    Value,         \* [Claims -> _norm(value)]
    Content,       \* [Claims -> content, as rendered]
    AliasRelation  \* ALIAS_RELATION

ASSUME RecordsHaveFields ==
    DOMAIN Entity = Claims /\ DOMAIN Relation = Claims
    /\ DOMAIN Value = Claims /\ DOMAIN Content = Claims

IsAlias(c) == Relation[c] = AliasRelation
AliasEdge(c) == <<Entity[c], Value[c]>>
Contents == {Content[c] : c \in Claims}

-----------------------------------------------------------------------------
(* What both implementations compute from their own indexes *)

AliasNodes(active, edges) ==
    {Entity[c] : c \in active} \cup {e[1] : e \in edges} \cup {e[2] : e \in edges}

AliasClusters(active, edges) == Clusters(edges, AliasNodes(active, edges))

\* Claims about one entity, under any of its names, and one relation.
SameSubject(active, edges, c) ==
    {d \in active : /\ ~IsAlias(d)
                    /\ Relation[d] = Relation[c]
                    /\ Component(edges, AliasNodes(active, edges), Entity[d])
                       = Component(edges, AliasNodes(active, edges), Entity[c])}

SubjectGroups(active, edges) ==
    {SameSubject(active, edges, c) : c \in {d \in active : ~IsAlias(d)}}

Values(group) == {Value[c] : c \in group}

ConsolidatedState(active, buckets, edges) ==
    [active         |-> active,
     duplicates     |-> {ids \in buckets : Cardinality(ids) > 1},
     aliases        |-> AliasClusters(active, edges),
     support        |-> {g \in SubjectGroups(active, edges) :
                            Cardinality(Values(g)) = 1 /\ Cardinality(g) > 1},
     contradictions |-> {g \in SubjectGroups(active, edges) : Cardinality(Values(g)) > 1}]

-----------------------------------------------------------------------------
(* consolidate_from_scratch *)

FromScratch(m) ==
    LET active == Retrievable(m) IN
    ConsolidatedState(active,
                      {{c \in active : Content[c] = x} : x \in Contents},
                      {AliasEdge(c) : c \in {d \in active : IsAlias(d)}})

-----------------------------------------------------------------------------
(* ConsolidationIndex.  Its _entities set is never read and is left out. *)

EmptyIndex ==
    [active |-> {}, byContent |-> [x \in Contents |-> {}], aliasEdges |-> {}]

AddToIndex(ix, c) ==
    [active     |-> ix.active \cup {c},
     byContent  |-> [ix.byContent EXCEPT ![Content[c]] = @ \cup {c}],
     aliasEdges |-> ix.aliasEdges \cup (IF IsAlias(c) THEN {AliasEdge(c)} ELSE {})]

\* Mutant: the edge goes with the record although another one asserts it.
RemoveFromIndexWithEdge(ix, c) ==
    IF c \notin ix.active THEN ix
    ELSE [active     |-> ix.active \ {c},
          byContent  |-> [ix.byContent EXCEPT ![Content[c]] = @ \ {c}],
          aliasEdges |-> IF IsAlias(c) THEN ix.aliasEdges \ {AliasEdge(c)} ELSE ix.aliasEdges]

\* An alias edge stays while an active record asserts it.
RemoveFromIndex(ix, c) ==
    IF c \notin ix.active THEN ix
    ELSE LET rest == ix.active \ {c} IN
         [active     |-> rest,
          byContent  |-> [ix.byContent EXCEPT ![Content[c]] = @ \ {c}],
          aliasEdges |-> IF IsAlias(c) /\ ~\E d \in rest : IsAlias(d) /\ AliasEdge(d) = AliasEdge(c)
                         THEN ix.aliasEdges \ {AliasEdge(c)}
                         ELSE ix.aliasEdges]

\* apply_ingest and apply_state_change, as _apply_event calls them.
ApplyToIndex(ix, e) ==
    CASE e.event = "INGEST"       -> AddToIndex(ix, e.claim)
      [] e.event = "STATE_CHANGE" -> RemoveFromIndex(ix, e.claim)
      [] e.event = "VERIFICATION" -> ix

\* snapshot
Snapshot(ix) ==
    ConsolidatedState(ix.active, {ix.byContent[x] : x \in Contents}, ix.aliasEdges)

=============================================================================
