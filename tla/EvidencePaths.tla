---------------------------- MODULE EvidencePaths ----------------------------
(****************************************************************************)
(* From a retrieved pool to the packet the reader gets, as                  *)
(* run_full_memory_from_probe of                                            *)
(* src/hrm_adaptive_memory/executive/retrieval_probe.py drives the c4       *)
(* package: the identity of the question's subject, the runtime graph, the  *)
(* paths from the subject (g2_paths.py), their ranking into a working set,  *)
(* and the packet composed around one path and filled in S2's order.        *)
(*                                                                          *)
(* A record is what the parsers see in its text.  Entities are normalised   *)
(* names.  The code asks in two ways whether a text is about one: the graph *)
(* and G2 look for the name among those the extractor found, G1's template  *)
(* and S2 look for its words anywhere, inside of a longer name too.         *)
(****************************************************************************)
EXTENDS Integers, FiniteSets

CONSTANTS
    PoolSize,        \* records of the pool, numbered in the order of their ids
    Entities,
    Inside,          \* <<x, y>>: the words of x lie within the name y
    Texts,           \* what a record can be
    MaxScore,
    Score,           \* [Records -> fusion score]
    Asked,           \* the subject as the question names it
    Stripped,        \* the same without a leading article
    WorkingSetSize,  \* M
    PacketBudget,
    None

Records == 1 .. PoolSize

\* The extractor finds the names that a text mentions; others lie buried in its
\* words.  A text may contain the words of the asked relation, may bind it to
\* entities, and may say that one name stands for another.  The id of a record
\* may call it an identity record.
ASSUME PathConstants ==
    /\ PoolSize \in Nat
    /\ WorkingSetSize \in Nat /\ PacketBudget \in Nat
    /\ MaxScore \in Nat /\ Score \in [Records -> 0 .. MaxScore]
    /\ {Asked, Stripped} \subseteq Entities /\ None \notin Entities
    /\ Inside \subseteq Entities \X Entities
    /\ \A x \in Entities : <<x, x>> \in Inside
    /\ \A t \in Texts :
          /\ t.mentions \subseteq Entities /\ t.buried \subseteq Entities
          /\ \A x \in Entities, y \in t.mentions \cup t.buried :
                <<x, y>> \in Inside => x \in t.mentions \cup t.buried
          /\ t.byId \in BOOLEAN
          /\ t.binds \subseteq t.mentions
          /\ t.expresses \in BOOLEAN /\ (t.binds # {} => t.expresses)
          /\ t.maps \subseteq Entities \X Entities

VARIABLES
    content,   \* [Records -> Texts], the pool
    pc,
    paths,     \* all_paths of the G2Result
    unranked,  \* those that rank_and_select_paths has not come to
    admitted,  \* [Records -> where its path's new records begin in working, 0: not in]
    packet

vars == <<content, pc, paths, unranked, admitted, packet>>

-----------------------------------------------------------------------------
(* run_identity_stage, over the records it is given *)

IdentityLinks(R) == UNION {content[r].maps : r \in R}

\* A mapping counts if the name it maps has the asked one in it.
Canonicals(R) ==
    {link[2] : link \in {l \in IdentityLinks(R) :
                            <<Asked, l[1]>> \in Inside \/ <<Stripped, l[1]>> \in Inside}}

\* Conflicting mappings are never guessed between.
Identity(R) ==
    LET names == Canonicals(R) IN
    IF Cardinality(names) > 1
    THEN [status |-> "AMBIGUOUS", canonical |-> None]
    ELSE IF names # {}
    THEN [status |-> "RESOLVED", canonical |-> CHOOSE x \in names : TRUE]
    ELSE IF \E r \in R : ~content[r].byId /\ Asked \in content[r].mentions
    THEN [status |-> "EXACT", canonical |-> Asked]
    ELSE [status |-> "UNRESOLVED", canonical |-> None]

Subject == Identity(Records).canonical

-----------------------------------------------------------------------------
(* RuntimeGraph *)

RecordsOf(x) == {r \in Records : x \in content[r].mentions}
EntitiesOf(R) == UNION {content[r].mentions : r \in R}

\* The words of a text, as typed_path and selector_v2 search them.
Words(r) == content[r].mentions \cup content[r].buried

AliasLinks(x) ==
    {y \in Entities \ {x} : <<x, y>> \in IdentityLinks(Records)
                            \/ <<y, x>> \in IdentityLinks(Records)}

Neighbours(x) == (EntitiesOf(RecordsOf(x)) \cup AliasLinks(x)) \ {x}

\* bounded_neighborhood of one seed, at its bound of two hops.
TwoHops(x) == {x} \cup Neighbours(x) \cup UNION {Neighbours(y) : y \in Neighbours(x)}

-----------------------------------------------------------------------------
(* g2_paths: enumeration *)

BridgesForSubject(x) == EntitiesOf(RecordsOf(x)) \ {x}
AliasBridges(x) == EntitiesOf(UNION {RecordsOf(a) : a \in AliasLinks(x)}) \ {x}

\* Mutant: the walk through the subject's aliases is not copied.
ReachableWithoutAliases ==
    IF Subject = None THEN {}
    ELSE RecordsOf(Subject) \cup UNION {RecordsOf(b) : b \in BridgesForSubject(Subject)}

TopologyReachable ==
    IF Subject = None THEN {}
    ELSE RecordsOf(Subject)
         \cup UNION {RecordsOf(b) : b \in BridgesForSubject(Subject) \cup AliasBridges(Subject)}

\* K0: the words are there; K1: the record binds the relation to this entity.
Completes(mode, r, x) ==
    IF mode = "K0" THEN content[r].expresses ELSE x \in content[r].binds

BestScore(R) == CHOOSE s \in {Score[r] : r \in R} : \A r \in R : Score[r] <= s

Path(terminal, hop, complete, R) ==
    [terminal |-> terminal, hop |-> hop, complete |-> complete, records |-> R,
     tier |-> hop + (IF complete THEN 0 ELSE 2), score |-> BestScore(R)]

\* Each of the subject's own records is a path.
DirectPaths(mode) ==
    {Path(Subject, 0, Completes(mode, r, Subject), {r}) : r \in RecordsOf(Subject)}

Links(b) == RecordsOf(Subject) \cap RecordsOf(b)
Endpoints(mode, b) == {r \in RecordsOf(b) : Completes(mode, r, b)}

\* The records that connect the bridge to the subject and those that answer; a
\* bridge that an alias leads to has no connecting record.
BridgedPath(mode, b) ==
    IF Endpoints(mode, b) # {} THEN Path(b, 1, TRUE, Links(b) \cup Endpoints(mode, b))
    ELSE IF Links(b) # {} THEN Path(b, 1, FALSE, Links(b))
    ELSE Path(b, 1, FALSE, RecordsOf(b))

Paths(mode) ==
    IF Subject = None THEN {}
    ELSE DirectPaths(mode)
         \cup {BridgedPath(mode, b) : b \in BridgesForSubject(Subject) \cup AliasBridges(Subject)}

Complete(P) == {p \in P : p.complete}

-----------------------------------------------------------------------------
(* typed_path: the one template of G1.  It starts from the records that have  *)
(* the subject in their words; from there on it walks the graph.              *)

NamedIn(x) == {r \in Records : x \in Words(r)}

OneHop == (EntitiesOf(NamedIn(Subject)) \ {Subject}) \cup AliasBridges(Subject)

Answering == {r \in Records : content[r].expresses}

ClosingBridges ==
    {b \in OneHop : (RecordsOf(b) \cap Answering) \ NamedIn(Subject) # {}}

TypedDirect == NamedIn(Subject) \cap Answering
TypedEndpoints ==
    ((UNION {RecordsOf(b) : b \in ClosingBridges}) \cap Answering) \ NamedIn(Subject)
TypedLinks == {r \in NamedIn(Subject) : content[r].mentions \cap ClosingBridges # {}}

PathParticipants ==
    IF Subject = None THEN {} ELSE TypedDirect \cup TypedEndpoints \cup TypedLinks

-----------------------------------------------------------------------------
(* path_order_key *)

\* Sorted tuples of ids, compared as tuples.
IdsBefore(A, B) ==
    \E m \in (A \ B) \cup (B \ A) :
        /\ \A k \in (A \ B) \cup (B \ A) : m <= k
        /\ IF m \in A THEN \E b \in B : b > m ELSE \A a \in A : a < m

\* Mutant: by hops and score, complete or not.
PrecedesByScore(p, q) ==
    \/ p.hop < q.hop
    \/ p.hop = q.hop /\ p.score > q.score
    \/ p.hop = q.hop /\ p.score = q.score /\ IdsBefore(p.records, q.records)

\* Paths of the same key have the same records: which is first does not matter.
Precedes(p, q) ==
    \/ p.tier < q.tier
    \/ p.tier = q.tier /\ p.hop < q.hop
    \/ p.tier = q.tier /\ p.hop = q.hop /\ p.score > q.score
    \/ /\ p.tier = q.tier /\ p.hop = q.hop /\ p.score = q.score
       /\ IdsBefore(p.records, q.records)

IsFirst(p, S) == p \in S /\ \A q \in S : ~Precedes(q, p)

-----------------------------------------------------------------------------
(* rank_and_select_paths *)

Working == {r \in Records : admitted[r] # 0}

Init ==
    /\ content \in [Records -> Texts]
    /\ pc = "Enumerate"
    /\ paths = {}
    /\ unranked = {}
    /\ admitted = [r \in Records |-> 0]
    /\ packet = {}

Enumerate ==
    /\ pc = "Enumerate"
    /\ pc' = "Rank"
    /\ paths' = Paths("K1")
    /\ unranked' = paths'
    /\ UNCHANGED <<content, admitted, packet>>

\* len(working) >= working_set_size ends the walk.
Ranking(p) ==
    /\ pc = "Rank"
    /\ Cardinality(Working) < WorkingSetSize
    /\ IsFirst(p, unranked)
    /\ unranked' = unranked \ {p}
    /\ UNCHANGED <<content, pc, paths, packet>>

Redundant(p) == p.records \subseteq Working
Overflows(p) == Cardinality(Working \cup p.records) > WorkingSetSize

Skip(p) ==
    /\ Ranking(p)
    /\ Redundant(p) \/ Overflows(p)
    /\ UNCHANGED admitted

Retain(p) ==
    /\ Ranking(p)
    /\ ~Redundant(p) /\ ~Overflows(p)
    /\ admitted' = [r \in Records |-> IF r \in p.records \ Working THEN Cardinality(Working) + 1
                                      ELSE admitted[r]]

\* Mutant: the first path that does not fit ends the walk.
EndRankingEarly ==
    /\ pc = "Rank"
    /\ \/ unranked = {} \/ Cardinality(Working) >= WorkingSetSize
       \/ \E p \in unranked : IsFirst(p, unranked) /\ Overflows(p)
    /\ pc' = "Compose"
    /\ UNCHANGED <<content, paths, unranked, admitted, packet>>

EndRanking ==
    /\ pc = "Rank"
    /\ unranked = {} \/ Cardinality(Working) >= WorkingSetSize
    /\ pc' = "Compose"
    /\ UNCHANGED <<content, paths, unranked, admitted, packet>>

-----------------------------------------------------------------------------
(* compose_path_coherent_packet: the anchor *)

Available(p) == p.records \cap Working

Fitting ==
    {p \in Complete(paths) : /\ Available(p) # {}
                             /\ Cardinality(Available(p)) <= PacketBudget}

\* A path that was not retained is cut to the records that are there.
AdmitPath(p) ==
    /\ pc = "Compose"
    /\ IsFirst(p, Fitting)
    /\ pc' = "Fill"
    /\ packet' = Available(p)
    /\ UNCHANGED <<content, paths, unranked, admitted>>

AdmitNone ==
    /\ pc = "Compose"
    /\ Fitting = {}
    /\ pc' = "Fill"
    /\ UNCHANGED <<content, paths, unranked, admitted, packet>>

-----------------------------------------------------------------------------
(* _s2_order and select_s2 over the working set, and the fill.  The frozen    *)
(* selector of an identified subject is taken to be any order of the working  *)
(* set, which it is asked for in full.                                        *)

\* The identity stage is run again, on what is left.
OrderIdentity == Identity(Working)
OrderSubject == OrderIdentity.canonical

OneHopBridges ==
    EntitiesOf({r \in Working : OrderSubject \in Words(r)}) \ {OrderSubject}

\* Mutant: only records about the subject itself are connected.
ConnectedToSubject(r) == OrderSubject \in Words(r) \/ content[r].maps # {}

\* connectivity_status other than DISCONNECTED
Connected(r) ==
    \/ OrderSubject \in Words(r)
    \/ Words(r) \cap OneHopBridges # {}
    \/ content[r].maps # {}

\* The order records came into the working set.
EntersBefore(r, s) == admitted[r] < admitted[s] \/ (admitted[r] = admitted[s] /\ r < s)

\* find_protected_record
Eligible ==
    {r \in Working : /\ content[r].expresses
                     /\ \/ OrderSubject \in Words(r)
                        \/ Words(r) \cap OneHopBridges # {}}

PreferredTo(r, s) ==
    LET direct(q) == OrderSubject \in Words(q) IN
    \/ direct(r) /\ ~direct(s)
    \/ (direct(r) <=> direct(s)) /\ Score[r] > Score[s]
    \/ (direct(r) <=> direct(s)) /\ Score[r] = Score[s] /\ EntersBefore(r, s)

\* select_s1 protects one record of an EXACT subject, ahead of all others.
Protected ==
    IF OrderIdentity.status # "EXACT" THEN {}
    ELSE {r \in Eligible : \A s \in Eligible \ {r} : PreferredTo(r, s)}

Ordered ==
    IF OrderSubject = None THEN Working
    ELSE Protected \cup {r \in Working : Connected(r)}

Left == Ordered \ packet

\* Without a subject the order is that of the working set.
ComesNext(r) ==
    /\ r \in Left
    /\ OrderSubject = None => \A s \in Left \ {r} : EntersBefore(r, s)
    /\ Protected \cap Left # {} => r \in Protected

Fill(r) ==
    /\ pc = "Fill"
    /\ Cardinality(packet) < PacketBudget
    /\ ComesNext(r)
    /\ packet' = packet \cup {r}
    /\ UNCHANGED <<content, pc, paths, unranked, admitted>>

Finish ==
    /\ pc = "Fill"
    /\ Cardinality(packet) < PacketBudget => Left = {}
    /\ pc' = "Done"
    /\ UNCHANGED <<content, paths, unranked, admitted, packet>>

Next ==
    \/ Enumerate
    \/ \E p \in unranked : Skip(p) \/ Retain(p)
    \/ EndRanking
    \/ \E p \in paths : AdmitPath(p)
    \/ AdmitNone
    \/ \E r \in Working \ packet : Fill(r)
    \/ Finish

Spec == Init /\ [][Next]_vars

-----------------------------------------------------------------------------
(* Properties *)

Ranked == pc \in {"Compose", "Fill", "Done"}

\* The copies of the walk of two hops agree as far as they can.  Every path lies
\* within what the oracle of topology_reachable_records may label and within two
\* hops of the graph.  Of what G2 completes when it reads the relation as G1's
\* template does, the template misses no record that answers, nor, where the
\* path leaves the records about the subject, any record at all.  The template
\* may find more; where the subject is named only as the extractor sees it, it
\* finds nothing that G2 does not complete.
WalksAgree ==
    LET found     == PathParticipants
        reachable == TopologyReachable
        completed == Complete(Paths("K0"))
    IN
    pc = "Compose" /\ Subject # None =>
        /\ \A p \in paths : p.records \subseteq reachable /\ p.terminal \in TwoHops(Subject)
        /\ \A p \in completed :
              /\ p.records \cap Answering \subseteq found
              /\ p.records \subseteq NamedIn(Subject) \/ p.records \subseteq found
        /\ NamedIn(Subject) = RecordsOf(Subject) => found \subseteq UNION {p.records : p \in completed}

\* The greedy walk leaves no path out that would still fit: in whatever order
\* paths overflowed and later ones were taken, each one is in the working set
\* or too large for what is left of it.
NothingThatFitsIsLeftOut ==
    Ranked => \A p \in paths : p.records \subseteq Working \/ Overflows(p)

\* The first complete path, if it fits at all, is in the packet whole: neither
\* the ceiling of the working set nor other paths nor the fill can break it up.
BestPathSurvivesWhole ==
    pc \in {"Fill", "Done"} =>
        \A p \in Complete(paths) :
            /\ IsFirst(p, Complete(paths))
            /\ Cardinality(p.records) <= WorkingSetSize
            /\ Cardinality(p.records) <= PacketBudget
            => p.records \subseteq packet

\* A packet with room left drops only records that an alias alone led to.  S2
\* drops what is connected neither to the subject nor to its neighbours in the
\* working set; because paths come in whole, no record of a path with a record
\* that names the subject is ever taken for one of those.  This is said of
\* questions whose subject the identity stage resolves alike over the working
\* set and over the pool: where the identity record is left out of the working
\* set, or an ambiguity with it, S2 judges by another subject or by none, and
\* then nothing is promised.
OnlyAliasReachedAreDropped ==
    (pc = "Done" /\ Cardinality(packet) < PacketBudget /\ OrderSubject = Subject) =>
        \A r \in Working \ packet :
            \E p \in paths : /\ r \in p.records /\ p.records \subseteq Working
                            /\ p.records \cap NamedIn(Subject) = {}

=============================================================================
