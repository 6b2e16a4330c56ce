------------------------- MODULE EvidencePathsProofs -------------------------
(* Proofs about EvidencePaths, for any pool, texts, scores and sizes.        *)
EXTENDS EvidencePaths, FiniteSetTheorems, WellFoundedInduction, TLAPS

-----------------------------------------------------------------------------
(* Numbers and sets of ids *)

LEMMA LeastNumber ==
    ASSUME NEW T \in SUBSET Nat, T # {}
    PROVE  \E m \in T : \A k \in T : m <= k
<1> DEFINE R == OpToRel(<, Nat)
<1>1. PICK m \in T : \A k \in T : <<k, m>> \notin R
    <2>1. IsWellFoundedOn(R, Nat)
        BY NatLessThanWellFounded
    <2> HIDE DEF R
    <2> QED BY <2>1, WFMin
<1>2. \A k \in T : ~(k < m)
    BY <1>1 DEF OpToRel
<1> QED BY <1>2

LEMMA GreatestNumber ==
    ASSUME NEW n \in Nat, NEW T \in SUBSET (0 .. n), T # {}
    PROVE  \E m \in T : \A k \in T : k <= m
<1> DEFINE D == {n - k : k \in T}
<1>1. D \in SUBSET Nat /\ D # {}
    <2>1. \A k \in T : k \in Int /\ 0 <= n - k
        OBVIOUS
    <2>2. \A e \in D : e \in Nat
        BY <2>1
    <2> QED BY <2>2
<1>2. PICK d \in D : \A e \in D : d <= e
    BY <1>1, LeastNumber
<1>3. PICK m \in T : d = n - m
    OBVIOUS
<1>4. ASSUME NEW k \in T PROVE k <= m
    <2>1. n - k \in D
        OBVIOUS
    <2>2. n - m <= n - k
        BY <1>2, <1>3, <2>1
    <2>3. k \in Int /\ m \in Int
        OBVIOUS
    <2> HIDE DEF D
    <2> QED BY <2>2, <2>3
<1> QED BY <1>4

\* Of two different sets of ids, one comes first.
LEMMA IdsAreOrdered ==
    ASSUME NEW A \in SUBSET Nat, NEW B \in SUBSET Nat, A # B
    PROVE  IdsBefore(A, B) \/ IdsBefore(B, A)
<1> DEFINE D == (A \ B) \cup (B \ A)
<1>1. PICK m \in D : \A k \in D : m <= k
    BY LeastNumber
<1>2. CASE m \in A
    <2>1. CASE \E b \in B : b > m
        BY <1>1, <1>2, <2>1 DEF IdsBefore
    <2>2. CASE ~ \E b \in B : b > m
        <3>1. \A b \in B : b < m
            BY <1>1, <1>2, <2>2
        <3> QED BY <1>1, <1>2, <3>1 DEF IdsBefore
    <2> QED BY <2>1, <2>2
<1>3. CASE m \in B
    <2>1. CASE \E a \in A : a > m
        BY <1>1, <1>3, <2>1 DEF IdsBefore
    <2>2. CASE ~ \E a \in A : a > m
        <3>1. \A a \in A : a < m
            BY <1>1, <1>3, <2>2
        <3> QED BY <1>1, <1>3, <3>1 DEF IdsBefore
    <2> QED BY <2>1, <2>2
<1> QED BY <1>1, <1>2, <1>3

-----------------------------------------------------------------------------
(* Paths *)

IsPath(p) ==
    /\ p.records \subseteq Records
    /\ p.hop \in {0, 1} /\ p.complete \in BOOLEAN
    /\ p.tier = p.hop + (IF p.complete THEN 0 ELSE 2)
    /\ p.score \in Nat

LEMMA ScoresAreNumbers ==
    ASSUME NEW R \in SUBSET Records, R # {}
    PROVE  BestScore(R) \in Nat
<1> DEFINE T == {Score[r] : r \in R}
<1>1. T \in SUBSET (0 .. MaxScore) /\ T # {}
    BY PathConstants
<1>2. \E s \in T : \A k \in T : k <= s
    BY <1>1, GreatestNumber, PathConstants
<1>3. \E s \in T : \A r \in R : Score[r] <= s
    BY <1>2
<1>4. BestScore(R) \in T
    BY <1>3 DEF BestScore
<1> QED BY <1>1, <1>4, PathConstants

LEMMA PathsAreTyped ==
    ASSUME NEW p \in Paths("K1")
    PROVE  IsPath(p)
<1>1. ASSUME NEW x, NEW h \in {0, 1}, NEW c \in BOOLEAN, NEW R \in SUBSET Records, R # {}
      PROVE  IsPath(Path(x, h, c, R))
    BY <1>1, ScoresAreNumbers DEF IsPath, Path
<1>2. CASE p \in DirectPaths("K1")
    <2>1. PICK r \in RecordsOf(Subject) :
              p = Path(Subject, 0, Completes("K1", r, Subject), {r})
        BY <1>2 DEF DirectPaths
    <2>2. Completes("K1", r, Subject) \in BOOLEAN
        BY DEF Completes
    <2>3. {r} \in SUBSET Records
        BY DEF RecordsOf
    <2> QED BY <1>1, <2>1, <2>2, <2>3
<1>3. CASE \E b \in BridgesForSubject(Subject) \cup AliasBridges(Subject) :
               p = BridgedPath("K1", b)
    <2>1. PICK b \in BridgesForSubject(Subject) \cup AliasBridges(Subject) :
              p = BridgedPath("K1", b)
        BY <1>3
    <2>2. RecordsOf(b) # {}
        BY DEF BridgesForSubject, AliasBridges, EntitiesOf, RecordsOf
    <2>3. /\ RecordsOf(b) \subseteq Records
          /\ Links(b) \subseteq Records
          /\ Endpoints("K1", b) \subseteq Records
        BY DEF RecordsOf, Links, Endpoints
    <2> QED BY <1>1, <2>1, <2>2, <2>3 DEF BridgedPath
<1> QED BY <1>2, <1>3 DEF Paths

\* Two paths neither of which precedes the other have the same records.
LEMMA TiedPathsAreEqual ==
    ASSUME NEW p, NEW q, IsPath(p), IsPath(q), ~Precedes(p, q), ~Precedes(q, p)
    PROVE  p.records = q.records
<1>1. p.tier \in Int /\ q.tier \in Int /\ p.hop \in Int /\ q.hop \in Int
    BY DEF IsPath
<1>2. p.score \in Int /\ q.score \in Int
    BY DEF IsPath
<1>3. p.tier = q.tier
    BY <1>1 DEF Precedes
<1>4. p.hop = q.hop
    BY <1>1, <1>3 DEF Precedes
<1>5. p.score = q.score
    BY <1>2, <1>3, <1>4 DEF Precedes
<1>6. ~IdsBefore(p.records, q.records) /\ ~IdsBefore(q.records, p.records)
    BY <1>3, <1>4, <1>5 DEF Precedes
<1>7. p.records \in SUBSET Nat /\ q.records \in SUBSET Nat
    BY PathConstants DEF IsPath, Records
<1> QED BY <1>6, <1>7, IdsAreOrdered

\* Complete paths are ranked before all others.
LEMMA CompleteComesFirst ==
    ASSUME NEW p, NEW q, IsPath(p), IsPath(q), p.complete, ~q.complete
    PROVE  Precedes(p, q)
<1>1. p.tier \in {0, 1} /\ q.tier \in {2, 3}
    BY DEF IsPath
<1> QED BY <1>1 DEF Precedes

-----------------------------------------------------------------------------
(* Working sets *)

LEMMA IdSetsAreFinite ==
    ASSUME NEW R \in SUBSET Records
    PROVE  IsFiniteSet(R) /\ Cardinality(R) \in Nat
<1>1. IsFiniteSet(Records)
    BY FS_Interval, PathConstants DEF Records
<1>2. IsFiniteSet(R)
    BY <1>1, FS_Subset
<1> QED BY <1>2, FS_CardinalityType

LEMMA LargerSets ==
    ASSUME NEW R \in SUBSET Records, NEW T \in SUBSET R
    PROVE  /\ Cardinality(T) <= Cardinality(R)
           /\ T # R => Cardinality(T) < Cardinality(R)
<1>1. IsFiniteSet(R) /\ Cardinality(R) \in Nat
    BY IdSetsAreFinite
<1>2. Cardinality(T) \in Nat
    BY IdSetsAreFinite
<1>3. /\ Cardinality(T) <= Cardinality(R)
      /\ Cardinality(R) = Cardinality(T) => R = T
    BY <1>1, FS_Subset
<1> QED BY <1>1, <1>2, <1>3

\* A path that does not fit now will not fit later.
LEMMA OverflowsForGood ==
    ASSUME NEW R \in SUBSET Records, NEW V \in SUBSET Records, NEW W \in SUBSET V,
           Cardinality(W \cup R) > WorkingSetSize
    PROVE  Cardinality(V \cup R) > WorkingSetSize
<1>1. Cardinality(W \cup R) <= Cardinality(V \cup R)
    BY LargerSets
<1>2. Cardinality(W \cup R) \in Int /\ Cardinality(V \cup R) \in Int
    BY IdSetsAreFinite
<1> QED BY <1>1, <1>2, PathConstants

-----------------------------------------------------------------------------
(* The inductive invariant *)

ShapeInv ==
    /\ admitted \in [Records -> Nat]
    /\ \A p \in paths : IsPath(p)
    /\ unranked \subseteq paths
    /\ pc = "Enumerate" => paths = {} /\ unranked = {} /\ Working = {}

\* Every path that was ranked is in, or was too large and still is.
SettledInv == \A p \in paths \ unranked : p.records \subseteq Working \/ Overflows(p)

\* The walk stops when nothing is left to rank, or no room.
StopInv == Ranked => unranked = {} \/ Cardinality(Working) >= WorkingSetSize

IsBest(p) == p \in paths /\ IsFirst(p, Complete(paths)) /\ Cardinality(p.records) <= WorkingSetSize

\* Nothing comes in before the best path.
BestInv ==
    \A p \in paths :
        IsBest(p) => (p \in unranked /\ Working = {}) \/ p.records \subseteq Working

\* Once the packet is composed, it keeps the best path.
KeptInv ==
    pc \in {"Fill", "Done"} =>
        \A p \in paths :
            IsBest(p) /\ Cardinality(p.records) <= PacketBudget => p.records \subseteq packet

IInv == ShapeInv /\ SettledInv /\ StopInv /\ BestInv /\ KeptInv

LEMMA InitiallyInv == Init => IInv
BY DEF Init, IInv, ShapeInv, SettledInv, StopInv, BestInv, KeptInv, Ranked, Working

\* Where paths and working set stay, so does what was said of them.
LEMMA SameWorkingSet ==
    ASSUME admitted' = admitted
    PROVE  /\ Working' = Working
           /\ \A p : Overflows(p)' <=> Overflows(p)
BY DEF Working, Overflows

LEMMA EnumerateStep == IInv /\ Enumerate => IInv'
<1> SUFFICES ASSUME IInv, Enumerate PROVE IInv'
    OBVIOUS
<1>1. Working' = Working /\ Working = {}
    BY SameWorkingSet DEF IInv, ShapeInv, Enumerate
<1>2. paths' = Paths("K1") /\ unranked' = paths' /\ pc' = "Rank"
    BY DEF Enumerate
<1>3. ShapeInv'
    BY <1>1, <1>2, PathsAreTyped DEF IInv, ShapeInv, Enumerate
<1>4. SettledInv'
    BY <1>2 DEF SettledInv
<1>5. StopInv' /\ KeptInv'
    BY <1>2 DEF StopInv, KeptInv, Ranked
<1>6. BestInv'
    BY <1>1, <1>2 DEF BestInv
<1> QED BY <1>3, <1>4, <1>5, <1>6 DEF IInv

\* Among the paths not ranked, the first has the records of the best path, if
\* that has not been ranked either.
LEMMA BestIsRankedFirst ==
    ASSUME IInv, NEW p \in unranked, IsBest(p), NEW q, IsFirst(q, unranked)
    PROVE  q.records = p.records
<1>1. q \in unranked /\ ~Precedes(p, q)
    BY DEF IsFirst
<1>2. q \in paths /\ IsPath(p) /\ IsPath(q)
    BY <1>1 DEF IInv, ShapeInv
<1>3. p.complete
    BY DEF IsBest, IsFirst, Complete
<1>4. q.complete
    BY <1>1, <1>2, <1>3, CompleteComesFirst DEF IsPath
<1>5. ~Precedes(q, p)
    BY <1>2, <1>4 DEF IsBest, IsFirst, Complete
<1> QED BY <1>1, <1>2, <1>5, TiedPathsAreEqual

LEMMA SkipStep ==
    ASSUME IInv, NEW q \in unranked, Skip(q)
    PROVE  IInv'
<1>1. Working' = Working /\ \A p : Overflows(p)' <=> Overflows(p)
    BY SameWorkingSet DEF Skip
<1>2. /\ paths' = paths /\ unranked' = unranked \ {q} /\ pc' = pc /\ pc = "Rank"
      /\ admitted' = admitted /\ packet' = packet /\ IsFirst(q, unranked)
    BY DEF Skip, Ranking
<1>3. ShapeInv'
    BY <1>2 DEF IInv, ShapeInv
<1>4. SettledInv'
    BY <1>1, <1>2 DEF IInv, SettledInv, Skip, Redundant
<1>5. StopInv' /\ KeptInv'
    BY <1>2 DEF StopInv, KeptInv, Ranked
<1>6. BestInv'
    <2> SUFFICES ASSUME NEW p \in paths, IsBest(p), ~(p.records \subseteq Working)
                 PROVE  p \in unranked \ {q} /\ Working = {}
        BY <1>1, <1>2 DEF BestInv, IsBest
    <2>1. p \in unranked /\ Working = {}
        BY DEF IInv, BestInv
    <2>2. q.records = p.records
        BY <1>2, <2>1, BestIsRankedFirst
    <2>3. Cardinality(p.records) \in Nat /\ Cardinality(p.records) <= WorkingSetSize
        BY IdSetsAreFinite DEF IInv, ShapeInv, IsPath, IsBest
    <2>4. ~Overflows(q)
        BY <2>1, <2>2, <2>3, PathConstants DEF Overflows
    <2>5. FALSE
        BY <2>2, <2>4 DEF Skip, Redundant
    <2> QED BY <2>5
<1> QED BY <1>3, <1>4, <1>5, <1>6 DEF IInv

LEMMA RetainStep ==
    ASSUME IInv, NEW q \in unranked, Retain(q)
    PROVE  IInv'
<1>1. /\ paths' = paths /\ unranked' = unranked \ {q} /\ pc' = pc /\ pc = "Rank"
      /\ packet' = packet /\ IsFirst(q, unranked)
    BY DEF Retain, Ranking
<1>2. q \in paths /\ q.records \subseteq Records /\ Working \subseteq Records
    BY DEF IInv, ShapeInv, IsPath, Working
<1>3. Cardinality(Working) \in Nat
    BY <1>2, IdSetsAreFinite
<1>4. admitted' = [r \in Records |-> IF r \in q.records \ Working THEN Cardinality(Working) + 1
                                     ELSE admitted[r]]
    BY DEF Retain
<1>5. admitted' \in [Records -> Nat]
    BY <1>3, <1>4 DEF IInv, ShapeInv
<1>6. Working' = Working \cup q.records
    <2>1. Cardinality(Working) + 1 # 0
        BY <1>3
    <2>2. \A r \in Records : admitted'[r] # 0 <=> r \in q.records \/ admitted[r] # 0
        BY <1>4, <2>1 DEF Working
    <2> QED BY <1>2, <2>2 DEF Working
<1>7. Working' \in SUBSET Records /\ Working \in SUBSET Working'
    BY <1>2, <1>6
<1>8. ShapeInv'
    BY <1>1, <1>5 DEF IInv, ShapeInv
<1>9. SettledInv'
    <2> SUFFICES ASSUME NEW p \in paths, p \notin unranked \/ p = q
                 PROVE  p.records \subseteq Working' \/ Overflows(p)'
        BY <1>1 DEF SettledInv
    <2>1. CASE p.records \subseteq Working \/ p = q
        BY <1>6, <2>1
    <2>2. CASE Overflows(p)
        <3>1. p.records \in SUBSET Records
            BY DEF IInv, ShapeInv, IsPath
        <3>2. Cardinality(Working' \cup p.records) > WorkingSetSize
            BY <1>7, <2>2, <3>1, OverflowsForGood DEF Overflows
        <3> QED BY <3>2 DEF Overflows
    <2> QED BY <2>1, <2>2 DEF IInv, SettledInv
<1>10. StopInv' /\ KeptInv'
    BY <1>1 DEF StopInv, KeptInv, Ranked
<1>11. BestInv'
    <2> SUFFICES ASSUME NEW p \in paths, IsBest(p)
                 PROVE  p.records \subseteq Working'
        BY <1>1 DEF BestInv, IsBest
    <2>1. CASE p.records \subseteq Working
        BY <1>6, <2>1
    <2>2. CASE p \in unranked
        BY <1>1, <1>6, <2>2, BestIsRankedFirst
    <2> QED BY <2>1, <2>2 DEF IInv, BestInv
<1> QED BY <1>8, <1>9, <1>10, <1>11 DEF IInv

\* What is left to show of a step that leaves paths and working set as they are.
LEMMA WorkingSetStays ==
    ASSUME IInv, UNCHANGED <<paths, unranked, admitted>>, pc # "Enumerate", pc' # "Enumerate",
           StopInv', KeptInv'
    PROVE  IInv'
<1>1. Working' = Working /\ \A p : Overflows(p)' <=> Overflows(p)
    BY SameWorkingSet
<1>2. ShapeInv' /\ SettledInv'
    BY <1>1 DEF IInv, ShapeInv, SettledInv
<1>3. BestInv'
    BY <1>1 DEF IInv, BestInv, IsBest
<1> QED BY <1>2, <1>3 DEF IInv

LEMMA EndRankingStep == IInv /\ EndRanking => IInv'
<1> SUFFICES ASSUME IInv, EndRanking PROVE IInv'
    OBVIOUS
<1>1. StopInv' /\ KeptInv'
    BY SameWorkingSet DEF EndRanking, StopInv, KeptInv
<1> QED BY <1>1, WorkingSetStays DEF EndRanking

LEMMA BestHasComeIn ==
    ASSUME IInv, pc = "Compose", NEW p \in paths, IsBest(p)
    PROVE  p.records \subseteq Working
<1> SUFFICES ASSUME p \in unranked, Working = {}
             PROVE  p.records = {}
    BY DEF IInv, BestInv
<1>1. Cardinality(Working) >= WorkingSetSize
    BY DEF IInv, StopInv, Ranked
<1>2. Cardinality(p.records) \in Nat /\ IsFiniteSet(p.records)
    BY IdSetsAreFinite DEF IInv, ShapeInv, IsPath
<1>3. Cardinality(p.records) <= 0
    BY <1>1, <1>2, FS_EmptySet, PathConstants DEF IsBest
<1> QED BY <1>2, <1>3, FS_EmptySet

\* A best path that has records and fits the packet is one the composer may take.
LEMMA BestFits ==
    ASSUME IInv, pc = "Compose", NEW p \in paths, IsBest(p),
           Cardinality(p.records) <= PacketBudget, p.records # {}
    PROVE  p \in Fitting
BY BestHasComeIn DEF Fitting, Available, IsBest, IsFirst

LEMMA AdmitPathStep ==
    ASSUME IInv, NEW a \in paths, AdmitPath(a)
    PROVE  IInv'
<1>1. /\ pc = "Compose" /\ pc' = "Fill" /\ packet' = a.records \cap Working
      /\ UNCHANGED <<paths, unranked, admitted>> /\ IsFirst(a, Fitting)
    BY DEF AdmitPath, Available
<1>2. StopInv'
    BY <1>1, SameWorkingSet DEF IInv, StopInv, Ranked
<1>3. KeptInv'
    <2> SUFFICES ASSUME NEW p \in paths, IsBest(p), Cardinality(p.records) <= PacketBudget,
                        p.records # {}
                 PROVE  p.records \subseteq packet'
        BY <1>1 DEF KeptInv, IsBest
    <2>1. p \in Fitting /\ ~Precedes(p, a)
        BY <1>1, BestFits DEF IsFirst
    <2>2. a \in Complete(paths)
        BY <1>1 DEF IsFirst, Fitting
    <2>3. ~Precedes(a, p)
        BY <2>2 DEF IsBest, IsFirst
    <2>4. a.records = p.records
        BY <2>1, <2>3, TiedPathsAreEqual DEF IInv, ShapeInv
    <2> QED BY <1>1, <2>4, BestHasComeIn
<1> QED BY <1>1, <1>2, <1>3, WorkingSetStays

LEMMA AdmitNoneStep == IInv /\ AdmitNone => IInv'
<1> SUFFICES ASSUME IInv, AdmitNone PROVE IInv'
    OBVIOUS
<1>1. /\ pc = "Compose" /\ pc' = "Fill" /\ UNCHANGED <<paths, unranked, admitted>>
      /\ Fitting = {}
    BY DEF AdmitNone
<1>2. StopInv'
    BY <1>1, SameWorkingSet DEF IInv, StopInv, Ranked
<1>3. KeptInv'
    <2> SUFFICES ASSUME NEW p \in paths, IsBest(p), Cardinality(p.records) <= PacketBudget
                 PROVE  p.records = {}
        BY <1>1 DEF KeptInv, IsBest
    <2> QED BY <1>1, BestFits
<1> QED BY <1>1, <1>2, <1>3, WorkingSetStays

LEMMA FillStep ==
    ASSUME IInv, NEW r \in Records, Fill(r)
    PROVE  IInv'
<1>1. /\ pc = "Fill" /\ pc' = pc /\ UNCHANGED <<paths, unranked, admitted>>
      /\ packet' = packet \cup {r}
    BY DEF Fill
<1>2. StopInv' /\ KeptInv'
    BY <1>1, SameWorkingSet DEF IInv, StopInv, KeptInv, Ranked, IsBest
<1> QED BY <1>1, <1>2, WorkingSetStays

LEMMA FinishStep == IInv /\ Finish => IInv'
<1> SUFFICES ASSUME IInv, Finish PROVE IInv'
    OBVIOUS
<1>1. /\ pc = "Fill" /\ pc' = "Done" /\ UNCHANGED <<paths, unranked, admitted, packet>>
    BY DEF Finish
<1>2. StopInv' /\ KeptInv'
    BY <1>1, SameWorkingSet DEF IInv, StopInv, KeptInv, Ranked, IsBest
<1> QED BY <1>1, <1>2, WorkingSetStays

LEMMA NextStep == IInv /\ [Next]_vars => IInv'
<1> SUFFICES ASSUME IInv, [Next]_vars PROVE IInv'
    OBVIOUS
<1>1. CASE Enumerate
    BY <1>1, EnumerateStep
<1>2. ASSUME NEW p \in unranked, Skip(p) \/ Retain(p) PROVE IInv'
    BY <1>2, SkipStep, RetainStep
<1>3. CASE EndRanking
    BY <1>3, EndRankingStep
<1>4. ASSUME NEW p \in paths, AdmitPath(p) PROVE IInv'
    BY <1>4, AdmitPathStep
<1>5. CASE AdmitNone
    BY <1>5, AdmitNoneStep
<1>6. ASSUME NEW r \in Records, Fill(r) PROVE IInv'
    BY <1>6, FillStep
<1>7. CASE Finish
    BY <1>7, FinishStep
<1>8. CASE UNCHANGED vars
    BY <1>8 DEF vars, IInv, ShapeInv, SettledInv, StopInv, BestInv, KeptInv, IsBest,
                Working, Overflows, Ranked
<1> QED BY <1>1, <1>2, <1>3, <1>4, <1>5, <1>6, <1>7, <1>8 DEF Next, Working

LEMMA InvAlways == Spec => []IInv
BY InitiallyInv, NextStep, PTL DEF Spec

-----------------------------------------------------------------------------
(* Theorems *)

LEMMA NoRoomIsLeft == IInv => NothingThatFitsIsLeftOut
<1> SUFFICES ASSUME IInv, Ranked, NEW p \in paths, ~(p.records \subseteq Working)
             PROVE  Overflows(p)
    BY DEF NothingThatFitsIsLeftOut
<1>1. CASE p \notin unranked
    BY <1>1 DEF IInv, SettledInv
<1>2. CASE p \in unranked
    <2>1. Cardinality(Working) >= WorkingSetSize
        BY <1>2 DEF IInv, StopInv
    <2>2. Working \in SUBSET Records /\ Working \cup p.records \in SUBSET Records
        BY DEF IInv, ShapeInv, IsPath, Working
    <2>3. Cardinality(Working) < Cardinality(Working \cup p.records)
        BY <2>2, LargerSets
    <2>4. Cardinality(Working) \in Int /\ Cardinality(Working \cup p.records) \in Int
        BY <2>2, IdSetsAreFinite
    <2> QED BY <2>1, <2>3, <2>4, PathConstants DEF Overflows
<1> QED BY <1>1, <1>2

\* rank_and_select_paths is greedy and skips what overflows; still, for any pool
\* and any ceiling, no path it leaves out would fit into the result.
THEOREM RankingIsMaximal == Spec => []NothingThatFitsIsLeftOut
BY InvAlways, NoRoomIsLeft, PTL

LEMMA BestIsKept == IInv => BestPathSurvivesWhole
<1> SUFFICES ASSUME IInv, pc \in {"Fill", "Done"}, NEW p \in Complete(paths),
                    IsFirst(p, Complete(paths)),
                    Cardinality(p.records) <= WorkingSetSize,
                    Cardinality(p.records) <= PacketBudget
             PROVE  p.records \subseteq packet
    BY DEF BestPathSurvivesWhole
<1>1. IsBest(p)
    BY DEF IsBest, Complete
<1> QED BY <1>1 DEF IInv, KeptInv, IsBest

\* Ranking, composition and fill together: for any pool, scores and sizes, the
\* first complete path reaches the reader whole if it fits at all.
THEOREM BestPathsReachTheReader == Spec => []BestPathSurvivesWhole
BY InvAlways, BestIsKept, PTL

-----------------------------------------------------------------------------
(* Paths, records and the subject *)

\* The records of a path mention the entity it ends in.
LEMMA RecordsMentionTheTerminal ==
    ASSUME NEW mode, NEW p \in Paths(mode), NEW r \in p.records
    PROVE  r \in RecordsOf(p.terminal)
<1>1. CASE p \in DirectPaths(mode)
    <2>1. PICK q \in RecordsOf(Subject) : p = Path(Subject, 0, Completes(mode, q, Subject), {q})
        BY <1>1 DEF DirectPaths
    <2>2. p.terminal = Subject /\ p.records = {q}
        BY <2>1 DEF Path
    <2> QED BY <2>2
<1>2. CASE \E b \in BridgesForSubject(Subject) \cup AliasBridges(Subject) :
               p = BridgedPath(mode, b)
    BY <1>2 DEF BridgedPath, Path, Links, Endpoints
<1> QED BY <1>1, <1>2 DEF Paths

\* The paths are those of the content; each record in the working set came with
\* a path that is all there; and the fill ends when there is nothing to fill with.
OriginInv ==
    /\ paths = IF pc = "Enumerate" THEN {} ELSE Paths("K1")
    /\ \A r \in Working : \E p \in paths : r \in p.records /\ p.records \subseteq Working
    /\ pc = "Done" /\ Cardinality(packet) < PacketBudget => Left = {}

FullInv == IInv /\ OriginInv

LEMMA InitiallyOrigin == Init => OriginInv
BY DEF Init, OriginInv, Working

LEMMA RetainKeepsOrigin ==
    ASSUME FullInv, NEW q \in unranked, Retain(q)
    PROVE  OriginInv'
<1>1. /\ paths' = paths /\ pc' = pc /\ pc = "Rank" /\ content' = content
    BY DEF Retain, Ranking
<1>2. q \in paths /\ q.records \subseteq Records /\ Working \subseteq Records
    BY DEF FullInv, IInv, ShapeInv, IsPath, Working
<1>3. Cardinality(Working) + 1 # 0
    BY <1>2, IdSetsAreFinite
<1>4. \A r \in Records : admitted'[r] # 0 <=> r \in q.records \/ admitted[r] # 0
    BY <1>3 DEF Retain, Working
<1>5. Working' = Working \cup q.records
    BY <1>2, <1>4 DEF Working
<1>6. Paths("K1")' = Paths("K1")
    BY <1>1 DEF Paths, DirectPaths, BridgedPath, BridgesForSubject, AliasBridges, AliasLinks,
                IdentityLinks, EntitiesOf, RecordsOf, Links, Endpoints, Completes, Subject,
                Identity, Canonicals
<1>7. \A r \in Working' : \E p \in paths : r \in p.records /\ p.records \subseteq Working'
    <2> SUFFICES ASSUME NEW r \in Working'
                 PROVE  \E p \in paths : r \in p.records /\ p.records \subseteq Working'
        OBVIOUS
    <2>1. CASE r \in q.records
        BY <1>2, <1>5, <2>1
    <2>2. CASE r \in Working
        BY <1>5, <2>2 DEF FullInv, OriginInv
    <2> QED BY <1>5, <2>1, <2>2
<1> QED BY <1>1, <1>6, <1>7 DEF FullInv, OriginInv

\* The other steps that leave the pool alone.
LEMMA OriginStays ==
    ASSUME FullInv, UNCHANGED <<content, paths, admitted>>, pc # "Enumerate", pc' # "Enumerate",
           pc' = "Done" /\ Cardinality(packet') < PacketBudget => Left' = {}
    PROVE  OriginInv'
<1>1. Working' = Working
    BY DEF Working
<1>2. Paths("K1")' = Paths("K1")
    BY DEF Paths, DirectPaths, BridgedPath, BridgesForSubject, AliasBridges, AliasLinks,
           IdentityLinks, EntitiesOf, RecordsOf, Links, Endpoints, Completes, Subject,
           Identity, Canonicals
<1> QED BY <1>1, <1>2 DEF FullInv, OriginInv

LEMMA NextKeepsOrigin == FullInv /\ [Next]_vars => OriginInv'
<1> SUFFICES ASSUME FullInv, [Next]_vars PROVE OriginInv'
    OBVIOUS
<1>1. CASE Enumerate
    <2>1. Working' = Working /\ Working = {}
        BY <1>1 DEF Enumerate, Working, FullInv, IInv, ShapeInv
    <2>2. content' = content
        BY <1>1 DEF Enumerate
    <2>3. Paths("K1")' = Paths("K1")
        BY <2>2 DEF Paths, DirectPaths, BridgedPath, BridgesForSubject, AliasBridges, AliasLinks,
                    IdentityLinks, EntitiesOf, RecordsOf, Links, Endpoints, Completes, Subject,
                    Identity, Canonicals
    <2>4. pc' = "Rank" /\ paths' = Paths("K1")
        BY <1>1 DEF Enumerate
    <2> QED BY <2>1, <2>3, <2>4 DEF OriginInv
<1>2. ASSUME NEW p \in unranked, Skip(p) PROVE OriginInv'
    BY <1>2, OriginStays DEF Skip, Ranking
<1>3. ASSUME NEW p \in unranked, Retain(p) PROVE OriginInv'
    BY <1>3, RetainKeepsOrigin
<1>4. CASE EndRanking
    BY <1>4, OriginStays DEF EndRanking
<1>5. ASSUME NEW p \in paths, AdmitPath(p) PROVE OriginInv'
    BY <1>5, OriginStays DEF AdmitPath
<1>6. CASE AdmitNone
    BY <1>6, OriginStays DEF AdmitNone
<1>7. ASSUME NEW r \in Records, Fill(r) PROVE OriginInv'
    BY <1>7, OriginStays DEF Fill
<1>8. CASE Finish
    <2>1. UNCHANGED <<content, admitted, packet>>
        BY <1>8 DEF Finish
    <2>2. Left' = Left
        BY <2>1 DEF Left, Ordered, OrderSubject, OrderIdentity, Protected, Eligible, PreferredTo,
                    EntersBefore, Connected, OneHopBridges, Words, EntitiesOf, Identity, Canonicals,
                    IdentityLinks, Working
    <2> QED BY <1>8, <2>1, <2>2, OriginStays DEF Finish
<1>9. CASE UNCHANGED vars
    <2>1. UNCHANGED <<content, pc, paths, admitted, packet>>
        BY <1>9 DEF vars
    <2>2. Left' = Left /\ Working' = Working
        BY <2>1 DEF Left, Ordered, OrderSubject, OrderIdentity, Protected, Eligible, PreferredTo,
                    EntersBefore, Connected, OneHopBridges, Words, EntitiesOf, Identity, Canonicals,
                    IdentityLinks, Working
    <2>3. Paths("K1")' = Paths("K1")
        BY <2>1 DEF Paths, DirectPaths, BridgedPath, BridgesForSubject, AliasBridges, AliasLinks,
                    IdentityLinks, EntitiesOf, RecordsOf, Links, Endpoints, Completes, Subject,
                    Identity, Canonicals
    <2> QED BY <2>1, <2>2, <2>3 DEF FullInv, OriginInv
<1> QED BY <1>1, <1>2, <1>3, <1>4, <1>5, <1>6, <1>7, <1>8, <1>9 DEF Next, Working

LEMMA FullAlways == Spec => []FullInv
BY InitiallyInv, InitiallyOrigin, NextStep, NextKeepsOrigin, PTL DEF Spec, FullInv

LEMMA DroppedAreAliasReached == FullInv => OnlyAliasReachedAreDropped
<1> SUFFICES ASSUME FullInv, pc = "Done", Cardinality(packet) < PacketBudget,
                    OrderSubject = Subject, NEW r \in Working \ packet
             PROVE  \E p \in paths : /\ r \in p.records /\ p.records \subseteq Working
                                     /\ p.records \cap NamedIn(Subject) = {}
    BY DEF OnlyAliasReachedAreDropped
<1>1. PICK p \in paths : r \in p.records /\ p.records \subseteq Working
    BY DEF FullInv, OriginInv
<1>2. p \in Paths("K1") /\ Subject # None
    BY <1>1 DEF FullInv, OriginInv, Paths
<1>3. r \notin Left
    BY DEF FullInv, OriginInv
<1>4. ~Connected(r)
    BY <1>2, <1>3 DEF Left, Ordered
<1>5. ASSUME NEW s \in p.records, s \in NamedIn(Subject)
      PROVE  FALSE
    <2>1. r \in RecordsOf(p.terminal) /\ s \in RecordsOf(p.terminal)
        BY <1>1, <1>2, RecordsMentionTheTerminal
    <2>2. CASE p.terminal = Subject
        BY <1>4, <2>1, <2>2 DEF Connected, RecordsOf, Words
    <2>3. CASE p.terminal # Subject
        <3>1. s \in Working /\ OrderSubject \in Words(s)
            BY <1>1, <1>5 DEF NamedIn
        <3>2. p.terminal \in OneHopBridges
            BY <2>1, <2>3, <3>1 DEF OneHopBridges, EntitiesOf, RecordsOf
        <3>3. p.terminal \in Words(r)
            BY <2>1 DEF RecordsOf, Words
        <3> QED BY <1>4, <3>2, <3>3 DEF Connected
    <2> QED BY <2>2, <2>3
<1> QED BY <1>1, <1>5

\* S2 knows nothing of paths and looks at the working set alone; for any pool it
\* drops, of what there is room for, only what an alias alone led to.
THEOREM GroundedRecordsAreServed == Spec => []OnlyAliasReachedAreDropped
BY FullAlways, DroppedAreAliasReached, PTL

-----------------------------------------------------------------------------
(* The four walks *)

SubjectBridges == BridgesForSubject(Subject) \cup AliasBridges(Subject)

LEMMA BridgesAreTwoHopsAway ==
    ASSUME NEW b \in SubjectBridges
    PROVE  b \in TwoHops(Subject)
<1>1. CASE b \in BridgesForSubject(Subject)
    BY <1>1 DEF BridgesForSubject, TwoHops, Neighbours
<1>2. CASE b \in AliasBridges(Subject)
    <2>1. PICK a \in AliasLinks(Subject) : b \in EntitiesOf(RecordsOf(a))
        BY <1>2 DEF AliasBridges, EntitiesOf
    <2>2. a \in Neighbours(Subject)
        BY DEF Neighbours, AliasLinks
    <2>3. CASE b = a
        BY <2>2, <2>3 DEF TwoHops
    <2>4. CASE b # a
        BY <2>1, <2>2, <2>4 DEF TwoHops, Neighbours
    <2> QED BY <2>3, <2>4
<1> QED BY <1>1, <1>2 DEF SubjectBridges

LEMMA PathsLieWithinTheWalk ==
    ASSUME NEW mode, NEW p \in Paths(mode), Subject # None
    PROVE  p.records \subseteq TopologyReachable /\ p.terminal \in TwoHops(Subject)
<1>1. p.terminal = Subject \/ p.terminal \in SubjectBridges
    <2>1. CASE p \in DirectPaths(mode)
        <3>1. PICK q \in RecordsOf(Subject) :
                 p = Path(Subject, 0, Completes(mode, q, Subject), {q})
            BY <2>1 DEF DirectPaths
        <3> QED BY <3>1 DEF Path
    <2>2. CASE \E b \in SubjectBridges : p = BridgedPath(mode, b)
        BY <2>2 DEF BridgedPath, Path
    <2> QED BY <2>1, <2>2 DEF Paths, SubjectBridges
<1>2. RecordsOf(p.terminal) \subseteq TopologyReachable
    BY <1>1 DEF TopologyReachable, SubjectBridges
<1>3. p.records \subseteq TopologyReachable
    BY <1>2, RecordsMentionTheTerminal
<1>4. p.terminal \in TwoHops(Subject)
    BY <1>1, BridgesAreTwoHopsAway DEF TwoHops
<1> QED BY <1>3, <1>4

LEMMA MentionedIsNamed == \A x : RecordsOf(x) \subseteq NamedIn(x)
BY DEF RecordsOf, NamedIn, Words

LEMMA BridgesAreOneHopAway == SubjectBridges \subseteq OneHop
BY MentionedIsNamed DEF SubjectBridges, OneHop, BridgesForSubject, EntitiesOf

\* A complete path of G2 is one answering record of the subject, or a bridge's
\* answering records with the records that link it.
LEMMA CompletePaths ==
    ASSUME NEW p \in Complete(Paths("K0")), Subject # None
    PROVE  \/ \E r \in RecordsOf(Subject) \cap Answering : p.records = {r}
           \/ \E b \in SubjectBridges :
                 p.records = Links(b) \cup (RecordsOf(b) \cap Answering)
<1>1. CASE p \in DirectPaths("K0")
    <2>1. PICK r \in RecordsOf(Subject) :
              p = Path(Subject, 0, Completes("K0", r, Subject), {r})
        BY <1>1 DEF DirectPaths
    <2>2. p.complete
        BY DEF Complete
    <2>3. r \in Answering
        BY <2>1, <2>2 DEF Path, Completes, Answering, RecordsOf
    <2> QED BY <2>1, <2>3 DEF Path
<1>2. CASE \E b \in SubjectBridges : p = BridgedPath("K0", b)
    <2>1. PICK b \in SubjectBridges : p = BridgedPath("K0", b)
        BY <1>2
    <2>2. p.complete
        BY DEF Complete
    <2>3. p.records = Links(b) \cup Endpoints("K0", b)
        BY <2>1, <2>2 DEF BridgedPath, Path
    <2>4. Endpoints("K0", b) = RecordsOf(b) \cap Answering
        BY DEF Endpoints, Completes, Answering, RecordsOf
    <2> QED BY <2>3, <2>4
<1> QED BY <1>1, <1>2 DEF Complete, Paths, SubjectBridges

LEMMA TheTemplateFindsAnswers ==
    ASSUME NEW p \in Complete(Paths("K0")), Subject # None
    PROVE  /\ p.records \cap Answering \subseteq PathParticipants
           /\ p.records \subseteq NamedIn(Subject) \/ p.records \subseteq PathParticipants
<1>1. CASE \E r \in RecordsOf(Subject) \cap Answering : p.records = {r}
    BY <1>1, MentionedIsNamed DEF PathParticipants, TypedDirect
<1>2. ASSUME NEW b \in SubjectBridges,
             p.records = Links(b) \cup (RecordsOf(b) \cap Answering)
      PROVE  /\ p.records \cap Answering \subseteq PathParticipants
             /\ p.records \subseteq NamedIn(Subject) \/ p.records \subseteq PathParticipants
    <2>1. Links(b) \subseteq NamedIn(Subject) /\ Links(b) \subseteq RecordsOf(b)
        BY MentionedIsNamed DEF Links
    <2>2. b \in OneHop
        BY BridgesAreOneHopAway
    <2>3. ASSUME NEW r \in (RecordsOf(b) \cap Answering) \ NamedIn(Subject)
          PROVE  r \in PathParticipants /\ b \in ClosingBridges
        BY <2>2 DEF PathParticipants, TypedEndpoints, ClosingBridges
    <2>4. RecordsOf(b) \cap Answering \subseteq PathParticipants
        BY <2>3 DEF PathParticipants, TypedDirect
    <2>5. p.records \cap Answering \subseteq PathParticipants
        BY <1>2, <2>1, <2>4
    <2>6. CASE b \in ClosingBridges
        <3>1. Links(b) \subseteq PathParticipants
            BY <2>1, <2>6 DEF PathParticipants, TypedLinks, RecordsOf
        <3>2. p.records \subseteq PathParticipants
            BY <1>2, <2>4, <3>1
        <3> QED BY <2>5, <3>2
    <2>7. CASE b \notin ClosingBridges
        <3>1. RecordsOf(b) \cap Answering \subseteq NamedIn(Subject)
            BY <2>3, <2>7
        <3> QED BY <1>2, <2>1, <2>5, <3>1
    <2> QED BY <2>6, <2>7
<1> QED BY <1>1, <1>2, CompletePaths

\* Where the words name the subject only as the extractor sees it, a closing
\* bridge is one that G2 has a complete path over.
LEMMA ClosedBridgesAreComplete ==
    ASSUME NEW b \in ClosingBridges, Subject # None, NamedIn(Subject) = RecordsOf(Subject)
    PROVE  /\ BridgedPath("K0", b) \in Complete(Paths("K0"))
           /\ BridgedPath("K0", b).records = Links(b) \cup (RecordsOf(b) \cap Answering)
<1>1. Endpoints("K0", b) = RecordsOf(b) \cap Answering
    BY DEF Endpoints, Completes, Answering, RecordsOf
<1>2. Endpoints("K0", b) # {}
    BY <1>1 DEF ClosingBridges
<1>3. BridgedPath("K0", b) = Path(b, 1, TRUE, Links(b) \cup Endpoints("K0", b))
    BY <1>2 DEF BridgedPath
<1>4. BridgedPath("K0", b) \in Paths("K0")
    BY DEF Paths, ClosingBridges, OneHop, BridgesForSubject
<1> QED BY <1>1, <1>3, <1>4 DEF Complete, Path

LEMMA ParticipantsAreOnCompletePaths ==
    ASSUME Subject # None, NamedIn(Subject) = RecordsOf(Subject), NEW r \in PathParticipants
    PROVE  \E p \in Complete(Paths("K0")) : r \in p.records
<1>1. CASE r \in TypedDirect
    <2> DEFINE p == Path(Subject, 0, Completes("K0", r, Subject), {r})
    <2>1. p \in Paths("K0")
        BY <1>1 DEF TypedDirect, Paths, DirectPaths
    <2>2. p.complete /\ r \in p.records
        BY <1>1 DEF TypedDirect, Answering, Path, Completes
    <2> QED BY <2>1, <2>2 DEF Complete
<1>2. CASE r \in TypedEndpoints
    <2>1. PICK b \in ClosingBridges : r \in RecordsOf(b) \cap Answering
        BY <1>2 DEF TypedEndpoints
    <2> QED BY <2>1, ClosedBridgesAreComplete
<1>3. CASE r \in TypedLinks
    <2>1. PICK b \in ClosingBridges : r \in RecordsOf(Subject) /\ b \in content[r].mentions
        BY <1>3 DEF TypedLinks
    <2>2. r \in Links(b)
        BY <2>1 DEF Links, RecordsOf
    <2> QED BY <2>2, ClosedBridgesAreComplete
<1> QED BY <1>1, <1>2, <1>3 DEF PathParticipants

LEMMA TheWalksAgree == FullInv => WalksAgree
<1> SUFFICES ASSUME FullInv, pc = "Compose", Subject # None PROVE WalksAgree
    BY DEF WalksAgree
<1>1. paths = Paths("K1")
    BY DEF FullInv, OriginInv
<1> QED BY <1>1, PathsLieWithinTheWalk, TheTemplateFindsAnswers, ParticipantsAreOnCompletePaths
        DEF WalksAgree

\* G1's template and G2 each have their own code for the walk of two hops; for
\* any pool and any question, the template finds every answer that G2 finds, and
\* finds more only by the words of the subject inside of other names.
THEOREM CopiesOfTheWalkAgree == Spec => []WalksAgree
BY FullAlways, TheWalksAgree, PTL

=============================================================================
