----------------------- MODULE MemoryConsistencyProofs -----------------------
(****************************************************************************)
(* The incremental consolidation equals the one from scratch, for every set *)
(* of records, every relation of names and every order of events; and the   *)
(* forest beneath both groups the names by component (second part).         *)
(****************************************************************************)
EXTENDS MemoryConsistency, UnionFind, ClaimEventsProofs, WellFoundedInduction

(* The index that describes a set of retrievable records. *)
IndexOf(active) ==
    [active     |-> active,
     byContent  |-> [x \in Contents |-> {c \in active : Content[c] = x}],
     aliasEdges |-> {AliasEdge(c) : c \in {d \in active : IsAlias(d)}}]

IndexInv == mem \in Memories /\ index = IndexOf(Retrievable(mem))

(* Equal indexes are compared field by field. *)
LEMMA SameFields ==
    ASSUME NEW a1, NEW a2, NEW b1, NEW b2, NEW e1, NEW e2, a1 = a2, b1 = b2, e1 = e2
    PROVE  [active |-> a1, byContent |-> b1, aliasEdges |-> e1]
           = [active |-> a2, byContent |-> b2, aliasEdges |-> e2]
OBVIOUS

(* _add describes one record more. *)
LEMMA AddDescribes ==
    ASSUME NEW A \in SUBSET Claims, NEW c \in Claims
    PROVE  AddToIndex(IndexOf(A), c) = IndexOf(A \cup {c})
<1> DEFINE B == A \cup {c}
           ix == IndexOf(A)
           buckets == [x \in Contents |-> {d \in A : Content[d] = x}]
           edges == {AliasEdge(d) : d \in {b \in A : IsAlias(b)}}
<1>1. ix.active = A /\ ix.byContent = buckets /\ ix.aliasEdges = edges
    BY DEF IndexOf
<1>2. [buckets EXCEPT ![Content[c]] = @ \cup {c}] = [x \in Contents |-> {d \in B : Content[d] = x}]
    <2>1. Content[c] \in Contents
        BY DEF Contents
    <2>2. ASSUME NEW x \in Contents
          PROVE  [buckets EXCEPT ![Content[c]] = @ \cup {c}][x] = {d \in B : Content[d] = x}
        BY <2>1
    <2> QED BY <2>1, <2>2
<1>3. edges \cup (IF IsAlias(c) THEN {AliasEdge(c)} ELSE {}) = {AliasEdge(d) : d \in {b \in B : IsAlias(b)}}
    OBVIOUS
<1>4. AddToIndex(ix, c) = [active |-> B, byContent |-> [buckets EXCEPT ![Content[c]] = @ \cup {c}],
                           aliasEdges |-> edges \cup (IF IsAlias(c) THEN {AliasEdge(c)} ELSE {})]
    <2> HIDE DEF ix, buckets, edges
    <2> QED BY <1>1 DEF AddToIndex
<1>5. IndexOf(B) = [active |-> B, byContent |-> [x \in Contents |-> {d \in B : Content[d] = x}],
                    aliasEdges |-> {AliasEdge(d) : d \in {b \in B : IsAlias(b)}}]
    BY DEF IndexOf
<1> QED BY <1>2, <1>3, <1>4, <1>5, SameFields

(* _remove describes one record less: an edge that another active record
   asserts is still described by that record. *)
LEMMA RemoveDescribes ==
    ASSUME NEW A \in SUBSET Claims, NEW c \in Claims
    PROVE  RemoveFromIndex(IndexOf(A), c) = IndexOf(A \ {c})
<1> DEFINE B == A \ {c}
           ix == IndexOf(A)
           buckets == [x \in Contents |-> {d \in A : Content[d] = x}]
           edges == {AliasEdge(d) : d \in {b \in A : IsAlias(b)}}
           left == IF IsAlias(c) /\ ~\E d \in B : IsAlias(d) /\ AliasEdge(d) = AliasEdge(c)
                   THEN edges \ {AliasEdge(c)} ELSE edges
<1>1. ix.active = A /\ ix.byContent = buckets /\ ix.aliasEdges = edges
    BY DEF IndexOf
<1>2. CASE c \notin A
    <2>1. B = A
        BY <1>2
    <2>2. RemoveFromIndex(ix, c) = ix
        <3> HIDE DEF ix
        <3> QED BY <1>1, <1>2 DEF RemoveFromIndex
    <2> QED BY <2>1, <2>2
<1>3. CASE c \in A
    <2>1. [buckets EXCEPT ![Content[c]] = @ \ {c}] = [x \in Contents |-> {d \in B : Content[d] = x}]
        <3>1. Content[c] \in Contents
            BY DEF Contents
        <3>2. ASSUME NEW x \in Contents
              PROVE  [buckets EXCEPT ![Content[c]] = @ \ {c}][x] = {d \in B : Content[d] = x}
            BY <3>1
        <3> QED BY <3>1, <3>2
    <2>2. left = {AliasEdge(d) : d \in {b \in B : IsAlias(b)}}
        <3>1. ASSUME NEW e \in left
              PROVE  e \in {AliasEdge(d) : d \in {b \in B : IsAlias(b)}}
            <4>1. PICK d \in A : IsAlias(d) /\ e = AliasEdge(d)
                BY <3>1
            <4>2. CASE d = c
                <5>1. \E b \in B : IsAlias(b) /\ AliasEdge(b) = AliasEdge(c)
                    BY <3>1, <4>1, <4>2
                <5> QED BY <5>1, <4>1, <4>2
            <4> QED BY <4>1, <4>2
        <3>2. ASSUME NEW b \in B, IsAlias(b)
              PROVE  AliasEdge(b) \in left
            BY <3>2
        <3> QED BY <3>1, <3>2
    <2>3. RemoveFromIndex(ix, c) = [active |-> B, byContent |-> [buckets EXCEPT ![Content[c]] = @ \ {c}],
                                    aliasEdges |-> left]
        <3>1. RemoveFromIndex(ix, c) =
                [active     |-> ix.active \ {c},
                 byContent  |-> [ix.byContent EXCEPT ![Content[c]] = @ \ {c}],
                 aliasEdges |-> IF IsAlias(c) /\ ~\E d \in ix.active \ {c} : IsAlias(d) /\ AliasEdge(d) = AliasEdge(c)
                                THEN ix.aliasEdges \ {AliasEdge(c)} ELSE ix.aliasEdges]
            <4> HIDE DEF ix
            <4> QED BY <1>1, <1>3 DEF RemoveFromIndex
        <3> HIDE DEF ix, buckets, edges
        <3> QED BY <3>1, <1>1
    <2>4. IndexOf(B) = [active |-> B, byContent |-> [x \in Contents |-> {d \in B : Content[d] = x}],
                        aliasEdges |-> {AliasEdge(d) : d \in {b \in B : IsAlias(b)}}]
        BY DEF IndexOf
    <2> QED BY <2>1, <2>2, <2>3, <2>4, SameFields
<1> QED BY <1>2, <1>3

(* An event moves the records and the index together (_apply_event). *)
LEMMA EventKeepsIndex ==
    ASSUME NEW m \in Memories, NEW e \in Events
    PROVE  /\ ApplyEvent(m, e) \in Memories
           /\ ApplyToIndex(IndexOf(Retrievable(m)), e) = IndexOf(Retrievable(ApplyEvent(m, e)))
<1>1. Retrievable(m) \in SUBSET Claims
    BY DEF Retrievable
<1>2. CASE e \in IngestEvents
    <2>1. e.event = "INGEST" /\ e.claim \in Claims
        BY <1>2 DEF IngestEvents
    <2>2. Retrievable(ApplyEvent(m, e)) = Retrievable(m) \cup {e.claim}
        BY <2>1, RetrievableStep
    <2>3. ApplyToIndex(IndexOf(Retrievable(m)), e) = AddToIndex(IndexOf(Retrievable(m)), e.claim)
        BY <2>1 DEF ApplyToIndex
    <2> QED BY <1>1, <2>1, <2>2, <2>3, AddDescribes, ApplyType
<1>3. CASE e \in StateChanges
    <2>1. e.event = "STATE_CHANGE" /\ e.claim \in Claims
        BY <1>3 DEF StateChanges
    <2>2. Retrievable(ApplyEvent(m, e)) = Retrievable(m) \ {e.claim}
        BY <2>1, RetrievableStep
    <2>3. ApplyToIndex(IndexOf(Retrievable(m)), e) = RemoveFromIndex(IndexOf(Retrievable(m)), e.claim)
        BY <2>1 DEF ApplyToIndex
    <2> QED BY <1>1, <2>1, <2>2, <2>3, RemoveDescribes, ApplyType
<1>4. CASE e \in VerificationEvents
    <2>1. e.event = "VERIFICATION"
        BY <1>4 DEF VerificationEvents
    <2>2. Retrievable(ApplyEvent(m, e)) = Retrievable(m)
        BY <2>1, RetrievableStep
    <2>3. ApplyToIndex(IndexOf(Retrievable(m)), e) = IndexOf(Retrievable(m))
        BY <2>1 DEF ApplyToIndex
    <2> QED BY <2>2, <2>3, ApplyType
<1> QED BY <1>2, <1>3, <1>4 DEF Events

(* The events of the actions are events of the store. *)
LEMMA ActionEvents ==
    /\ \A c \in Claims, p \in Claims \cup {None} : IngestEvent(c, p) \in Events
    /\ \A c \in Claims, s \in NonRetrievable, b \in Claims \cup {None} : StateChange(c, s, b) \in Events
    /\ \A v \in Verdicts : VerificationEvent(v) \in Events
BY DEF Events, IngestEvents, StateChanges, VerificationEvents, IngestEvent, StateChange,
       VerificationEvent

(* Every step of worker and callers keeps the index invariant. *)
LEMMA IndexInvStep ==
    ASSUME IndexInv, Next
    PROVE  IndexInv'
<1>1. ASSUME NEW e \in Events, Apply(e)
      PROVE  IndexInv'
    BY <1>1, EventKeepsIndex DEF IndexInv, Apply
<1>2. ASSUME NEW c \in Claims, Verify(c)
      PROVE  IndexInv'
    <2>1. PICK v \in Verdicts : \/ UNCHANGED <<mem, index>>
                               \/ Apply(VerificationEvent(v))
        BY <1>2 DEF Verify
    <2>2. CASE UNCHANGED <<mem, index>>
        BY <2>2 DEF IndexInv
    <2> QED BY <2>1, <2>2, <1>1, ActionEvents
<1>3. ASSUME NEW c \in Claims, Ingest(c) \/ Retract(c)
      PROVE  IndexInv'
    BY <1>3, <1>1, ActionEvents DEF Ingest, Retract, NonRetrievable
<1>4. ASSUME NEW c \in Claims, NEW p \in Claims, IngestSuperseding(c, p)
      PROVE  IndexInv'
    <2> DEFINE first == IngestEvent(c, p)
               then == StateChange(p, "SUPERSEDED", c)
               half == ApplyEvent(mem, first)
    <2>1. first \in Events /\ then \in Events
        BY ActionEvents DEF NonRetrievable
    <2>2. mem' = ApplyEvent(half, then) /\ index' = ApplyToIndex(ApplyToIndex(index, first), then)
        BY <1>4 DEF IngestSuperseding
    <2> HIDE DEF first, then
    <2>3. half \in Memories /\ ApplyToIndex(index, first) = IndexOf(Retrievable(half))
        BY <2>1, EventKeepsIndex DEF IndexInv
    <2> HIDE DEF half
    <2> QED BY <2>1, <2>2, <2>3, EventKeepsIndex DEF IndexInv
<1>5. CASE TakeQueue
    BY <1>5 DEF TakeQueue, IndexInv
<1>6. ASSUME NEW c \in Claims, VerifyNext(c) \/ VerifyDirectly(c)
      PROVE  IndexInv'
    BY <1>6, <1>2 DEF VerifyNext, VerifyDirectly
<1> QED BY <1>3, <1>4, <1>5, <1>6 DEF Next

LEMMA InitiallyDescribed == Init => IndexInv
<1>1. Retrievable(EmptyMemory) = {}
    BY DEF Retrievable, EmptyMemory
<1>2. EmptyIndex = IndexOf({})
    BY DEF EmptyIndex, IndexOf
<1> QED BY <1>1, <1>2, EmptyMemoryType DEF Init, IndexInv

(* C9: whatever events came in whatever order, the state that the incremental
   index gives is the one that a scan of all the records gives. *)
THEOREM IncrementalIsScratch == Spec => []IncrementalMatchesScratch
<1>1. Init => IndexInv
    BY InitiallyDescribed
<1>2. IndexInv /\ [Next]_vars => IndexInv'
    <2>1. IndexInv /\ UNCHANGED vars => IndexInv'
        BY DEF IndexInv, vars
    <2> QED BY <2>1, IndexInvStep
<1>3. IndexInv => IncrementalMatchesScratch
    <2> SUFFICES ASSUME IndexInv PROVE Snapshot(index) = FromScratch(mem)
        BY DEF IncrementalMatchesScratch
    <2> DEFINE A == Retrievable(mem)
    <2>1. /\ index.active = A
          /\ \A x \in Contents : index.byContent[x] = {c \in A : Content[c] = x}
          /\ index.aliasEdges = {AliasEdge(c) : c \in {d \in A : IsAlias(d)}}
        BY DEF IndexInv, IndexOf
    <2>2. {index.byContent[x] : x \in Contents} = {{c \in A : Content[c] = x} : x \in Contents}
        BY <2>1
    <2> QED BY <2>1, <2>2 DEF Snapshot, FromScratch
<1> QED BY <1>1, <1>2, <1>3, PTL DEF Spec

-----------------------------------------------------------------------------
(* The worklist *)

KnownIn(m) == {c \in Claims : Known(m, c)}

WorkInv == Listed \subseteq KnownIn(mem)

(* No event makes the store forget a record. *)
LEMMA KnownGrows ==
    ASSUME NEW m \in Memories, NEW e \in Events
    PROVE  KnownIn(m) \subseteq KnownIn(ApplyEvent(m, e))
<1> DEFINE n == ApplyEvent(m, e)
<1>1. CASE e \in IngestEvents \cup StateChanges
    <2>1. e.claim \in Claims /\ Outcome(e) # "ABSENT"
        BY <1>1 DEF IngestEvents, StateChanges, NonRetrievable, Outcome
    <2>2. n.lifecycle = [m.lifecycle EXCEPT ![e.claim] = Outcome(e)]
        BY <1>1, ApplyToRecords
    <2> HIDE DEF n
    <2>3. \A c \in Claims : n.lifecycle[c] = IF c = e.claim THEN Outcome(e) ELSE m.lifecycle[c]
        BY <2>1, <2>2 DEF Memories
    <2>4. KnownIn(m) \subseteq KnownIn(n)
        BY <2>1, <2>3 DEF KnownIn, Known
    <2> QED BY <2>4 DEF n
<1>2. CASE e \in VerificationEvents
    <2>1. n.lifecycle = m.lifecycle
        BY <1>2, ApplyToVerdicts
    <2> HIDE DEF n
    <2>2. KnownIn(m) \subseteq KnownIn(n)
        BY <2>1 DEF KnownIn, Known
    <2> QED BY <2>2 DEF n
<1> QED BY <1>1, <1>2 DEF Events

(* What a step does to the store leaves a list that does not grow known. *)
LEMMA WorkInvStep ==
    ASSUME IndexInv, WorkInv, Next
    PROVE  WorkInv'
<1>1. ASSUME KnownIn(mem) \subseteq KnownIn(mem)', Listed' \subseteq Listed
      PROVE  WorkInv'
    BY <1>1 DEF WorkInv
<1>2. ASSUME NEW e \in Events, Apply(e)
      PROVE  KnownIn(mem) \subseteq KnownIn(mem)'
    <2>1. mem' = ApplyEvent(mem, e) /\ KnownIn(mem)' = KnownIn(mem')
        BY <1>2 DEF Apply, KnownIn, Known
    <2> QED BY <2>1, KnownGrows DEF IndexInv
<1>3. ASSUME NEW c \in Claims, Verify(c)
      PROVE  KnownIn(mem) \subseteq KnownIn(mem)'
    <2>1. PICK v \in Verdicts : \/ UNCHANGED <<mem, index>>
                               \/ Apply(VerificationEvent(v))
        BY <1>3 DEF Verify
    <2>2. CASE UNCHANGED <<mem, index>>
        BY <2>2 DEF KnownIn, Known
    <2> QED BY <2>1, <2>2, <1>2, ActionEvents
<1>4. ASSUME NEW c \in Claims, Ingest(c) \/ Retract(c)
      PROVE  WorkInv'
    <2>1. Listed' = Listed
        BY <1>4 DEF Ingest, Retract, Listed
    <2>2. \E e \in Events : Apply(e)
        BY <1>4, ActionEvents DEF Ingest, Retract, NonRetrievable
    <2> QED BY <2>1, <2>2, <1>1, <1>2
<1>5. ASSUME NEW c \in Claims, NEW p \in Claims, IngestSuperseding(c, p)
      PROVE  WorkInv'
    <2> DEFINE first == IngestEvent(c, p)
               then == StateChange(p, "SUPERSEDED", c)
               half == ApplyEvent(mem, first)
    <2>1. first \in Events /\ then \in Events
        BY ActionEvents DEF NonRetrievable
    <2>2. mem' = ApplyEvent(half, then) /\ Listed' = Listed
        BY <1>5 DEF IngestSuperseding, Listed
    <2> HIDE DEF first, then
    <2>3. half \in Memories /\ KnownIn(mem) \subseteq KnownIn(half)
        BY <2>1, ApplyType, KnownGrows DEF IndexInv
    <2> HIDE DEF half
    <2>4. KnownIn(half) \subseteq KnownIn(mem')
        BY <2>1, <2>2, <2>3, KnownGrows
    <2>5. KnownIn(mem)' = KnownIn(mem')
        BY DEF KnownIn, Known
    <2> QED BY <1>1, <2>2, <2>3, <2>4, <2>5
<1>6. CASE TakeQueue
    <2>1. Listed' = Queue /\ mem' = mem
        BY <1>6 DEF TakeQueue, Listed
    <2>2. Queue \subseteq KnownIn(mem)
        BY DEF Queue, Retrievable, KnownIn, Known
    <2>3. KnownIn(mem)' = KnownIn(mem)
        BY <2>1 DEF KnownIn, Known
    <2> QED BY <2>1, <2>2, <2>3 DEF WorkInv
<1>7. ASSUME NEW c \in Claims, VerifyNext(c) \/ VerifyDirectly(c)
      PROVE  WorkInv'
    <2>1. Listed' \subseteq Listed
        BY <1>7 DEF VerifyNext, VerifyDirectly, Listed
    <2> QED BY <2>1, <1>1, <1>3, <1>7 DEF VerifyNext, VerifyDirectly
<1> QED BY <1>4, <1>5, <1>6, <1>7 DEF Next

(* Every variable keeps its type, and a list taken long ago names records that
   the store still has, withdrawn or not: verify never meets an unknown one. *)
THEOREM ListedRecordsAreStored == Spec => []TypeOK
<1>1. Init => IndexInv /\ WorkInv
    BY InitiallyDescribed DEF Init, WorkInv, Listed
<1>2. IndexInv /\ WorkInv /\ [Next]_vars => (IndexInv /\ WorkInv)'
    <2>1. IndexInv /\ WorkInv /\ UNCHANGED vars => (IndexInv /\ WorkInv)'
        BY DEF IndexInv, WorkInv, Listed, KnownIn, Known, vars
    <2> QED BY <2>1, IndexInvStep, WorkInvStep
<1>3. IndexInv /\ WorkInv => TypeOK
    <2> SUFFICES ASSUME IndexInv, WorkInv PROVE TypeOK
        OBVIOUS
    <2>1. Retrievable(mem) \subseteq Claims
        BY DEF Retrievable
    <2>2. index.active \subseteq Claims
        BY <2>1 DEF IndexInv, IndexOf
    <2>3. index.byContent \in [Contents -> SUBSET Claims]
        BY <2>1 DEF IndexInv, IndexOf
    <2>4. index.aliasEdges \subseteq {AliasEdge(c) : c \in Claims}
        BY <2>1 DEF IndexInv, IndexOf
    <2> QED BY <2>2, <2>3, <2>4 DEF TypeOK, IndexInv, WorkInv, KnownIn
<1> QED BY <1>1, <1>2, <1>3, PTL DEF Spec

-----------------------------------------------------------------------------
(* The worker's verdicts *)

WorkerResults == {"SUPPORTED", "CONTRADICTED", "INCONCLUSIVE"}

Oppose(c, d) == ClaimKey[c] = ClaimKey[d] /\ Source[c] # Source[d] /\ Value[c] # Value[d]

(* Whether live or not, some verdict supports c. *)
Backed(m, c) == \E v \in m.verdictIds : VerdictOf[v].claim = c /\ VerdictOf[v].result = "SUPPORTED"

(* What supports a claim: records of other sources that say the same of its key. *)
Corroborates(v) ==
    /\ VerdictOf[v].evidence # {}
    /\ \A d \in VerdictOf[v].evidence :
           /\ d # VerdictOf[v].claim /\ ClaimKey[d] = ClaimKey[VerdictOf[v].claim]
           /\ Source[d] # Source[VerdictOf[v].claim] /\ Value[d] = Value[VerdictOf[v].claim]

(* Every verdict is one of the worker's, about a record that is known, with the
   evidence its result needs, and filed under it; of two retrievable records that oppose each other at most one has
   ever been supported. *)
VerdictInv(m) ==
    /\ \A v \in m.verdictIds : /\ VerdictOf[v].retires = None
                               /\ VerdictOf[v].result \in WorkerResults
                               /\ Known(m, VerdictOf[v].claim)
                               /\ ~VerdictOf[v].external
                               /\ VerdictOf[v].result = "SUPPORTED" => Corroborates(v)
    /\ \A c \in Claims : VerdictsOn(m, c) = {v \in m.verdictIds : VerdictOf[v].claim = c}
    /\ \A c, d \in Retrievable(m) : Oppose(c, d) => ~(Backed(m, c) /\ Backed(m, d))

(* A record that is ingested has no verdict yet; a withdrawal only takes one of
   two opposing records away. *)
LEMMA RecordKeepsVerdicts ==
    ASSUME NEW m \in Memories, VerdictInv(m), NEW e \in IngestEvents \cup StateChanges,
           e.event = "INGEST" => ~Known(m, e.claim)
    PROVE  VerdictInv(ApplyEvent(m, e))
<1> DEFINE n == ApplyEvent(m, e)
<1>1. n.verdicts = m.verdicts /\ n.verdictIds = m.verdictIds
    BY ApplyToRecords
<1>2. e.claim \in Claims /\ e \in Events
    BY DEF IngestEvents, StateChanges, Events
<1>3. Retrievable(n) \subseteq Retrievable(m) \cup {x \in {e.claim} : ~Known(m, x)}
    <2>1. CASE e \in IngestEvents
        <3>1. e.event = "INGEST"
            BY <2>1 DEF IngestEvents
        <3>2. Retrievable(n) = Retrievable(m) \cup {e.claim}
            BY <1>2, <3>1, RetrievableStep
        <3> QED BY <3>1, <3>2
    <2>2. CASE e \in StateChanges
        <3>1. e.event = "STATE_CHANGE"
            BY <2>2 DEF StateChanges
        <3>2. Retrievable(n) = Retrievable(m) \ {e.claim}
            BY <1>2, <3>1, RetrievableStep
        <3> QED BY <3>2
    <2> QED BY <2>1, <2>2
<1>4. KnownIn(m) \subseteq KnownIn(n)
    BY <1>2, KnownGrows
<1> HIDE DEF n
<1>5. ASSUME NEW v \in n.verdictIds
      PROVE  /\ VerdictOf[v].retires = None
             /\ VerdictOf[v].result \in WorkerResults
             /\ Known(n, VerdictOf[v].claim)
             /\ ~VerdictOf[v].external
             /\ VerdictOf[v].result = "SUPPORTED" => Corroborates(v)
    <2>1. /\ VerdictOf[v].retires = None /\ VerdictOf[v].result \in WorkerResults
          /\ Known(m, VerdictOf[v].claim) /\ ~VerdictOf[v].external
          /\ VerdictOf[v].result = "SUPPORTED" => Corroborates(v)
        BY <1>1 DEF VerdictInv
    <2>2. v \in Verdicts
        BY <1>1 DEF Memories
    <2>3. VerdictOf[v].claim \in Claims
        BY <2>2, EventConstants DEF Determinations
    <2> QED BY <1>4, <2>1, <2>3 DEF KnownIn
<1>6. ASSUME NEW c \in Claims
      PROVE  VerdictsOn(n, c) = {v \in n.verdictIds : VerdictOf[v].claim = c}
    BY <1>1 DEF VerdictInv, VerdictsOn
<1>7. ASSUME NEW c \in Retrievable(n), NEW d \in Retrievable(n), Oppose(c, d),
             Backed(n, c), Backed(n, d)
      PROVE  FALSE
    <2>1. Backed(m, c) /\ Backed(m, d)
        BY <1>1, <1>7 DEF Backed
    <2>2. Known(m, c) /\ Known(m, d)
        BY <2>1 DEF Backed, VerdictInv
    <2>3. c \in Retrievable(m) /\ d \in Retrievable(m)
        BY <1>3, <2>2
    <2> QED BY <1>7, <2>1, <2>3 DEF VerdictInv
<1>8. VerdictInv(n)
    BY <1>5, <1>6, <1>7 DEF VerdictInv
<1> QED BY <1>8 DEF n

(* What the worker determines (verify). *)
LEMMA DeterminedFields ==
    ASSUME NEW c \in Claims
    PROVE  /\ Determine(c).claim = c /\ Determine(c).retires = None
           /\ Determine(c).result \in WorkerResults
           /\ Determine(c).evidence \subseteq Retrievable(mem)
           /\ ~Determine(c).external
           /\ \A v : VerdictOf[v] = Determine(c) /\ VerdictOf[v].result = "SUPPORTED"
                        => Corroborates(v)
           /\ Determine(c).result = "SUPPORTED" =>
                  \A d \in Retrievable(mem) : d # c => ~Oppose(c, d)
BY DEF Determine, Determination, Disagreeing, Agreeing, Peers, Oppose, WorkerResults,
       Corroborates

(* A verdict of the worker supports a record only if nothing retrievable opposes it. *)
LEMMA VerifyKeepsVerdicts ==
    ASSUME IndexInv, VerdictInv(mem), NEW c \in Claims, Known(mem, c), Verify(c)
    PROVE  /\ VerdictInv(mem')
           /\ Retrievable(mem') = Retrievable(mem)
           /\ \E v \in mem'.verdictIds : VerdictOf[v] = Determine(c)
<1>1. PICK v \in Verdicts :
          /\ VerdictOf[v] = Determine(c)
          /\ IF v \in mem.verdictIds THEN UNCHANGED <<mem, index>> ELSE Apply(VerificationEvent(v))
    BY DEF Verify
<1>2. CASE v \in mem.verdictIds
    <2>1. mem' = mem
        BY <1>1, <1>2
    <2> QED BY <1>1, <1>2, <2>1
<1>3. CASE v \notin mem.verdictIds
    <2> DEFINE e == VerificationEvent(v)
               n == ApplyEvent(mem, e)
    <2>1. e \in VerificationEvents /\ e.verdict = v /\ mem' = n /\ mem \in Memories
        BY <1>1, <1>3 DEF VerificationEvents, VerificationEvent, Apply, IndexInv
    <2>2. VerdictOf[v].claim = c
        BY <1>1, DeterminedFields
    <2>3. /\ n.lifecycle = mem.lifecycle
          /\ n.verdicts = [mem.verdicts EXCEPT ![c] = Append(@, v)]
          /\ n.verdictIds = mem.verdictIds \cup {v}
        <3> HIDE DEF e
        <3> QED BY <1>3, <2>1, <2>2, ApplyToVerdicts
    <2> HIDE DEF n, e
    <2>4. Retrievable(n) = Retrievable(mem) /\ \A x : Known(n, x) <=> Known(mem, x)
        BY <2>3 DEF Retrievable, Known
    <2>5. ASSUME NEW u \in n.verdictIds
          PROVE  /\ VerdictOf[u].retires = None
                 /\ VerdictOf[u].result \in WorkerResults
                 /\ Known(n, VerdictOf[u].claim)
                 /\ ~VerdictOf[u].external
                 /\ VerdictOf[u].result = "SUPPORTED" => Corroborates(u)
        <3>1. CASE u \in mem.verdictIds
            BY <2>4, <3>1 DEF VerdictInv
        <3>2. CASE u = v
            BY <1>1, <2>2, <2>4, <3>2, DeterminedFields
        <3> QED BY <2>3, <3>1, <3>2
    <2>6. ASSUME NEW x \in Claims
          PROVE  VerdictsOn(n, x) = {u \in n.verdictIds : VerdictOf[u].claim = x}
        <3>1. VerdictsOn(mem, x) = {u \in mem.verdictIds : VerdictOf[u].claim = x}
            BY DEF VerdictInv
        <3>2. mem.verdicts \in [Claims -> Seq(Verdicts)]
            BY <2>1 DEF Memories
        <3>3. CASE x # c
            <4>1. n.verdicts[x] = mem.verdicts[x]
                BY <2>3, <3>2, <3>3
            <4>2. VerdictsOn(n, x) = VerdictsOn(mem, x)
                BY <4>1 DEF VerdictsOn
            <4> QED BY <2>2, <2>3, <3>1, <3>3, <4>2
        <3>4. CASE x = c
            <4> DEFINE old == mem.verdicts[c]
            <4>1. n.verdicts[x] = Append(old, v) /\ old \in Seq(Verdicts)
                BY <2>3, <3>2, <3>4
            <4> HIDE DEF old
            <4>2. {Append(old, v)[i] : i \in DOMAIN Append(old, v)} = {old[i] : i \in DOMAIN old} \cup {v}
                <5>1. /\ DOMAIN Append(old, v) = 1..(Len(old) + 1) /\ DOMAIN old = 1..Len(old)
                      /\ Append(old, v)[Len(old) + 1] = v /\ Len(old) \in Nat
                      /\ \A i \in 1..Len(old) : Append(old, v)[i] = old[i]
                    BY <4>1
                <5> QED BY <5>1
            <4>3. VerdictsOn(n, x) = VerdictsOn(mem, x) \cup {v}
                BY <3>4, <4>1, <4>2 DEF VerdictsOn, old
            <4> QED BY <2>2, <2>3, <3>1, <3>4, <4>3
        <3> QED BY <3>3, <3>4
    <2>7. ASSUME NEW x \in Retrievable(n), NEW y \in Retrievable(n), Oppose(x, y),
                 Backed(n, x), Backed(n, y)
          PROVE  FALSE
        <3>1. x \in Retrievable(mem) /\ y \in Retrievable(mem) /\ x # y /\ Oppose(y, x)
            BY <2>4, <2>7 DEF Oppose
        <3>2. ASSUME NEW z, Backed(n, z), ~Backed(mem, z)
              PROVE  z = c /\ Determine(c).result = "SUPPORTED"
            BY <1>1, <2>2, <2>3, <3>2 DEF Backed
        <3>3. CASE Determine(c).result = "SUPPORTED" /\ c \in {x, y}
            BY <2>7, <3>1, <3>3, DeterminedFields
        <3>4. CASE Backed(mem, x) /\ Backed(mem, y)
            BY <2>7, <3>1, <3>4 DEF VerdictInv
        <3> QED BY <2>7, <3>2, <3>3, <3>4
    <2>8. VerdictInv(n)
        BY <2>5, <2>6, <2>7 DEF VerdictInv
    <2> QED BY <1>1, <2>1, <2>3, <2>4, <2>8
<1> QED BY <1>2, <1>3

LEMMA VerdictStep ==
    ASSUME IndexInv, WorkInv, VerdictInv(mem), Next
    PROVE  VerdictInv(mem')
<1>1. ASSUME NEW c \in Claims, Ingest(c) PROVE VerdictInv(mem')
    <2>1. /\ mem' = ApplyEvent(mem, IngestEvent(c, None)) /\ ~Known(mem, c)
          /\ IngestEvent(c, None) \in IngestEvents /\ IngestEvent(c, None).claim = c
        BY <1>1 DEF Ingest, Apply, IngestEvents, IngestEvent
    <2> QED BY <2>1, RecordKeepsVerdicts DEF IndexInv
<1>2. ASSUME NEW c \in Claims, Retract(c) PROVE VerdictInv(mem')
    <2> DEFINE e == StateChange(c, "RETRACTED", None)
    <2>1. mem' = ApplyEvent(mem, e) /\ e \in StateChanges /\ e.event # "INGEST"
        BY <1>2 DEF Retract, Apply, StateChanges, StateChange, NonRetrievable
    <2> QED BY <2>1, RecordKeepsVerdicts DEF IndexInv
<1>3. ASSUME NEW c \in Claims, NEW p \in Claims, IngestSuperseding(c, p) PROVE VerdictInv(mem')
    <2> DEFINE first == IngestEvent(c, p)
               then == StateChange(p, "SUPERSEDED", c)
               half == ApplyEvent(mem, first)
    <2>1. /\ first \in IngestEvents /\ first.claim = c /\ first \in Events
          /\ then \in StateChanges /\ then.event # "INGEST"
        BY DEF IngestEvents, IngestEvent, StateChanges, StateChange, NonRetrievable, Events
    <2>2. mem' = ApplyEvent(half, then) /\ ~Known(mem, c)
        BY <1>3 DEF IngestSuperseding
    <2> HIDE DEF first, then
    <2>3. half \in Memories /\ VerdictInv(half)
        BY <2>1, <2>2, ApplyType, RecordKeepsVerdicts DEF IndexInv
    <2> HIDE DEF half
    <2> QED BY <2>1, <2>2, <2>3, RecordKeepsVerdicts
<1>4. ASSUME NEW c \in Claims, VerifyNext(c) \/ VerifyDirectly(c) PROVE VerdictInv(mem')
    <2>1. Known(mem, c) /\ Verify(c)
        BY <1>4 DEF VerifyNext, VerifyDirectly, WorkInv, Listed, KnownIn
    <2> QED BY <2>1, VerifyKeepsVerdicts
<1>5. CASE TakeQueue
    <2>1. mem' = mem
        BY <1>5 DEF TakeQueue
    <2> QED BY <2>1
<1> QED BY <1>1, <1>2, <1>3, <1>4, <1>5 DEF Next

WorkerInv == IndexInv /\ WorkInv /\ VerdictInv(mem)

LEMMA WorkerInvariance == Spec => []WorkerInv
<1>1. Init => WorkerInv
    <2> SUFFICES ASSUME Init PROVE WorkerInv
        OBVIOUS
    <2>1. VerdictInv(EmptyMemory)
        BY DEF VerdictInv, EmptyMemory, VerdictsOn, Retrievable, Backed
    <2>2. WorkInv /\ mem = EmptyMemory
        BY DEF Init, WorkInv, Listed
    <2> QED BY <2>1, <2>2, InitiallyDescribed DEF WorkerInv
<1>2. WorkerInv /\ [Next]_vars => WorkerInv'
    <2>1. WorkerInv /\ UNCHANGED vars => WorkerInv'
        BY DEF WorkerInv, IndexInv, WorkInv, Listed, KnownIn, Known, vars
    <2>2. VerdictInv(mem)' <=> VerdictInv(mem')
        BY DEF VerdictInv, Known, VerdictsOn, Retrievable, Backed
    <2> QED BY <2>1, <2>2, IndexInvStep, WorkInvStep, VerdictStep DEF WorkerInv
<1> QED BY <1>1, <1>2, PTL DEF Spec

(* A verdict that a SUPPORTED status stands on is live, so what it cites is
   retrievable and says the same. *)
LEMMA SupportIsBacked ==
    ASSUME WorkerInv, NEW c \in Claims, VerificationStatus(mem, c) = "SUPPORTED"
    PROVE  Backed(mem, c) /\ \E d \in Retrievable(mem) : d \in Agreeing(c)
<1> DEFINE R == {VerdictOf[v].result : v \in LiveVerdicts(mem, c) \ RetiredIds(LiveVerdicts(mem, c))}
<1>1. "SUPPORTED" \in R
    <2>1. /\ R # {}
          /\ (CHOOSE r \in R : TRUE) = "SUPPORTED"
        BY DEF VerificationStatus, DeriveStatus
    <2> HIDE DEF R
    <2> QED BY <2>1
<1>2. PICK v \in LiveVerdicts(mem, c) : VerdictOf[v].result = "SUPPORTED"
    BY <1>1
<1>3. /\ v \in mem.verdictIds /\ VerdictOf[v].claim = c /\ ~VerdictOf[v].external
      /\ Corroborates(v)
    BY <1>2 DEF LiveVerdicts, WorkerInv, VerdictInv
<1>4. VerdictOf[v].evidence \subseteq Retrievable(mem)
    BY <1>2, <1>3 DEF LiveVerdicts
<1>5. PICK d : d \in VerdictOf[v].evidence
    BY <1>3 DEF Corroborates
<1>6. /\ d # c /\ ClaimKey[d] = ClaimKey[c] /\ Source[d] # Source[c] /\ Value[d] = Value[c]
    BY <1>3, <1>5 DEF Corroborates
<1>7. d \in Retrievable(mem) /\ d \in Claims
    BY <1>4, <1>5 DEF Retrievable
<1> QED BY <1>2, <1>3, <1>6, <1>7 DEF Backed, Agreeing, Peers

(* A claim is SUPPORTED only while another source's retrievable record agrees, and
   two that disagree are never both SUPPORTED, however old the worker's list is: a
   verdict that supports one was given before the other was known, no record is
   ingested twice, and a verdict whose evidence was withdrawn no longer counts. *)
THEOREM SupportStaysCurrent == Spec => []SupportIsCurrent
<1>1. WorkerInv => SupportIsCurrent
    <2> SUFFICES ASSUME WorkerInv, NEW c \in Retrievable(mem),
                        VerificationStatus(mem, c) = "SUPPORTED"
                 PROVE  /\ Agreeing(c) # {}
                        /\ \A d \in Disagreeing(c) : VerificationStatus(mem, d) # "SUPPORTED"
        BY DEF SupportIsCurrent
    <2>1. c \in Claims
        BY DEF Retrievable
    <2>2. Backed(mem, c) /\ Agreeing(c) # {}
        BY <2>1, SupportIsBacked
    <2>3. ASSUME NEW d \in Disagreeing(c), VerificationStatus(mem, d) = "SUPPORTED"
          PROVE  FALSE
        <3>1. /\ d \in Claims /\ d \in Retrievable(mem) /\ Oppose(c, d)
            <4>1. d \in Peers(c) /\ Value[d] # Value[c]
                BY DEF Disagreeing, Agreeing
            <4> QED BY <4>1 DEF Peers, Retrievable, Oppose
        <3>2. Backed(mem, d)
            BY <2>3, <3>1, SupportIsBacked
        <3> QED BY <2>2, <3>1, <3>2 DEF WorkerInv, VerdictInv
    <2> QED BY <2>2, <2>3
<1> QED BY <1>1, WorkerInvariance, PTL

(* The verdict on a claim that the worker takes off its list is live when it is
   filed: its evidence is retrievable then and nothing retires it. *)
THEOREM VerificationAlwaysTakesEffect == Spec => VerificationTakesEffect
<1>1. ASSUME WorkerInv, WorkerInv', [Next]_vars, NEW c \in Listed \ Listed'
      PROVE  VerificationStatus(mem', c) # "UNVERIFIED"
    <2>1. VerifyNext(c) /\ c \in Claims
        <3>1. Listed \subseteq Claims
            BY <1>1 DEF WorkerInv, WorkInv, KnownIn
        <3>2. CASE UNCHANGED worklist
            BY <1>1, <3>2 DEF Listed
        <3>3. CASE TakeQueue
            BY <1>1, <3>3 DEF TakeQueue
        <3>4. ASSUME NEW x \in Claims, VerifyNext(x) PROVE x = c
            BY <1>1, <3>4 DEF VerifyNext, Listed
        <3> QED BY <1>1, <3>1, <3>2, <3>3, <3>4
                DEF Next, Ingest, IngestSuperseding, Retract, VerifyDirectly, vars
    <2>2. Known(mem, c) /\ Verify(c)
        BY <1>1, <2>1 DEF VerifyNext, WorkerInv, WorkInv, KnownIn
    <2>3. PICK v \in mem'.verdictIds : VerdictOf[v] = Determine(c)
        BY <1>1, <2>1, <2>2, VerifyKeepsVerdicts DEF WorkerInv
    <2>4. VerdictInv(mem') /\ Retrievable(mem') = Retrievable(mem)
        BY <1>1, <2>1, <2>2, VerifyKeepsVerdicts DEF WorkerInv
    <2> DEFINE L == LiveVerdicts(mem', c)
               R == {VerdictOf[u].result : u \in L \ RetiredIds(L)}
    <2>5. v \in L
        BY <2>1, <2>3, <2>4, DeterminedFields DEF VerdictInv, LiveVerdicts
    <2>6. L \subseteq mem'.verdictIds
        BY <2>1, <2>4 DEF VerdictInv, LiveVerdicts
    <2>7. VerificationStatus(mem', c) = DeriveStatus(L, RetiredIds(L))
        BY DEF VerificationStatus
    <2> HIDE DEF L
    <2>8. RetiredIds(L) = {}
        BY <2>4, <2>6 DEF RetiredIds, VerdictInv
    <2>9. R # {} /\ R \subseteq WorkerResults
        BY <2>4, <2>5, <2>6, <2>8 DEF VerdictInv
    <2>10. DeriveStatus(L, RetiredIds(L)) =
              IF R = {} THEN "UNVERIFIED"
              ELSE IF Cardinality(R) = 1 THEN CHOOSE r \in R : TRUE
              ELSE "INCONCLUSIVE"
        BY DEF DeriveStatus
    <2> HIDE DEF R
    <2>11. (CHOOSE r \in R : TRUE) \in WorkerResults
        BY <2>9
    <2> QED BY <2>7, <2>9, <2>10, <2>11 DEF WorkerResults
<1>2. WorkerInv /\ WorkerInv' /\ [Next]_vars
      => [\A c \in Listed \ Listed' : VerificationStatus(mem, c)' # "UNVERIFIED"]_vars
    <2>1. \A c : VerificationStatus(mem, c)' = VerificationStatus(mem', c)
        BY DEF VerificationStatus, DeriveStatus, LiveVerdicts, VerdictsOn, RetiredIds, Retrievable
    <2> QED BY <1>1, <2>1
<1> QED BY <1>2, WorkerInvariance, PTL DEF Spec, VerificationTakesEffect

-----------------------------------------------------------------------------
(****************************************************************************)
(* The forest of _union_find, for any set of names and any number of edges. *)
(****************************************************************************)

\* A root is a name that is its own parent.  A link made by union leads from
\* the larger of two roots to the smaller.
ForestShape == ForestTypeOK /\ LinksDescend

LEMMA InitShape == ForestInit => ForestShape
  BY NamesAreOrdered DEF ForestInit, ForestShape, ForestTypeOK, LinksDescend

LEMMA HalveStep == ForestShape /\ Halve => ForestShape'
<1> SUFFICES ASSUME ForestShape, Halve PROVE ForestShape'
  OBVIOUS
<1>1. /\ parent \in [Names -> Names] /\ cursor \in Names
      /\ \A n \in Names : n \in Nat /\ parent[n] \in Names /\ parent[n] <= n
  BY NamesAreOrdered DEF ForestShape, ForestTypeOK, LinksDescend
<1>2. parent[parent[cursor]] \in Names /\ parent[parent[cursor]] <= cursor
  <2>1. /\ parent[cursor] \in Names /\ parent[cursor] <= cursor
        /\ parent[parent[cursor]] <= parent[cursor]
    BY <1>1
  <2>. QED  BY <1>1, <2>1
<1>3. parent' = [parent EXCEPT ![cursor] = parent[parent[cursor]]]
  BY DEF Halve
<1>4. parent' \in [Names -> Names]
  BY <1>1, <1>2, <1>3
<1>5. \A n \in Names : parent'[n] <= n
  BY <1>1, <1>2, <1>3
<1>. QED  BY <1>2, <1>4, <1>5 DEF Halve, ForestShape, ForestTypeOK, LinksDescend

LEMMA UnionStep == ForestShape /\ Union => ForestShape'
<1> SUFFICES ASSUME ForestShape, Union PROVE ForestShape'
  OBVIOUS
<1> DEFINE large == Larger(rootA, cursor)
           small == Smaller(rootA, cursor)
<1>1. rootA \in Names /\ cursor \in Names /\ rootA \in Nat /\ cursor \in Nat
  BY NamesAreOrdered DEF ForestShape, ForestTypeOK
<1>2. large \in Names /\ small \in Names /\ small <= large
  BY <1>1 DEF Larger, Smaller
<1>3. parent' = [parent EXCEPT ![large] = small]
  BY DEF Union
<1> HIDE DEF large, small
<1>4. parent' \in [Names -> Names]
  BY <1>2, <1>3 DEF ForestShape, ForestTypeOK
<1>5. \A n \in Names : parent'[n] <= n
  BY <1>2, <1>3 DEF ForestShape, ForestTypeOK, LinksDescend
<1>6. united' \subseteq Names \X Names
  BY DEF Union, ForestShape, ForestTypeOK
<1>. QED  BY <1>4, <1>5, <1>6 DEF Union, ForestShape, ForestTypeOK, LinksDescend

LEMMA ShapeStep == ForestShape /\ [ForestNext]_forestVars => ForestShape'
<1> SUFFICES ASSUME ForestShape, [ForestNext]_forestVars PROVE ForestShape'
  OBVIOUS
<1>1. ASSUME NEW a \in Names, NEW b \in Names, TakeEdge(a, b) PROVE ForestShape'
  BY <1>1 DEF TakeEdge, ForestShape, ForestTypeOK, LinksDescend
<1>2. CASE Halve
  BY <1>2, HalveStep
<1>3. CASE FoundA
  BY <1>3 DEF FoundA, ForestShape, ForestTypeOK, LinksDescend
<1>4. CASE Union
  BY <1>4, UnionStep
<1>5. CASE UNCHANGED forestVars
  BY <1>5 DEF forestVars, ForestShape, ForestTypeOK, LinksDescend
<1>. QED  BY <1>1, <1>2, <1>3, <1>4, <1>5 DEF ForestNext

LEMMA ShapeInvariance == ForestSpec => []ForestShape
  BY InitShape, ShapeStep, PTL DEF ForestSpec

\* find never runs in a cycle: links lead to smaller names, whatever edges come
\* in whatever order, halved or not.
THEOREM ForestNeverCycles == ForestSpec => []LinksDescend
  BY ShapeInvariance, PTL DEF ForestShape

-----------------------------------------------------------------------------
(* What the trees connect *)

Respects(S, edges) == \A e \in edges : e[1] \in S <=> e[2] \in S

Links(p) == {<<n, p[n]>> : n \in Names}

\* The names find has passed from an end of the edge on, seen from any set that
\* no link leads out of or into.
FindInv ==
    /\ pc = "FindB" => parent[rootA] = rootA
    /\ \A S \in SUBSET Names :
          Respects(S, Links(parent)) =>
              /\ pc = "FindA" => (cursor \in S <=> edge[1] \in S)
              /\ pc = "FindB" => /\ cursor \in S <=> edge[2] \in S
                                 /\ rootA \in S <=> edge[1] \in S

\* The links and the edges united have the same sets they lead neither out of
\* nor into.
CutsAgree == \A S \in SUBSET Names : Respects(S, Links(parent)) <=> Respects(S, united)

ForestInv == ForestShape /\ FindInv /\ CutsAgree

LEMMA RespectsLinks ==
    ASSUME NEW S, NEW p
    PROVE  Respects(S, Links(p)) <=> (\A n \in Names : n \in S <=> p[n] \in S)
<1>1. ASSUME Respects(S, Links(p)), NEW n \in Names PROVE n \in S <=> p[n] \in S
  <2>1. <<n, p[n]>> \in Links(p)
    BY DEF Links
  <2>2. <<n, p[n]>>[1] \in S <=> <<n, p[n]>>[2] \in S
    BY <1>1, <2>1 DEF Respects
  <2>. QED  BY <2>2
<1>2. ASSUME \A n \in Names : n \in S <=> p[n] \in S, NEW e \in Links(p)
      PROVE  e[1] \in S <=> e[2] \in S
  <2>1. PICK n \in Names : e = <<n, p[n]>>
    BY DEF Links
  <2>2. e[1] = n /\ e[2] = p[n]
    BY <2>1
  <2>. QED  BY <1>2, <2>2
<1>. QED  BY <1>1, <1>2 DEF Respects

LEMMA InitForest == ForestInit => ForestInv
  BY InitShape, RespectsLinks DEF ForestInit, ForestInv, FindInv, CutsAgree, Respects

LEMMA HalveRespects ==
    ASSUME ForestShape, Halve, NEW S \in SUBSET Names
    PROVE  Respects(S, Links(parent')) <=> Respects(S, Links(parent))
<1>1. /\ parent \in [Names -> Names] /\ cursor \in Names
      /\ parent' = [parent EXCEPT ![cursor] = parent[parent[cursor]]]
      /\ parent[cursor] # cursor
  BY DEF Halve, ForestShape, ForestTypeOK
<1>2. parent[cursor] \in Names /\ parent'[parent[cursor]] = parent[parent[cursor]]
  BY <1>1
<1>3. parent'[cursor] = parent[parent[cursor]]
  BY <1>1
<1>4. \A n \in Names \ {cursor} : parent'[n] = parent[n]
  BY <1>1
<1>5. ASSUME \A n \in Names : n \in S <=> parent'[n] \in S
      PROVE  \A n \in Names : n \in S <=> parent[n] \in S
  BY <1>1, <1>2, <1>3, <1>4, <1>5
<1>6. ASSUME \A n \in Names : n \in S <=> parent[n] \in S
      PROVE  \A n \in Names : n \in S <=> parent'[n] \in S
  BY <1>1, <1>2, <1>3, <1>4, <1>6
<1>. QED  BY <1>5, <1>6, RespectsLinks

LEMMA HalveForest == ForestInv /\ Halve => ForestInv'
<1> SUFFICES ASSUME ForestInv, Halve PROVE ForestInv'
  OBVIOUS
<1>1. ForestShape' /\ ForestShape
  BY HalveStep DEF ForestInv
<1>2. \A S \in SUBSET Names : Respects(S, Links(parent')) <=> Respects(S, Links(parent))
  BY <1>1, HalveRespects
<1>3. CutsAgree'
  BY <1>2 DEF Halve, ForestInv, CutsAgree, Links
<1>4. UNCHANGED <<pc, edge, rootA>> /\ cursor' = parent[parent[cursor]]
  BY DEF Halve
<1>5. pc = "FindB" => parent'[rootA] = rootA
  BY <1>1 DEF Halve, ForestInv, FindInv, ForestShape, ForestTypeOK
<1>6. ASSUME NEW S \in SUBSET Names, Respects(S, Links(parent))
      PROVE  cursor' \in S <=> cursor \in S
  <2>1. cursor \in Names /\ parent[cursor] \in Names
    BY <1>1 DEF ForestShape, ForestTypeOK
  <2>. QED  BY <1>4, <1>6, <2>1, RespectsLinks
<1>7. FindInv'
  BY <1>2, <1>4, <1>5, <1>6 DEF ForestInv, FindInv, Links
<1>. QED  BY <1>1, <1>3, <1>7 DEF ForestInv

LEMMA UnionForest == ForestInv /\ Union => ForestInv'
<1> SUFFICES ASSUME ForestInv, Union PROVE ForestInv'
  OBVIOUS
<1> DEFINE large == Larger(rootA, cursor)
           small == Smaller(rootA, cursor)
<1>1. ForestShape /\ ForestShape'
  BY UnionStep DEF ForestInv
<1>2. /\ parent \in [Names -> Names] /\ rootA \in Names /\ cursor \in Names
      /\ parent[rootA] = rootA /\ parent[cursor] = cursor
  BY <1>1 DEF Union, ForestInv, FindInv, ForestShape, ForestTypeOK
<1>3. /\ {large, small} = {rootA, cursor}
      /\ large \in Names /\ parent[large] = large
  BY <1>2 DEF Larger, Smaller
<1>4. parent' = [parent EXCEPT ![large] = small] /\ united' = united \cup {edge} /\ pc' = "Ready"
  BY DEF Union
<1>5. ASSUME NEW S \in SUBSET Names
      PROVE  Respects(S, Links(parent')) <=>
                 Respects(S, Links(parent)) /\ (rootA \in S <=> cursor \in S)
  <2>0. /\ Respects(S, Links(parent')) <=> (\A n \in Names : n \in S <=> parent'[n] \in S)
        /\ Respects(S, Links(parent)) <=> (\A n \in Names : n \in S <=> parent[n] \in S)
    BY RespectsLinks
  <2>1. (rootA \in S <=> cursor \in S) <=> (large \in S <=> small \in S)
    BY <1>3
  <2> HIDE DEF large, small
  <2>2. \A n \in Names \ {large} : parent'[n] = parent[n]
    BY <1>2, <1>4
  <2>3. parent'[large] = small
    BY <1>2, <1>3, <1>4
  <2>4. (\A n \in Names : n \in S <=> parent'[n] \in S) <=>
            (\A n \in Names : n \in S <=> parent[n] \in S) /\ (large \in S <=> small \in S)
    BY <1>3, <2>2, <2>3
  <2>. QED  BY <2>0, <2>1, <2>4
<1>6. ASSUME NEW S \in SUBSET Names
      PROVE  Respects(S, united') <=> Respects(S, united) /\ (edge[1] \in S <=> edge[2] \in S)
  BY <1>4 DEF Respects
<1>7. CutsAgree'
  <2> SUFFICES ASSUME NEW S \in SUBSET Names
               PROVE  Respects(S, Links(parent')) <=> Respects(S, united')
    BY DEF CutsAgree, Links
  <2>1. Respects(S, Links(parent)) <=> Respects(S, united)
    BY DEF ForestInv, CutsAgree
  <2>2. Respects(S, Links(parent)) =>
            /\ cursor \in S <=> edge[2] \in S
            /\ rootA \in S <=> edge[1] \in S
    BY DEF ForestInv, FindInv, Union
  <2>. QED  BY <1>5, <1>6, <2>1, <2>2
<1>8. FindInv'
  BY <1>4 DEF FindInv
<1>. QED  BY <1>1, <1>7, <1>8 DEF ForestInv

LEMMA StepForest == ForestInv /\ [ForestNext]_forestVars => ForestInv'
<1> SUFFICES ASSUME ForestInv, [ForestNext]_forestVars PROVE ForestInv'
  OBVIOUS
<1>1. ForestShape'
  BY ShapeStep DEF ForestInv
<1>2. ASSUME NEW a \in Names, NEW b \in Names, TakeEdge(a, b) PROVE ForestInv'
  BY <1>1, <1>2 DEF TakeEdge, ForestInv, FindInv, CutsAgree, Links
<1>3. CASE Halve
  BY <1>3, HalveForest
<1>4. CASE FoundA
  BY <1>1, <1>4 DEF FoundA, ForestInv, FindInv, CutsAgree, Links
<1>5. CASE Union
  BY <1>5, UnionForest
<1>6. CASE UNCHANGED forestVars
  BY <1>1, <1>6 DEF forestVars, ForestInv, FindInv, CutsAgree, Links
<1>. QED  BY <1>2, <1>3, <1>4, <1>5, <1>6 DEF ForestNext

LEMMA ForestInvariance == ForestSpec => []ForestInv
  BY InitForest, StepForest, PTL DEF ForestSpec

\* Following links, in either direction, one gets from a name to just the names
\* the edges united so far connect it with: no cluster mixes names that no edge
\* connects, and none is split, whatever path halving has done to the trees.
THEOREM LinksConnectComponents ==
    ForestSpec => [](\A n \in Names : Component(Links(parent), Names, n)
                                    = Component(united, Names, n))
<1>1. CutsAgree => \A n \in Names : Component(Links(parent), Names, n)
                                        = Component(united, Names, n)
  BY DEF CutsAgree, Respects, Component
<1>. QED  BY <1>1, ForestInvariance, PTL DEF ForestInv

-----------------------------------------------------------------------------
(* Where find ends *)

\* Of any numbers one is the least.
LEMMA LeastNumber ==
    ASSUME NEW T \in SUBSET Nat, T # {}
    PROVE  \E m \in T : \A k \in T : m <= k
<1> DEFINE R == OpToRel(<, Nat)
<1>1. PICK m \in T : \A k \in T : <<k, m>> \notin R
  <2>1. IsWellFoundedOn(R, Nat)
    BY NatLessThanWellFounded
  <2> HIDE DEF R
  <2>. QED  BY <2>1, WFMin
<1>2. \A k \in T : ~(k < m)
  BY <1>1 DEF OpToRel
<1>. QED  BY <1>2

IsForest(p) == p \in [Names -> Names] /\ \A n \in Names : p[n] <= n

\* The names that links connect n with.
Tree(p, n) == Component(Links(p), Names, n)

LEMMA TreeDef ==
    ASSUME NEW p, NEW n \in Names
    PROVE  \A m \in Names :
               m \in Tree(p, n) <=>
                   \A S \in SUBSET Names :
                       n \in S /\ (\A k \in Names : k \in S <=> p[k] \in S) => m \in S
  BY RespectsLinks DEF Tree, Component, Respects

\* A name is in its own tree, with its parent, and trees do not overlap.
LEMMA TreesPartition ==
    ASSUME NEW p, IsForest(p), NEW n \in Names
    PROVE  /\ n \in Tree(p, n) /\ p[n] \in Tree(p, n)
           /\ \A m \in Tree(p, n) : m \in Names /\ p[m] \in Tree(p, n) /\ Tree(p, m) = Tree(p, n)
<1>1. /\ \A k \in Names : p[k] \in Names
      /\ Tree(p, n) \subseteq Names
  BY DEF IsForest, Tree, Component
<1>2. n \in Tree(p, n)
  BY TreeDef
<1>3. ASSUME NEW m \in Tree(p, n) PROVE p[m] \in Tree(p, n)
  BY <1>1, <1>3, TreeDef
<1>4. ASSUME NEW m \in Tree(p, n) PROVE n \in Tree(p, m)
  <2>0. m \in Names
    BY <1>1
  <2> SUFFICES ASSUME NEW S \in SUBSET Names, m \in S, n \notin S,
                      \A k \in Names : k \in S <=> p[k] \in S
               PROVE  FALSE
    BY <2>0, TreeDef
  <2> DEFINE T == Names \ S
  <2>1. n \in T /\ \A k \in Names : k \in T <=> p[k] \in T
    BY <1>1
  <2>2. T \in SUBSET Names
    OBVIOUS
  <2> HIDE DEF T
  <2>3. m \in T
    BY <2>0, <2>1, <2>2, TreeDef
  <2>. QED  BY <2>3 DEF T
<1>5. ASSUME NEW a \in Names, NEW b \in Names, a \in Tree(p, b) PROVE Tree(p, a) \subseteq Tree(p, b)
  <2>1. Tree(p, a) \subseteq Names /\ Tree(p, b) \subseteq Names
    BY DEF Tree, Component
  <2> SUFFICES ASSUME NEW m \in Tree(p, a) PROVE m \in Tree(p, b)
    OBVIOUS
  <2>2. m \in Names
    BY <2>1
  <2> SUFFICES ASSUME NEW S \in SUBSET Names, b \in S, \A k \in Names : k \in S <=> p[k] \in S
               PROVE  m \in S
    BY <2>2, TreeDef
  <2>3. a \in S
    BY <1>5, TreeDef
  <2>. QED  BY <2>2, <2>3, TreeDef
<1>. QED  BY <1>1, <1>2, <1>3, <1>4, <1>5

\* Every tree has a root, and only one: what links lead from to one root, in any
\* number of steps, is a tree of its own.
LEMMA OneRoot ==
    ASSUME NEW p, IsForest(p), NEW n \in Names
    PROVE  /\ \E r \in Tree(p, n) : p[r] = r
           /\ \A r, s \in Tree(p, n) : p[r] = r /\ p[s] = s => r = s
<1>1. \A m \in Tree(p, n) : m \in Names /\ m \in Nat /\ p[m] \in Tree(p, n) /\ p[m] <= m /\ p[m] \in Nat
  BY TreesPartition, NamesAreOrdered DEF IsForest
<1>2. n \in Tree(p, n)
  BY TreesPartition
<1>3. \E r \in Tree(p, n) : p[r] = r
  <2>1. PICK r \in Tree(p, n) : \A k \in Tree(p, n) : r <= k
    BY <1>1, <1>2, LeastNumber
  <2>2. r <= p[r] /\ p[r] <= r
    BY <1>1, <2>1
  <2>. QED  BY <1>1, <2>2
<1>4. ASSUME NEW r \in Tree(p, n), NEW s \in Tree(p, n), p[r] = r, p[s] = s, r # s
      PROVE  FALSE
  <2> DEFINE Upward(U) == r \in U /\ \A k \in Names : p[k] \in U => k \in U
             S == {m \in Names : \A U \in SUBSET Names : Upward(U) => m \in U}
  <2>1. r \in S
    BY <1>1
  <2>2. ASSUME NEW k \in Names, p[k] \in S PROVE k \in S
    BY <2>2
  <2>3. ASSUME NEW k \in S PROVE p[k] \in S
    <3> DEFINE U == {m \in S : m = r \/ p[m] \in S}
    <3>1. r \in U
      BY <2>1
    <3>2. ASSUME NEW m \in Names, p[m] \in U PROVE m \in U
      BY <2>2, <3>2
    <3>3. Upward(U) /\ U \in SUBSET Names
      BY <3>1, <3>2
    <3>4. k \in U
      BY <3>3
    <3>. QED  BY <1>4, <2>1, <3>4
  <2>4. s \notin S
    <3> DEFINE U == Names \ {s}
    <3>1. Upward(U) /\ U \in SUBSET Names
      BY <1>1, <1>4
    <3>. QED  BY <3>1
  <2>5. s \in Tree(p, r) /\ s \in Names /\ r \in Names
    BY <1>1, TreesPartition
  <2>6. S \in SUBSET Names /\ \A k \in Names : k \in S <=> p[k] \in S
    BY <2>2, <2>3
  <2> HIDE DEF S
  <2>. QED  BY <2>1, <2>4, <2>5, <2>6, TreeDef
<1>. QED  BY <1>3, <1>4

\* The recursion of Root has a solution: the root of every name's tree.
LEMMA RootRecursion ==
    ASSUME NEW p, IsForest(p)
    PROVE  Root(p) = [n \in Names |-> IF p[n] >= n THEN n ELSE Root(p)[p[n]]]
<1> DEFINE Rec(f) == f = [n \in Names |-> IF p[n] >= n THEN n ELSE f[p[n]]]
           R(n) == CHOOSE r \in Tree(p, n) : p[r] = r
           up == [n \in Names |-> R(n)]
<1>1. ASSUME NEW n \in Names PROVE up[n] = IF p[n] >= n THEN n ELSE up[p[n]]
  <2>1. n \in Nat /\ p[n] \in Names /\ p[n] \in Nat /\ p[n] <= n
    BY NamesAreOrdered DEF IsForest
  <2>2. CASE p[n] >= n
    <3>1. p[n] = n
      BY <2>1, <2>2
    <3>2. n \in Tree(p, n) /\ \A r \in Tree(p, n) : p[r] = r => r = n
      BY <3>1, OneRoot, TreesPartition
    <3>3. R(n) = n
      BY <3>1, <3>2
    <3>. QED  BY <2>2, <3>3
  <2>3. CASE ~(p[n] >= n)
    <3>1. Tree(p, p[n]) = Tree(p, n)
      BY TreesPartition
    <3>2. R(p[n]) = R(n)
      BY <3>1
    <3>. QED  BY <2>1, <2>3, <3>2
  <2>. QED  BY <2>2, <2>3
<1>2. Rec(up)
  <2>1. up = [n \in Names |-> up[n]]
    OBVIOUS
  <2> HIDE DEF up
  <2>. QED  BY <1>1, <2>1
<1>3. Root(p) = CHOOSE f : Rec(f)
  BY DEF Root
<1> HIDE DEF Rec, up
<1>4. Rec(Root(p))
  BY <1>2, <1>3
<1>. QED  BY <1>4 DEF Rec

\* find ends in one and the same root from two names just when links connect them.
LEMMA RootsAreTrees ==
    ASSUME NEW p, IsForest(p), NEW n \in Names
    PROVE  {m \in Names : Root(p)[m] = Root(p)[n]} = Tree(p, n)
<1> DEFINE f == Root(p)
<1>1. \A k \in Names : f[k] = IF p[k] >= k THEN k ELSE f[p[k]]
  BY RootRecursion, ZenonT(60)
<1>2. \A k \in Names : k \in Nat /\ p[k] \in Names /\ p[k] \in Nat /\ p[k] <= k
  BY NamesAreOrdered DEF IsForest
<1> HIDE DEF f
<1>3. ASSUME NEW k \in Names PROVE f[k] = f[p[k]]
  <2>1. CASE p[k] >= k
    <3>1. p[k] = k
      BY <1>2, <2>1
    <3>. QED  BY <3>1
  <2>. QED  BY <1>1, <2>1
<1>4. \A k \in Names : f[k] \in Tree(p, k)
  <2> DEFINE T == {k \in Names : f[k] \notin Tree(p, k)}
  <2> SUFFICES ASSUME T # {} PROVE FALSE
    OBVIOUS
  <2>1. PICK k \in T : \A j \in T : k <= j
    <3>1. T \in SUBSET Nat
      BY <1>2
    <3> HIDE DEF T
    <3>. QED  BY <3>1, LeastNumber
  <2>2. CASE p[k] >= k
    <3>1. f[k] = k
      BY <1>1, <2>2
    <3>. QED  BY <3>1, TreesPartition
  <2>3. CASE ~(p[k] >= k)
    <3>1. p[k] \notin T
      BY <1>2, <2>1, <2>3
    <3>2. f[p[k]] \in Tree(p, p[k])
      BY <1>2, <3>1
    <3>3. Tree(p, p[k]) = Tree(p, k)
      BY TreesPartition
    <3>. QED  BY <1>3, <3>2, <3>3
  <2>. QED  BY <2>2, <2>3
<1>5. ASSUME NEW m \in Tree(p, n) PROVE m \in Names /\ f[m] = f[n]
  <2> DEFINE S == {k \in Names : f[k] = f[n]}
  <2>1. n \in S /\ S \in SUBSET Names /\ \A k \in Names : k \in S <=> p[k] \in S
    BY <1>2, <1>3
  <2>2. m \in Names
    BY TreesPartition
  <2> HIDE DEF S
  <2>3. m \in S
    BY <2>1, <2>2, TreeDef
  <2>. QED  BY <2>3 DEF S
<1>6. ASSUME NEW m \in Names, f[m] = f[n] PROVE m \in Tree(p, n)
  <2>1. f[n] \in Tree(p, m) /\ f[n] \in Tree(p, n)
    BY <1>4, <1>6
  <2>2. Tree(p, m) = Tree(p, n)
    BY <2>1, TreesPartition
  <2>. QED  BY <2>2, TreesPartition
<1>. QED  BY <1>5, <1>6 DEF f

\* Grouping names by the root find gives them, as the end of _union_find does,
\* gives the components of the edges united so far.
THEOREM ClustersAreComponents == ForestSpec => []TreesAreComponents
<1>1. ForestInv /\ (\A n \in Names : Component(Links(parent), Names, n) = Component(united, Names, n))
      => TreesAreComponents
  <2> SUFFICES ASSUME ForestInv, NEW n \in Names,
                      Component(Links(parent), Names, n) = Component(united, Names, n)
               PROVE  {m \in Names : Root(parent)[m] = Root(parent)[n]} = Component(united, Names, n)
    BY DEF TreesAreComponents
  <2>1. IsForest(parent)
    BY DEF ForestInv, ForestShape, ForestTypeOK, LinksDescend, IsForest
  <2>. QED  BY <2>1, RootsAreTrees DEF Tree
<1>. QED  BY <1>1, ForestInvariance, LinksConnectComponents, PTL

=============================================================================
