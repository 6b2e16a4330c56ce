-------------------------- MODULE ClaimEventsProofs --------------------------
(****************************************************************************)
(* Lemmas about the derived state of ClaimEvents and how one event changes  *)
(* it, for every set of claims and verdicts.                                *)
(****************************************************************************)
EXTENDS ClaimEvents, TLAPS

-----------------------------------------------------------------------------
(* The derived state keeps its type *)

(* A store that has replayed nothing (_replay before its first event). *)
LEMMA EmptyMemoryType == EmptyMemory \in Memories
BY DEF EmptyMemory, Memories, Lifecycles

(* Every claim is indexed under some key. *)
LEMMA KeyOfClaim == ASSUME NEW c \in Claims PROVE ClaimKey[c] \in Keys
BY DEF Keys

(* Replacing one field by a value of its type gives a memory again. *)
LEMMA VersionType ==
    ASSUME NEW m \in Memories, NEW x \in Nat
    PROVE  [m EXCEPT !.version = x] \in Memories
BY Zenon DEF Memories

(* ... the lifecycle of the records *)
LEMMA LifecycleType ==
    ASSUME NEW m \in Memories, NEW x \in [Claims -> Lifecycles]
    PROVE  [m EXCEPT !.lifecycle = x] \in Memories
BY Zenon DEF Memories

(* ... who superseded whom *)
LEMMA SupersededByType ==
    ASSUME NEW m \in Memories, NEW x \in [Claims -> Claims \cup {None}]
    PROVE  [m EXCEPT !.supersededBy = x] \in Memories
BY Zenon DEF Memories

(* ... the index of active records *)
LEMMA ActiveType ==
    ASSUME NEW m \in Memories, NEW x \in [Keys -> SUBSET Claims]
    PROVE  [m EXCEPT !.active = x] \in Memories
BY Zenon DEF Memories

(* ... the verdicts on each record *)
LEMMA VerdictsType ==
    ASSUME NEW m \in Memories, NEW x \in [Claims -> Seq(Verdicts)]
    PROVE  [m EXCEPT !.verdicts = x] \in Memories
BY Zenon DEF Memories

(* ... the ids of all verdicts *)
LEMMA VerdictIdsType ==
    ASSUME NEW m \in Memories, NEW x \in SUBSET Verdicts
    PROVE  [m EXCEPT !.verdictIds = x] \in Memories
BY Zenon DEF Memories

(* ... the jobs with a verdict. *)
LEMMA JobIdsType ==
    ASSUME NEW m \in Memories, NEW x \in SUBSET Jobs
    PROVE  [m EXCEPT !.jobIds = x] \in Memories
BY Zenon DEF Memories

(* _index_claim_key only touches the index. *)
LEMMA IndexType ==
    ASSUME NEW m \in Memories, NEW c \in Claims
    PROVE  IndexClaimKey(m, c) \in Memories
<1> DEFINE k == ClaimKey[c]
           old == m.active[k]
           bucket == IF m.lifecycle[c] \in NonRetrievable THEN old \ {c} ELSE old \cup {c}
<1>1. k \in Keys /\ m.active \in [Keys -> SUBSET Claims]
    BY KeyOfClaim DEF Memories
<1>2. bucket \in SUBSET Claims
    BY <1>1
<1>3. [m.active EXCEPT ![k] = bucket] \in [Keys -> SUBSET Claims]
    BY <1>1, <1>2
<1>4. IndexClaimKey(m, c) = [m EXCEPT !.active = [m.active EXCEPT ![k] = bucket]]
    BY DEF IndexClaimKey
<1> QED BY <1>3, <1>4, ActiveType

(* Applying an event keeps the maps and indexes well typed (_apply_event). *)
LEMMA ApplyType ==
    ASSUME NEW m \in Memories, NEW e \in Events
    PROVE  ApplyEvent(m, e) \in Memories
<1> DEFINE n == [m EXCEPT !.version = @ + 1]
<1>1. n \in Memories
    <2>1. m.version + 1 \in Nat
        BY DEF Memories
    <2> QED BY <2>1, VersionType
<1>2. CASE e \in IngestEvents
    <2> DEFINE q == [n EXCEPT !.lifecycle[e.claim] = "ACTIVE",
                              !.supersededBy[e.claim] = None]
    <2>1. e.claim \in Claims /\ e.event = "INGEST"
        BY <1>2 DEF IngestEvents
    <2>2. q \in Memories
        <3> DEFINE r == [n EXCEPT !.lifecycle[e.claim] = "ACTIVE"]
        <3>1. [n.lifecycle EXCEPT ![e.claim] = "ACTIVE"] \in [Claims -> Lifecycles]
            BY <1>1, <2>1 DEF Memories, Lifecycles
        <3>2. r \in Memories
            BY <1>1, <3>1, LifecycleType
        <3>3. [r.supersededBy EXCEPT ![e.claim] = None] \in [Claims -> Claims \cup {None}]
            BY <3>2, <2>1 DEF Memories
        <3> QED BY <3>2, <3>3, SupersededByType
    <2>3. ApplyEvent(m, e) = IndexClaimKey(q, e.claim)
        BY <2>1 DEF ApplyEvent, ApplyIngest
    <2> QED BY <2>1, <2>2, <2>3, IndexType
<1>3. CASE e \in StateChanges
    <2> DEFINE q == [n EXCEPT !.lifecycle[e.claim] = e.state,
                              !.supersededBy[e.claim] = IF e.by = None THEN @ ELSE e.by]
    <2>1. /\ e.claim \in Claims /\ e.event = "STATE_CHANGE"
          /\ e.state \in NonRetrievable /\ e.by \in Claims \cup {None}
        BY <1>3 DEF StateChanges
    <2>2. q \in Memories
        <3> DEFINE r == [n EXCEPT !.lifecycle[e.claim] = e.state]
                   by == IF e.by = None THEN n.supersededBy[e.claim] ELSE e.by
        <3>1. [n.lifecycle EXCEPT ![e.claim] = e.state] \in [Claims -> Lifecycles]
            BY <1>1, <2>1 DEF Memories, Lifecycles
        <3>2. r \in Memories
            BY <1>1, <3>1, LifecycleType
        <3>3. r.supersededBy = n.supersededBy
            BY <1>1 DEF Memories
        <3>4. by \in Claims \cup {None}
            BY <1>1, <2>1 DEF Memories
        <3>5. [r.supersededBy EXCEPT ![e.claim] = by] \in [Claims -> Claims \cup {None}]
            BY <3>2, <3>4, <2>1 DEF Memories
        <3>6. q = [r EXCEPT !.supersededBy = [r.supersededBy EXCEPT ![e.claim] = by]]
            BY <3>3
        <3> QED BY <3>2, <3>5, <3>6, SupersededByType
    <2>3. ApplyEvent(m, e) = IndexClaimKey(q, e.claim)
        BY <2>1 DEF ApplyEvent, ApplyStateChange
    <2> QED BY <2>1, <2>2, <2>3, IndexType
<1>4. CASE e \in VerificationEvents
    <2>1. e.event = "VERIFICATION" /\ e.verdict \in Verdicts
        BY <1>4 DEF VerificationEvents
    <2>2. VerdictOf[e.verdict] \in Determinations
        BY <2>1, EventConstants
    <2>3. ApplyEvent(m, e) = ApplyVerification(n, e.verdict)
        BY <2>1 DEF ApplyEvent
    <2>4. VerdictOf[e.verdict].claim \in Claims /\ VerdictOf[e.verdict].job \in Jobs \cup {None}
        BY <2>2 DEF Determinations
    <2>5. ApplyVerification(n, e.verdict) \in Memories
        <3> DEFINE v == e.verdict
                   d == VerdictOf[v]
        <3>1. CASE v \in n.verdictIds
            BY <1>1, <3>1 DEF ApplyVerification
        <3>2. CASE v \notin n.verdictIds
            <4>1. n.verdicts[d.claim] \in Seq(Verdicts)
                BY <1>1, <2>4 DEF Memories
            <4>2. [n.verdicts EXCEPT ![d.claim] = Append(@, v)] \in [Claims -> Seq(Verdicts)]
                BY <1>1, <2>1, <2>4, <4>1 DEF Memories
            <4>3. n.verdictIds \cup {v} \in SUBSET Verdicts
                BY <1>1, <2>1 DEF Memories
            <4>4. n.jobIds \cup ({d.job} \ {None}) \in SUBSET Jobs
                BY <1>1, <2>4 DEF Memories
            <4>5. ApplyVerification(n, v)
                    = [n EXCEPT !.verdictIds = n.verdictIds \cup {v},
                                !.jobIds = n.jobIds \cup ({d.job} \ {None}),
                                !.verdicts = [n.verdicts EXCEPT ![d.claim] = Append(@, v)]]
                BY <3>2 DEF ApplyVerification
            <4> DEFINE n1 == [n EXCEPT !.verdictIds = n.verdictIds \cup {v}]
                       n2 == [n1 EXCEPT !.jobIds = n.jobIds \cup ({d.job} \ {None})]
            <4>6. n1 \in Memories
                BY <1>1, <4>3, VerdictIdsType
            <4>7. n2 \in Memories
                BY <4>6, <4>4, JobIdsType
            <4> DEFINE filed == [n.verdicts EXCEPT ![d.claim] = Append(@, v)]
            <4>8. [n2 EXCEPT !.verdicts = filed] \in Memories
                <5> HIDE DEF n2, filed
                <5> QED BY <4>7, <4>2, VerdictsType DEF filed
            <4>9. ApplyVerification(n, v) = [n2 EXCEPT !.verdicts = filed]
                BY <4>5
            <4> HIDE DEF n2, filed
            <4> QED BY <4>8, <4>9
        <3> QED BY <3>1, <3>2
    <2> QED BY <2>3, <2>5
<1> QED BY <1>2, <1>3, <1>4 DEF Events

(* What one event does to each field (_apply_event). *)
LEMMA ApplyToRecords ==
    ASSUME NEW m \in Memories, NEW e \in IngestEvents \cup StateChanges
    PROVE  LET n == ApplyEvent(m, e) IN
           /\ n.version = m.version + 1
           /\ n.lifecycle = [m.lifecycle EXCEPT ![e.claim] = Outcome(e)]
           /\ n.active = [m.active EXCEPT ![ClaimKey[e.claim]] =
                             IF Outcome(e) \in NonRetrievable THEN @ \ {e.claim} ELSE @ \cup {e.claim}]
           /\ n.verdicts = m.verdicts
           /\ n.verdictIds = m.verdictIds
           /\ n.jobIds = m.jobIds
<1>1. CASE e \in IngestEvents
    <2>1. e.claim \in Claims /\ e.event = "INGEST"
        BY <1>1 DEF IngestEvents
    <2>2. ApplyEvent(m, e) = ApplyIngest([m EXCEPT !.version = @ + 1], e)
        BY <2>1 DEF ApplyEvent
    <2>3. ClaimKey[e.claim] \in Keys
        BY <2>1, KeyOfClaim
    <2> QED BY <2>1, <2>2, <2>3 DEF ApplyIngest, IndexClaimKey, Memories, Outcome
<1>2. CASE e \in StateChanges
    <2>1. e.claim \in Claims /\ e.event = "STATE_CHANGE"
        BY <1>2 DEF StateChanges
    <2>2. ApplyEvent(m, e) = ApplyStateChange([m EXCEPT !.version = @ + 1], e)
        BY <2>1 DEF ApplyEvent
    <2>3. ClaimKey[e.claim] \in Keys
        BY <2>1, KeyOfClaim
    <2> QED BY <2>1, <2>2, <2>3 DEF ApplyStateChange, IndexClaimKey, Memories, Outcome
<1> QED BY <1>1, <1>2

(* A VERIFICATION event changes no record; one that is there already changes
   nothing but the version. *)
LEMMA ApplyToVerdicts ==
    ASSUME NEW m \in Memories, NEW e \in VerificationEvents
    PROVE  LET n == ApplyEvent(m, e)
               d == VerdictOf[e.verdict] IN
           /\ n.version = m.version + 1
           /\ n.lifecycle = m.lifecycle
           /\ n.active = m.active
           /\ n.supersededBy = m.supersededBy
           /\ e.verdict \in m.verdictIds =>
                /\ n.verdicts = m.verdicts
                /\ n.verdictIds = m.verdictIds
                /\ n.jobIds = m.jobIds
           /\ e.verdict \notin m.verdictIds =>
                /\ n.verdicts = [m.verdicts EXCEPT ![d.claim] = Append(@, e.verdict)]
                /\ n.verdictIds = m.verdictIds \cup {e.verdict}
                /\ n.jobIds = m.jobIds \cup ({d.job} \ {None})
<1>1. e.event = "VERIFICATION" /\ e.verdict \in Verdicts
    BY DEF VerificationEvents
<1>2. ApplyEvent(m, e) = ApplyVerification([m EXCEPT !.version = @ + 1], e.verdict)
    BY <1>1 DEF ApplyEvent
<1> QED BY <1>1, <1>2 DEF ApplyVerification, Memories

-----------------------------------------------------------------------------
(* The retrievable records *)

(* A withdrawal takes its record out, an ingestion puts it in. *)
LEMMA RetrievableStep ==
    ASSUME NEW m \in Memories, NEW e \in Events
    PROVE  Retrievable(ApplyEvent(m, e)) =
              CASE e.event = "INGEST"       -> Retrievable(m) \cup {e.claim}
                [] e.event = "STATE_CHANGE" -> Retrievable(m) \ {e.claim}
                [] e.event = "VERIFICATION" -> Retrievable(m)
<1> DEFINE n == ApplyEvent(m, e)
<1>1. CASE e \in IngestEvents
    <2>1. e.event = "INGEST" /\ e.claim \in Claims /\ Outcome(e) = "ACTIVE"
        BY <1>1 DEF IngestEvents, Outcome
    <2>2. n.lifecycle = [m.lifecycle EXCEPT ![e.claim] = Outcome(e)]
        BY <1>1, ApplyToRecords
    <2>3. Retrievable(n) = Retrievable(m) \cup {e.claim}
        <3> HIDE DEF n
        <3>1. \A c \in Claims : n.lifecycle[c] = IF c = e.claim THEN "ACTIVE" ELSE m.lifecycle[c]
            BY <2>1, <2>2 DEF Memories
        <3> QED BY <2>1, <3>1 DEF Retrievable
    <2> QED BY <2>1, <2>3
<1>2. CASE e \in StateChanges
    <2>1. e.event = "STATE_CHANGE" /\ e.claim \in Claims /\ Outcome(e) \in NonRetrievable
        BY <1>2 DEF StateChanges, Outcome
    <2>2. n.lifecycle = [m.lifecycle EXCEPT ![e.claim] = Outcome(e)]
        BY <1>2, ApplyToRecords
    <2>3. Outcome(e) # "ACTIVE"
        BY <2>1 DEF NonRetrievable
    <2>4. Retrievable(n) = Retrievable(m) \ {e.claim}
        <3> HIDE DEF n
        <3> QED BY <2>1, <2>2, <2>3 DEF Retrievable, Memories
    <2> QED BY <2>1, <2>4
<1>3. CASE e \in VerificationEvents
    <2>1. e.event = "VERIFICATION"
        BY <1>3 DEF VerificationEvents
    <2>2. n.lifecycle = m.lifecycle
        BY <1>3, ApplyToVerdicts
    <2>3. Retrievable(n) = Retrievable(m)
        <3> HIDE DEF n
        <3> QED BY <2>2 DEF Retrievable
    <2> QED BY <2>1, <2>3
<1> QED BY <1>1, <1>2, <1>3 DEF Events

=============================================================================
