-------------------------- MODULE MemoryConsistency --------------------------
(****************************************************************************)
(* A claim store in memory, its consolidation index, and the worker that    *)
(* verifies claims against the other records:                               *)
(* DeterministicMemoryConsistencyChecker of                                 *)
(* src/hrm_adaptive_memory/memory_write/verification.py.  The durable side  *)
(* of the store is ClaimStore's; here an append is one step.                *)
(*                                                                          *)
(* The worker goes through the list that queue() returned while other code  *)
(* ingests, withdraws and verifies.                                         *)
(****************************************************************************)
EXTENDS Consolidation

CONSTANTS
    Source,     \* [Claims -> source_id]
    MaxEvents   \* bound: no caller writes once the store has this many events

ASSUME WorkerConstants == DOMAIN Source = Claims /\ MaxEvents \in Nat

VARIABLES
    mem,       \* ClaimStore: records, indexes and verifications
    index,     \* ClaimStore._index
    worklist   \* what is left of the last queue(), conflicted claims apart

vars == <<mem, index, worklist>>

Init ==
    /\ mem = EmptyMemory
    /\ index = EmptyIndex
    /\ worklist = [conflicted |-> {}, others |-> {}]

Apply(e) ==
    /\ mem' = ApplyEvent(mem, e)
    /\ index' = ApplyToIndex(index, e)

-----------------------------------------------------------------------------
(* Callers *)

Open == mem.version < MaxEvents

Ingest(c) ==
    /\ Open
    /\ ~Known(mem, c)
    /\ Apply(IngestEvent(c, None))
    /\ UNCHANGED worklist

IngestSuperseding(c, prior) ==
    LET first == IngestEvent(c, prior)
        then  == StateChange(prior, "SUPERSEDED", c)
    IN
    /\ Open
    /\ ~Known(mem, c)
    /\ Known(mem, prior)
    /\ ClaimKey[prior] = ClaimKey[c]
    /\ mem' = ApplyEvent(ApplyEvent(mem, first), then)
    /\ index' = ApplyToIndex(ApplyToIndex(index, first), then)
    /\ UNCHANGED worklist

Retract(c) ==
    /\ Open
    /\ Known(mem, c)
    /\ Apply(StateChange(c, "RETRACTED", None))
    /\ UNCHANGED worklist

-----------------------------------------------------------------------------
(* The worker *)

\* Mutant: withdrawn records count as peers.
PeersEver(c) ==
    {d \in Claims : /\ Known(mem, d) /\ d # c
                    /\ ClaimKey[d] = ClaimKey[c] /\ Source[d] # Source[c]}

\* Two observations of one source do not corroborate each other.
Peers(c) ==
    {d \in Retrievable(mem) : /\ d # c
                              /\ ClaimKey[d] = ClaimKey[c] /\ Source[d] # Source[c]}

Agreeing(c) == {d \in Peers(c) : Value[d] = Value[c]}
Disagreeing(c) == Peers(c) \ Agreeing(c)

\* The job id is a hash of the other fields, so it adds nothing to the identity.
Determination(c, result, evidence) ==
    [claim |-> c, evidence |-> evidence, result |-> result,
     retires |-> None, external |-> FALSE, job |-> None]

\* Mutant: agreement is looked for first.
DetermineAgreeingFirst(c) ==
    IF Agreeing(c) # {} THEN Determination(c, "SUPPORTED", Agreeing(c))
    ELSE IF Disagreeing(c) # {} THEN Determination(c, "CONTRADICTED", Disagreeing(c))
    ELSE Determination(c, "INCONCLUSIVE", {})

Determine(c) ==
    IF Disagreeing(c) # {} THEN Determination(c, "CONTRADICTED", Disagreeing(c))
    ELSE IF Agreeing(c) # {} THEN Determination(c, "SUPPORTED", Agreeing(c))
    ELSE Determination(c, "INCONCLUSIVE", {})

\* verify and append_verification: a determination the store has is not appended.
Verify(c) ==
    LET determination == Determine(c) IN
    \E v \in Verdicts :
        /\ VerdictOf[v] = determination
        /\ IF v \in mem.verdictIds THEN UNCHANGED <<mem, index>> ELSE Apply(VerificationEvent(v))

\* queue
Conflicted == UNION Snapshot(index).contradictions
Queue == {c \in Retrievable(mem) : VerificationStatus(mem, c) = "UNVERIFIED"}

Listed == worklist.conflicted \cup worklist.others

TakeQueue ==
    /\ Listed = {}
    /\ Queue # {}
    /\ worklist' = [conflicted |-> Queue \cap Conflicted, others |-> Queue \ Conflicted]
    /\ UNCHANGED <<mem, index>>

\* The next item of the list, conflicted ones first, however old the list is.
VerifyNext(c) ==
    /\ \/ c \in worklist.conflicted
       \/ worklist.conflicted = {} /\ c \in worklist.others
    /\ Verify(c)
    /\ worklist' = [conflicted |-> worklist.conflicted \ {c}, others |-> worklist.others \ {c}]

\* Any caller may verify any record.
VerifyDirectly(c) ==
    /\ Open
    /\ Known(mem, c)
    /\ Verify(c)
    /\ UNCHANGED worklist

Next ==
    \/ \E c \in Claims :
        \/ Ingest(c)
        \/ \E prior \in Claims : IngestSuperseding(c, prior)
        \/ Retract(c)
        \/ VerifyNext(c)
        \/ VerifyDirectly(c)
    \/ TakeQueue

Spec == Init /\ [][Next]_vars

\* The loop of the worker goes on.
FairSpec == Spec /\ WF_vars(TakeQueue \/ \E c \in Claims : VerifyNext(c))

-----------------------------------------------------------------------------
(* Properties *)

\* Every variable has its type, and the worker has only stored claims to do.
TypeOK ==
    /\ mem \in Memories
    /\ index.active \subseteq Claims
    /\ index.byContent \in [Contents -> SUBSET Claims]
    /\ index.aliasEdges \subseteq {AliasEdge(c) : c \in Claims}
    /\ Listed \subseteq {c \in Claims : Known(mem, c)}

\* C9: consolidation kept event by event equals consolidation from scratch.
IncrementalMatchesScratch == Snapshot(index) = FromScratch(mem)

\* A claim is SUPPORTED only while a retrievable record of another source says the
\* same, whatever was withdrawn since, and never together with one that disagrees,
\* however the worker's determinations and the callers' writes interleave
\* (verification_status: a verdict that cites a withdrawn record "cannot remain
\* current support").
SupportIsCurrent ==
    \A c \in Retrievable(mem) :
        VerificationStatus(mem, c) = "SUPPORTED" =>
            /\ Agreeing(c) # {}
            /\ \A d \in Disagreeing(c) : VerificationStatus(mem, d) # "SUPPORTED"

\* A verification leaves its claim verified: the evidence just cited is live, so
\* a claim is not verified over and over to no effect.
VerificationTakesEffect ==
    [][\A c \in Listed \ Listed' : VerificationStatus(mem, c)' # "UNVERIFIED"]_vars

\* Once the callers stop writing, the queue empties for good, although every
\* withdrawal of a cited record puts claims back into it.
QueueDrains == <>[](Queue = {})

=============================================================================
