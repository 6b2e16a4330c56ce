------------------------- MODULE ExternalVerification -------------------------
(****************************************************************************)
(* ExternalVerificationWorker of                                            *)
(* src/hrm_adaptive_memory/external_verification/core.py with the three     *)
(* durable files it works on: the verification queue, the evidence store    *)
(* and the claim store.  One process runs them; it may die anywhere and is  *)
(* started again on what it left on disk.                                   *)
(*                                                                          *)
(* A store is its log and how many of its lines its manifest covers.  What  *)
(* a store holds in memory is what replaying its log gives (ClaimStore      *)
(* shows it for claims), so it is computed from the log.                    *)
(****************************************************************************)
EXTENDS Integers, Sequences, FiniteSets

CONSTANTS
    Jobs,            \* job ids, each the address of a claim, a policy and a request
    ClaimOf,         \* [Jobs -> claim record ids]
    Rank,            \* [Jobs -> Nat]: order of (-priority, next_attempt_at, job_id)
    Captures,        \* evidence ids: what a successful acquisition can bring
    Outcomes,        \* [Jobs -> SUBSET (Captures \cup {"FAILED", "UNDECODABLE"})]
    Result,          \* [Jobs -> [Captures -> VerificationResult]]: the verifier
    None,
    GapCrashes,      \* the process may die between a log line and its manifest
    TornQueue,       \* ... or in the middle of a line of the queue's log
    MaxCrashes,      \* bound
    MaxRetractions   \* bound

ASSUME WorkerConstants ==
    /\ DOMAIN ClaimOf = Jobs
    /\ Rank \in [Jobs -> Nat] /\ \A i, j \in Jobs : Rank[i] = Rank[j] => i = j
    /\ Outcomes \in [Jobs -> SUBSET (Captures \cup {"FAILED", "UNDECODABLE"})]
    /\ None \notin Captures \cup Jobs
    /\ {GapCrashes, TornQueue} \subseteq BOOLEAN
    /\ MaxCrashes \in Nat /\ MaxRetractions \in Nat

VARIABLES
    claimLog, claimManifest,        \* claims_events.jsonl, MANIFEST.json
    evidenceLog, evidenceManifest,  \* evidence_events.jsonl, EVIDENCE_MANIFEST.json
    raw,                            \* raw_snapshots/
    queueLog, queueFile,            \* verification_queue.jsonl: what its lines say, and
                                    \* "whole", "open" (the last has no newline), "unreadable"
    pc, job, capture,               \* run_next: where it is, its job and its evidence
    crashes                         \* bounded

claimStore == <<claimLog, claimManifest>>
evidenceStore == <<evidenceLog, evidenceManifest, raw>>
queue == <<queueLog, queueFile>>
vars == <<claimStore, evidenceStore, queue, pc, job, capture, crashes>>

Elements(s) == {s[i] : i \in DOMAIN s}

Claim(c) == [event |-> "INGEST", claim |-> c]
Verdict(j, e) ==
    [event |-> "VERIFICATION", job |-> j, evidence |-> e,
     result |-> IF e = None THEN "INCONCLUSIVE" ELSE Result[j][e]]
Appended(e, j) == [event |-> "EVIDENCE_APPENDED", evidence |-> e, job |-> j]
Retracted(e) == [event |-> "EVIDENCE_RETRACTED", evidence |-> e]
Findings == {Verdict(j, e) : j \in Jobs, e \in Captures \cup {None}}

ASSUME NoneIsNoVerdict == None \notin Findings

Enqueued(j) == [event |-> "ENQUEUED", job |-> j]
Acknowledged(j) == [event |-> "ACKNOWLEDGED", job |-> j]

-----------------------------------------------------------------------------
(* What the stores answer *)

Known(c) == Claim(c) \in Elements(claimLog)

\* verification_job_committed
Committed(j) == \E x \in Elements(claimLog) : x.event = "VERIFICATION" /\ x.job = j

Recorded(e) == \E x \in Elements(evidenceLog) : x.event = "EVIDENCE_APPENDED" /\ x.evidence = e
IsRetracted(e) == Retracted(e) \in Elements(evidenceLog)

\* by_job: where the records whose provenance is the job are, and the first of them.
ByJob(j) ==
    {n \in DOMAIN evidenceLog :
        evidenceLog[n].event = "EVIDENCE_APPENDED" /\ evidenceLog[n].job = j}
Captured(j) ==
    evidenceLog[CHOOSE n \in ByJob(j) : \A m \in ByJob(j) : n <= m].evidence

IsEnqueued(j) == Enqueued(j) \in Elements(queueLog)
IsAcknowledged(j) == Acknowledged(j) \in Elements(queueLog)

\* next_pending
IsNext(j) ==
    LET candidates == {i \in Jobs : IsEnqueued(i) /\ ~IsAcknowledged(i)} IN
    j \in candidates /\ \A i \in candidates : Rank[j] <= Rank[i]

Init ==
    /\ claimLog = <<>> /\ claimManifest = 0
    /\ evidenceLog = <<>> /\ evidenceManifest = 0 /\ raw = {}
    /\ queueLog = <<>> /\ queueFile = "whole"
    /\ pc = "Down" /\ job = None /\ capture = None
    /\ crashes = 0

-----------------------------------------------------------------------------
(* Construction of the three stores *)

\* Mutant: a manifest of an earlier, shorter log is accepted.
AuthenticPrefix(log, manifest) == manifest <= Len(log)

\* There is no manifest before the first one is written.
Authentic(log, manifest) == manifest = 0 \/ manifest = Len(log)

CanOpen ==
    /\ Authentic(claimLog, claimManifest)
    /\ Authentic(evidenceLog, evidenceManifest)
    /\ queueFile # "unreadable"

\* A constructor that finds no valid snapshot publishes one, and its manifest.
Restart ==
    /\ pc = "Down"
    /\ CanOpen
    /\ pc' = "Idle"
    /\ claimManifest' \in {claimManifest, Len(claimLog)}
    /\ evidenceManifest' \in {evidenceManifest, Len(evidenceLog)}
    /\ UNCHANGED <<claimLog, evidenceLog, raw, queue, job, capture, crashes>>

\* IntegrityError or ValueError for a log that is not its manifest's, and
\* JSONDecodeError for a queue with a line that is none, which replay never skips.
RestartRefused ==
    /\ pc = "Down"
    /\ ~CanOpen
    /\ pc' = "Refused"
    /\ UNCHANGED <<claimStore, evidenceStore, queue, job, capture, crashes>>

-----------------------------------------------------------------------------
(* VerificationQueue._append *)

\* A last line without its newline is continued by the next, and unreadable.
WriteToQueue(x) ==
    /\ queueLog' = Append(queueLog, x)
    /\ queueFile' = IF queueFile = "whole" THEN "whole" ELSE "unreadable"

\* The process dies before all of the line is there: part of it does not parse,
\* all of it but the newline does.
WriteToQueueCut(x) ==
    \/ queueFile' = "unreadable" /\ UNCHANGED queueLog
    \/ /\ queueLog' = Append(queueLog, x)
       /\ queueFile' = IF queueFile = "whole" THEN "open" ELSE "unreadable"

-----------------------------------------------------------------------------
(* Callers, between two calls of run_next *)

\* ClaimStore.ingest of a claim that jobs are about.
Ingest(c) ==
    /\ pc = "Idle"
    /\ ~Known(c)
    /\ claimLog' = Append(claimLog, Claim(c))
    /\ pc' = "AnchoringClaims"
    /\ UNCHANGED <<claimManifest, evidenceStore, queue, job, capture, crashes>>

\* A job that is pending or acknowledged is not enqueued again.  Whether its
\* claim is there is not asked.
Enqueue(j) ==
    /\ pc = "Idle"
    /\ ~IsEnqueued(j)
    /\ WriteToQueue(Enqueued(j))
    /\ UNCHANGED <<claimStore, evidenceStore, pc, job, capture, crashes>>

\* EvidenceStore.retract
Retract(e) ==
    /\ pc = "Idle"
    /\ Recorded(e)
    /\ ~IsRetracted(e)
    /\ Cardinality({x \in Captures : IsRetracted(x)}) < MaxRetractions
    /\ evidenceLog' = Append(evidenceLog, Retracted(e))
    /\ pc' = "AnchoringEvidence"
    /\ UNCHANGED <<claimStore, evidenceManifest, raw, queue, job, capture, crashes>>

-----------------------------------------------------------------------------
(* run_next *)

\* Mutant: ... it returns without acknowledging.
LeaveCommitted(j) == pc = "Idle" /\ IsNext(j) /\ Committed(j) /\ UNCHANGED vars

\* The verdict got in before a crash: acknowledge and return.
AcknowledgeCommitted(j) ==
    /\ pc = "Idle"
    /\ IsNext(j)
    /\ Committed(j)
    /\ WriteToQueue(Acknowledged(j))
    /\ UNCHANGED <<claimStore, evidenceStore, pc, job, capture, crashes>>

\* Mutant: a capture left by a crash is forgotten.
StartAnew(j) ==
    /\ pc = "Idle"
    /\ IsNext(j)
    /\ ~Committed(j)
    /\ Known(ClaimOf[j])
    /\ job' = j
    /\ pc' = "Acquiring" /\ capture' = None
    /\ UNCHANGED <<claimStore, evidenceStore, queue, crashes>>

\* Mutant: a job with a verdict is run again.
StartCommitted(j) ==
    /\ pc = "Idle"
    /\ IsNext(j)
    /\ Known(ClaimOf[j])
    /\ job' = j
    /\ IF ByJob(j) # {}
       THEN pc' = "Appending" /\ capture' = Captured(j)
       ELSE pc' = "Acquiring" /\ capture' = None
    /\ UNCHANGED <<claimStore, evidenceStore, queue, crashes>>

\* A capture of the job is used again, retracted or not.  For a claim that is
\* not there run_next raises and changes nothing.
Start(j) ==
    /\ pc = "Idle"
    /\ IsNext(j)
    /\ ~Committed(j)
    /\ Known(ClaimOf[j])
    /\ job' = j
    /\ IF ByJob(j) # {}
       THEN pc' = "Appending" /\ capture' = Captured(j)
       ELSE pc' = "Acquiring" /\ capture' = None
    /\ UNCHANGED <<claimStore, evidenceStore, queue, crashes>>

\* append_acquisition up to the raw bytes.  An id that is recorded already, by
\* whatever job, is not recorded again.
Acquire(e) ==
    /\ pc = "Acquiring"
    /\ e \in Captures \cap Outcomes[job]
    /\ raw' = raw \cup {e}
    /\ capture' = e
    /\ pc' = IF Recorded(e) THEN "Appending" ELSE "Recording"
    /\ UNCHANGED <<claimStore, evidenceLog, evidenceManifest, queue, job, crashes>>

\* Any status but SUCCESS is a verdict without evidence, not a retry.
AcquisitionFails ==
    /\ pc = "Acquiring"
    /\ "FAILED" \in Outcomes[job]
    /\ pc' = "Appending"
    /\ UNCHANGED <<claimStore, evidenceStore, queue, job, capture, crashes>>

\* raw_content.decode raises out of run_next; the job stays at the head.
ContentUndecodable ==
    /\ pc = "Acquiring"
    /\ "UNDECODABLE" \in Outcomes[job]
    /\ pc' = "Idle" /\ job' = None
    /\ UNCHANGED <<claimStore, evidenceStore, queue, capture, crashes>>

Record ==
    /\ pc = "Recording"
    /\ evidenceLog' = Append(evidenceLog, Appended(capture, job))
    /\ pc' = "AnchoringEvidence"
    /\ UNCHANGED <<claimStore, evidenceManifest, raw, queue, job, capture, crashes>>

AnchorEvidence ==
    /\ pc = "AnchoringEvidence"
    /\ evidenceManifest' = Len(evidenceLog)
    /\ pc' = IF job = None THEN "Idle" ELSE "Appending"
    /\ UNCHANGED <<claimStore, evidenceLog, raw, queue, job, capture, crashes>>

\* Mutant: the job is acknowledged before its verdict is in.
AcknowledgeEarly ==
    /\ pc = "Appending"
    /\ ~IsAcknowledged(job)
    /\ WriteToQueue(Acknowledged(job))
    /\ UNCHANGED <<claimStore, evidenceStore, pc, job, capture, crashes>>

\* append_external_verification: the verdict's id addresses all of it.
AppendVerdict ==
    /\ pc = "Appending"
    /\ capture = None \/ Recorded(capture)
    /\ IF Verdict(job, capture) \in Elements(claimLog)
       THEN pc' = "Acknowledging" /\ UNCHANGED claimLog
       ELSE pc' = "AnchoringClaims" /\ claimLog' = Append(claimLog, Verdict(job, capture))
    /\ UNCHANGED <<claimManifest, evidenceStore, queue, job, capture, crashes>>

AnchorClaims ==
    /\ pc = "AnchoringClaims"
    /\ claimManifest' = Len(claimLog)
    /\ pc' = IF job = None THEN "Idle" ELSE "Acknowledging"
    /\ UNCHANGED <<claimLog, evidenceStore, queue, job, capture, crashes>>

Acknowledge ==
    /\ pc = "Acknowledging"
    /\ WriteToQueue(Acknowledged(job))
    /\ pc' = "Idle" /\ job' = None /\ capture' = None
    /\ UNCHANGED <<claimStore, evidenceStore, crashes>>

-----------------------------------------------------------------------------
(* Process death *)

Die ==
    /\ crashes < MaxCrashes
    /\ crashes' = crashes + 1
    /\ pc' = "Down" /\ job' = None /\ capture' = None
    /\ UNCHANGED <<claimStore, evidenceStore>>

Crash ==
    /\ pc \notin {"Down", "Refused"}
    /\ pc \in {"AnchoringClaims", "AnchoringEvidence"} => GapCrashes
    /\ Die
    /\ UNCHANGED queue

\* What Enqueue, AcknowledgeCommitted or Acknowledge may be writing.
BeingWritten ==
    IF pc = "Idle"
    THEN {Enqueued(j) : j \in {i \in Jobs : ~IsEnqueued(i)}}
            \cup {Acknowledged(j) : j \in {i \in Jobs : IsNext(i) /\ Committed(i)}}
    ELSE IF pc = "Acknowledging" THEN {Acknowledged(job)} ELSE {}

CrashTornQueue ==
    /\ TornQueue
    /\ \E x \in BeingWritten : WriteToQueueCut(x)
    /\ Die

Work ==
    \/ \E j \in Jobs : AcknowledgeCommitted(j) \/ Start(j)
    \/ (\E e \in Captures : Acquire(e)) \/ AcquisitionFails \/ ContentUndecodable
    \/ Record \/ AnchorEvidence \/ AppendVerdict \/ AnchorClaims \/ Acknowledge

Next ==
    \/ Restart \/ RestartRefused
    \/ \E c \in {ClaimOf[j] : j \in Jobs} : Ingest(c)
    \/ \E j \in Jobs : Enqueue(j)
    \/ \E e \in Captures : Retract(e)
    \/ Work
    \/ Crash \/ CrashTornQueue

Spec == Init /\ [][Next]_vars

\* run_all calls run_next while there is a job and the process is restarted.
\* Callers ingest the claims of their jobs, and a source that has anything but
\* undecodable bytes does not answer with those for ever.
FairSpec ==
    /\ Spec
    /\ WF_vars(Work) /\ WF_vars(Restart \/ RestartRefused)
    /\ \A j \in Jobs : WF_vars(Ingest(ClaimOf[j]))
    /\ SF_vars((\E e \in Captures : Acquire(e)) \/ AcquisitionFails)

-----------------------------------------------------------------------------
(* Properties *)

ClaimEvents == {Claim(c) : c \in {ClaimOf[j] : j \in Jobs}} \cup Findings
EvidenceEvents == {Appended(e, j) : e \in Captures, j \in Jobs} \cup {Retracted(e) : e \in Captures}
QueueEvents == {Enqueued(j) : j \in Jobs} \cup {Acknowledged(j) : j \in Jobs}

\* Every variable has its type, manifests never run ahead of their logs, and
\* run_next has a job wherever it needs one.
TypeOK ==
    /\ claimLog \in Seq(ClaimEvents) /\ claimManifest \in 0..Len(claimLog)
    /\ evidenceLog \in Seq(EvidenceEvents) /\ evidenceManifest \in 0..Len(evidenceLog)
    /\ raw \subseteq Captures
    /\ queueLog \in Seq(QueueEvents) /\ queueFile \in {"whole", "open", "unreadable"}
    /\ pc \in {"Down", "Refused", "Idle", "Acquiring", "Recording", "AnchoringEvidence",
               "Appending", "AnchoringClaims", "Acknowledging"}
    /\ job \in Jobs \cup {None} /\ capture \in Captures \cup {None}
    /\ pc \in {"Acquiring", "Recording", "Appending", "Acknowledging"} => job # None
    /\ pc = "Recording" => capture # None
    /\ crashes \in 0..MaxCrashes

\* V2A-T11 and V11: however often the process died and acquired again, a job has
\* one verdict in the claim store.
OneVerdictPerJob ==
    \A m, n \in DOMAIN claimLog :
        /\ claimLog[m].event = "VERIFICATION" /\ claimLog[n].event = "VERIFICATION"
        /\ claimLog[m].job = claimLog[n].job
        => m = n

\* A verdict never gets in before the evidence it cites: the record is in the
\* log, and under its manifest if there is one, and the bytes are there.
VerdictHasEvidence ==
    \A x \in Elements(claimLog) :
        x.event = "VERIFICATION" /\ x.evidence # None =>
            /\ x.evidence \in raw
            /\ \E n \in DOMAIN evidenceLog :
                  /\ evidenceLog[n].event = "EVIDENCE_APPENDED"
                  /\ evidenceLog[n].evidence = x.evidence
                  /\ evidenceManifest = 0 \/ n <= evidenceManifest

\* A job records one capture at most, and its verdict is about that one: what was
\* captured before a crash is not captured again, nor replaced.
OneCapturePerJob ==
    \A j \in Jobs :
        /\ \A m, n \in ByJob(j) : m = n
        /\ \A n \in ByJob(j), x \in Elements(claimLog) :
              x.event = "VERIFICATION" /\ x.job = j => x.evidence = evidenceLog[n].evidence

\* Every job that was enqueued is acknowledged in the end, through crashes,
\* retractions and failed acquisitions, as long as the stores can be opened.
EveryJobFinishes == \A j \in Jobs : IsEnqueued(j) ~> IsAcknowledged(j) \/ pc = "Refused"

VerdictsOf(j) == {x \in Elements(claimLog) : x.event = "VERIFICATION" /\ x.job = j}

Promise == INSTANCE VerificationJobs WITH
    Findings <- Findings,
    Undecided <- None,
    stage <- [j \in Jobs |-> IF IsAcknowledged(j) THEN "done"
                             ELSE IF IsEnqueued(j) THEN "queued" ELSE "absent"],
    verdict <- [j \in Jobs |-> IF VerdictsOf(j) = {} THEN None
                               ELSE CHOOSE x \in VerdictsOf(j) : TRUE]

\* Queue, evidence store and claim store together give each job one final
\* verdict, and call it done only after that.
KeepsPromise == Promise!JobsSpec

=============================================================================
