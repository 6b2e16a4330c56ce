---------------------- MODULE ExternalVerificationProofs ----------------------
(* Proofs about ExternalVerification, for any jobs, captures and outcomes,  *)
(* and any number of crashes and retractions.                               *)
EXTENDS ExternalVerification, TLAPS

\* What run_next knows of the job it holds, by where it stands.
JobInv ==
    /\ pc \in {"Down", "Refused", "Idle"} => job = None
    /\ job = None => capture = None
    /\ pc = "Acquiring" => capture = None
    /\ pc \in {"Acquiring", "Recording"} => ByJob(job) = {}
    /\ pc = "Recording" => capture \in raw
    /\ job # None =>
          /\ IsEnqueued(job) /\ ~IsAcknowledged(job)
          /\ Committed(job) <=> pc \in {"AnchoringClaims", "Acknowledging"}
          /\ \A n \in ByJob(job) : evidenceLog[n].evidence = capture

\* The bytes of a record are there before it, and while a store is open its
\* manifest covers all of it but an event that is being anchored.
EvidenceInv ==
    /\ \A n \in DOMAIN evidenceLog :
          evidenceLog[n].event = "EVIDENCE_APPENDED" => evidenceLog[n].evidence \in raw
    /\ pc \notin {"Down", "Refused", "AnchoringEvidence"} => Authentic(evidenceLog, evidenceManifest)

QueueInv ==
    \A j \in Jobs : /\ IsAcknowledged(j) => Committed(j)
                    /\ Committed(j) => IsEnqueued(j)

IInv == /\ TypeOK /\ JobInv /\ EvidenceInv /\ QueueInv
        /\ OneVerdictPerJob /\ VerdictHasEvidence /\ OneCapturePerJob

-----------------------------------------------------------------------------

LEMMA AppendFacts ==
    ASSUME NEW S, NEW s \in Seq(S), NEW x \in S
    PROVE  /\ Append(s, x) \in Seq(S)
           /\ Len(s) \in Nat /\ Len(Append(s, x)) = Len(s) + 1
           /\ DOMAIN s = 1 .. Len(s)
           /\ DOMAIN Append(s, x) = DOMAIN s \cup {Len(s) + 1}
           /\ Len(s) + 1 \notin DOMAIN s
           /\ \A i \in DOMAIN s : Append(s, x)[i] = s[i]
           /\ Append(s, x)[Len(s) + 1] = x
  OBVIOUS

LEMMA ElementsOfAppend ==
    ASSUME NEW S, NEW s \in Seq(S), NEW x \in S
    PROVE  Elements(Append(s, x)) = Elements(s) \cup {x}
<1> DEFINE t == Append(s, x)
<1>1. /\ DOMAIN t = DOMAIN s \cup {Len(s) + 1}
      /\ \A i \in DOMAIN s : t[i] = s[i]
      /\ t[Len(s) + 1] = x
  BY AppendFacts
<1> HIDE DEF t
<1>2. \A y : y \in Elements(t) <=> \E i \in DOMAIN t : y = t[i]
  BY DEF Elements
<1>3. \A y : y \in Elements(s) <=> \E i \in DOMAIN s : y = s[i]
  BY DEF Elements
<1>4. \A y : y \in Elements(t) <=> y \in Elements(s) \/ y = x
  BY <1>1, <1>2, <1>3
<1>. QED  BY <1>4 DEF t

\* Fields and kinds of the events.
LEMMA EventFacts ==
    /\ \A c : Claim(c).event = "INGEST"
    /\ \A j, e : /\ Verdict(j, e).event = "VERIFICATION"
                 /\ Verdict(j, e).job = j /\ Verdict(j, e).evidence = e
    /\ \A e, j : /\ Appended(e, j).event = "EVIDENCE_APPENDED"
                 /\ Appended(e, j).evidence = e /\ Appended(e, j).job = j
    /\ \A e : Retracted(e).event = "EVIDENCE_RETRACTED" /\ Retracted(e).evidence = e
    /\ \A i, j : /\ Enqueued(i) # Acknowledged(j)
                 /\ Enqueued(i) = Enqueued(j) => i = j
                 /\ Acknowledged(i) = Acknowledged(j) => i = j
  BY DEF Claim, Verdict, Appended, Retracted, Enqueued, Acknowledged

LEMMA InitIInv == Init => IInv
<1> SUFFICES ASSUME Init PROVE IInv
  OBVIOUS
<1>1. /\ Elements(claimLog) = {} /\ Elements(queueLog) = {} /\ Elements(evidenceLog) = {}
      /\ DOMAIN claimLog = {} /\ DOMAIN evidenceLog = {}
  BY DEF Init, Elements
<1>2. TypeOK
  <2>1. \A S : <<>> \in Seq(S) /\ Len(<<>>) = 0
    OBVIOUS
  <2>2. /\ claimLog \in Seq(ClaimEvents) /\ claimManifest \in 0 .. Len(claimLog)
        /\ evidenceLog \in Seq(EvidenceEvents) /\ evidenceManifest \in 0 .. Len(evidenceLog)
        /\ queueLog \in Seq(QueueEvents)
    BY <2>1 DEF Init
  <2>3. crashes \in 0 .. MaxCrashes
    BY WorkerConstants DEF Init
  <2>4. /\ raw \subseteq Captures /\ queueFile \in {"whole", "open", "unreadable"}
        /\ pc = "Down" /\ job \in Jobs \cup {None} /\ capture \in Captures \cup {None}
    BY DEF Init
  <2>. QED  BY <2>2, <2>3, <2>4 DEF TypeOK
<1>3. JobInv /\ EvidenceInv /\ QueueInv
  BY <1>1 DEF Init, JobInv, EvidenceInv, QueueInv, Authentic, IsAcknowledged, Committed
<1>4. OneVerdictPerJob /\ VerdictHasEvidence /\ OneCapturePerJob
  BY <1>1 DEF OneVerdictPerJob, VerdictHasEvidence, OneCapturePerJob, ByJob
<1>. QED  BY <1>2, <1>3, <1>4 DEF IInv

-----------------------------------------------------------------------------
(* Steps that append to no log *)

LEMMA LogsFixed ==
    ASSUME UNCHANGED <<claimLog, evidenceLog, queueLog>>
    PROVE  /\ \A j : /\ Committed(j)' <=> Committed(j)
                     /\ IsEnqueued(j)' <=> IsEnqueued(j)
                     /\ IsAcknowledged(j)' <=> IsAcknowledged(j)
                     /\ ByJob(j)' = ByJob(j)
           /\ \A e : Recorded(e)' <=> Recorded(e)
  BY DEF Committed, IsEnqueued, IsAcknowledged, ByJob, Recorded

LEMMA KeepLogs ==
    ASSUME IInv, UNCHANGED <<claimLog, evidenceLog, queueLog>>, raw \subseteq raw',
           evidenceManifest' \in {evidenceManifest, Len(evidenceLog)},
           TypeOK', JobInv',
           pc' \notin {"Down", "Refused", "AnchoringEvidence"}
               => Authentic(evidenceLog, evidenceManifest')
    PROVE  IInv'
<1>1. EvidenceInv'
  BY DEF IInv, EvidenceInv, Authentic
<1>2. QueueInv'
  BY LogsFixed DEF IInv, QueueInv
<1>3. OneVerdictPerJob'
  BY DEF IInv, OneVerdictPerJob
<1>4. OneCapturePerJob'
  BY LogsFixed DEF IInv, OneCapturePerJob
<1>5. VerdictHasEvidence'
  <2>1. evidenceLog \in Seq(EvidenceEvents)
    BY DEF IInv, TypeOK
  <2>2. \A n \in DOMAIN evidenceLog : n <= Len(evidenceLog)
    BY <2>1
  <2>. QED  BY <2>2 DEF IInv, VerdictHasEvidence
<1>. QED  BY <1>1, <1>2, <1>3, <1>4, <1>5 DEF IInv

LEMMA IdleSteps == IInv /\ (Restart \/ RestartRefused) => IInv'
<1> SUFFICES ASSUME IInv, Restart \/ RestartRefused PROVE IInv'
  OBVIOUS
<1>1. /\ UNCHANGED <<claimLog, evidenceLog, raw, queueLog, queueFile, job, capture, crashes>>
      /\ claimManifest' \in {claimManifest, Len(claimLog)}
      /\ evidenceManifest' \in {evidenceManifest, Len(evidenceLog)}
      /\ pc = "Down" /\ pc' \in {"Idle", "Refused"}
      /\ pc' = "Idle" => Authentic(evidenceLog, evidenceManifest)
  BY DEF Restart, RestartRefused, CanOpen, claimStore, evidenceStore, queue
<1>2. TypeOK'
  <2>1. Len(claimLog) \in Nat /\ Len(evidenceLog) \in Nat
    BY DEF IInv, TypeOK
  <2>. QED  BY <1>1, <2>1 DEF IInv, TypeOK
<1>3. JobInv'
  BY <1>1 DEF IInv, JobInv
<1>4. pc' \notin {"Down", "Refused", "AnchoringEvidence"}
          => Authentic(evidenceLog, evidenceManifest')
  BY <1>1 DEF Authentic
<1>. QED  BY <1>1, <1>2, <1>3, <1>4, KeepLogs

\* Deaths that leave the logs as they were; CutLineStep has the other one.
LEMMA DeathSteps ==
    ASSUME IInv, Die, queueLog' = queueLog, queueFile' \in {"whole", "open", "unreadable"}
    PROVE  IInv'
<1>1. /\ UNCHANGED <<claimLog, claimManifest, evidenceLog, evidenceManifest, raw, queueLog>>
      /\ pc' = "Down" /\ job' = None /\ capture' = None
      /\ crashes < MaxCrashes /\ crashes' = crashes + 1
  BY DEF Die, claimStore, evidenceStore
<1>2. TypeOK'
  BY <1>1, WorkerConstants DEF IInv, TypeOK
<1>3. JobInv'
  BY <1>1 DEF JobInv
<1>. QED  BY <1>1, <1>2, <1>3, KeepLogs

LEMMA AnchorSteps == IInv /\ (AnchorEvidence \/ AnchorClaims) => IInv'
<1> SUFFICES ASSUME IInv, AnchorEvidence \/ AnchorClaims PROVE IInv'
  OBVIOUS
<1>1. /\ UNCHANGED <<claimLog, evidenceLog, raw, queueLog, queueFile, job, capture, crashes>>
      /\ evidenceManifest' \in {evidenceManifest, Len(evidenceLog)}
      /\ claimManifest' \in {claimManifest, Len(claimLog)}
      /\ \/ pc = "AnchoringEvidence" /\ evidenceManifest' = Len(evidenceLog)
            /\ pc' = IF job = None THEN "Idle" ELSE "Appending"
         \/ pc = "AnchoringClaims" /\ evidenceManifest' = evidenceManifest
            /\ pc' = IF job = None THEN "Idle" ELSE "Acknowledging"
  BY DEF AnchorEvidence, AnchorClaims, claimStore, evidenceStore, queue
<1>2. Authentic(evidenceLog, evidenceManifest')
  BY <1>1 DEF IInv, EvidenceInv, Authentic
<1>3. TypeOK'
  <2>1. Len(claimLog) \in Nat /\ Len(evidenceLog) \in Nat
    BY DEF IInv, TypeOK
  <2>. QED  BY <1>1, <2>1 DEF IInv, TypeOK
<1>4. JobInv'
  BY <1>1, LogsFixed DEF IInv, JobInv
<1>. QED  BY <1>1, <1>2, <1>3, <1>4, KeepLogs

LEMMA AcquisitionSteps ==
    ASSUME IInv, \/ \E e \in Captures : Acquire(e)
                 \/ AcquisitionFails
                 \/ ContentUndecodable
    PROVE  IInv'
<1>1. /\ UNCHANGED <<claimLog, claimManifest, evidenceLog, evidenceManifest, queueLog,
                     queueFile, crashes>>
      /\ pc = "Acquiring"
      /\ \/ /\ \E e \in Captures : raw' = raw \cup {e} /\ capture' = e
            /\ job' = job /\ pc' \in {"Appending", "Recording"}
         \/ raw' = raw /\ job' = job /\ capture' = capture /\ pc' = "Appending"
         \/ raw' = raw /\ job' = None /\ capture' = capture /\ pc' = "Idle"
  BY DEF Acquire, AcquisitionFails, ContentUndecodable, claimStore, evidenceStore, queue
<1>2. Authentic(evidenceLog, evidenceManifest)
  BY <1>1 DEF IInv, EvidenceInv
<1>3. TypeOK'
  BY <1>1, WorkerConstants DEF IInv, TypeOK
<1>4. JobInv'
  BY <1>1, <1>3, LogsFixed DEF IInv, JobInv, TypeOK
<1>. QED  BY <1>1, <1>2, <1>3, <1>4, KeepLogs

\* A capture of an earlier run is the job's only one.
LEMMA StartStep ==
    ASSUME IInv, NEW j \in Jobs, Start(j)
    PROVE  IInv'
<1>1. /\ UNCHANGED <<claimLog, claimManifest, evidenceLog, evidenceManifest, raw, queueLog,
                     queueFile, crashes>>
      /\ pc = "Idle" /\ job' = j /\ ~Committed(j)
      /\ IsEnqueued(j) /\ ~IsAcknowledged(j)
      /\ \/ ByJob(j) # {} /\ pc' = "Appending" /\ capture' = Captured(j)
         \/ ByJob(j) = {} /\ pc' = "Acquiring" /\ capture' = None
  BY DEF Start, IsNext, claimStore, evidenceStore, queue
<1>2. Authentic(evidenceLog, evidenceManifest)
  BY <1>1 DEF IInv, EvidenceInv
<1>3. ASSUME NEW n \in ByJob(j)
      PROVE  Captured(j) = evidenceLog[n].evidence /\ Captured(j) \in Captures
  <2>1. \A m \in ByJob(j) : m = n
    BY <1>3 DEF IInv, OneCapturePerJob
  <2>2. n \in Nat /\ n \in DOMAIN evidenceLog /\ evidenceLog[n] \in EvidenceEvents
    BY <1>3 DEF ByJob, IInv, TypeOK
  <2>3. n = CHOOSE i \in ByJob(j) : \A m \in ByJob(j) : i <= m
    <3>1. \A m \in ByJob(j) : n <= m
      BY <2>1, <2>2
    <3>2. \E i \in ByJob(j) : \A m \in ByJob(j) : i <= m
      BY <1>3, <3>1
    <3>. QED  BY <2>1, <3>2
  <2>4. evidenceLog[n].evidence \in Captures
    BY <2>2 DEF EvidenceEvents, Appended, Retracted
  <2>. QED  BY <2>3, <2>4 DEF Captured
<1>4. TypeOK'
  <2>1. capture' \in Captures \cup {None}
    BY <1>1, <1>3
  <2>2. job' # None
    BY <1>1, WorkerConstants
  <2>. QED  BY <1>1, <2>1, <2>2 DEF IInv, TypeOK
<1>5. JobInv'
  <2>1. job' # None
    BY <1>1, WorkerConstants
  <2>. QED  BY <1>1, <1>3, <2>1, LogsFixed DEF JobInv
<1>. QED  BY <1>1, <1>2, <1>4, <1>5, KeepLogs

-----------------------------------------------------------------------------
(* Steps on the claim log *)

LEMMA ClaimLogGrows ==
    ASSUME IInv, NEW x \in ClaimEvents, claimLog' = Append(claimLog, x),
           UNCHANGED <<evidenceLog, queueLog>>
    PROVE  /\ claimLog' \in Seq(ClaimEvents)
           /\ claimManifest \in 0 .. Len(claimLog')
           /\ \A y : y \in Elements(claimLog)' <=> y \in Elements(claimLog) \/ y = x
           /\ \A j : /\ Committed(j)' <=> Committed(j) \/ (x.event = "VERIFICATION" /\ x.job = j)
                     /\ IsEnqueued(j)' <=> IsEnqueued(j)
                     /\ IsAcknowledged(j)' <=> IsAcknowledged(j)
                     /\ ByJob(j)' = ByJob(j)
<1>1. claimLog \in Seq(ClaimEvents) /\ claimManifest \in 0 .. Len(claimLog)
  BY DEF IInv, TypeOK
<1>2. claimLog' \in Seq(ClaimEvents) /\ Len(claimLog') = Len(claimLog) + 1 /\ Len(claimLog) \in Nat
  BY <1>1, AppendFacts
<1>3. Elements(claimLog)' = Elements(claimLog) \cup {x}
  BY <1>1, ElementsOfAppend DEF Elements
<1>. QED  BY <1>1, <1>2, <1>3 DEF Committed, IsEnqueued, IsAcknowledged, ByJob

LEMMA IngestStep ==
    ASSUME IInv, NEW c \in {ClaimOf[j] : j \in Jobs}, Ingest(c)
    PROVE  IInv'
<1> DEFINE x == Claim(c)
<1>1. /\ pc = "Idle" /\ pc' = "AnchoringClaims" /\ claimLog' = Append(claimLog, x)
      /\ UNCHANGED <<claimManifest, evidenceLog, evidenceManifest, raw, queueLog, queueFile,
                     job, capture, crashes>>
  BY DEF Ingest, evidenceStore, queue
<1>2. x \in ClaimEvents /\ x.event = "INGEST"
  BY EventFacts DEF ClaimEvents
<1> HIDE DEF x
<1>3. /\ claimLog' \in Seq(ClaimEvents) /\ claimManifest \in 0 .. Len(claimLog')
      /\ \A y : y \in Elements(claimLog)' <=> y \in Elements(claimLog) \/ y = x
      /\ \A j : /\ Committed(j)' <=> Committed(j)
                /\ IsEnqueued(j)' <=> IsEnqueued(j)
                /\ IsAcknowledged(j)' <=> IsAcknowledged(j)
                /\ ByJob(j)' = ByJob(j)
  BY <1>1, <1>2, ClaimLogGrows
<1>4. TypeOK'
  BY <1>1, <1>3 DEF IInv, TypeOK
<1>5. JobInv'
  BY <1>1 DEF IInv, JobInv
<1>6. EvidenceInv'
  BY <1>1 DEF IInv, EvidenceInv
<1>7. QueueInv'
  BY <1>3 DEF IInv, QueueInv
<1>8. VerdictHasEvidence'
  BY <1>1, <1>2, <1>3 DEF IInv, VerdictHasEvidence
<1>9. OneCapturePerJob'
  BY <1>1, <1>2, <1>3 DEF IInv, OneCapturePerJob
<1>10. OneVerdictPerJob'
  <2>1. /\ DOMAIN claimLog' = DOMAIN claimLog \cup {Len(claimLog) + 1}
        /\ \A i \in DOMAIN claimLog : claimLog'[i] = claimLog[i]
        /\ claimLog'[Len(claimLog) + 1] = x
    BY <1>1, <1>2, AppendFacts DEF IInv, TypeOK
  <2>. QED  BY <1>2, <2>1 DEF IInv, OneVerdictPerJob
<1>. QED  BY <1>4, <1>5, <1>6, <1>7, <1>8, <1>9, <1>10 DEF IInv

\* The job held has no verdict, so this is its first; the guard and the order of
\* the bytes, the record and the manifest give it its evidence.
LEMMA AppendVerdictStep == IInv /\ AppendVerdict => IInv'
<1> SUFFICES ASSUME IInv, AppendVerdict PROVE IInv'
  OBVIOUS
<1> DEFINE x == Verdict(job, capture)
<1>1. /\ pc = "Appending"
      /\ UNCHANGED <<claimManifest, evidenceLog, evidenceManifest, raw, queueLog, queueFile,
                     job, capture, crashes>>
      /\ capture = None \/ Recorded(capture)
  BY DEF AppendVerdict, evidenceStore, queue
<1>2. job \in Jobs /\ job # None /\ ~Committed(job) /\ IsEnqueued(job)
  BY <1>1 DEF IInv, TypeOK, JobInv
<1>3. x \in Findings /\ x.event = "VERIFICATION" /\ x.job = job /\ x.evidence = capture
  BY <1>2, EventFacts DEF IInv, TypeOK, Findings
<1>4. x \in ClaimEvents
  BY <1>3 DEF ClaimEvents
<1> HIDE DEF x
<1>5. x \notin Elements(claimLog)
  BY <1>2, <1>3 DEF Committed
<1>6. pc' = "AnchoringClaims" /\ claimLog' = Append(claimLog, x)
  BY <1>5 DEF AppendVerdict, x
<1>7. /\ claimLog' \in Seq(ClaimEvents) /\ claimManifest \in 0 .. Len(claimLog')
      /\ \A y : y \in Elements(claimLog)' <=> y \in Elements(claimLog) \/ y = x
      /\ \A j : /\ Committed(j)' <=> Committed(j) \/ job = j
                /\ IsEnqueued(j)' <=> IsEnqueued(j)
                /\ IsAcknowledged(j)' <=> IsAcknowledged(j)
                /\ ByJob(j)' = ByJob(j)
  BY <1>1, <1>3, <1>4, <1>6, ClaimLogGrows
<1>8. TypeOK'
  BY <1>1, <1>6, <1>7 DEF IInv, TypeOK
<1>9. JobInv'
  BY <1>1, <1>2, <1>6, <1>7 DEF IInv, JobInv
<1>10. EvidenceInv'
  BY <1>1, <1>6 DEF IInv, EvidenceInv
<1>11. QueueInv'
  BY <1>2, <1>7 DEF IInv, QueueInv
<1>12. VerdictHasEvidence'
  <2>1. capture # None => \E n \in DOMAIN evidenceLog :
                              /\ evidenceLog[n].event = "EVIDENCE_APPENDED"
                              /\ evidenceLog[n].evidence = capture
    BY <1>1 DEF Recorded, Elements
  <2>2. evidenceManifest = 0 \/ evidenceManifest = Len(evidenceLog)
    BY <1>1 DEF IInv, EvidenceInv, Authentic
  <2>3. \A n \in DOMAIN evidenceLog : n <= Len(evidenceLog)
    BY DEF IInv, TypeOK
  <2>4. capture # None => capture \in raw
    BY <2>1 DEF IInv, EvidenceInv
  <2>. QED  BY <1>1, <1>3, <1>7, <2>1, <2>2, <2>3, <2>4 DEF IInv, VerdictHasEvidence
<1>13. OneCapturePerJob'
  <2>1. \A n \in ByJob(job) : evidenceLog[n].evidence = capture
    BY <1>2 DEF IInv, JobInv
  <2>. QED  BY <1>1, <1>3, <1>7, <2>1 DEF IInv, OneCapturePerJob
<1>14. OneVerdictPerJob'
  <2>1. /\ DOMAIN claimLog' = DOMAIN claimLog \cup {Len(claimLog) + 1}
        /\ \A i \in DOMAIN claimLog : claimLog'[i] = claimLog[i]
        /\ claimLog'[Len(claimLog) + 1] = x
    BY <1>4, <1>6, AppendFacts DEF IInv, TypeOK
  <2>2. \A i \in DOMAIN claimLog : ~(claimLog[i].event = "VERIFICATION" /\ claimLog[i].job = job)
    BY <1>2 DEF Committed, Elements
  <2>. QED  BY <1>3, <2>1, <2>2 DEF IInv, OneVerdictPerJob
<1>. QED  BY <1>8, <1>9, <1>10, <1>11, <1>12, <1>13, <1>14 DEF IInv

-----------------------------------------------------------------------------
(* Steps on the queue *)

LEMMA QueueLogGrows ==
    ASSUME IInv, NEW x \in QueueEvents, queueLog' = Append(queueLog, x),
           UNCHANGED <<claimLog, claimManifest, evidenceLog, evidenceManifest, raw>>
    PROVE  /\ queueLog' \in Seq(QueueEvents)
           /\ \A j : /\ Committed(j)' <=> Committed(j)
                     /\ IsEnqueued(j)' <=> IsEnqueued(j) \/ x = Enqueued(j)
                     /\ IsAcknowledged(j)' <=> IsAcknowledged(j) \/ x = Acknowledged(j)
                     /\ ByJob(j)' = ByJob(j)
           /\ OneVerdictPerJob' /\ VerdictHasEvidence' /\ OneCapturePerJob'
<1>1. queueLog \in Seq(QueueEvents)
  BY DEF IInv, TypeOK
<1>2. queueLog' \in Seq(QueueEvents)
  BY <1>1, AppendFacts
<1>3. Elements(queueLog)' = Elements(queueLog) \cup {x}
  BY <1>1, ElementsOfAppend DEF Elements
<1>4. \A j : /\ Committed(j)' <=> Committed(j)
             /\ IsEnqueued(j)' <=> IsEnqueued(j) \/ x = Enqueued(j)
             /\ IsAcknowledged(j)' <=> IsAcknowledged(j) \/ x = Acknowledged(j)
             /\ ByJob(j)' = ByJob(j)
  BY <1>3 DEF Committed, IsEnqueued, IsAcknowledged, ByJob
<1>5. OneVerdictPerJob' /\ VerdictHasEvidence'
  BY DEF IInv, OneVerdictPerJob, VerdictHasEvidence
<1>6. OneCapturePerJob'
  BY <1>4 DEF IInv, OneCapturePerJob
<1>. QED  BY <1>2, <1>4, <1>5, <1>6

LEMMA QueueSteps ==
    ASSUME IInv, NEW j \in Jobs, Enqueue(j) \/ AcknowledgeCommitted(j)
    PROVE  IInv'
<1>1. PICK x \in {Enqueued(j), Acknowledged(j)} :
          /\ queueLog' = Append(queueLog, x)
          /\ x = Acknowledged(j) => Committed(j)
  BY EventFacts DEF Enqueue, AcknowledgeCommitted, WriteToQueue
<1>2. /\ pc = "Idle"
      /\ UNCHANGED <<claimLog, claimManifest, evidenceLog, evidenceManifest, raw,
                     pc, job, capture, crashes>>
      /\ queueFile' \in {"whole", "unreadable"}
  BY DEF Enqueue, AcknowledgeCommitted, WriteToQueue, claimStore, evidenceStore
<1>3. x \in QueueEvents
  BY <1>1 DEF QueueEvents
<1>4. /\ queueLog' \in Seq(QueueEvents)
      /\ \A i : /\ Committed(i)' <=> Committed(i)
                /\ IsEnqueued(i)' <=> IsEnqueued(i) \/ x = Enqueued(i)
                /\ IsAcknowledged(i)' <=> IsAcknowledged(i) \/ x = Acknowledged(i)
      /\ OneVerdictPerJob' /\ VerdictHasEvidence' /\ OneCapturePerJob'
  BY <1>1, <1>2, <1>3, QueueLogGrows
<1>5. TypeOK'
  BY <1>2, <1>4 DEF IInv, TypeOK
<1>6. JobInv'
  BY <1>2 DEF IInv, JobInv
<1>7. EvidenceInv'
  BY <1>2 DEF IInv, EvidenceInv
<1>8. QueueInv'
  BY <1>1, <1>4, EventFacts DEF IInv, QueueInv
<1>. QED  BY <1>4, <1>5, <1>6, <1>7, <1>8 DEF IInv

LEMMA AcknowledgeStep == IInv /\ Acknowledge => IInv'
<1> SUFFICES ASSUME IInv, Acknowledge PROVE IInv'
  OBVIOUS
<1> DEFINE x == Acknowledged(job)
<1>1. /\ pc = "Acknowledging" /\ pc' = "Idle" /\ job' = None /\ capture' = None
      /\ UNCHANGED <<claimLog, claimManifest, evidenceLog, evidenceManifest, raw, crashes>>
      /\ queueLog' = Append(queueLog, x) /\ queueFile' \in {"whole", "unreadable"}
  BY DEF Acknowledge, WriteToQueue, claimStore, evidenceStore
<1>2. job \in Jobs /\ Committed(job)
  BY <1>1 DEF IInv, TypeOK, JobInv
<1>3. x \in QueueEvents /\ \A i : x # Enqueued(i) /\ (x = Acknowledged(i) => i = job)
  BY <1>2, EventFacts DEF QueueEvents
<1> HIDE DEF x
<1>4. /\ queueLog' \in Seq(QueueEvents)
      /\ \A i : /\ Committed(i)' <=> Committed(i)
                /\ IsEnqueued(i)' <=> IsEnqueued(i)
                /\ IsAcknowledged(i)' => IsAcknowledged(i) \/ i = job
      /\ OneVerdictPerJob' /\ VerdictHasEvidence' /\ OneCapturePerJob'
  BY <1>1, <1>3, QueueLogGrows
<1>5. TypeOK'
  BY <1>1, <1>4 DEF IInv, TypeOK
<1>6. JobInv'
  BY <1>1 DEF JobInv
<1>7. EvidenceInv'
  BY <1>1 DEF IInv, EvidenceInv
<1>8. QueueInv'
  BY <1>2, <1>4 DEF IInv, QueueInv
<1>. QED  BY <1>4, <1>5, <1>6, <1>7, <1>8 DEF IInv

\* What can be written would have been written by a step of the worker.
LEMMA WrittenFacts ==
    ASSUME IInv, NEW x \in BeingWritten
    PROVE  \E j \in Jobs :
              /\ x \in {Enqueued(j), Acknowledged(j)}
              /\ x = Enqueued(j) => ~IsEnqueued(j)
              /\ x = Acknowledged(j) => IsEnqueued(j) /\ ~IsAcknowledged(j) /\ Committed(j)
<1>1. CASE pc = "Idle"
  <2>1. \/ \E j \in Jobs : x = Enqueued(j) /\ ~IsEnqueued(j)
        \/ \E j \in Jobs : x = Acknowledged(j) /\ IsNext(j) /\ Committed(j)
    BY <1>1 DEF BeingWritten
  <2>. QED  BY <2>1, EventFacts DEF IsNext
<1>2. CASE pc = "Acknowledging"
  <2>1. x = Acknowledged(job)
    BY <1>2 DEF BeingWritten
  <2>2. job \in Jobs /\ IsEnqueued(job) /\ ~IsAcknowledged(job) /\ Committed(job)
    BY <1>2 DEF IInv, TypeOK, JobInv
  <2>. QED  BY <2>1, <2>2, EventFacts
<1>. QED  BY <1>1, <1>2 DEF BeingWritten

\* The line is there and what would have followed it is not.
LEMMA CutLineStep == IInv /\ CrashTornQueue => IInv'
<1> SUFFICES ASSUME IInv, CrashTornQueue PROVE IInv'
  OBVIOUS
<1>1. Die
  BY DEF CrashTornQueue
<1>2. PICK x \in BeingWritten : WriteToQueueCut(x)
  BY DEF CrashTornQueue
<1>3. queueFile' \in {"open", "unreadable"}
  BY <1>2 DEF WriteToQueueCut
<1>4. CASE queueLog' = queueLog
  BY <1>1, <1>3, <1>4, DeathSteps
<1>5. CASE queueLog' = Append(queueLog, x)
  <2>1. /\ UNCHANGED <<claimLog, claimManifest, evidenceLog, evidenceManifest, raw>>
        /\ pc' = "Down" /\ job' = None /\ capture' = None
        /\ crashes < MaxCrashes /\ crashes' = crashes + 1
    BY <1>1 DEF Die, claimStore, evidenceStore
  <2>2. PICK j \in Jobs : /\ x \in {Enqueued(j), Acknowledged(j)}
                          /\ x = Acknowledged(j) => Committed(j)
    BY WrittenFacts
  <2>3. x \in QueueEvents
    BY <2>2 DEF QueueEvents
  <2>4. /\ queueLog' \in Seq(QueueEvents)
        /\ \A i : /\ Committed(i)' <=> Committed(i)
                  /\ IsEnqueued(i)' <=> IsEnqueued(i) \/ x = Enqueued(i)
                  /\ IsAcknowledged(i)' <=> IsAcknowledged(i) \/ x = Acknowledged(i)
        /\ OneVerdictPerJob' /\ VerdictHasEvidence' /\ OneCapturePerJob'
    BY <1>5, <2>1, <2>3, QueueLogGrows
  <2>5. TypeOK'
    BY <1>3, <2>1, <2>4, WorkerConstants DEF IInv, TypeOK
  <2>6. JobInv'
    BY <2>1 DEF JobInv
  <2>7. EvidenceInv'
    BY <2>1 DEF IInv, EvidenceInv
  <2>8. QueueInv'
    BY <2>2, <2>4, EventFacts DEF IInv, QueueInv
  <2>. QED  BY <2>4, <2>5, <2>6, <2>7, <2>8 DEF IInv
<1>. QED  BY <1>2, <1>4, <1>5 DEF WriteToQueueCut

LEMMA CrashSteps == IInv /\ (Crash \/ CrashTornQueue) => IInv'
<1>1. ASSUME IInv, Crash PROVE IInv'
  <2>1. Die /\ queueLog' = queueLog /\ queueFile' \in {"whole", "open", "unreadable"}
    BY <1>1 DEF Crash, queue, IInv, TypeOK
  <2>. QED  BY <1>1, <2>1, DeathSteps
<1>. QED  BY <1>1, CutLineStep

-----------------------------------------------------------------------------
(* Steps on the evidence log *)

LEMMA EvidenceLogGrows ==
    ASSUME IInv, NEW x \in EvidenceEvents, evidenceLog' = Append(evidenceLog, x),
           UNCHANGED <<claimLog, evidenceManifest, raw, queueLog>>
    PROVE  /\ evidenceLog' \in Seq(EvidenceEvents)
           /\ evidenceManifest \in 0 .. Len(evidenceLog')
           /\ DOMAIN evidenceLog' = DOMAIN evidenceLog \cup {Len(evidenceLog) + 1}
           /\ \A n \in DOMAIN evidenceLog : evidenceLog'[n] = evidenceLog[n]
           /\ evidenceLog'[Len(evidenceLog) + 1] = x
           /\ Len(evidenceLog) + 1 \notin DOMAIN evidenceLog
           /\ \A j : /\ Committed(j)' <=> Committed(j)
                     /\ IsEnqueued(j)' <=> IsEnqueued(j)
                     /\ IsAcknowledged(j)' <=> IsAcknowledged(j)
           /\ OneVerdictPerJob' /\ VerdictHasEvidence' /\ QueueInv'
<1>1. evidenceLog \in Seq(EvidenceEvents) /\ evidenceManifest \in 0 .. Len(evidenceLog)
  BY DEF IInv, TypeOK
<1>2. /\ evidenceLog' \in Seq(EvidenceEvents)
      /\ Len(evidenceLog') = Len(evidenceLog) + 1 /\ Len(evidenceLog) \in Nat
      /\ DOMAIN evidenceLog' = DOMAIN evidenceLog \cup {Len(evidenceLog) + 1}
      /\ \A n \in DOMAIN evidenceLog : evidenceLog'[n] = evidenceLog[n]
      /\ evidenceLog'[Len(evidenceLog) + 1] = x
      /\ Len(evidenceLog) + 1 \notin DOMAIN evidenceLog
  BY <1>1, AppendFacts
<1>3. \A j : /\ Committed(j)' <=> Committed(j)
             /\ IsEnqueued(j)' <=> IsEnqueued(j)
             /\ IsAcknowledged(j)' <=> IsAcknowledged(j)
  BY DEF Committed, IsEnqueued, IsAcknowledged
<1>4. OneVerdictPerJob'
  BY DEF IInv, OneVerdictPerJob
<1>5. VerdictHasEvidence'
  BY <1>2 DEF IInv, VerdictHasEvidence
<1>6. QueueInv'
  BY <1>3 DEF IInv, QueueInv
<1>. QED  BY <1>1, <1>2, <1>3, <1>4, <1>5, <1>6

LEMMA RetractStep ==
    ASSUME IInv, NEW e \in Captures, Retract(e)
    PROVE  IInv'
<1> DEFINE x == Retracted(e)
<1>1. /\ pc = "Idle" /\ pc' = "AnchoringEvidence" /\ evidenceLog' = Append(evidenceLog, x)
      /\ UNCHANGED <<claimLog, claimManifest, evidenceManifest, raw, queueLog, queueFile,
                     job, capture, crashes>>
  BY DEF Retract, claimStore, queue
<1>2. x \in EvidenceEvents /\ x.event = "EVIDENCE_RETRACTED"
  BY EventFacts DEF EvidenceEvents
<1> HIDE DEF x
<1>3. /\ evidenceLog' \in Seq(EvidenceEvents) /\ evidenceManifest \in 0 .. Len(evidenceLog')
      /\ DOMAIN evidenceLog' = DOMAIN evidenceLog \cup {Len(evidenceLog) + 1}
      /\ \A n \in DOMAIN evidenceLog : evidenceLog'[n] = evidenceLog[n]
      /\ evidenceLog'[Len(evidenceLog) + 1] = x
      /\ OneVerdictPerJob' /\ VerdictHasEvidence' /\ QueueInv'
  BY <1>1, <1>2, EvidenceLogGrows
<1>4. \A j : ByJob(j)' = ByJob(j)
  BY <1>2, <1>3 DEF ByJob
<1>5. TypeOK'
  BY <1>1, <1>3 DEF IInv, TypeOK
<1>6. JobInv'
  BY <1>1 DEF IInv, JobInv
<1>7. EvidenceInv'
  BY <1>1, <1>2, <1>3 DEF IInv, EvidenceInv
<1>8. OneCapturePerJob'
  <2>1. \A j : \A n \in ByJob(j) : evidenceLog'[n].evidence = evidenceLog[n].evidence
    BY <1>3 DEF ByJob
  <2>2. Elements(claimLog)' = Elements(claimLog)
    BY <1>1 DEF Elements
  <2>3. OneCapturePerJob
    BY DEF IInv
  <2>. QED  BY <1>4, <2>1, <2>2, <2>3 DEF OneCapturePerJob
<1>. QED  BY <1>3, <1>5, <1>6, <1>7, <1>8 DEF IInv

\* The first record of the job held, which has no verdict yet.
LEMMA RecordStep == IInv /\ Record => IInv'
<1> SUFFICES ASSUME IInv, Record PROVE IInv'
  OBVIOUS
<1> DEFINE x == Appended(capture, job)
           last == Len(evidenceLog) + 1
<1>1. /\ pc = "Recording" /\ pc' = "AnchoringEvidence" /\ evidenceLog' = Append(evidenceLog, x)
      /\ UNCHANGED <<claimLog, claimManifest, evidenceManifest, raw, queueLog, queueFile,
                     job, capture, crashes>>
  BY DEF Record, claimStore, queue
<1>2. /\ job \in Jobs /\ job # None /\ capture \in Captures /\ capture \in raw
      /\ ByJob(job) = {} /\ ~Committed(job)
  BY <1>1 DEF IInv, TypeOK, JobInv
<1>3. /\ x \in EvidenceEvents
      /\ x.event = "EVIDENCE_APPENDED" /\ x.evidence = capture /\ x.job = job
  BY <1>2, EventFacts DEF EvidenceEvents
<1> HIDE DEF x
<1>4. /\ evidenceLog' \in Seq(EvidenceEvents) /\ evidenceManifest \in 0 .. Len(evidenceLog')
      /\ DOMAIN evidenceLog' = DOMAIN evidenceLog \cup {last}
      /\ \A n \in DOMAIN evidenceLog : evidenceLog'[n] = evidenceLog[n]
      /\ evidenceLog'[last] = x /\ last \notin DOMAIN evidenceLog
      /\ \A j : /\ Committed(j)' <=> Committed(j)
                /\ IsEnqueued(j)' <=> IsEnqueued(j)
                /\ IsAcknowledged(j)' <=> IsAcknowledged(j)
      /\ OneVerdictPerJob' /\ VerdictHasEvidence' /\ QueueInv'
  BY <1>1, <1>3, EvidenceLogGrows
<1> HIDE DEF last
<1>5. /\ ByJob(job)' = {last}
      /\ \A j : ByJob(j)' = IF j = job THEN {last} ELSE ByJob(j)
  <2>1. ByJob(job)' = {last} /\ \A j : j = job => ByJob(j)' = {last}
    BY <1>1, <1>2, <1>3, <1>4 DEF ByJob
  <2>2. ASSUME NEW j, j # job PROVE ByJob(j)' = ByJob(j)
    BY <1>1, <1>3, <1>4, <2>2 DEF ByJob
  <2>. QED  BY <2>1, <2>2
<1>6. TypeOK'
  BY <1>1, <1>2, <1>4 DEF IInv, TypeOK
<1>7. JobInv'
  <2>1. /\ \A n \in ByJob(job)' : evidenceLog'[n].evidence = capture
        /\ IsEnqueued(job) /\ ~IsAcknowledged(job)
    BY <1>2, <1>3, <1>4, <1>5 DEF IInv, JobInv
  <2>. QED  BY <1>1, <1>2, <1>4, <2>1 DEF JobInv
<1>8. EvidenceInv'
  BY <1>1, <1>2, <1>3, <1>4 DEF IInv, EvidenceInv
<1>9. OneCapturePerJob'
  <2> SUFFICES ASSUME NEW j \in Jobs
               PROVE  /\ \A m, n \in ByJob(j)' : m = n
                      /\ \A n \in ByJob(j)', y \in Elements(claimLog) :
                            y.event = "VERIFICATION" /\ y.job = j
                                => y.evidence = evidenceLog'[n].evidence
    BY <1>1 DEF OneCapturePerJob
  <2>1. CASE j = job
    <3>1. \A y \in Elements(claimLog) : ~(y.event = "VERIFICATION" /\ y.job = job)
      BY <1>2 DEF Committed
    <3>. QED  BY <1>5, <2>1, <3>1
  <2>2. CASE j # job
    <3>1. ByJob(j)' = ByJob(j)
      BY <1>5, <2>2
    <3>2. \A n \in ByJob(j) : evidenceLog'[n].evidence = evidenceLog[n].evidence
      BY <1>4 DEF ByJob
    <3>. QED  BY <3>1, <3>2 DEF IInv, OneCapturePerJob
  <2>. QED  BY <2>1, <2>2
<1>. QED  BY <1>4, <1>6, <1>7, <1>8, <1>9 DEF IInv

-----------------------------------------------------------------------------

LEMMA StutterStep == IInv /\ UNCHANGED vars => IInv'
<1> SUFFICES ASSUME IInv, UNCHANGED vars PROVE IInv'
  OBVIOUS
<1>1. UNCHANGED <<claimLog, claimManifest, evidenceLog, evidenceManifest, raw, queueLog,
                  queueFile, pc, job, capture, crashes>>
  BY DEF vars, claimStore, evidenceStore, queue
<1>2. TypeOK'
  BY <1>1 DEF IInv, TypeOK
<1>3. JobInv'
  BY <1>1, LogsFixed DEF IInv, JobInv
<1>4. pc' \notin {"Down", "Refused", "AnchoringEvidence"}
          => Authentic(evidenceLog, evidenceManifest')
  BY <1>1 DEF IInv, EvidenceInv
<1>. QED  BY <1>1, <1>2, <1>3, <1>4, KeepLogs

LEMMA StepIInv == IInv /\ [Next]_vars => IInv'
<1> SUFFICES ASSUME IInv, [Next]_vars PROVE IInv'
  OBVIOUS
<1>1. CASE Work
  BY <1>1, QueueSteps, StartStep, AcquisitionSteps, RecordStep, AnchorSteps,
     AppendVerdictStep, AcknowledgeStep DEF Work
<1>2. CASE Next /\ ~Work
  BY <1>2, IdleSteps, IngestStep, QueueSteps, RetractStep, CrashSteps DEF Next
<1>3. CASE UNCHANGED vars
  BY <1>3, StutterStep
<1>. QED  BY <1>1, <1>2, <1>3

LEMMA Invariance == Spec => []IInv
  BY InitIInv, StepIInv, PTL DEF Spec

\* Every store keeps its type, no manifest runs ahead of its log, and run_next has
\* a job and a capture wherever it reads one.
THEOREM StoresAreTyped == Spec => []TypeOK
  BY Invariance, PTL DEF IInv

\* V2A-T11 for any number of jobs, crashes and captures: a job never gets a
\* second verdict.
THEOREM VerdictsAreFinal == Spec => []OneVerdictPerJob
  BY Invariance, PTL DEF IInv

\* Evidence before verdict: what a verdict cites is recorded, anchored and there.
THEOREM EvidenceComesFirst == Spec => []VerdictHasEvidence
  BY Invariance, PTL DEF IInv

\* A crash between capture and verdict makes no second capture.
THEOREM CapturesAreReused == Spec => []OneCapturePerJob
  BY Invariance, PTL DEF IInv

-----------------------------------------------------------------------------
(* The three stores implement the promise *)

Stage == [j \in Jobs |-> IF IsAcknowledged(j) THEN "done"
                         ELSE IF IsEnqueued(j) THEN "queued" ELSE "absent"]
Only(S) == IF S = {} THEN None ELSE CHOOSE x \in S : TRUE
Final == [j \in Jobs |-> Only(VerdictsOf(j))]

LEMMA PromiseVars ==
    /\ Promise!vars = <<Stage, Final>>
    /\ Promise!Init <=> /\ Stage = [j \in Jobs |-> "absent"]
                        /\ Final = [j \in Jobs |-> None]
    /\ \A j : Promise!Enqueue(j) <=> /\ Stage[j] = "absent"
                                     /\ Stage' = [Stage EXCEPT ![j] = "queued"]
                                     /\ UNCHANGED Final
    /\ \A j, f : Promise!Decide(j, f) <=> /\ Stage[j] = "queued" /\ Final[j] = None
                                          /\ Final' = [Final EXCEPT ![j] = f]
                                          /\ UNCHANGED Stage
    /\ \A j : Promise!Finish(j) <=> /\ Stage[j] = "queued" /\ Final[j] # None
                                    /\ Stage' = [Stage EXCEPT ![j] = "done"]
                                    /\ UNCHANGED Final
  BY DEF Promise!vars, Promise!Init, Promise!Enqueue, Promise!Decide, Promise!Finish,
         Stage, Final, Only

LEMMA InitPromise == Init => Promise!Init
<1> SUFFICES ASSUME Init PROVE Promise!Init
  OBVIOUS
<1>1. Elements(claimLog) = {} /\ Elements(queueLog) = {}
  BY DEF Init, Elements
<1>. QED  BY <1>1, PromiseVars DEF Stage, Final, Only, IsAcknowledged, IsEnqueued, VerdictsOf

LEMMA ClaimLogKeepsVerdicts ==
    ASSUME IInv, NEW x \in ClaimEvents, claimLog' = Append(claimLog, x)
    PROVE  /\ Elements(claimLog)' = Elements(claimLog) \cup {x}
           /\ \A j : ~(x.event = "VERIFICATION" /\ x.job = j) => VerdictsOf(j)' = VerdictsOf(j)
<1>1. claimLog \in Seq(ClaimEvents)
  BY DEF IInv, TypeOK
<1>2. Elements(claimLog)' = Elements(claimLog) \cup {x}
  BY <1>1, ElementsOfAppend DEF Elements
<1>. QED  BY <1>2 DEF VerdictsOf

\* No step shows but these.
LEMMA OtherSteps ==
    ASSUME IInv, [Next]_vars
    PROVE  \/ UNCHANGED <<claimLog, queueLog>>
           \/ \E c \in {ClaimOf[j] : j \in Jobs} : Ingest(c)
           \/ \E j \in Jobs : Enqueue(j)
           \/ \E j \in Jobs : AcknowledgeCommitted(j)
           \/ Acknowledge
           \/ AppendVerdict
           \/ CrashTornQueue
<1>1. CASE Work
  BY <1>1 DEF Work, Start, Acquire, AcquisitionFails, ContentUndecodable, Record,
              AnchorEvidence, AnchorClaims, claimStore, queue
<1>2. CASE Next /\ ~Work
  BY <1>2 DEF Next, Restart, RestartRefused, Retract, Crash, Die, claimStore, queue
<1>3. CASE UNCHANGED vars
  BY <1>3 DEF vars, claimStore, queue
<1>. QED  BY <1>1, <1>2, <1>3

LEMMA FinalIsVerdict ==
    ASSUME IInv, NEW j \in Jobs, Committed(j)
    PROVE  Final[j] # None
<1>1. VerdictsOf(j) # {}
  BY DEF Committed, VerdictsOf
<1>2. VerdictsOf(j) \subseteq Findings
  <2>1. \A x \in Elements(claimLog) : x \in ClaimEvents
    BY DEF IInv, TypeOK, Elements
  <2>. QED  BY <2>1, EventFacts DEF VerdictsOf, ClaimEvents
<1>3. Final[j] \in VerdictsOf(j)
  BY <1>1 DEF Final, Only
<1>. QED  BY <1>2, <1>3, NoneIsNoVerdict

LEMMA StepPromise == IInv /\ IInv' /\ [Next]_vars => [Promise!Next]_(Promise!vars)
<1> SUFFICES ASSUME IInv, IInv', [Next]_vars
             PROVE  Promise!Next \/ UNCHANGED <<Stage, Final>>
  BY DEF Promise!vars, Stage, Final, Only
<1>1. CASE UNCHANGED <<claimLog, queueLog>>
  BY <1>1 DEF Stage, Final, IsAcknowledged, IsEnqueued, VerdictsOf
<1>2. ASSUME NEW c \in {ClaimOf[j] : j \in Jobs}, Ingest(c)
      PROVE  UNCHANGED <<Stage, Final>>
  <2>1. Claim(c) \in ClaimEvents /\ Claim(c).event = "INGEST"
    BY EventFacts DEF ClaimEvents
  <2>2. claimLog' = Append(claimLog, Claim(c)) /\ queueLog' = queueLog
    BY <1>2 DEF Ingest, queue
  <2>3. \A j : VerdictsOf(j)' = VerdictsOf(j)
    BY <2>1, <2>2, ClaimLogKeepsVerdicts
  <2>. QED  BY <2>2, <2>3 DEF Stage, Final, IsAcknowledged, IsEnqueued
<1>3. ASSUME NEW j \in Jobs, NEW x \in {Enqueued(j), Acknowledged(j)},
             queueLog' = Append(queueLog, x), claimLog' = claimLog,
             x = Enqueued(j) => ~IsEnqueued(j),
             x = Acknowledged(j) => IsEnqueued(j) /\ ~IsAcknowledged(j) /\ Committed(j)
      PROVE  Promise!Next
  <2>1. Elements(queueLog)' = Elements(queueLog) \cup {x}
    <3>1. x \in QueueEvents /\ queueLog \in Seq(QueueEvents)
      BY DEF QueueEvents, IInv, TypeOK
    <3>. QED  BY <1>3, <3>1, ElementsOfAppend DEF Elements
  <2>2. UNCHANGED Final
    BY <1>3 DEF Final, VerdictsOf
  <2>3. \A i \in Jobs \ {j} : /\ IsAcknowledged(i)' <=> IsAcknowledged(i)
                              /\ IsEnqueued(i)' <=> IsEnqueued(i)
    BY <2>1, EventFacts DEF IsAcknowledged, IsEnqueued
  <2>4. CASE x = Enqueued(j)
    <3>1. IsEnqueued(j)' /\ (IsAcknowledged(j)' <=> IsAcknowledged(j))
      BY <2>1, <2>4, EventFacts DEF IsAcknowledged, IsEnqueued
    <3>2. ~IsEnqueued(j) /\ ~IsAcknowledged(j)
      BY <1>3, <2>4 DEF IInv, QueueInv
    <3>3. Stage[j] = "absent" /\ Stage' = [Stage EXCEPT ![j] = "queued"]
      BY <2>3, <3>1, <3>2 DEF Stage
    <3>. QED  BY <2>2, <3>3, PromiseVars DEF Promise!Next
  <2>5. CASE x = Acknowledged(j)
    <3>1. IsAcknowledged(j)'
      BY <2>1, <2>5 DEF IsAcknowledged
    <3>2. IsEnqueued(j) /\ ~IsAcknowledged(j) /\ Committed(j)
      BY <1>3, <2>5
    <3>3. Stage[j] = "queued" /\ Stage' = [Stage EXCEPT ![j] = "done"]
      BY <2>3, <3>1, <3>2 DEF Stage
    <3>. QED  BY <2>2, <3>2, <3>3, FinalIsVerdict, PromiseVars DEF Promise!Next
  <2>. QED  BY <1>3, <2>4, <2>5
<1>4. ASSUME NEW j \in Jobs, Enqueue(j) PROVE Promise!Next
  <2>1. queueLog' = Append(queueLog, Enqueued(j)) /\ claimLog' = claimLog /\ ~IsEnqueued(j)
    BY <1>4 DEF Enqueue, WriteToQueue, claimStore
  <2>. QED  BY <1>3, <2>1, EventFacts
<1>5. ASSUME NEW j \in Jobs, AcknowledgeCommitted(j) PROVE Promise!Next
  <2>1. /\ queueLog' = Append(queueLog, Acknowledged(j)) /\ claimLog' = claimLog
        /\ IsEnqueued(j) /\ ~IsAcknowledged(j) /\ Committed(j)
    BY <1>5 DEF AcknowledgeCommitted, WriteToQueue, IsNext, claimStore
  <2>. QED  BY <1>3, <2>1, EventFacts
<1>6. CASE Acknowledge
  <2>1. /\ queueLog' = Append(queueLog, Acknowledged(job)) /\ claimLog' = claimLog
        /\ job \in Jobs /\ job # None /\ pc = "Acknowledging"
    BY <1>6 DEF Acknowledge, WriteToQueue, claimStore, IInv, TypeOK
  <2>2. IsEnqueued(job) /\ ~IsAcknowledged(job) /\ Committed(job)
    BY <2>1 DEF IInv, JobInv
  <2>. QED  BY <1>3, <2>1, <2>2, EventFacts
<1>7. CASE AppendVerdict
  <2> DEFINE x == Verdict(job, capture)
  <2>1. job \in Jobs /\ job # None /\ ~Committed(job) /\ IsEnqueued(job) /\ ~IsAcknowledged(job)
    BY <1>7 DEF AppendVerdict, IInv, TypeOK, JobInv
  <2>2. x \in Findings /\ x \in ClaimEvents /\ x.event = "VERIFICATION" /\ x.job = job
    BY <2>1, EventFacts DEF IInv, TypeOK, Findings, ClaimEvents
  <2>3. claimLog' = Append(claimLog, x) /\ queueLog' = queueLog
    BY <1>7, <2>1, <2>2 DEF AppendVerdict, Committed, queue
  <2> HIDE DEF x
  <2>4. /\ Elements(claimLog)' = Elements(claimLog) \cup {x}
        /\ \A j : j # job => VerdictsOf(j)' = VerdictsOf(j)
    BY <2>2, <2>3, ClaimLogKeepsVerdicts
  <2>5. VerdictsOf(job) = {} /\ \A j : j = job => VerdictsOf(j)' = {x}
    BY <2>1, <2>2, <2>4 DEF Committed, VerdictsOf
  <2>6. Final[job] = None /\ Final' = [Final EXCEPT ![job] = x]
    <3>1. Only({}) = None /\ Only({x}) = x
      BY DEF Only
    <3>. QED  BY <2>1, <2>4, <2>5, <3>1 DEF Final
  <2>7. UNCHANGED Stage /\ Stage[job] = "queued"
    BY <2>1, <2>3 DEF Stage, IsAcknowledged, IsEnqueued
  <2>8. Promise!Decide(job, x)
    BY <2>6, <2>7, PromiseVars
  <2>. QED  BY <2>1, <2>2, <2>8 DEF Promise!Next
<1>8. CASE CrashTornQueue
  <2>1. claimLog' = claimLog
    BY <1>8 DEF CrashTornQueue, Die, claimStore
  <2>2. PICK x \in BeingWritten : WriteToQueueCut(x)
    BY <1>8 DEF CrashTornQueue
  <2>3. CASE queueLog' = queueLog
    BY <1>1, <2>1, <2>3
  <2>4. CASE queueLog' = Append(queueLog, x)
    BY <1>3, <2>1, <2>4, WrittenFacts
  <2>. QED  BY <2>2, <2>3, <2>4 DEF WriteToQueueCut
<1>. QED  BY <1>1, <1>2, <1>4, <1>5, <1>6, <1>7, <1>8, OtherSteps

\* Queue, evidence store and claim store, with a process that dies between any
\* two of their writes, implement one final verdict per job.
THEOREM WorkerKeepsPromise == Spec => KeepsPromise
  BY InitPromise, StepPromise, Invariance, PTL DEF Spec, KeepsPromise, Promise!JobsSpec

=============================================================================
