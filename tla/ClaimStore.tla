------------------------------ MODULE ClaimStore ------------------------------
(****************************************************************************)
(* ClaimStore of src/hrm_adaptive_memory/memory_write/claim_store.py: an    *)
(* append-only log of events, a manifest that anchors the hash of the log,  *)
(* and a snapshot that is only a cache, all on disk; in memory, what        *)
(* replaying the log derives.                                               *)
(*                                                                          *)
(* One process at a time owns the directory.  It may die between any two    *)
(* writes, and the line being appended may be torn.  Manifest and snapshot  *)
(* are replaced atomically (_atomic_write: temp file, fsync, os.replace).   *)
(****************************************************************************)
EXTENDS ClaimEvents, EventLog

CONSTANTS
    AutoSnapshot,  \* ClaimStore(auto_snapshot=...)
    TornWrites,    \* a crash may leave part of a line in the log
    MaxLines,      \* bound: no operation starts once the log has this many lines
    MaxChunks      \* bound: nor once a line has run together this many writes

ASSUME StoreConstants ==
    /\ AutoSnapshot \in BOOLEAN
    /\ TornWrites \in BOOLEAN
    /\ MaxLines \in Nat /\ MaxChunks \in Nat

VARIABLES
    \* disk
    log,        \* claims_events.jsonl
    manifest,   \* MANIFEST.json
    snapshot,   \* consolidated_snapshot.json
    \* process
    pc,         \* what the process does next
    hasher,     \* _log_hasher: the bytes it has been fed
    mem,        \* _records, indexes, _verifications, _corpus_version
    pos,        \* lines read so far by _stream_events
    truncated,  \* truncated_tail
    todo,       \* events the operation under way still has to append
    \* history, for the properties only
    applied,    \* events applied to mem by this process
    durable     \* applied when an operation last returned to its caller

disk == <<log, manifest, snapshot>>
history == <<applied, durable>>
vars == <<log, manifest, snapshot, pc, hasher, mem, pos, truncated, todo, applied, durable>>

PCs == {"Down",       \* no process
        "Replaying",  \* in the constructor, after the manifest check
        "Idle",       \* constructed, no operation under way
        "Appending",  \* before the line of Head(todo) is written
        "Anchoring",  \* line fsynced and applied, manifest not yet written
        "Publishing", \* before the snapshot is written
        "Sealing",    \* snapshot written, manifest not yet rewritten
        "Refused"}    \* the constructor raised

NoManifest == [present |-> FALSE, version |-> 0, hash |-> <<>>]
NoSnapshot == [present |-> FALSE, version |-> 0, hash |-> <<>>, active |-> {}]

\* Mutant: any snapshot file is trusted.
SnapshotExists == snapshot.present

\* The consolidated state is a function of the retrievable records, so the
\* snapshot keeps their set.
SnapshotIsValid == snapshot.present /\ snapshot.version = mem.version /\ snapshot.hash = hasher

Init ==
    /\ log = <<>> /\ manifest = NoManifest /\ snapshot = NoSnapshot
    /\ pc = "Down"
    /\ hasher = <<>> /\ mem = EmptyMemory /\ pos = 0 /\ truncated = FALSE /\ todo = <<>>
    /\ applied = <<>> /\ durable = <<>>

-----------------------------------------------------------------------------
(* Construction: hash, authenticate against the manifest, replay *)

Authentic == ~manifest.present \/ HashedLines(log) = manifest.hash

Open ==
    /\ pc = "Down"
    /\ Authentic
    /\ pc' = "Replaying"
    /\ hasher' = HashedLines(log)
    /\ UNCHANGED <<disk, mem, pos, truncated, todo, history>>

\* IntegrityError: the log is not the one the manifest anchors.
OpenRefused ==
    /\ pc = "Down"
    /\ ~Authentic
    /\ pc' = "Refused"
    /\ UNCHANGED <<disk, hasher, mem, pos, truncated, todo, history>>

\* Mutant: the read position runs ahead of the lines.
ReplayLineSkipping ==
    /\ pc = "Replaying"
    /\ pos < Len(log)
    /\ Parses(log[pos + 1])
    /\ mem' = ApplyEvent(mem, EventOf(log[pos + 1]))
    /\ applied' = Append(applied, EventOf(log[pos + 1]))
    /\ pos' = pos + 2
    /\ UNCHANGED <<disk, pc, hasher, truncated, todo, durable>>

ReplayLine ==
    /\ pc = "Replaying"
    /\ pos < Len(log)
    /\ LET line == log[pos + 1] IN
        /\ Parses(line)
        /\ Applicable(mem, EventOf(line))
        /\ mem' = ApplyEvent(mem, EventOf(line))
        /\ applied' = Append(applied, EventOf(line))
    /\ pos' = pos + 1
    /\ UNCHANGED <<disk, pc, hasher, truncated, todo, durable>>

\* Mutant: the last line is dropped whether or not it parses.
ReplayDropsLastLine ==
    /\ pc = "Replaying"
    /\ pos + 1 = Len(log)
    /\ truncated' = TRUE
    /\ pos' = pos + 1
    /\ UNCHANGED <<disk, pc, hasher, mem, todo, history>>

\* An unparsable line with nothing after it is dropped from the replay.
ReplayTornTail ==
    /\ pc = "Replaying"
    /\ pos + 1 = Len(log)
    /\ ~Parses(log[pos + 1])
    /\ truncated' = TRUE
    /\ pos' = pos + 1
    /\ UNCHANGED <<disk, pc, hasher, mem, todo, history>>

\* JSONDecodeError in the middle of the log, or KeyError while applying.
ReplayRefused ==
    /\ pc = "Replaying"
    /\ pos < Len(log)
    /\ LET line == log[pos + 1] IN
        IF Parses(line) THEN ~Applicable(mem, EventOf(line)) ELSE pos + 1 < Len(log)
    /\ pc' = "Refused"
    /\ UNCHANGED <<disk, hasher, mem, pos, truncated, todo, history>>

\* A missing or stale snapshot is rebuilt before the constructor returns.
ReplayDone ==
    /\ pc = "Replaying"
    /\ pos = Len(log)
    /\ pc' = IF AutoSnapshot /\ mem.version > 0 /\ ~SnapshotIsValid
             THEN "Publishing" ELSE "Idle"
    /\ UNCHANGED <<disk, hasher, mem, pos, truncated, todo, history>>

-----------------------------------------------------------------------------
(* The write path: an operation checks its arguments and lists its events *)

Start(events) ==
    /\ pc' = "Appending"
    /\ todo' = events
    /\ UNCHANGED <<disk, hasher, mem, pos, truncated, history>>

Ready ==
    /\ pc = "Idle"
    /\ Len(log) < MaxLines
    /\ \A i \in DOMAIN log : Len(log[i].body) < MaxChunks

\* Mutant: no duplicate check.
IngestAgain(c) == Ready /\ Start(<<IngestEvent(c, None)>>)

\* ingest without supersedes: NOVEL, SUPPORT or CONFLICT.  A known record id is
\* a DUPLICATE and changes nothing.
Ingest(c) ==
    /\ Ready
    /\ ~Known(mem, c)
    /\ Start(<<IngestEvent(c, None)>>)

\* Mutant: the prior record is withdrawn before its successor is stored.
SupersedeThenIngest(c, prior) ==
    /\ Ready
    /\ ~Known(mem, c)
    /\ Known(mem, prior)
    /\ ClaimKey[prior] = ClaimKey[c]
    /\ Start(<<StateChange(prior, "SUPERSEDED", c), IngestEvent(c, prior)>>)

\* ingest(supersedes=prior): two appends, each with its own commit sequence.
IngestSuperseding(c, prior) ==
    /\ Ready
    /\ ~Known(mem, c)
    /\ Known(mem, prior)
    /\ ClaimKey[prior] = ClaimKey[c]
    /\ Start(<<IngestEvent(c, prior), StateChange(prior, "SUPERSEDED", c)>>)

Retract(c) ==
    /\ Ready
    /\ Known(mem, c)
    /\ Start(<<StateChange(c, "RETRACTED", None)>>)

\* Mutant: cited evidence is not resolved.
AppendDanglingVerification(v) ==
    /\ Ready
    /\ ~VerdictOf[v].external
    /\ Known(mem, VerdictOf[v].claim)
    /\ VerdictOf[v].retires = None \/ VerdictOf[v].retires \in mem.verdictIds
    /\ v \notin mem.verdictIds
    /\ Start(<<VerificationEvent(v)>>)

\* append_verification: V8, the claim and every cited id resolve in this store.
AppendVerification(v) ==
    LET d == VerdictOf[v] IN
    /\ Ready
    /\ ~d.external
    /\ Known(mem, d.claim)
    /\ \A c \in d.evidence : Known(mem, c)
    /\ d.retires = None \/ d.retires \in mem.verdictIds
    /\ v \notin mem.verdictIds
    /\ Start(<<VerificationEvent(v)>>)

\* Mutant: a determination already in the log is appended again.
AppendExternalVerificationAgain(v) ==
    /\ Ready
    /\ VerdictOf[v].external
    /\ Known(mem, VerdictOf[v].claim)
    /\ Start(<<VerificationEvent(v)>>)

\* append_external_verification: the evidence resolves in another store.
AppendExternalVerification(v) ==
    /\ Ready
    /\ VerdictOf[v].external
    /\ Known(mem, VerdictOf[v].claim)
    /\ v \notin mem.verdictIds
    /\ Start(<<VerificationEvent(v)>>)

-----------------------------------------------------------------------------
(* _append: log line, fsync, apply, manifest, snapshot, manifest again *)

\* Nothing else runs in the process between the fsync and the end of
\* _apply_event, and a crash keeps nothing of memory: one step.
AppendLine ==
    /\ pc = "Appending"
    /\ log' = Write(log, Head(todo), TRUE)
    /\ hasher' = Write(hasher, Head(todo), TRUE)
    /\ mem' = ApplyEvent(mem, Head(todo))
    /\ applied' = Append(applied, Head(todo))
    /\ pc' = "Anchoring"
    /\ UNCHANGED <<manifest, snapshot, pos, truncated, todo, durable>>

\* Mutant: the digest is taken before the last line is fed to the hasher.
WriteStaleManifest ==
    manifest' = [present |-> TRUE, version |-> mem.version,
                 hash |-> SubSeq(hasher, 1, Len(hasher) - 1)]

WriteManifest == manifest' = [present |-> TRUE, version |-> mem.version, hash |-> hasher]

\* _append returns; so does the operation, unless it has another event.  The
\* constructor publishes with nothing to do.
Return ==
    /\ todo' = IF todo = <<>> THEN todo ELSE Tail(todo)
    /\ pc' = IF Len(todo) > 1 THEN "Appending" ELSE "Idle"
    /\ durable' = IF Len(todo) = 1 THEN applied ELSE durable

Anchor ==
    /\ pc = "Anchoring"
    /\ WriteManifest
    /\ IF AutoSnapshot
       THEN pc' = "Publishing" /\ UNCHANGED <<todo, durable>>
       ELSE Return
    /\ UNCHANGED <<log, snapshot, hasher, mem, pos, truncated, applied>>

PublishSnapshot ==
    /\ pc = "Publishing"
    /\ snapshot' = [present |-> TRUE, version |-> mem.version, hash |-> hasher,
                    active |-> Retrievable(mem)]
    /\ pc' = "Sealing"
    /\ UNCHANGED <<log, manifest, hasher, mem, pos, truncated, todo, history>>

Seal ==
    /\ pc = "Sealing"
    /\ WriteManifest
    /\ Return
    /\ UNCHANGED <<log, snapshot, hasher, mem, pos, truncated, applied>>

-----------------------------------------------------------------------------
(* Process death *)

LoseMemory ==
    /\ pc' = "Down"
    /\ hasher' = <<>> /\ mem' = EmptyMemory /\ pos' = 0 /\ truncated' = FALSE /\ todo' = <<>>
    /\ applied' = <<>>
    /\ UNCHANGED <<manifest, snapshot, durable>>

Crash ==
    /\ pc # "Down"
    /\ LoseMemory
    /\ UNCHANGED log

\* Only part of the line reached the disk: a prefix of its JSON, or all of it
\* but the newline.
CrashTornAppend ==
    /\ TornWrites
    /\ pc = "Appending"
    /\ \E chunk \in {Torn, Head(todo)} : log' = Write(log, chunk, FALSE)
    /\ LoseMemory

Next ==
    \/ Open \/ OpenRefused
    \/ ReplayLine \/ ReplayTornTail \/ ReplayRefused \/ ReplayDone
    \/ \E c \in Claims :
        \/ Ingest(c)
        \/ \E prior \in Claims : IngestSuperseding(c, prior)
        \/ Retract(c)
    \/ \E v \in Verdicts : AppendVerification(v) \/ AppendExternalVerification(v)
    \/ AppendLine \/ Anchor \/ PublishSnapshot \/ Seal
    \/ Crash \/ CrashTornAppend

Spec == Init /\ [][Next]_vars

-----------------------------------------------------------------------------
(* Properties *)

\* Every variable has its type, the replay never reads past the end of the log,
\* and an operation that has bytes to write knows which.
TypeOK ==
    /\ log \in Seq(Line(Events)) /\ hasher \in Seq(Line(Events))
    /\ manifest.present \in BOOLEAN /\ manifest.version \in Nat
    /\ manifest.hash \in Seq(Line(Events))
    /\ snapshot.present \in BOOLEAN /\ snapshot.version \in Nat
    /\ snapshot.hash \in Seq(Line(Events)) /\ snapshot.active \in SUBSET Claims
    /\ pc \in PCs
    /\ mem \in Memories
    /\ pos \in 0..Len(log)
    /\ truncated \in BOOLEAN
    /\ todo \in Seq(Events)
    /\ pc \in {"Appending", "Anchoring"} => todo # <<>>
    /\ applied \in Seq(Events) /\ durable \in Seq(Events)

Touches(e, c) == e.event \in {"INGEST", "STATE_CHANGE"} /\ e.claim = c

\* The records hold, for every claim, what the last event about it says.
LifecycleMatches(m, h) ==
    \A c \in Claims :
        \/ /\ m.lifecycle[c] = "ABSENT"
           /\ \A i \in DOMAIN h : ~Touches(h[i], c)
        \/ \E i \in DOMAIN h :
               /\ Touches(h[i], c)
               /\ m.lifecycle[c] = Outcome(h[i])
               /\ \A j \in (i + 1)..Len(h) : ~Touches(h[j], c)

\* The claim-key index holds exactly the retrievable records of each key.
IndexMatches(m) == \A k \in Keys : m.active[k] = {c \in Retrievable(m) : ClaimKey[c] = k}

\* Every verdict in the history is filed once, under its claim.
VerdictsMatch(m, h) ==
    /\ m.verdictIds = {v \in Verdicts : \E i \in DOMAIN h : h[i] = VerificationEvent(v)}
    /\ m.jobIds = {VerdictOf[v].job : v \in m.verdictIds} \ {None}
    /\ \A c \in Claims :
          /\ VerdictsOn(m, c) = {v \in m.verdictIds : VerdictOf[v].claim = c}
          /\ \A i, j \in DOMAIN m.verdicts[c] : m.verdicts[c][i] = m.verdicts[c][j] => i = j

Matches(m, h) ==
    /\ m.version = Len(h)
    /\ LifecycleMatches(m, h)
    /\ IndexMatches(m)
    /\ VerdictsMatch(m, h)

\* Whether an event was applied live or replayed, in however many restarts, the
\* incrementally maintained maps and indexes are those the event sequence
\* dictates ("the two can never diverge", _apply_event).
MemoryMatchesHistory == Matches(mem, applied)

IsPrefix(s, t) == Len(s) <= Len(t) /\ \A i \in DOMAIN s : s[i] = t[i]

\* Whatever an operation had committed when it returned is in the state of every
\* later process that opens the store, in the same order (C11, C12).
AcknowledgedSurvives == pc = "Idle" => IsPrefix(durable, applied)

\* A claim whose retraction or supersession was acknowledged is never served
\* again, through restarts, re-ingestion and later events.
WithdrawalIsForever ==
    pc = "Idle" =>
        \A i \in DOMAIN durable :
            durable[i].event = "STATE_CHANGE" => durable[i].claim \notin Retrievable(mem)

\* A superseded record names a stored successor that names it back: the two
\* appends of a supersession are in the order that survives a crash between them.
SupersededHasSuccessor ==
    \A c \in Claims :
        mem.lifecycle[c] = "SUPERSEDED" =>
            LET d == mem.supersededBy[c] IN
            /\ d \in Claims
            /\ Known(mem, d)
            /\ ClaimKey[d] = ClaimKey[c]
            /\ \E i \in DOMAIN applied : applied[i] = IngestEvent(d, c)

\* A snapshot that snapshot_is_valid accepts describes the state in memory, so
\* not rebuilding it is right.
SnapshotTrustedOnlyIfCurrent ==
    pc = "Idle" /\ SnapshotIsValid => snapshot.active = Retrievable(mem)

\* The manifest never runs ahead of the log it anchors, and a store that serves
\* has nothing in memory that the manifest does not cover.
ManifestAnchorsLog ==
    manifest.present =>
        /\ IsPrefix(manifest.hash, log)
        /\ manifest.version = Len(manifest.hash)
        /\ pc = "Idle" => manifest.hash = log /\ manifest.version = mem.version

\* V8 and _append's callers: no event refers to a record or a determination that
\* was not recorded before it, whatever was lost or torn.
ReferencesResolve ==
    \A i \in DOMAIN applied :
        LET e == applied[i]
            ingested(c) == \E j \in 1..(i - 1) : applied[j].event = "INGEST" /\ applied[j].claim = c
        IN CASE e.event = "INGEST" -> e.supersedes # None => ingested(e.supersedes)
             [] e.event = "STATE_CHANGE" -> ingested(e.claim)
             [] e.event = "VERIFICATION" ->
                  /\ \A c \in VerdictOf[e.verdict].evidence \cup {VerdictOf[e.verdict].claim} : ingested(c)
                  /\ VerdictOf[e.verdict].retires # None =>
                        \E j \in 1..(i - 1) : applied[j] = VerificationEvent(VerdictOf[e.verdict].retires)

\* The store implements ClaimHistory when lines reach the disk whole.
History == INSTANCE ClaimHistory WITH
    committed <- [i \in DOMAIN log |-> EventOf(log[i])],
    serving <- pc = "Idle",
    view <- IF pc = "Idle" THEN mem.lifecycle ELSE [c \in Claims |-> "ABSENT"]

\* The log is an append-only history of admissible events, and a store that
\* answers gives what the whole of it says.
ImplementsHistory == History!HistorySpec

-----------------------------------------------------------------------------
(* What the documents say and the code does not do *)

\* _append's docstring: a crash between any two stages leaves the log
\* sufficient for recovery.
AlwaysRecovers == pc # "Refused"

=============================================================================
