--------------------------- MODULE CognitiveControl ---------------------------
(****************************************************************************)
(* CognitiveControlStore of src/hrm_adaptive_memory/cognitive_control/      *)
(* core.py: provenance, bitemporal facts, conflicts and decisions, as an    *)
(* append-only log whose manifest is rewritten after every event.  A call   *)
(* names an operation; a call repeated under the same name is answered with *)
(* the event already committed.                                             *)
(*                                                                          *)
(* Identifiers are hashes of content, so what a record says is a constant   *)
(* function of its identifier.  Times are chosen by the callers.            *)
(****************************************************************************)
EXTENDS EventLog, SequencesExt

CONSTANTS
    Provenances, CreatedAt,
    Facts, ProvenanceOf, RecordedAt, ValidFrom, ValidUntil,
    Subject, Value,          \* (entity, relation) and value of a fact
    Decisions, Parent, Timestamp,
    Operations,              \* operation_ids callers choose
    Moments,                 \* the times calls mention
    None, Absent, NoManifest,
    MaxEvents                \* bound: no call starts once the log has this many lines

ASSUME CognitiveConstants ==
    /\ Moments \subseteq Nat /\ MaxEvents \in Nat /\ IsFiniteSet(Facts)
    /\ CreatedAt \in [Provenances -> Moments]
    /\ ProvenanceOf \in [Facts -> Provenances]
    /\ RecordedAt \in [Facts -> Moments] /\ ValidFrom \in [Facts -> Moments]
    /\ \A f \in Facts : ValidUntil[f] \in Moments \cup {None}
    /\ \A d \in Decisions : Parent[d] \in Decisions \cup {None}
    /\ Timestamp \in [Decisions -> Moments]
    /\ None # Absent /\ {None, Absent} \cap Nat = {} /\ NoManifest \notin Seq(Line({}))

VARIABLES
    \* disk
    log,       \* cognitive_control_events.jsonl
    manifest,  \* COGNITIVE_CONTROL_MANIFEST.json: the bytes whose hash it holds
    \* process
    pc,        \* "closed", "open" or "anchoring"
    events,    \* self.events; by_operation is read off it
    reloaded,  \* how many of them _replay read back from JSON
    memory,    \* provenance, invalidated_provenance, facts, conflicts, decisions
    todo       \* events the call under way has still to append

disk == <<log, manifest>>
vars == <<log, manifest, pc, events, reloaded, memory, todo>>

\* at: created_at, recorded_at, detected_at, timestamp or the call's own time.
Event(kind, id, at, op) == [kind |-> kind, id |-> id, at |-> at, op |-> op]

EmptyMemory ==
    [provenance  |-> {},
     invalidated |-> [p \in Provenances |-> None],
     facts       |-> [f \in Facts |-> Absent],      \* superseded_at once recorded
     conflicts   |-> {},
     decisions   |-> [d \in Decisions |-> Absent]]  \* outcome_at once recorded

Init ==
    /\ log = <<>> /\ manifest = NoManifest
    /\ pc = "closed" /\ events = <<>> /\ reloaded = 0
    /\ memory = EmptyMemory /\ todo = <<>>

-----------------------------------------------------------------------------
(* _apply: the views are derived from the events *)

IsActive(m, p) == p \in m.provenance /\ m.invalidated[p] = None

\* _apply raises otherwise.
Applicable(m, e) ==
    CASE e.kind = "invalidation" -> e.id \in m.provenance /\ e.at >= CreatedAt[e.id]
      [] e.kind = "fact" ->
            /\ IsActive(m, ProvenanceOf[e.id])
            /\ ValidUntil[e.id] # None => ValidUntil[e.id] > ValidFrom[e.id]
      [] e.kind = "supersession" -> m.facts[e.id] = None /\ e.at >= RecordedAt[e.id]
      [] e.kind = "decision" ->
            Parent[e.id] # None =>
               /\ m.decisions[Parent[e.id]] # Absent
               /\ e.at >= Timestamp[Parent[e.id]]
      [] e.kind = "outcome" -> m.decisions[e.id] = None /\ e.at >= Timestamp[e.id]
      [] OTHER -> TRUE

\* Recording under a new operation replaces the record of that identifier: a
\* supersession or an outcome it had is gone.
Apply(m, e) ==
    CASE e.kind = "provenance"   -> [m EXCEPT !.provenance = @ \cup {e.id}]
      [] e.kind = "invalidation" -> [m EXCEPT !.invalidated[e.id] = e.at]
      [] e.kind = "fact"         -> [m EXCEPT !.facts[e.id] = None]
      [] e.kind = "supersession" -> [m EXCEPT !.facts[e.id] = e.at]
      [] e.kind = "conflict"     -> [m EXCEPT !.conflicts = @ \cup {<<e.id, e.at>>}]
      [] e.kind = "decision"     -> [m EXCEPT !.decisions[e.id] = None]
      [] e.kind = "outcome"      -> [m EXCEPT !.decisions[e.id] = e.at]

\* The memory after each prefix of a history.
MemoryAfter(history) ==
    LET m[n \in 0 .. Len(history)] ==
            IF n = 0 THEN EmptyMemory ELSE Apply(m[n - 1], history[n])
    IN  m

-----------------------------------------------------------------------------
(* Operations: what a call finds committed under its operation_id *)

\* Mutant: _replay does not fill by_operation.
CommittedHere(op) == \E i \in reloaded + 1 .. Len(events) : events[i].op = op

Committed(op) == \E i \in DOMAIN events : events[i].op = op

\* These payloads hold tuples.  Read back from JSON they hold lists, and a
\* list equals no tuple.
WithTuples == {"provenance", "conflict", "decision"}

IsSameCommittedOperation(e) ==
    \E i \in DOMAIN events :
        /\ events[i] = e
        /\ i <= reloaded => e.kind \notin WithTuples

\* Mutant: a fact is refused whenever its provenance has been withdrawn.
ProvenanceIsActive(e) == IsActive(memory, ProvenanceOf[e.id])

IsBacked(e) == IsActive(memory, ProvenanceOf[e.id]) \/ IsSameCommittedOperation(e)

\* What the public methods check before they call append.
Permitted(e) ==
    CASE e.kind = "invalidation" -> e.id \in memory.provenance /\ e.at >= CreatedAt[e.id]
      [] e.kind = "fact" ->
            /\ ValidUntil[e.id] # None => ValidUntil[e.id] > ValidFrom[e.id]
            /\ IsBacked(e)
      [] e.kind = "supersession" ->
            /\ memory.facts[e.id] # Absent
            /\ memory.facts[e.id] = None \/ IsSameCommittedOperation(e)
            /\ e.at >= RecordedAt[e.id]
      [] e.kind = "decision" ->
            Parent[e.id] # None =>
               /\ memory.decisions[Parent[e.id]] # Absent
               /\ e.at >= Timestamp[Parent[e.id]]
      [] e.kind = "outcome" ->
            /\ memory.decisions[e.id] # Absent
            /\ e.at >= Timestamp[e.id]
            /\ memory.decisions[e.id] = None \/ IsSameCommittedOperation(e)
      [] OTHER -> TRUE

Call(e) ==
    /\ pc = "open" /\ todo = <<>> /\ Len(log) < MaxEvents
    /\ Permitted(e)
    /\ todo' = <<e>>
    /\ UNCHANGED <<disk, pc, events, reloaded, memory>>

\* The operation_id is part of what a provenance_id hashes.
RecordProvenance(p) == Call(Event("provenance", p, CreatedAt[p], p))
RecordFact(f, op) == Call(Event("fact", f, RecordedAt[f], op))
InvalidateProvenance(p, at, op) == Call(Event("invalidation", p, at, op))
SupersedeFact(f, at, op) == Call(Event("supersession", f, at, op))
RecordDecision(d, op) == Call(Event("decision", d, Timestamp[d], op))
RecordOutcome(d, at, op) == Call(Event("outcome", d, at, op))

-----------------------------------------------------------------------------
(* Queries *)

ValidAt(f, when) ==
    ValidFrom[f] <= when /\ (ValidUntil[f] = None \/ when < ValidUntil[f])

KnownAt(m, f, when) ==
    /\ m.facts[f] # Absent
    /\ RecordedAt[f] <= when
    /\ m.facts[f] = None \/ when < m.facts[f]

\* Mutant: withdrawn provenance hides its facts at every time.
QueryFactsUnlessWithdrawn(m, validAt, knownAt) ==
    {f \in Facts : ValidAt(f, validAt) /\ KnownAt(m, f, knownAt)
                    /\ m.invalidated[ProvenanceOf[f]] = None}

QueryFacts(m, validAt, knownAt) ==
    {f \in Facts :
        /\ ValidAt(f, validAt) /\ KnownAt(m, f, knownAt)
        /\ \/ m.invalidated[ProvenanceOf[f]] = None
           \/ knownAt < m.invalidated[ProvenanceOf[f]]}

\* The facts found, by subject, where they do not all say the same.
Conflicting(found) ==
    {g \in {{f \in found : Subject[f] = Subject[h]} : h \in found} :
        Cardinality({Value[f] : f \in g}) > 1}

\* One event per conflict, appended one after the other.
DetectConflicts(validAt, knownAt, at, prefix) ==
    LET found == Conflicting(QueryFacts(memory, validAt, knownAt)) IN
    /\ pc = "open" /\ todo = <<>> /\ Len(log) < MaxEvents
    /\ at >= knownAt
    /\ todo' = SetToSeq({Event("conflict", g, at, <<prefix, g, at>>) : g \in found})
    /\ UNCHANGED <<disk, pc, events, reloaded, memory>>

-----------------------------------------------------------------------------
(* append *)

\* Mutant: the manifest of the bytes to come is written before the line.
AppendAfterManifest ==
    /\ pc = "open" /\ todo # <<>>
    /\ ~Committed(Head(todo).op)
    /\ LET file == Write(log, Head(todo), TRUE) IN
       IF manifest # file
       THEN /\ manifest' = file
            /\ UNCHANGED <<log, events, memory, todo>>
       ELSE /\ log' = file
            /\ events' = Append(events, Head(todo))
            /\ memory' = Apply(memory, Head(todo))
            /\ todo' = Tail(todo)
            /\ UNCHANGED manifest
    /\ UNCHANGED <<pc, reloaded>>

\* The line is fsynced, then applied.  An event that cannot be applied is in
\* the log by then, and append raises before it writes the manifest.
AppendEvent ==
    /\ pc = "open" /\ todo # <<>>
    /\ ~Committed(Head(todo).op)
    /\ log' = Write(log, Head(todo), TRUE)
    /\ events' = Append(events, Head(todo))
    /\ IF Applicable(memory, Head(todo))
        THEN /\ memory' = Apply(memory, Head(todo))
             /\ pc' = "anchoring"
             /\ UNCHANGED todo
        ELSE /\ todo' = <<>>
             /\ UNCHANGED <<memory, pc>>
    /\ UNCHANGED <<manifest, reloaded>>

\* Mutant: the event is applied before its operation is looked up.
ApplyPrior ==
    /\ pc = "open" /\ todo # <<>>
    /\ IsSameCommittedOperation(Head(todo))
    /\ memory' = Apply(memory, Head(todo))
    /\ todo' = Tail(todo)
    /\ UNCHANGED <<disk, pc, events, reloaded>>

ReturnPrior ==
    /\ pc = "open" /\ todo # <<>>
    /\ IsSameCommittedOperation(Head(todo))
    /\ todo' = Tail(todo)
    /\ UNCHANGED <<disk, pc, events, reloaded, memory>>

\* ValueError: the operation_id was committed with different content.
RefuseDrift ==
    /\ pc = "open" /\ todo # <<>>
    /\ Committed(Head(todo).op) /\ ~IsSameCommittedOperation(Head(todo))
    /\ todo' = <<>>
    /\ UNCHANGED <<disk, pc, events, reloaded, memory>>

\* Mutant: the bytes are hashed before the line has reached the file.
WriteStaleManifest ==
    /\ pc = "anchoring"
    /\ manifest' = SubSeq(log, 1, Len(log) - 1)
    /\ pc' = "open"
    /\ todo' = Tail(todo)
    /\ UNCHANGED <<log, events, reloaded, memory>>

WriteManifest ==
    /\ pc = "anchoring"
    /\ manifest' = log
    /\ pc' = "open"
    /\ todo' = Tail(todo)
    /\ UNCHANGED <<log, events, reloaded, memory>>

-----------------------------------------------------------------------------
(* Death and construction *)

Die ==
    /\ pc' = "closed" /\ events' = <<>> /\ reloaded' = 0
    /\ memory' = EmptyMemory /\ todo' = <<>>

Crash ==
    /\ pc # "closed"
    /\ Die
    /\ UNCHANGED disk

\* Only part of the line, or all of it but the newline, reaches the file.
CrashTornAppend ==
    /\ pc = "open" /\ todo # <<>> /\ ~Committed(Head(todo).op)
    /\ \E chunk \in {Torn, Head(todo)} : log' = Write(log, chunk, FALSE)
    /\ Die
    /\ UNCHANGED manifest

AllParse(file) == \A i \in DOMAIN file : Parses(file[i])
EventsOf(file) == [i \in DOMAIN file |-> EventOf(file[i])]

\* _replay raises otherwise.
IsHistory(history) ==
    LET m == MemoryAfter(history) IN
    \A i \in DOMAIN history :
        /\ \A j \in 1 .. i - 1 : history[j].op # history[i].op
        /\ Applicable(m[i - 1], history[i])

\* A log that is refused is refused at every later attempt.
Open ==
    /\ pc = "closed"
    /\ AllParse(log) /\ IsHistory(EventsOf(log))
    /\ manifest \in {NoManifest, log}
    /\ pc' = "open"
    /\ events' = EventsOf(log) /\ reloaded' = Len(log)
    /\ memory' = MemoryAfter(EventsOf(log))[Len(log)]
    /\ UNCHANGED <<disk, todo>>

Calls ==
    \/ \E p \in Provenances : RecordProvenance(p)
    \/ \E op \in Operations :
        \/ \E f \in Facts : RecordFact(f, op) \/ \E at \in Moments : SupersedeFact(f, at, op)
        \/ \E p \in Provenances, at \in Moments : InvalidateProvenance(p, at, op)
        \/ \E d \in Decisions : RecordDecision(d, op) \/ \E at \in Moments : RecordOutcome(d, at, op)
        \/ \E v, k, at \in Moments : DetectConflicts(v, k, at, op)

Next ==
    \/ Calls
    \/ AppendEvent \/ ReturnPrior \/ RefuseDrift \/ WriteManifest
    \/ Crash \/ CrashTornAppend \/ Open

Spec == Init /\ [][Next]_vars

-----------------------------------------------------------------------------
(* Properties *)

TypeOK ==
    /\ pc \in {"closed", "open", "anchoring"}
    /\ manifest = NoManifest \/ Len(manifest) \in 1 .. Len(log)
    /\ Len(log) >= Len(events) - 1 /\ reloaded \in 0 .. Len(events)
    /\ memory.provenance \subseteq Provenances
    /\ memory.invalidated \in [Provenances -> Moments \cup {None}]
    /\ memory.facts \in [Facts -> Moments \cup {None, Absent}]
    /\ memory.decisions \in [Decisions -> Moments \cup {None, Absent}]
    /\ pc = "anchoring" => todo # <<>>

\* Whatever was called, retried or interrupted before, a log of whole lines
\* can be replayed: no operation is in it twice and no event of it fails to
\* apply.  (append writes a line before _apply has accepted it, so this rests
\* on every public method checking first what _apply will check.)
LogReplays == AllParse(log) => IsHistory(EventsOf(log))

\* All graphs and indexes are materialized views: what an open store holds is
\* what replaying its events derives, and its manifest is that of its log.
MemoryFollowsLog ==
    pc # "closed" =>
        /\ memory = MemoryAfter(events)[Len(events)]
        /\ AllParse(log) => events = EventsOf(log)
        /\ pc = "open" /\ Len(events) > reloaded => manifest = log

\* An event cannot change what a query answers about an earlier known time
\* than its own, except that withdrawing provenance a second time moves the
\* withdrawal (_apply overwrites the first time).
PastIsFixed ==
    [][ LET e == events'[Len(events')] IN
        (/\ pc = "open" /\ Len(events') > Len(events)
         /\ ~(e.kind = "invalidation" /\ memory.invalidated[e.id] # None))
        => \A v, k \in Moments :
             k < e.at => QueryFacts(memory', v, k) = QueryFacts(memory, v, k) ]_vars

\* An operation committed by this process is answered when its call is
\* repeated, whatever happened since: the checks of the public methods let a
\* retry through although a fact has been superseded, a provenance withdrawn
\* or an outcome recorded.
RetriesAreAnswered ==
    pc = "open" /\ todo = <<>> =>
        \A i \in reloaded + 1 .. Len(events) :
            Permitted(events[i]) /\ IsSameCommittedOperation(events[i])

=============================================================================
