------------------------ MODULE CognitiveControlProofs ------------------------
(****************************************************************************)
(* The log of cognitive control always replays, memory follows it, retries  *)
(* are answered and the known past stays as it was: for any provenances,    *)
(* facts, decisions, times and operation names, and any number of events    *)
(* and crashes.                                                             *)
(****************************************************************************)
EXTENDS CognitiveControl, FiniteSetTheorems, SequenceTheorems, WellFoundedInduction,
        TLAPS

(* Every set of numbers that is not empty has a least one. *)
LEMMA LeastNumber ==
    ASSUME NEW T \in SUBSET Nat, T # {}
    PROVE  \E m \in T : \A k \in T : m <= k
<1> DEFINE R == OpToRel(<, Nat)
<1>1. PICK m \in T : \A k \in T : <<k, m>> \notin R
  <2>1. IsWellFoundedOn(R, Nat)
    BY NatLessThanWellFounded
  <2> HIDE DEF R
  <2>. QED  BY <2>1, WFMin
<1>2. \A k \in T : ~(k < m)
  BY <1>1 DEF OpToRel
<1>. QED  BY <1>2

-----------------------------------------------------------------------------
(* Types *)

OperationNames == Provenances \cup Operations \cup (Operations \X (SUBSET Facts) \X Moments)

\* What a call can ask to have appended.  An event that records something
\* bears the time its record names.
EventTypes ==
    [kind : {"provenance", "invalidation"}, id : Provenances, at : Moments, op : OperationNames]
    \cup [kind : {"fact", "supersession"}, id : Facts, at : Moments, op : OperationNames]
    \cup [kind : {"conflict"}, id : SUBSET Facts, at : Moments, op : OperationNames]
    \cup [kind : {"decision", "outcome"}, id : Decisions, at : Moments, op : OperationNames]

EventsAskedFor == {e \in EventTypes : e.kind = "fact" => e.at = RecordedAt[e.id]}

Memories ==
    [provenance  : SUBSET Provenances,
     invalidated : [Provenances -> Moments \cup {None}],
     facts       : [Facts -> Moments \cup {None, Absent}],
     conflicts   : SUBSET ((SUBSET Facts) \X Moments),
     decisions   : [Decisions -> Moments \cup {None, Absent}]]

LEMMA EmptyMemoryTyped == EmptyMemory \in Memories
  BY DEF EmptyMemory, Memories

LEMMA ApplyTyped ==
    ASSUME NEW m \in Memories, NEW e \in EventTypes
    PROVE  Apply(m, e) \in Memories
<1>1. CASE e.kind = "provenance"
  BY <1>1 DEF Apply, Memories, EventTypes
<1>2. CASE e.kind = "invalidation"
  BY <1>2 DEF Apply, Memories, EventTypes
<1>3. CASE e.kind = "fact"
  BY <1>3 DEF Apply, Memories, EventTypes
<1>4. CASE e.kind = "supersession"
  BY <1>4 DEF Apply, Memories, EventTypes
<1>5. CASE e.kind = "conflict"
  <2>1. <<e.id, e.at>> \in (SUBSET Facts) \X Moments
    BY <1>5 DEF EventTypes
  <2>2. Apply(m, e) = [m EXCEPT !.conflicts = @ \cup {<<e.id, e.at>>}]
    BY <1>5 DEF Apply
  <2>. QED  BY <2>1, <2>2 DEF Memories
<1>6. CASE e.kind = "decision"
  BY <1>6 DEF Apply, Memories, EventTypes
<1>7. CASE e.kind = "outcome"
  BY <1>7 DEF Apply, Memories, EventTypes
<1>. QED  BY <1>1, <1>2, <1>3, <1>4, <1>5, <1>6, <1>7 DEF EventTypes

-----------------------------------------------------------------------------
(* The recursion of MemoryAfter *)

\* Histories are sequences of events.
Histories == Seq(EventTypes)

\* m holds the memory after each of the first n events.
Replays(m, history, n) ==
    m = [k \in 0 .. n |-> IF k = 0 THEN EmptyMemory ELSE Apply(m[k - 1], history[k])]

LEMMA ReplayExists ==
    ASSUME NEW history, NEW n \in Nat
    PROVE  \E m : Replays(m, history, n)
<1> DEFINE T == {k \in Nat : ~\E m : Replays(m, history, k)}
<1> SUFFICES ASSUME T # {} PROVE FALSE
  OBVIOUS
<1>1. PICK k \in T : \A j \in T : k <= j
  BY LeastNumber
<1>2. CASE k = 0
  <2> DEFINE m == [j \in 0 .. 0 |-> EmptyMemory]
  <2>1. m = [j \in 0 .. 0 |-> IF j = 0 THEN EmptyMemory ELSE Apply(m[j - 1], history[j])]
    OBVIOUS
  <2>2. Replays(m, history, 0)
    BY <2>1 DEF Replays
  <2>. QED  BY <1>2, <2>2
<1>3. CASE k # 0
  <2>1. k - 1 \in Nat /\ k - 1 \notin T
    BY <1>1, <1>3
  <2>2. PICK m : Replays(m, history, k - 1)
    BY <2>1
  <2> DEFINE g == [j \in 0 .. k |-> IF j = k THEN Apply(m[k - 1], history[k]) ELSE m[j]]
  <2>3. ASSUME NEW j \in 0 .. k
        PROVE  g[j] = IF j = 0 THEN EmptyMemory ELSE Apply(g[j - 1], history[j])
    <3>1. CASE j = k
      <4>1. g[j] = Apply(m[k - 1], history[k]) /\ g[k - 1] = m[k - 1]
        BY <1>3, <3>1
      <4>. QED  BY <1>3, <3>1, <4>1
    <3>2. CASE j # k
      <4>1. j \in 0 .. k - 1 /\ g[j] = m[j] /\ (j # 0 => g[j - 1] = m[j - 1])
        BY <3>2
      <4>2. m[j] = IF j = 0 THEN EmptyMemory ELSE Apply(m[j - 1], history[j])
        BY <2>2, <4>1 DEF Replays
      <4>. QED  BY <4>1, <4>2
    <3>. QED  BY <3>1, <3>2
  <2>4. g = [j \in 0 .. k |-> g[j]]
    OBVIOUS
  <2> HIDE DEF g
  <2>5. Replays(g, history, k)
    BY <2>3, <2>4 DEF Replays
  <2>. QED  BY <2>5
<1>. QED  BY <1>2, <1>3

\* The memory after a prefix is the event applied to the one before.
LEMMA ReplayStep ==
    ASSUME NEW history \in Histories
    PROVE  /\ MemoryAfter(history)[0] = EmptyMemory
           /\ \A k \in 1 .. Len(history) :
                MemoryAfter(history)[k] = Apply(MemoryAfter(history)[k - 1], history[k])
<1>1. Len(history) \in Nat
  BY DEF Histories
<1>2. MemoryAfter(history) = CHOOSE m : Replays(m, history, Len(history))
  BY DEF MemoryAfter, Replays
<1>3. Replays(MemoryAfter(history), history, Len(history))
  BY <1>1, <1>2, ReplayExists
<1> DEFINE m == MemoryAfter(history)
<1>4. \A k \in 0 .. Len(history) :
        m[k] = IF k = 0 THEN EmptyMemory ELSE Apply(m[k - 1], history[k])
  BY <1>3, Zenon DEF Replays
<1> HIDE DEF m
<1>5. m[0] = EmptyMemory /\ \A k \in 1 .. Len(history) : m[k] = Apply(m[k - 1], history[k])
  BY <1>1, <1>4
<1>. QED  BY <1>5 DEF m

\* Histories that begin alike lead to the same memories.
LEMMA ReplaysAgree ==
    ASSUME NEW g \in Histories, NEW h \in Histories, NEW n \in Nat,
           n <= Len(g), n <= Len(h), \A i \in 1 .. n : g[i] = h[i]
    PROVE  \A k \in 0 .. n : MemoryAfter(g)[k] = MemoryAfter(h)[k]
<1> DEFINE T == {k \in 0 .. n : MemoryAfter(g)[k] # MemoryAfter(h)[k]}
<1> SUFFICES ASSUME T # {} PROVE FALSE
  OBVIOUS
<1>1. PICK k \in T : \A j \in T : k <= j
  <2>1. T \in SUBSET Nat
    OBVIOUS
  <2> HIDE DEF T
  <2>. QED  BY <2>1, LeastNumber
<1>2. Len(g) \in Nat /\ Len(h) \in Nat
  BY DEF Histories
<1>3. k # 0
  BY ReplayStep
<1>4. k - 1 \in 0 .. n /\ k - 1 \notin T
  BY <1>1, <1>3
<1>5. MemoryAfter(g)[k] = Apply(MemoryAfter(g)[k - 1], g[k])
      /\ MemoryAfter(h)[k] = Apply(MemoryAfter(h)[k - 1], h[k])
  <2>1. k \in 1 .. Len(g) /\ k \in 1 .. Len(h)
    BY <1>2, <1>3
  <2>. QED  BY <2>1, ReplayStep
<1>6. g[k] = h[k] /\ MemoryAfter(g)[k - 1] = MemoryAfter(h)[k - 1]
  BY <1>3, <1>4
<1>. QED  BY <1>5, <1>6

LEMMA ReplayTyped ==
    ASSUME NEW history \in Histories
    PROVE  \A k \in 0 .. Len(history) : MemoryAfter(history)[k] \in Memories
<1> DEFINE T == {k \in 0 .. Len(history) : MemoryAfter(history)[k] \notin Memories}
<1> SUFFICES ASSUME T # {} PROVE FALSE
  OBVIOUS
<1>1. PICK k \in T : \A j \in T : k <= j
  <2>1. T \in SUBSET Nat
    OBVIOUS
  <2> HIDE DEF T
  <2>. QED  BY <2>1, LeastNumber
<1>2. Len(history) \in Nat
  BY DEF Histories
<1>3. k # 0
  BY ReplayStep, EmptyMemoryTyped
<1>4. k - 1 \in 0 .. Len(history) /\ k - 1 \notin T /\ k \in 1 .. Len(history)
  BY <1>1, <1>2, <1>3
<1>5. MemoryAfter(history)[k] = Apply(MemoryAfter(history)[k - 1], history[k])
  BY <1>4, ReplayStep
<1>6. history[k] \in EventTypes
  BY <1>4 DEF Histories
<1>. QED  BY <1>4, <1>5, <1>6, ApplyTyped

-----------------------------------------------------------------------------
(* What the invariants say *)

Lines == {line \in Line(EventTypes) : line.body # <<>>}
Files == Seq(Lines)

\* A line that continues the last one makes an event without making a line,
\* which can happen but once: the line is ended then.
Types ==
    /\ log \in Files
    /\ manifest = NoManifest \/ Len(manifest) \in 1 .. Len(log)
    /\ pc \in {"closed", "open", "anchoring"}
    /\ events \in Histories
    /\ reloaded \in 0 .. Len(events)
    /\ memory \in Memories
    /\ todo \in Seq(EventsAskedFor)
    /\ Len(log) >= Len(events) - 1
    /\ Len(log) > 0 /\ ~log[Len(log)].nl => Len(log) >= Len(events)
    /\ pc = "closed" => events = <<>> /\ reloaded = 0 /\ todo = <<>>
    /\ pc = "anchoring" => todo # <<>> /\ Len(log) > 0

\* A call has one event to append, which it has checked, or conflicts, which
\* need no check.
AllConflicts == \A i \in DOMAIN todo : todo[i].kind = "conflict"

TodoInv ==
    /\ pc = "open" /\ todo # <<>> => AllConflicts \/ (Len(todo) = 1 /\ Permitted(todo[1]))
    /\ pc = "anchoring" => AllConflicts \/ Len(todo) = 1

ReplayInv ==
    /\ AllParse(log) => IsHistory(EventsOf(log))
    /\ pc # "closed" =>
          /\ IsHistory(events)
          /\ memory = MemoryAfter(events)[Len(events)]
          /\ AllParse(log) => events = EventsOf(log)
    /\ pc = "open" /\ Len(events) > reloaded => manifest = log

\* The part of what a call checks that nothing undoes later.
Settled(m, e) ==
    /\ e.kind = "invalidation" => e.id \in m.provenance /\ e.at >= CreatedAt[e.id]
    /\ e.kind = "fact" /\ ValidUntil[e.id] # None => ValidUntil[e.id] > ValidFrom[e.id]
    /\ e.kind = "supersession" => m.facts[e.id] # Absent /\ e.at >= RecordedAt[e.id]
    /\ e.kind = "decision" /\ Parent[e.id] # None =>
          /\ m.decisions[Parent[e.id]] # Absent
          /\ e.at >= Timestamp[Parent[e.id]]
    /\ e.kind = "outcome" => m.decisions[e.id] # Absent /\ e.at >= Timestamp[e.id]

SettledInv ==
    pc # "closed" => \A i \in reloaded + 1 .. Len(events) : Settled(memory, events[i])

IInv == Types /\ TodoInv /\ ReplayInv /\ SettledInv

-----------------------------------------------------------------------------
(* Files and histories *)

\* A chunk makes a new line or continues one that had no end.
LEMMA WriteTyped ==
    ASSUME NEW file \in Files, NEW chunk \in EventTypes \cup {Torn}, NEW nl \in BOOLEAN
    PROVE  /\ Write(file, chunk, nl) \in Files
           /\ Len(Write(file, chunk, nl)) > 0
           /\ Write(file, chunk, nl)[Len(Write(file, chunk, nl))].nl = nl
           /\ Len(Write(file, chunk, nl)) =
                IF Len(file) = 0 \/ file[Len(file)].nl THEN Len(file) + 1 ELSE Len(file)
<1> DEFINE n == Len(file)
           new == [body |-> <<chunk>>, nl |-> nl]
           longer == [body |-> Append(file[n].body, chunk), nl |-> nl]
<1>1. n \in Nat
  BY DEF Files
<1>2. CASE n = 0 \/ file[n].nl
  <2>1. new \in Lines
    BY DEF Lines, Line
  <2>2. Write(file, chunk, nl) = Append(file, new)
    BY <1>2 DEF Write
  <2>3. new.nl = nl
    OBVIOUS
  <2> HIDE DEF new
  <2>. QED  BY <1>1, <1>2, <2>1, <2>2, <2>3 DEF Files
<1>3. CASE ~(n = 0 \/ file[n].nl)
  <2>1. n \in 1 .. Len(file) /\ file[n] \in Lines
    BY <1>1, <1>3 DEF Files
  <2>2. longer \in Lines
    BY <2>1 DEF Lines, Line
  <2>3. Write(file, chunk, nl) = [file EXCEPT ![n] = longer]
    BY <1>3 DEF Write
  <2>4. longer.nl = nl
    OBVIOUS
  <2> HIDE DEF longer
  <2>. QED  BY <1>1, <1>3, <2>1, <2>2, <2>3, <2>4 DEF Files
<1>. QED  BY <1>2, <1>3

\* A file of lines that parse, one chunk longer, parses only if the chunk is an
\* event and has a line of its own.
LEMMA WriteParses ==
    ASSUME NEW file \in Files, NEW chunk \in EventTypes \cup {Torn}, NEW nl \in BOOLEAN,
           AllParse(Write(file, chunk, nl))
    PROVE  /\ AllParse(file)
           /\ chunk # Torn
           /\ EventsOf(Write(file, chunk, nl)) = Append(EventsOf(file), chunk)
<1> DEFINE n == Len(file)
           new == [body |-> <<chunk>>, nl |-> nl]
           longer == [body |-> Append(file[n].body, chunk), nl |-> nl]
<1>1. n \in Nat /\ \A i \in 1 .. n : file[i] \in Lines
  BY DEF Files
<1>2. n = 0 \/ file[n].nl
  <2> SUFFICES ASSUME ~(n = 0 \/ file[n].nl) PROVE FALSE
    OBVIOUS
  <2>1. Write(file, chunk, nl) = [file EXCEPT ![n] = longer]
    BY DEF Write
  <2>2. n \in DOMAIN file /\ file[n] \in Lines
    BY <1>1 DEF Files
  <2>3. Parses(longer)
    <3> HIDE DEF longer
    <3>. QED  BY <2>1, <2>2 DEF AllParse
  <2>4. Len(Append(file[n].body, chunk)) = 1
    BY <2>3 DEF Parses
  <2>5. file[n].body \in Seq(EventTypes \cup {Torn}) /\ file[n].body # <<>>
    BY <2>2 DEF Lines, Line
  <2>. QED  BY <2>4, <2>5
<1>3. Write(file, chunk, nl) = Append(file, new)
  BY <1>2 DEF Write
<1>4. Parses(new) /\ \A i \in 1 .. n : Parses(file[i])
  <2>1. new \in Lines
    BY DEF Lines, Line
  <2> HIDE DEF new
  <2>2. /\ n + 1 \in DOMAIN Append(file, new) /\ Append(file, new)[n + 1] = new
        /\ \A i \in 1 .. n : i \in DOMAIN Append(file, new) /\ Append(file, new)[i] = file[i]
    BY <1>1, <2>1 DEF Files
  <2>. QED  BY <1>3, <2>2 DEF AllParse
<1>5. chunk # Torn /\ EventOf(new) = chunk
  BY <1>4 DEF Parses, EventOf
<1>6. AllParse(file)
  BY <1>1, <1>4 DEF AllParse, Files
<1>7. EventsOf(Append(file, new)) = Append(EventsOf(file), chunk)
  <2>1. new \in Lines
    BY DEF Lines, Line
  <2> HIDE DEF new
  <2>2. /\ DOMAIN Append(file, new) = 1 .. n + 1
        /\ DOMAIN file = 1 .. n
        /\ Append(file, new)[n + 1] = new
        /\ \A i \in 1 .. n : Append(file, new)[i] = file[i]
    BY <1>1, <2>1 DEF Files
  <2> DEFINE evs == [i \in 1 .. n |-> EventOf(file[i])]
  <2>3. EventsOf(file) = evs /\ evs \in Seq({EventOf(file[i]) : i \in 1 .. n}) /\ Len(evs) = n
    BY <1>1, <2>2 DEF EventsOf
  <2>4. EventsOf(Append(file, new))
        = [i \in 1 .. n + 1 |-> IF i = n + 1 THEN chunk ELSE evs[i]]
    <3>1. ASSUME NEW i \in 1 .. n + 1
          PROVE  EventOf(Append(file, new)[i]) = IF i = n + 1 THEN chunk ELSE evs[i]
      BY <1>1, <1>5, <2>2
    <3>. QED  BY <2>2, <3>1 DEF EventsOf
  <2> HIDE DEF evs
  <2>5. Append(evs, chunk) = [i \in 1 .. n + 1 |-> IF i = n + 1 THEN chunk ELSE evs[i]]
    <3> DEFINE S == {EventOf(file[i]) : i \in 1 .. n} \cup {chunk}
    <3>1. evs \in Seq(S) /\ chunk \in S
      BY <2>3
    <3> HIDE DEF S
    <3> DEFINE longerEvs == Append(evs, chunk)
    <3>2. longerEvs \in [1 .. n + 1 -> S]
      <4>1. longerEvs \in Seq(S) /\ Len(longerEvs) = n + 1
        BY <1>1, <2>3, <3>1
      <4> HIDE DEF longerEvs
      <4>. QED  BY <4>1, LenProperties
    <3>3. \A i \in 1 .. n + 1 : Append(evs, chunk)[i] = IF i = n + 1 THEN chunk ELSE evs[i]
      BY <1>1, <2>3, <3>1
    <3>. QED  BY <3>2, <3>3
  <2>. QED  BY <2>3, <2>4, <2>5
<1>. QED  BY <1>3, <1>5, <1>6, <1>7

LEMMA EventsTyped ==
    ASSUME NEW file \in Files, AllParse(file)
    PROVE  EventsOf(file) \in Histories /\ Len(EventsOf(file)) = Len(file)
<1>1. Len(file) \in Nat /\ DOMAIN file = 1 .. Len(file)
  BY DEF Files
<1>2. ASSUME NEW i \in 1 .. Len(file) PROVE EventOf(file[i]) \in EventTypes
  <2>1. file[i] \in Lines /\ Parses(file[i])
    BY <1>1 DEF Files, AllParse
  <2>2. file[i].body \in Seq(EventTypes \cup {Torn}) /\ Len(file[i].body) = 1
    BY <2>1 DEF Lines, Line, Parses
  <2>. QED  BY <2>1, <2>2 DEF Parses, EventOf
<1>3. EventsOf(file) = [i \in 1 .. Len(file) |-> EventOf(file[i])]
  BY <1>1 DEF EventsOf
<1>. QED  BY <1>1, <1>2, <1>3 DEF Histories

\* An event whose operation is new, and which can be applied, keeps a history one.
LEMMA HistoryGrows ==
    ASSUME NEW h \in Histories, NEW e \in EventTypes
    PROVE  /\ MemoryAfter(Append(h, e))[Len(h) + 1] = Apply(MemoryAfter(h)[Len(h)], e)
           /\ IsHistory(h) /\ (\A i \in DOMAIN h : h[i].op # e.op)
              /\ Applicable(MemoryAfter(h)[Len(h)], e)
              => IsHistory(Append(h, e))
<1> DEFINE g == Append(h, e)
           n == Len(h)
<1>1. /\ n \in Nat /\ g \in Histories /\ Len(g) = n + 1 /\ DOMAIN g = 1 .. n + 1
      /\ DOMAIN h = 1 .. n
      /\ g[n + 1] = e /\ \A i \in 1 .. n : g[i] = h[i]
  BY DEF Histories
<1> HIDE DEF g
<1>2. \A k \in 0 .. n : MemoryAfter(g)[k] = MemoryAfter(h)[k]
  BY <1>1, ReplaysAgree
<1>3. MemoryAfter(g)[n + 1] = Apply(MemoryAfter(h)[n], e)
  <2>1. n + 1 \in 1 .. Len(g) /\ n \in 0 .. n /\ (n + 1) - 1 = n
    BY <1>1
  <2>2. MemoryAfter(g)[n + 1] = Apply(MemoryAfter(g)[(n + 1) - 1], g[n + 1])
    BY <2>1, <1>1, ReplayStep
  <2>. QED  BY <1>1, <1>2, <2>1, <2>2
<1>4. ASSUME IsHistory(h), \A i \in DOMAIN h : h[i].op # e.op, Applicable(MemoryAfter(h)[n], e)
      PROVE  IsHistory(g)
  <2> SUFFICES ASSUME NEW i \in DOMAIN g
               PROVE  /\ \A j \in 1 .. i - 1 : g[j].op # g[i].op
                      /\ Applicable(MemoryAfter(g)[i - 1], g[i])
    BY DEF IsHistory
  <2>1. CASE i = n + 1
    <3>1. i - 1 = n /\ n \in 0 .. n /\ g[i] = e
      BY <1>1, <2>1
    <3>2. Applicable(MemoryAfter(g)[i - 1], g[i])
      BY <1>2, <1>4, <3>1
    <3>. QED  BY <1>1, <1>4, <3>1, <3>2
  <2>2. CASE i # n + 1
    <3>1. i \in DOMAIN h /\ i \in 1 .. n /\ i - 1 \in 0 .. n /\ g[i] = h[i]
      BY <1>1, <2>2
    <3>2. /\ \A j \in 1 .. i - 1 : h[j].op # h[i].op
          /\ Applicable(MemoryAfter(h)[i - 1], h[i])
      BY <1>4, <3>1 DEF IsHistory
    <3>3. Applicable(MemoryAfter(g)[i - 1], g[i])
      BY <1>2, <3>1, <3>2
    <3>. QED  BY <1>1, <3>1, <3>2, <3>3
  <2>. QED  BY <2>1, <2>2
<1>. QED  BY <1>3, <1>4 DEF g

-----------------------------------------------------------------------------
(* One lemma per step *)

LEMMA InitIInv == Init => IInv
<1> SUFFICES ASSUME Init PROVE IInv
  OBVIOUS
<1>1. Types
  BY EmptyMemoryTyped DEF Init, Types, Files, Histories
<1>2. TodoInv /\ SettledInv
  BY DEF Init, TodoInv, SettledInv
<1>3. IsHistory(EventsOf(log))
  <2>1. DOMAIN EventsOf(log) = {}
    BY DEF Init, EventsOf
  <2>. QED  BY <2>1 DEF IsHistory
<1>4. ReplayInv
  BY <1>3 DEF Init, ReplayInv
<1>. QED  BY <1>1, <1>2, <1>4 DEF IInv

\* The disk and the memory stay as they are, and so does what is open.
Stays == UNCHANGED <<log, manifest, events, reloaded, memory>>

LEMMA StaysKeeps ==
    ASSUME IInv, Stays, pc = "open", pc' = pc,
           todo' \in Seq(EventsAskedFor), TodoInv'
    PROVE  IInv'
<1>1. Types'
  BY DEF IInv, Types, Stays
<1>2. ReplayInv'
  <2>1. AllParse(log)' = AllParse(log) /\ EventsOf(log)' = EventsOf(log)
    BY DEF Stays
  <2>. QED  BY <2>1 DEF IInv, ReplayInv, Stays
<1>3. SettledInv'
  BY DEF IInv, SettledInv, Stays
<1>. QED  BY <1>1, <1>2, <1>3 DEF IInv

LEMMA CallStep ==
    ASSUME IInv, NEW e \in EventsAskedFor, Call(e)
    PROVE  IInv'
<1>1. Stays /\ pc' = pc /\ pc = "open" /\ todo' = <<e>> /\ Permitted(e)
  BY DEF Call, Stays, disk
<1>2. Permitted(e)'
  BY <1>1 DEF Permitted, IsBacked, IsActive, IsSameCommittedOperation, Stays
<1>3. todo' \in Seq(EventsAskedFor)
  BY <1>1
<1>4. TodoInv'
  BY <1>1, <1>2 DEF TodoInv
<1>. QED  BY <1>1, <1>3, <1>4, StaysKeeps

LEMMA DetectStep ==
    ASSUME IInv, NEW v \in Moments, NEW k \in Moments, NEW at \in Moments,
           NEW prefix \in Operations, DetectConflicts(v, k, at, prefix)
    PROVE  IInv'
<1> DEFINE found == Conflicting(QueryFacts(memory, v, k))
           S == {Event("conflict", g, at, <<prefix, g, at>>) : g \in found}
<1>1. Stays /\ pc' = pc /\ pc = "open" /\ todo' = SetToSeq(S)
  BY DEF DetectConflicts, Stays, disk
<1>2. found \in SUBSET SUBSET Facts
  BY DEF Conflicting, QueryFacts
<1>3. S \subseteq {e \in EventsAskedFor : e.kind = "conflict"}
  BY <1>2 DEF Event, EventsAskedFor, EventTypes, OperationNames
<1>4. IsFiniteSet(S)
  <2>1. IsFiniteSet(SUBSET Facts)
    BY CognitiveConstants, FS_SUBSET
  <2>2. IsFiniteSet(found)
    BY <1>2, <2>1, FS_Subset
  <2> DEFINE T == {Event("conflict", g, at, <<prefix, g, at>>) : g \in found}
             f == [g \in found |-> Event("conflict", g, at, <<prefix, g, at>>)]
  <2>3. f \in Surjection(found, T)
    BY DEF Surjection
  <2> HIDE DEF f, found
  <2>. QED  BY <2>2, <2>3, FS_Surjection DEF ExistsSurjection
<1> HIDE DEF S
<1>5. Cardinality(S) \in Nat /\ ExistsBijection(1 .. Cardinality(S), S)
  BY <1>4, FS_CardinalityType
<1>6. SetToSeq(S) \in [1 .. Cardinality(S) -> S]
  <2>1. PICK f \in [1 .. Cardinality(S) -> S] : IsInjective(f)
    BY <1>5 DEF ExistsBijection, Bijection, Injection
  <2>. QED  BY <2>1 DEF SetToSeq
<1>7. todo' \in Seq(EventsAskedFor) /\ \A i \in DOMAIN todo' : todo'[i].kind = "conflict"
  BY <1>1, <1>3, <1>5, <1>6
<1>8. TodoInv'
  BY <1>1, <1>7 DEF TodoInv, AllConflicts
<1>. QED  BY <1>1, <1>7, <1>8, StaysKeeps

LEMMA ReturnStep == IInv /\ ReturnPrior => IInv'
<1> SUFFICES ASSUME IInv, ReturnPrior PROVE IInv'
  OBVIOUS
<1>1. Stays /\ pc' = pc /\ pc = "open" /\ todo # <<>> /\ todo' = Tail(todo)
  BY DEF ReturnPrior, Stays, disk
<1>2. todo \in Seq(EventsAskedFor) /\ (AllConflicts \/ Len(todo) = 1)
  BY <1>1 DEF IInv, Types, TodoInv
<1>3. todo' \in Seq(EventsAskedFor)
  BY <1>1, <1>2
<1>4. TodoInv'
  BY <1>1, <1>2 DEF TodoInv, AllConflicts
<1>. QED  BY <1>1, <1>3, <1>4, StaysKeeps

LEMMA RefuseStep == IInv /\ RefuseDrift => IInv'
<1> SUFFICES ASSUME IInv, RefuseDrift PROVE IInv'
  OBVIOUS
<1>1. Stays /\ pc' = pc /\ pc = "open" /\ todo' = <<>>
  BY DEF RefuseDrift, Stays, disk
<1>2. TodoInv' /\ todo' \in Seq(EventsAskedFor)
  BY <1>1 DEF TodoInv
<1>. QED  BY <1>1, <1>2, StaysKeeps

LEMMA ManifestStep == IInv /\ WriteManifest => IInv'
<1> SUFFICES ASSUME IInv, WriteManifest PROVE IInv'
  OBVIOUS
<1>1. /\ pc = "anchoring" /\ pc' = "open" /\ manifest' = log /\ todo' = Tail(todo)
      /\ log' = log /\ events' = events /\ reloaded' = reloaded /\ memory' = memory
  BY DEF WriteManifest
<1>2. todo \in Seq(EventsAskedFor) /\ todo # <<>> /\ (AllConflicts \/ Len(todo) = 1)
  BY <1>1 DEF IInv, Types, TodoInv
<1>3. todo' \in Seq(EventsAskedFor) /\ TodoInv'
  BY <1>1, <1>2 DEF TodoInv, AllConflicts
<1>4. Types'
  BY <1>1, <1>3 DEF IInv, Types, Files
<1>5. ReplayInv'
  <2>1. AllParse(log)' = AllParse(log) /\ EventsOf(log)' = EventsOf(log)
    BY <1>1
  <2>. QED  BY <1>1, <2>1 DEF IInv, ReplayInv
<1>6. SettledInv'
  BY <1>1 DEF IInv, SettledInv
<1>. QED  BY <1>3, <1>4, <1>5, <1>6 DEF IInv

\* What a public method has checked is what _apply will check, so an event that
\* is written can be applied: append never stops halfway.
LEMMA HeadApplies ==
    ASSUME IInv, pc = "open", todo # <<>>, ~Committed(Head(todo).op)
    PROVE  Head(todo) \in EventsAskedFor /\ Applicable(memory, Head(todo))
<1> DEFINE e == Head(todo)
<1>1. todo \in Seq(EventsAskedFor) /\ (AllConflicts \/ Permitted(todo[1]))
  BY DEF IInv, Types, TodoInv
<1>2. e = todo[1] /\ 1 \in DOMAIN todo /\ e \in EventsAskedFor
  BY <1>1
<1>3. ~IsSameCommittedOperation(e)
  BY DEF Committed, IsSameCommittedOperation
<1>4. CASE AllConflicts
  <2>1. e.kind = "conflict"
    BY <1>2, <1>4 DEF AllConflicts
  <2> HIDE DEF e
  <2>. QED  BY <1>2, <2>1 DEF Applicable
<1>5. CASE Permitted(e)
  <2> HIDE DEF e
  <2>. QED  BY <1>2, <1>3, <1>5 DEF Permitted, Applicable, IsBacked
<1>. QED  BY <1>1, <1>2, <1>4, <1>5

LEMMA ApplySettles ==
    ASSUME NEW m \in Memories, NEW e \in EventTypes, Applicable(m, e)
    PROVE  Settled(Apply(m, e), e)
<1>1. CASE e.kind \in {"provenance", "conflict"}
  BY <1>1 DEF Settled
<1>2. CASE e.kind = "invalidation"
  BY <1>2 DEF Settled, Applicable, Apply, Memories
<1>3. CASE e.kind = "fact"
  BY <1>3 DEF Settled, Applicable
<1>4. CASE e.kind = "supersession"
  <2>1. e.id \in Facts /\ e.at \in Nat /\ e.at >= RecordedAt[e.id]
    BY <1>4, CognitiveConstants DEF EventTypes, Applicable
  <2>2. Apply(m, e).facts[e.id] = e.at
    BY <1>4, <2>1 DEF Apply, Memories
  <2>. QED  BY <1>4, <2>1, <2>2, CognitiveConstants DEF Settled
<1>5. CASE e.kind = "decision"
  <2>1. ASSUME Parent[e.id] # None
        PROVE  m.decisions[Parent[e.id]] # Absent /\ e.at >= Timestamp[Parent[e.id]]
    BY <1>5, <2>1 DEF Applicable
  <2>2. ASSUME Parent[e.id] # None
        PROVE  Apply(m, e).decisions[Parent[e.id]] # Absent
    <3>1. e.id \in Decisions /\ Parent[e.id] \in Decisions
      BY <1>5, <2>2, CognitiveConstants DEF EventTypes
    <3>2. Apply(m, e).decisions = [m.decisions EXCEPT ![e.id] = None]
      BY <1>5 DEF Apply, Memories
    <3>. QED  BY <2>1, <2>2, <3>1, <3>2, CognitiveConstants DEF Memories
  <2>. QED  BY <1>5, <2>1, <2>2 DEF Settled
<1>6. CASE e.kind = "outcome"
  <2>1. e.id \in Decisions /\ e.at \in Nat /\ e.at >= Timestamp[e.id]
    BY <1>6, CognitiveConstants DEF EventTypes, Applicable
  <2>2. Apply(m, e).decisions[e.id] = e.at
    BY <1>6, <2>1 DEF Apply, Memories
  <2>. QED  BY <1>6, <2>1, <2>2, CognitiveConstants DEF Settled
<1>. QED  BY <1>1, <1>2, <1>3, <1>4, <1>5, <1>6 DEF EventTypes

\* Nothing that is recorded is ever absent again.
LEMMA ApplyGrows ==
    ASSUME NEW m \in Memories, NEW e \in EventTypes
    PROVE  /\ m.provenance \subseteq Apply(m, e).provenance
           /\ \A f \in Facts : m.facts[f] # Absent => Apply(m, e).facts[f] # Absent
           /\ \A d \in Decisions : m.decisions[d] # Absent => Apply(m, e).decisions[d] # Absent
<1>0. None # Absent /\ e.at # Absent
  BY CognitiveConstants DEF EventTypes
<1>1. CASE e.kind = "provenance"
  BY <1>1 DEF Apply, Memories
<1>2. CASE e.kind \in {"invalidation", "conflict"}
  BY <1>2 DEF Apply, Memories
<1>3. CASE e.kind = "fact"
  BY <1>0, <1>3 DEF Apply, Memories
<1>4. CASE e.kind = "supersession"
  BY <1>0, <1>4 DEF Apply, Memories
<1>5. CASE e.kind = "decision"
  BY <1>0, <1>5 DEF Apply, Memories
<1>6. CASE e.kind = "outcome"
  BY <1>0, <1>6 DEF Apply, Memories
<1>. QED  BY <1>1, <1>2, <1>3, <1>4, <1>5, <1>6 DEF EventTypes

LEMMA SettledLasts ==
    ASSUME NEW m \in Memories, NEW e \in EventTypes, NEW x \in EventTypes, Settled(m, x)
    PROVE  Settled(Apply(m, e), x)
<1>1. x.kind = "supersession" => x.id \in Facts
  BY DEF EventTypes
<1>2. x.kind = "outcome" => x.id \in Decisions
  BY DEF EventTypes
<1>3. x.kind = "decision" /\ Parent[x.id] # None => Parent[x.id] \in Decisions
  BY CognitiveConstants DEF EventTypes
<1>. QED  BY <1>1, <1>2, <1>3, ApplyGrows DEF Settled

LEMMA AppendStep == IInv /\ AppendEvent => IInv'
<1> SUFFICES ASSUME IInv, AppendEvent PROVE IInv'
  OBVIOUS
<1> DEFINE e == Head(todo)
<1>1. pc = "open" /\ todo # <<>> /\ ~Committed(e.op)
  BY DEF AppendEvent
<1>2. e \in EventsAskedFor /\ e \in EventTypes /\ Applicable(memory, e)
  BY <1>1, HeadApplies DEF EventsAskedFor
<1>3. /\ log' = Write(log, e, TRUE) /\ events' = Append(events, e)
      /\ memory' = Apply(memory, e) /\ pc' = "anchoring"
      /\ manifest' = manifest /\ reloaded' = reloaded /\ todo' = todo
  BY <1>2 DEF AppendEvent
<1> HIDE DEF e
<1>4. /\ log \in Files /\ events \in Histories /\ memory \in Memories
      /\ reloaded \in 0 .. Len(events) /\ Len(events) \in Nat /\ Len(log) \in Nat
      /\ Len(log) >= Len(events) - 1
      /\ Len(log) > 0 /\ ~log[Len(log)].nl => Len(log) >= Len(events)
  BY DEF IInv, Types, Files, Histories
<1>5. /\ log' \in Files /\ Len(log') > 0 /\ log'[Len(log')].nl
      /\ Len(log') = IF Len(log) = 0 \/ log[Len(log)].nl THEN Len(log) + 1 ELSE Len(log)
  BY <1>2, <1>3, <1>4, WriteTyped
<1>6. /\ events' \in Histories /\ Len(events') = Len(events) + 1
      /\ events'[Len(events) + 1] = e
      /\ \A i \in 1 .. Len(events) : events'[i] = events[i]
  BY <1>2, <1>3, <1>4 DEF Histories
<1>7. Types'
  <2>1. memory' \in Memories
    BY <1>2, <1>3, <1>4, ApplyTyped
  <2>2. Len(log') >= Len(log) /\ Len(log') >= Len(events') - 1
    BY <1>4, <1>5, <1>6
  <2>3. manifest' = NoManifest \/ Len(manifest') \in 1 .. Len(log')
    <3>1. manifest = NoManifest \/ Len(manifest) \in 1 .. Len(log)
      BY DEF IInv, Types
    <3>2. Len(log') >= Len(log) /\ Len(log') \in Nat
      BY <1>5, <2>2 DEF Files
    <3>3. 1 .. Len(log) \subseteq 1 .. Len(log')
      BY <1>4, <3>2
    <3>. QED  BY <1>3, <3>1, <3>3, Zenon
  <2>4. todo' \in Seq(EventsAskedFor)
    BY <1>3 DEF IInv, Types
  <2>5. todo' # <<>> /\ reloaded' \in 0 .. Len(events')
    BY <1>1, <1>3, <1>4, <1>6
  <2>. QED  BY <1>3, <1>5, <1>6, <2>1, <2>2, <2>3, <2>4, <2>5 DEF Types
<1>8. TodoInv'
  BY <1>1, <1>3 DEF IInv, TodoInv, AllConflicts
<1>9. ReplayInv'
  <2>1. /\ IsHistory(events) /\ memory = MemoryAfter(events)[Len(events)]
        /\ AllParse(log) => events = EventsOf(log)
    BY <1>1 DEF IInv, ReplayInv
  <2>2. \A i \in DOMAIN events : events[i].op # e.op
    BY <1>1 DEF Committed
  <2>3. IsHistory(events') /\ memory' = MemoryAfter(events')[Len(events')]
    BY <1>2, <1>3, <1>4, <1>6, <2>1, <2>2, HistoryGrows
  <2>4. ASSUME AllParse(log') PROVE events' = EventsOf(log')
    <3>1. AllParse(log) /\ EventsOf(log') = Append(EventsOf(log), e)
      BY <1>2, <1>3, <1>4, <2>4, WriteParses
    <3>. QED  BY <1>3, <2>1, <3>1
  <2>. QED  BY <1>3, <2>3, <2>4 DEF ReplayInv
<1>10. SettledInv'
  <2> SUFFICES ASSUME NEW i \in reloaded + 1 .. Len(events')
               PROVE  Settled(memory', events'[i])
    BY <1>3 DEF SettledInv
  <2>1. CASE i = Len(events')
    BY <1>2, <1>3, <1>4, <1>6, <2>1, ApplySettles
  <2>2. CASE i # Len(events')
    <3>1. i \in reloaded + 1 .. Len(events) /\ events'[i] = events[i] /\ events[i] \in EventTypes
      BY <1>4, <1>6, <2>2 DEF Histories
    <3>2. Settled(memory, events[i])
      BY <1>1, <3>1 DEF IInv, SettledInv
    <3>. QED  BY <1>2, <1>3, <1>4, <3>1, <3>2, SettledLasts
  <2>. QED  BY <2>1, <2>2
<1>. QED  BY <1>7, <1>8, <1>9, <1>10 DEF IInv

\* What is left of a dead process is a log that is typed and replays.
LEMMA DeathKeeps ==
    ASSUME IInv, Die, manifest' = manifest, log' \in Files, Len(log') >= Len(log),
           AllParse(log') => IsHistory(EventsOf(log'))
    PROVE  IInv'
<1>1. pc' = "closed" /\ events' = <<>> /\ reloaded' = 0 /\ memory' = EmptyMemory /\ todo' = <<>>
  BY DEF Die
<1>2. Len(log) \in Nat /\ Len(log') \in Nat
  BY DEF IInv, Types, Files
<1>3. manifest' = NoManifest \/ Len(manifest') \in 1 .. Len(log')
  BY <1>2 DEF IInv, Types
<1>4. Types'
  BY <1>1, <1>2, <1>3, EmptyMemoryTyped DEF Types, Histories
<1>5. TodoInv' /\ SettledInv' /\ ReplayInv'
  BY <1>1 DEF TodoInv, SettledInv, ReplayInv
<1>. QED  BY <1>4, <1>5 DEF IInv

LEMMA CrashStep == IInv /\ Crash => IInv'
<1> SUFFICES ASSUME IInv, Crash PROVE IInv'
  OBVIOUS
<1>1. Die /\ manifest' = manifest /\ log' = log
  BY DEF Crash, disk
<1>2. log \in Files /\ Len(log) \in Nat /\ (AllParse(log) => IsHistory(EventsOf(log)))
  BY DEF IInv, Types, Files, ReplayInv
<1>. QED  BY <1>1, <1>2, DeathKeeps

LEMMA CrashTornStep == IInv /\ CrashTornAppend => IInv'
<1> SUFFICES ASSUME IInv, CrashTornAppend PROVE IInv'
  OBVIOUS
<1>1. pc = "open" /\ todo # <<>> /\ ~Committed(Head(todo).op) /\ Die /\ manifest' = manifest
  BY DEF CrashTornAppend
<1>2. PICK chunk \in {Torn, Head(todo)} : log' = Write(log, chunk, FALSE)
  BY DEF CrashTornAppend
<1>3. Head(todo) \in EventTypes /\ Applicable(memory, Head(todo))
  BY <1>1, HeadApplies DEF EventsAskedFor
<1>4. log \in Files /\ Len(log) \in Nat /\ events \in Histories
  BY DEF IInv, Types, Files
<1>5. log' \in Files /\ Len(log') >= Len(log)
  <2>1. chunk \in EventTypes \cup {Torn} /\ FALSE \in BOOLEAN
    BY <1>3
  <2> DEFINE file == Write(log, chunk, FALSE)
  <2>2. /\ file \in Files
        /\ Len(file) = IF Len(log) = 0 \/ log[Len(log)].nl THEN Len(log) + 1 ELSE Len(log)
    BY <1>4, <2>1, WriteTyped
  <2> HIDE DEF file
  <2>3. Len(file) >= Len(log)
    BY <1>4, <2>2
  <2>. QED  BY <1>2, <2>2, <2>3 DEF file
<1>6. ASSUME AllParse(log') PROVE IsHistory(EventsOf(log'))
  <2>1. chunk = Head(todo) /\ AllParse(log) /\ EventsOf(log') = Append(EventsOf(log), chunk)
    BY <1>2, <1>3, <1>4, <1>6, WriteParses
  <2>2. /\ IsHistory(events) /\ memory = MemoryAfter(events)[Len(events)]
        /\ events = EventsOf(log)
    BY <1>1, <2>1 DEF IInv, ReplayInv
  <2>3. \A i \in DOMAIN events : events[i].op # Head(todo).op
    BY <1>1 DEF Committed
  <2>. QED  BY <1>3, <1>4, <2>1, <2>2, <2>3, HistoryGrows
<1>. QED  BY <1>1, <1>5, <1>6, DeathKeeps

LEMMA OpenStep == IInv /\ Open => IInv'
<1> SUFFICES ASSUME IInv, Open PROVE IInv'
  OBVIOUS
<1>1. /\ pc = "closed" /\ pc' = "open" /\ AllParse(log) /\ IsHistory(EventsOf(log))
      /\ events' = EventsOf(log) /\ reloaded' = Len(log)
      /\ memory' = MemoryAfter(EventsOf(log))[Len(log)]
      /\ log' = log /\ manifest' = manifest /\ todo' = todo
  BY DEF Open, disk
<1>2. /\ log \in Files /\ Len(log) \in Nat /\ todo = <<>>
      /\ manifest = NoManifest \/ Len(manifest) \in 1 .. Len(log)
  BY <1>1 DEF IInv, Types, Files
<1>3. events' \in Histories /\ Len(events') = Len(log)
  BY <1>1, <1>2, EventsTyped
<1>4. memory' \in Memories
  BY <1>1, <1>2, <1>3, ReplayTyped
<1>5. Types'
  BY <1>1, <1>2, <1>3, <1>4 DEF Types
<1>6. TodoInv' /\ SettledInv'
  BY <1>1, <1>2, <1>3 DEF TodoInv, SettledInv
<1>7. ReplayInv'
  BY <1>1, <1>2, <1>3 DEF ReplayInv
<1>. QED  BY <1>5, <1>6, <1>7 DEF IInv

\* Every call asks for events of the type.
LEMMA CallsStep == IInv /\ Calls => IInv'
<1> SUFFICES ASSUME IInv, Calls PROVE IInv'
  OBVIOUS
<1>0. \A op \in Operations : op \in OperationNames
  BY DEF OperationNames
<1>1. ASSUME NEW p \in Provenances, RecordProvenance(p) PROVE IInv'
  <2>1. Event("provenance", p, CreatedAt[p], p) \in EventsAskedFor
    BY CognitiveConstants DEF Event, EventsAskedFor, EventTypes, OperationNames
  <2>. QED  BY <1>1, <2>1, CallStep DEF RecordProvenance
<1>2. ASSUME NEW op \in Operations, NEW f \in Facts, RecordFact(f, op) PROVE IInv'
  <2>1. Event("fact", f, RecordedAt[f], op) \in EventsAskedFor
    BY <1>0, CognitiveConstants DEF Event, EventsAskedFor, EventTypes
  <2>. QED  BY <1>2, <2>1, CallStep DEF RecordFact
<1>3. ASSUME NEW op \in Operations, NEW f \in Facts, NEW at \in Moments, SupersedeFact(f, at, op)
      PROVE  IInv'
  <2>1. Event("supersession", f, at, op) \in EventsAskedFor
    BY <1>0 DEF Event, EventsAskedFor, EventTypes
  <2>. QED  BY <1>3, <2>1, CallStep DEF SupersedeFact
<1>4. ASSUME NEW op \in Operations, NEW p \in Provenances, NEW at \in Moments,
             InvalidateProvenance(p, at, op)
      PROVE  IInv'
  <2>1. Event("invalidation", p, at, op) \in EventsAskedFor
    BY <1>0 DEF Event, EventsAskedFor, EventTypes
  <2>. QED  BY <1>4, <2>1, CallStep DEF InvalidateProvenance
<1>5. ASSUME NEW op \in Operations, NEW d \in Decisions, RecordDecision(d, op) PROVE IInv'
  <2>1. Event("decision", d, Timestamp[d], op) \in EventsAskedFor
    BY <1>0, CognitiveConstants DEF Event, EventsAskedFor, EventTypes
  <2>. QED  BY <1>5, <2>1, CallStep DEF RecordDecision
<1>6. ASSUME NEW op \in Operations, NEW d \in Decisions, NEW at \in Moments, RecordOutcome(d, at, op)
      PROVE  IInv'
  <2>1. Event("outcome", d, at, op) \in EventsAskedFor
    BY <1>0 DEF Event, EventsAskedFor, EventTypes
  <2>. QED  BY <1>6, <2>1, CallStep DEF RecordOutcome
<1>7. ASSUME NEW op \in Operations, NEW v \in Moments, NEW k \in Moments, NEW at \in Moments,
             DetectConflicts(v, k, at, op)
      PROVE  IInv'
  BY <1>7, DetectStep
<1>. QED  BY <1>1, <1>2, <1>3, <1>4, <1>5, <1>6, <1>7 DEF Calls

LEMMA StepIInv == IInv /\ [Next]_vars => IInv'
<1> SUFFICES ASSUME IInv, [Next]_vars PROVE IInv'
  OBVIOUS
<1>1. CASE UNCHANGED vars
  BY <1>1 DEF vars, IInv, Types, TodoInv, AllConflicts, Permitted, IsBacked, IsActive,
              IsSameCommittedOperation, ReplayInv, SettledInv
<1>. QED  BY <1>1, CallsStep, AppendStep, ReturnStep, RefuseStep, ManifestStep, CrashStep,
             CrashTornStep, OpenStep DEF Next

LEMMA Invariance == Spec => []IInv
  BY InitIInv, StepIInv, PTL DEF Spec

-----------------------------------------------------------------------------
(* Theorems *)

\* Whatever is called, retried or interrupted, every variable has its type, no
\* manifest is longer than its log and no more events are read than lines exist.
THEOREM TypeCorrect == Spec => []TypeOK
<1>1. IInv => TypeOK
  <2> SUFFICES ASSUME IInv PROVE TypeOK
    OBVIOUS
  <2>1. /\ pc \in {"closed", "open", "anchoring"}
        /\ manifest = NoManifest \/ Len(manifest) \in 1 .. Len(log)
        /\ Len(log) >= Len(events) - 1 /\ reloaded \in 0 .. Len(events)
        /\ pc = "anchoring" => todo # <<>>
        /\ memory \in Memories
    BY DEF IInv, Types
  <2>2. /\ memory.provenance \subseteq Provenances
        /\ memory.invalidated \in [Provenances -> Moments \cup {None}]
        /\ memory.facts \in [Facts -> Moments \cup {None, Absent}]
        /\ memory.decisions \in [Decisions -> Moments \cup {None, Absent}]
    BY <2>1 DEF Memories
  <2>. QED  BY <2>1, <2>2 DEF TypeOK
<1>. QED  BY <1>1, Invariance, PTL

\* A log of whole lines, whatever crashes it has seen, is one that _replay
\* accepts: no operation is in it twice and every event of it applies, although
\* append writes each line before _apply has accepted it.
THEOREM LogAlwaysReplays == Spec => []LogReplays
<1>1. IInv => LogReplays
  BY DEF IInv, ReplayInv, LogReplays
<1>. QED  BY <1>1, Invariance, PTL

\* What an open store holds is what replaying its events derives, and once it
\* has appended anything its manifest is that of its log.
THEOREM MemoryIsDerived == Spec => []MemoryFollowsLog
<1>1. IInv => MemoryFollowsLog
  BY DEF IInv, ReplayInv, MemoryFollowsLog
<1>. QED  BY <1>1, Invariance, PTL

\* A call repeated within the process is let through by its public method and
\* answered by append, whatever was superseded, withdrawn or recorded since.
THEOREM RetriesAlwaysAnswered == Spec => []RetriesAreAnswered
<1>1. IInv => RetriesAreAnswered
  <2> SUFFICES ASSUME IInv, pc = "open", NEW i \in reloaded + 1 .. Len(events)
               PROVE  Permitted(events[i]) /\ IsSameCommittedOperation(events[i])
    BY DEF RetriesAreAnswered
  <2>1. reloaded \in Nat /\ Len(events) \in Nat /\ i \in DOMAIN events /\ ~(i <= reloaded)
    BY DEF IInv, Types, Histories
  <2>2. IsSameCommittedOperation(events[i])
    BY <2>1 DEF IsSameCommittedOperation
  <2>3. Settled(memory, events[i])
    BY DEF IInv, SettledInv
  <2> DEFINE e == events[i]
  <2> HIDE DEF e
  <2>4. Settled(memory, e) /\ IsSameCommittedOperation(e) => Permitted(e)
    BY DEF Settled, Permitted, IsBacked
  <2>. QED  BY <2>2, <2>3, <2>4 DEF e
<1>. QED  BY <1>1, Invariance, PTL

\* Applying an event leaves the answers about earlier known times as they were.
LEMMA ApplyKeepsPast ==
    ASSUME NEW m \in Memories, NEW e \in EventsAskedFor, Applicable(m, e),
           ~(e.kind = "invalidation" /\ m.invalidated[e.id] # None),
           NEW v \in Moments, NEW k \in Moments, k < e.at
    PROVE  QueryFacts(Apply(m, e), v, k) = QueryFacts(m, v, k)
<1> DEFINE n == Apply(m, e)
           Withdrawn(x, p) == ~(x.invalidated[p] = None \/ k < x.invalidated[p])
<1>1. e \in EventTypes /\ k \in Nat /\ e.at \in Nat
  BY CognitiveConstants DEF EventsAskedFor, EventTypes
<1>2. ASSUME NEW f \in Facts PROVE KnownAt(n, f, k) <=> KnownAt(m, f, k)
  <2>1. CASE e.kind \in {"fact", "supersession"} /\ e.id = f
    <3>1. CASE e.kind = "fact"
      <4>1. e.at = RecordedAt[f]
        BY <2>1, <3>1 DEF EventsAskedFor
      <4>. QED  BY <1>1, <4>1 DEF KnownAt
    <3>2. CASE e.kind = "supersession"
      <4>1. m.facts[f] = None
        BY <2>1, <3>2 DEF Applicable
      <4>2. n.facts[f] = e.at
        BY <2>1, <3>2 DEF Apply, Memories
      <4>. QED  BY <1>1, <4>1, <4>2, CognitiveConstants DEF KnownAt
    <3>. QED  BY <2>1, <3>1, <3>2
  <2>2. CASE ~(e.kind \in {"fact", "supersession"} /\ e.id = f)
    <3>1. n.facts[f] = m.facts[f]
      BY <1>1, <2>2 DEF Apply, Memories, EventTypes
    <3>. QED  BY <3>1 DEF KnownAt
  <2>. QED  BY <2>1, <2>2
<1>3. ASSUME NEW p \in Provenances PROVE Withdrawn(n, p) <=> Withdrawn(m, p)
  <2>1. CASE e.kind = "invalidation" /\ e.id = p
    <3>1. m.invalidated[p] = None
      BY <2>1
    <3>2. n.invalidated[p] = e.at
      BY <2>1 DEF Apply, Memories
    <3>. QED  BY <3>1, <3>2
  <2>2. CASE ~(e.kind = "invalidation" /\ e.id = p)
    <3>1. n.invalidated[p] = m.invalidated[p]
      BY <1>1, <2>2 DEF Apply, Memories, EventTypes
    <3>. QED  BY <3>1
  <2>. QED  BY <2>1, <2>2
<1>4. \A f \in Facts : ProvenanceOf[f] \in Provenances
  BY CognitiveConstants
<1>5. \A x : QueryFacts(x, v, k)
             = {f \in Facts : ValidAt(f, v) /\ KnownAt(x, f, k) /\ ~Withdrawn(x, ProvenanceOf[f])}
  BY DEF QueryFacts
<1> HIDE DEF n, Withdrawn
<1>6. QueryFacts(n, v, k) = QueryFacts(m, v, k)
  BY <1>2, <1>3, <1>4, <1>5
<1>. QED  BY <1>6 DEF n

\* No event rewrites the known past: queries about a time before the event's
\* own are answered as before, but for a second withdrawal.
THEOREM PastStaysFixed == Spec => PastIsFixed
<1> DEFINE e == events'[Len(events')]
           Fixed == (/\ pc = "open" /\ Len(events') > Len(events)
                     /\ ~(e.kind = "invalidation" /\ memory.invalidated[e.id] # None))
                    => \A v, k \in Moments :
                         k < e.at => QueryFacts(memory', v, k) = QueryFacts(memory, v, k)
<1>1. ASSUME IInv, Next PROVE Fixed
  <2> SUFFICES ASSUME pc = "open", Len(events') > Len(events),
                      ~(e.kind = "invalidation" /\ memory.invalidated[e.id] # None),
                      NEW v \in Moments, NEW k \in Moments, k < e.at
               PROVE  QueryFacts(memory', v, k) = QueryFacts(memory, v, k)
    OBVIOUS
  <2>1. events \in Histories /\ memory \in Memories /\ Len(events) \in Nat /\ Len(<<>>) = 0
    BY <1>1 DEF IInv, Types, Histories
  <2>2. AppendEvent
    <3>1. events' # events /\ events' # <<>>
      BY <2>1
    <3>2. Calls => events' = events
      BY DEF Calls, Call, RecordProvenance, RecordFact, InvalidateProvenance, SupersedeFact,
             RecordDecision, RecordOutcome, DetectConflicts
    <3>3. ReturnPrior \/ RefuseDrift \/ WriteManifest => events' = events
      BY DEF ReturnPrior, RefuseDrift, WriteManifest
    <3>4. Crash \/ CrashTornAppend => events' = <<>>
      BY DEF Crash, CrashTornAppend, Die
    <3>5. Open => pc = "closed"
      BY DEF Open
    <3>. QED  BY <1>1, <3>1, <3>2, <3>3, <3>4, <3>5 DEF Next
  <2>3. Head(todo) \in EventsAskedFor /\ Applicable(memory, Head(todo))
    BY <1>1, <2>2, HeadApplies DEF AppendEvent
  <2>4. memory' = Apply(memory, Head(todo)) /\ events' = Append(events, Head(todo))
    BY <2>2, <2>3 DEF AppendEvent
  <2>5. e = Head(todo)
    BY <2>1, <2>3, <2>4 DEF Histories, EventsAskedFor
  <2> HIDE DEF e
  <2>. QED  BY <2>1, <2>3, <2>4, <2>5, ApplyKeepsPast
<1>2. ASSUME IInv, UNCHANGED vars PROVE Fixed
  <2>1. Len(events') = Len(events) /\ Len(events) \in Nat
    BY <1>2 DEF vars, IInv, Types, Histories
  <2>. QED  BY <2>1
<1>3. IInv /\ [Next]_vars => Fixed
  BY <1>1, <1>2
<1>. QED  BY <1>3, Invariance, PTL DEF Spec, PastIsFixed

=============================================================================
