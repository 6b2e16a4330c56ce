--------------------------- MODULE ClaimStoreProofs ---------------------------
(****************************************************************************)
(* Theorems about ClaimStore, for every set of claims and verdicts, every   *)
(* history and any number of crashes and torn lines.                        *)
(****************************************************************************)
EXTENDS ClaimStore, ClaimEventsProofs, SequenceTheorems

-----------------------------------------------------------------------------
(* The file operators keep their types *)

(* Writing a chunk keeps a file a file and never shortens it (_append). *)
LEMMA WriteType ==
    ASSUME NEW file \in Seq(Line(Events)),
           NEW chunk \in Events \cup {Torn},
           NEW nl \in BOOLEAN
    PROVE  /\ Write(file, chunk, nl) \in Seq(Line(Events))
           /\ Len(Write(file, chunk, nl)) >= Len(file)
           /\ Len(Write(file, chunk, nl)) >= 1
<1> DEFINE n == Len(file)
<1>1. CASE n = 0 \/ file[n].nl
    <2>1. [body |-> <<chunk>>, nl |-> nl] \in Line(Events)
        BY DEF Line
    <2> QED BY <1>1, <2>1 DEF Write
<1>2. CASE ~(n = 0 \/ file[n].nl)
    <2>1. n \in 1..Len(file)
        BY <1>2
    <2>2. file[n] \in Line(Events)
        BY <2>1
    <2>3. [body |-> Append(file[n].body, chunk), nl |-> nl] \in Line(Events)
        BY <2>2 DEF Line
    <2> QED BY <1>2, <2>1, <2>3 DEF Write
<1> QED BY <1>1, <1>2

(* The hashed part of a file is a file (_committed_log_sha256). *)
LEMMA HashedLinesType ==
    ASSUME NEW file \in Seq(Line(Events))
    PROVE  HashedLines(file) \in Seq(Line(Events))
BY DEF HashedLines

(* A line that parses holds an event. *)
LEMMA ParsedEvent ==
    ASSUME NEW file \in Seq(Line(Events)), NEW i \in DOMAIN file, Parses(file[i])
    PROVE  EventOf(file[i]) \in Events
<1>1. file[i] \in Line(Events)
    OBVIOUS
<1> QED BY <1>1 DEF Line, Parses, EventOf

-----------------------------------------------------------------------------
(* The derived state keeps its type and follows the history *)

(* Only ingestions and state changes are about a record. *)
LEMMA TouchesOnlyRecords ==
    ASSUME NEW e \in Events, NEW c \in Claims
    PROVE  Touches(e, c) <=> e \in IngestEvents \cup StateChanges /\ e.claim = c
BY DEF Events, IngestEvents, StateChanges, VerificationEvents, Touches

(* The last event about a claim decides its lifecycle. *)
LEMMA LifecycleStep ==
    ASSUME NEW m \in Memories, NEW h \in Seq(Events), NEW e \in Events,
           LifecycleMatches(m, h)
    PROVE  LifecycleMatches(ApplyEvent(m, e), Append(h, e))
<1> DEFINE n == ApplyEvent(m, e)
           g == Append(h, e)
<1> SUFFICES ASSUME NEW c \in Claims
             PROVE  \/ /\ n.lifecycle[c] = "ABSENT"
                       /\ \A i \in DOMAIN g : ~Touches(g[i], c)
                    \/ \E i \in DOMAIN g :
                           /\ Touches(g[i], c)
                           /\ n.lifecycle[c] = Outcome(g[i])
                           /\ \A j \in (i + 1)..Len(g) : ~Touches(g[j], c)
    BY DEF LifecycleMatches
<1>1. /\ Len(g) = Len(h) + 1 /\ DOMAIN g = 1..Len(g) /\ DOMAIN h = 1..Len(h)
      /\ g[Len(g)] = e
      /\ \A i \in 1..Len(h) : g[i] = h[i]
    OBVIOUS
<1>2. CASE Touches(e, c)
    <2>1. e \in IngestEvents \cup StateChanges /\ e.claim = c
        BY <1>2, TouchesOnlyRecords
    <2>2. n.lifecycle = [m.lifecycle EXCEPT ![c] = Outcome(e)]
        BY <2>1, ApplyToRecords
    <2>3. n.lifecycle[c] = Outcome(e)
        BY <2>2 DEF Memories
    <2> HIDE DEF n, g
    <2> QED BY <1>1, <1>2, <2>3
<1>3. CASE ~Touches(e, c)
    <2>1. n.lifecycle[c] = m.lifecycle[c]
        <3>1. CASE e \in IngestEvents \cup StateChanges
            <4>1. e.claim # c
                BY <1>3, <3>1, TouchesOnlyRecords
            <4>2. n.lifecycle = [m.lifecycle EXCEPT ![e.claim] = Outcome(e)]
                BY <3>1, ApplyToRecords
            <4> QED BY <4>1, <4>2 DEF Memories
        <3>2. CASE e \in VerificationEvents
            BY <3>2, ApplyToVerdicts
        <3> QED BY <3>1, <3>2 DEF Events
    <2>2. CASE m.lifecycle[c] = "ABSENT" /\ \A i \in DOMAIN h : ~Touches(h[i], c)
        <3> HIDE DEF n, g
        <3> QED BY <1>1, <1>3, <2>1, <2>2
    <2>3. ASSUME NEW i \in DOMAIN h,
                 Touches(h[i], c),
                 m.lifecycle[c] = Outcome(h[i]),
                 \A j \in (i + 1)..Len(h) : ~Touches(h[j], c)
          PROVE  \E k \in DOMAIN g :
                    /\ Touches(g[k], c)
                    /\ n.lifecycle[c] = Outcome(g[k])
                    /\ \A j \in (k + 1)..Len(g) : ~Touches(g[j], c)
        <3>1. i \in DOMAIN g /\ g[i] = h[i]
            BY <1>1
        <3>2. \A j \in (i + 1)..Len(g) : ~Touches(g[j], c)
            <4> HIDE DEF n, g
            <4> QED BY <1>1, <1>3, <2>3
        <3> HIDE DEF n, g
        <3> QED BY <2>1, <2>3, <3>1, <3>2
    <2> QED BY <2>2, <2>3 DEF LifecycleMatches
<1> QED BY <1>2, <1>3

(* The claim-key index follows the lifecycle (_index_claim_key). *)
LEMMA IndexStep ==
    ASSUME NEW m \in Memories, NEW e \in Events, IndexMatches(m)
    PROVE  IndexMatches(ApplyEvent(m, e))
<1> DEFINE n == ApplyEvent(m, e)
<1> SUFFICES IndexMatches(n)
    OBVIOUS
<1>1. CASE e \in VerificationEvents
    <2>1. n.lifecycle = m.lifecycle /\ n.active = m.active
        BY <1>1, ApplyToVerdicts
    <2>2. Retrievable(n) = Retrievable(m)
        BY <2>1 DEF Retrievable
    <2> HIDE DEF n
    <2> QED BY <2>1, <2>2 DEF IndexMatches
<1>2. CASE e \in IngestEvents \cup StateChanges
    <2> DEFINE x == e.claim
    <2>1. x \in Claims
        BY <1>2 DEF IngestEvents, StateChanges
    <2>2. Outcome(e) = "ACTIVE" \/ Outcome(e) \in NonRetrievable
        BY <1>2 DEF IngestEvents, StateChanges, Outcome
    <2>3. /\ n.lifecycle = [m.lifecycle EXCEPT ![x] = Outcome(e)]
          /\ n.active = [m.active EXCEPT ![ClaimKey[x]] =
                            IF Outcome(e) \in NonRetrievable THEN @ \ {x} ELSE @ \cup {x}]
        BY <1>2, ApplyToRecords
    <2>4. m.lifecycle \in [Claims -> Lifecycles] /\ m.active \in [Keys -> SUBSET Claims]
        BY DEF Memories
    <2>5. Retrievable(n) = IF Outcome(e) = "ACTIVE" THEN Retrievable(m) \cup {x}
                                                   ELSE Retrievable(m) \ {x}
        <3> HIDE DEF n, x
        <3> QED BY <2>1, <2>2, <2>3, <2>4 DEF Retrievable
    <2>6. ASSUME NEW k \in Keys
          PROVE  n.active[k] = {c \in Retrievable(n) : ClaimKey[c] = k}
        <3>1. m.active[k] = {c \in Retrievable(m) : ClaimKey[c] = k}
            BY DEF IndexMatches
        <3>2. n.active[k] = IF ClaimKey[x] # k THEN m.active[k]
                            ELSE IF Outcome(e) \in NonRetrievable
                                 THEN m.active[k] \ {x} ELSE m.active[k] \cup {x}
            <4> HIDE DEF n, x
            <4> QED BY <2>3, <2>4
        <3>3. "ACTIVE" \notin NonRetrievable
            BY DEF NonRetrievable
        <3> HIDE DEF n, x
        <3> QED BY <2>1, <2>2, <2>5, <3>1, <3>2, <3>3
    <2> QED BY <2>6 DEF IndexMatches
<1> QED BY <1>1, <1>2 DEF Events

(* A verdict is filed under its claim once, however often it is read (V11). *)
LEMMA VerdictsStep ==
    ASSUME NEW m \in Memories, NEW h \in Seq(Events), NEW e \in Events,
           VerdictsMatch(m, h)
    PROVE  VerdictsMatch(ApplyEvent(m, e), Append(h, e))
<1> DEFINE n == ApplyEvent(m, e)
           g == Append(h, e)
           In(s, v) == \E i \in DOMAIN s : s[i] = VerificationEvent(v)
<1> SUFFICES VerdictsMatch(n, g)
    OBVIOUS
<1>1. \A v : In(g, v) <=> In(h, v) \/ e = VerificationEvent(v)
    <2>1. /\ Len(g) = Len(h) + 1 /\ DOMAIN g = 1..Len(g) /\ DOMAIN h = 1..Len(h)
          /\ g[Len(g)] = e /\ Len(h) \in Nat
          /\ \A i \in 1..Len(h) : g[i] = h[i]
        OBVIOUS
    <2> HIDE DEF g
    <2> QED BY <2>1
<1>2. /\ m.verdicts \in [Claims -> Seq(Verdicts)]
      /\ m.verdictIds \subseteq Verdicts
    BY DEF Memories
<1>3. CASE e \in IngestEvents \cup StateChanges
    <2>1. n.verdicts = m.verdicts /\ n.verdictIds = m.verdictIds /\ n.jobIds = m.jobIds
        BY <1>3, ApplyToRecords
    <2>2. \A v : e # VerificationEvent(v)
        BY <1>3 DEF IngestEvents, StateChanges, VerificationEvent
    <2>3. \A v : In(g, v) <=> In(h, v)
        BY <1>1, <2>2
    <2>4. n.verdictIds = {v \in Verdicts : In(g, v)}
        BY <2>1, <2>3 DEF VerdictsMatch
    <2>5. \A c \in Claims : VerdictsOn(n, c) = VerdictsOn(m, c)
        BY <2>1 DEF VerdictsOn
    <2> HIDE DEF n
    <2> QED BY <2>1, <2>4, <2>5 DEF VerdictsMatch
<1>4. CASE e \in VerificationEvents
    <2> DEFINE u == e.verdict
               x == VerdictOf[u].claim
    <2>1. u \in Verdicts /\ \A v : e = VerificationEvent(v) <=> v = u
        BY <1>4 DEF VerificationEvents, VerificationEvent
    <2>2. x \in Claims
        BY <2>1, EventConstants DEF Determinations
    <2>3. \A v : In(g, v) <=> In(h, v) \/ v = u
        BY <1>1, <2>1
    <2>4. m.verdictIds = {v \in Verdicts : In(h, v)}
        BY DEF VerdictsMatch
    <2>5. CASE u \in m.verdictIds
        <3>1. n.verdicts = m.verdicts /\ n.verdictIds = m.verdictIds /\ n.jobIds = m.jobIds
            BY <1>4, <2>5, ApplyToVerdicts
        <3>2. n.verdictIds = {v \in Verdicts : In(g, v)}
            <4> HIDE DEF n, g, In, u
            <4> QED BY <2>3, <2>4, <2>5, <3>1
        <3>3. \A c \in Claims : VerdictsOn(n, c) = VerdictsOn(m, c)
            BY <3>1 DEF VerdictsOn
        <3> HIDE DEF n
        <3> QED BY <3>1, <3>2, <3>3 DEF VerdictsMatch
    <2>6. CASE u \notin m.verdictIds
        <3>1. /\ n.verdicts = [m.verdicts EXCEPT ![x] = Append(@, u)]
              /\ n.verdictIds = m.verdictIds \cup {u}
              /\ n.jobIds = m.jobIds \cup ({VerdictOf[u].job} \ {None})
            BY <1>4, <2>6, ApplyToVerdicts
        <3>2. n.verdictIds = {v \in Verdicts : In(g, v)}
            <4> HIDE DEF n, g, In, u
            <4> QED BY <2>1, <2>3, <2>4, <3>1
        <3>3. n.jobIds = {VerdictOf[v].job : v \in n.verdictIds} \ {None}
            <4>1. m.jobIds = {VerdictOf[v].job : v \in m.verdictIds} \ {None}
                BY DEF VerdictsMatch
            <4> HIDE DEF n, u
            <4> QED BY <3>1, <4>1
        <3>4. ASSUME NEW c \in Claims
              PROVE  /\ VerdictsOn(n, c) = {v \in n.verdictIds : VerdictOf[v].claim = c}
                     /\ \A i, j \in DOMAIN n.verdicts[c] :
                            n.verdicts[c][i] = n.verdicts[c][j] => i = j
            <4>1. /\ VerdictsOn(m, c) = {v \in m.verdictIds : VerdictOf[v].claim = c}
                  /\ \A i, j \in DOMAIN m.verdicts[c] :
                        m.verdicts[c][i] = m.verdicts[c][j] => i = j
                BY DEF VerdictsMatch
            <4>2. CASE c # x
                <5>1. n.verdicts[c] = m.verdicts[c]
                    BY <1>2, <3>1, <4>2
                <5>2. VerdictsOn(n, c) = VerdictsOn(m, c)
                    BY <5>1 DEF VerdictsOn
                <5> HIDE DEF n, u
                <5> QED BY <3>1, <4>1, <4>2, <5>1, <5>2 DEF x
            <4>3. CASE c = x
                <5> DEFINE old == m.verdicts[c]
                           new == n.verdicts[c]
                <5>1. new = Append(old, u) /\ old \in Seq(Verdicts)
                    BY <1>2, <3>1, <4>3
                <5>2. /\ DOMAIN new = 1..(Len(old) + 1) /\ DOMAIN old = 1..Len(old)
                      /\ new[Len(old) + 1] = u /\ Len(old) \in Nat
                      /\ \A i \in 1..Len(old) : new[i] = old[i]
                    <6> HIDE DEF new, old
                    <6> QED BY <2>1, <5>1
                <5>3. VerdictsOn(n, c) = {new[i] : i \in DOMAIN new}
                    BY DEF VerdictsOn
                <5>4. VerdictsOn(m, c) = {old[i] : i \in DOMAIN old}
                    BY DEF VerdictsOn
                <5>5. VerdictsOn(n, c) = VerdictsOn(m, c) \cup {u}
                    <6> HIDE DEF new, old, n
                    <6> QED BY <5>2, <5>3, <5>4
                <5>6. \A i \in 1..Len(old) : old[i] # u
                    <6> HIDE DEF new, old, n, u
                    <6> QED BY <2>6, <4>1, <5>2, <5>4
                <5>7. \A i, j \in DOMAIN new : new[i] = new[j] => i = j
                    <6>1. \A i, j \in DOMAIN old : old[i] = old[j] => i = j
                        BY <4>1
                    <6> HIDE DEF new, old, n, u
                    <6> QED BY <5>2, <5>6, <6>1
                <5>8. VerdictsOn(n, c) = {v \in n.verdictIds : VerdictOf[v].claim = c}
                    <6> HIDE DEF new, old, n, u
                    <6> QED BY <3>1, <4>1, <4>3, <5>5 DEF x
                <5> QED BY <5>7, <5>8
            <4> QED BY <4>2, <4>3
        <3> HIDE DEF n
        <3> QED BY <3>2, <3>3, <3>4 DEF VerdictsMatch
    <2> QED BY <2>5, <2>6
<1> QED BY <1>3, <1>4 DEF Events

(* One event, live or replayed, keeps memory and history together. *)
LEMMA MatchesStep ==
    ASSUME NEW m \in Memories, NEW h \in Seq(Events), NEW e \in Events, Matches(m, h)
    PROVE  Matches(ApplyEvent(m, e), Append(h, e))
<1>1. ApplyEvent(m, e).version = m.version + 1
    BY ApplyToRecords, ApplyToVerdicts DEF Events
<1>2. Len(Append(h, e)) = Len(h) + 1
    OBVIOUS
<1> QED BY <1>1, <1>2, LifecycleStep, IndexStep, VerdictsStep DEF Matches

(* A store without events has the memory of the empty log. *)
LEMMA EmptyMatches == Matches(EmptyMemory, <<>>)
BY DEF EmptyMemory, Matches, LifecycleMatches, IndexMatches, Retrievable, VerdictsMatch, VerdictsOn

-----------------------------------------------------------------------------
(* Type correctness *)

(* Every event a caller can ask for is an event. *)
LEMMA EventTypes ==
    /\ \A c \in Claims, p \in Claims \cup {None} : IngestEvent(c, p) \in Events
    /\ \A c \in Claims, s \in NonRetrievable, p \in Claims \cup {None} :
            StateChange(c, s, p) \in Events
    /\ \A v \in Verdicts : VerificationEvent(v) \in Events
BY DEF Events, IngestEvents, StateChanges, VerificationEvents,
       IngestEvent, StateChange, VerificationEvent

(* Starting an operation only lists its events. *)
LEMMA StartType ==
    ASSUME NEW events \in Seq(Events), events # <<>>, TypeOK, Start(events)
    PROVE  TypeOK'
BY DEF TypeOK, Start, PCs, disk, history

(* The end of an append (ingest, retract, append_verification). *)
LEMMA ReturnType ==
    ASSUME TypeOK, Return
    PROVE  /\ pc' \in PCs
           /\ todo' \in Seq(Events)
           /\ pc' \in {"Appending", "Anchoring"} => todo' # <<>>
           /\ durable' \in Seq(Events)
<1>1. todo \in Seq(Events) /\ applied \in Seq(Events) /\ durable \in Seq(Events)
    BY DEF TypeOK
<1>2. todo # <<>> => Tail(todo) \in Seq(Events)
    BY <1>1
<1>3. Len(todo) > 1 => todo # <<>> /\ Tail(todo) # <<>>
    <2> SUFFICES ASSUME Len(todo) > 1 PROVE todo # <<>> /\ Tail(todo) # <<>>
        OBVIOUS
    <2>1. todo # <<>>
        BY <1>1
    <2>2. Len(Tail(todo)) = Len(todo) - 1
        BY <1>1, <2>1, HeadTailProperties
    <2>3. Len(Tail(todo)) > 0
        BY <1>1, <2>2
    <2>4. ASSUME Tail(todo) = <<>> PROVE FALSE
        BY <2>3, <2>4
    <2> QED BY <2>1, <2>4
<1> QED BY <1>1, <1>2, <1>3 DEF Return, PCs

(* A crash that leaves well-typed lines leaves a well-typed store. *)
LEMMA LoseMemoryType ==
    ASSUME TypeOK, LoseMemory, log' \in Seq(Line(Events))
    PROVE  TypeOK'
<1>1. <<>> \in Seq(Line(Events)) /\ <<>> \in Seq(Events)
    OBVIOUS
<1>2. 0 \in 0..Len(log')
    OBVIOUS
<1>3. mem' \in Memories
    BY EmptyMemoryType DEF LoseMemory
<1> QED BY <1>1, <1>2, <1>3 DEF TypeOK, LoseMemory, PCs

(* Every step keeps the types of the variables. *)
THEOREM TypeCorrect == Spec => []TypeOK
<1>1. Init => TypeOK
    <2> SUFFICES ASSUME Init PROVE TypeOK
        OBVIOUS
    <2>1. <<>> \in Seq(Line(Events)) /\ <<>> \in Seq(Events) /\ 0 \in 0..Len(<<>>)
        OBVIOUS
    <2>2. mem \in Memories
        BY EmptyMemoryType DEF Init
    <2> QED BY <2>1, <2>2 DEF Init, TypeOK, NoManifest, NoSnapshot, PCs
<1>2. TypeOK /\ [Next]_vars => TypeOK'
    <2> SUFFICES ASSUME TypeOK, [Next]_vars PROVE TypeOK'
        OBVIOUS
    <2>1. CASE Open
        BY <2>1, HashedLinesType DEF TypeOK, Open, PCs, disk, history
    <2>2. CASE OpenRefused
        BY <2>2 DEF TypeOK, OpenRefused, PCs, disk, history
    <2>3. CASE ReplayLine
        <3> DEFINE e == EventOf(log[pos + 1])
        <3>1. pos + 1 \in DOMAIN log
            BY <2>3 DEF ReplayLine, TypeOK
        <3>2. e \in Events
            BY <2>3, <3>1, ParsedEvent DEF ReplayLine, TypeOK
        <3>3. mem' \in Memories /\ applied' \in Seq(Events)
            BY <2>3, <3>2, ApplyType DEF ReplayLine, TypeOK
        <3>4. pos' \in 0..Len(log)
            BY <2>3 DEF ReplayLine, TypeOK
        <3> QED BY <2>3, <3>3, <3>4 DEF ReplayLine, TypeOK, disk
    <2>4. CASE ReplayTornTail
        BY <2>4 DEF TypeOK, ReplayTornTail, disk, history
    <2>5. CASE ReplayRefused
        BY <2>5 DEF TypeOK, ReplayRefused, PCs, disk, history
    <2>6. CASE ReplayDone
        BY <2>6 DEF TypeOK, ReplayDone, PCs, disk, history
    <2>7. ASSUME NEW c \in Claims, Ingest(c) PROVE TypeOK'
        BY <2>7, StartType, EventTypes DEF Ingest
    <2>8. ASSUME NEW c \in Claims, NEW p \in Claims, IngestSuperseding(c, p) PROVE TypeOK'
        <3>1. <<IngestEvent(c, p), StateChange(p, "SUPERSEDED", c)>> \in Seq(Events)
            BY EventTypes DEF NonRetrievable
        <3> QED BY <2>8, <3>1, StartType DEF IngestSuperseding
    <2>9. ASSUME NEW c \in Claims, Retract(c) PROVE TypeOK'
        <3>1. <<StateChange(c, "RETRACTED", None)>> \in Seq(Events)
            BY EventTypes DEF NonRetrievable
        <3> QED BY <2>9, <3>1, StartType DEF Retract
    <2>10. ASSUME NEW v \in Verdicts, AppendVerification(v) \/ AppendExternalVerification(v)
           PROVE  TypeOK'
        <3>1. <<VerificationEvent(v)>> \in Seq(Events)
            BY EventTypes
        <3> QED BY <2>10, <3>1, StartType DEF AppendVerification, AppendExternalVerification
    <2>11. CASE AppendLine
        <3>1. todo # <<>> /\ Head(todo) \in Events
            BY <2>11 DEF AppendLine, TypeOK
        <3>2. mem' \in Memories
            BY <2>11, <3>1, ApplyType DEF AppendLine, TypeOK
        <3>3. /\ log' \in Seq(Line(Events)) /\ hasher' \in Seq(Line(Events))
              /\ Len(log') >= Len(log)
            BY <2>11, <3>1, WriteType DEF AppendLine, TypeOK
        <3>4. pos \in 0..Len(log')
            BY <3>3 DEF TypeOK
        <3>5. applied' \in Seq(Events)
            BY <2>11, <3>1 DEF AppendLine, TypeOK
        <3> QED BY <2>11, <3>1, <3>2, <3>3, <3>4, <3>5 DEF AppendLine, TypeOK, PCs
    <2>12. CASE Anchor
        <3>1. /\ manifest'.present \in BOOLEAN /\ manifest'.version \in Nat
              /\ manifest'.hash \in Seq(Line(Events))
            BY <2>12 DEF Anchor, WriteManifest, TypeOK, Memories
        <3>2. CASE AutoSnapshot
            BY <2>12, <3>1, <3>2 DEF Anchor, TypeOK, PCs
        <3>3. CASE ~AutoSnapshot
            BY <2>12, <3>1, <3>3, ReturnType DEF Anchor, TypeOK
        <3> QED BY <3>2, <3>3
    <2>13. CASE PublishSnapshot
        <3>1. /\ snapshot'.present \in BOOLEAN /\ snapshot'.version \in Nat
              /\ snapshot'.hash \in Seq(Line(Events)) /\ snapshot'.active \in SUBSET Claims
            BY <2>13 DEF PublishSnapshot, TypeOK, Memories, Retrievable
        <3> QED BY <2>13, <3>1 DEF PublishSnapshot, TypeOK, PCs, history
    <2>14. CASE Seal
        <3>1. /\ manifest'.present \in BOOLEAN /\ manifest'.version \in Nat
              /\ manifest'.hash \in Seq(Line(Events))
            BY <2>14 DEF Seal, WriteManifest, TypeOK, Memories
        <3> QED BY <2>14, <3>1, ReturnType DEF Seal, TypeOK
    <2>15. CASE Crash
        BY <2>15, LoseMemoryType DEF Crash, TypeOK
    <2>16. CASE CrashTornAppend
        <3>1. Head(todo) \in Events
            BY <2>16 DEF CrashTornAppend, TypeOK
        <3>2. log' \in Seq(Line(Events))
            BY <2>16, <3>1, WriteType DEF CrashTornAppend, TypeOK
        <3> QED BY <2>16, <3>2, LoseMemoryType DEF CrashTornAppend
    <2>17. CASE UNCHANGED vars
        BY <2>17 DEF vars, TypeOK
    <2> QED BY <2>1, <2>2, <2>3, <2>4, <2>5, <2>6, <2>7, <2>8, <2>9, <2>10, <2>11,
               <2>12, <2>13, <2>14, <2>15, <2>16, <2>17 DEF Next
<1> QED BY <1>1, <1>2, PTL DEF Spec

-----------------------------------------------------------------------------
(* Memory follows the history *)

(* A step applies one event to memory, or forgets everything, or leaves both. *)
LEMMA MemorySteps ==
    ASSUME TypeOK, Next
    PROVE  \/ \E e \in Events : mem' = ApplyEvent(mem, e) /\ applied' = Append(applied, e)
           \/ mem' = EmptyMemory /\ applied' = <<>>
           \/ UNCHANGED <<mem, applied>>
<1>1. CASE Open \/ OpenRefused \/ ReplayTornTail \/ ReplayRefused \/ ReplayDone
    BY <1>1 DEF Open, OpenRefused, ReplayTornTail, ReplayRefused, ReplayDone, history
<1>2. CASE ReplayLine
    <2>1. pos + 1 \in DOMAIN log
        BY <1>2 DEF ReplayLine, TypeOK
    <2>2. EventOf(log[pos + 1]) \in Events
        BY <1>2, <2>1, ParsedEvent DEF ReplayLine, TypeOK
    <2> QED BY <1>2, <2>2 DEF ReplayLine
<1>3. CASE \/ \E c \in Claims : Ingest(c) \/ (\E p \in Claims : IngestSuperseding(c, p)) \/ Retract(c)
           \/ \E v \in Verdicts : AppendVerification(v) \/ AppendExternalVerification(v)
    BY <1>3 DEF Ingest, IngestSuperseding, Retract, AppendVerification,
                AppendExternalVerification, Start, history
<1>4. CASE AppendLine
    <2>1. Head(todo) \in Events
        BY <1>4 DEF AppendLine, TypeOK
    <2> QED BY <1>4, <2>1 DEF AppendLine
<1>5. CASE Anchor \/ PublishSnapshot \/ Seal
    BY <1>5 DEF Anchor, PublishSnapshot, Seal, history
<1>6. CASE Crash \/ CrashTornAppend
    BY <1>6 DEF Crash, CrashTornAppend, LoseMemory
<1> QED BY <1>1, <1>2, <1>3, <1>4, <1>5, <1>6 DEF Next

(* Memory is what the events dictate, whatever was replayed, torn or lost. *)
THEOREM MemoryFollowsHistory == Spec => []MemoryMatchesHistory
<1>1. Init => MemoryMatchesHistory
    BY EmptyMatches DEF Init, MemoryMatchesHistory
<1>2. TypeOK /\ MemoryMatchesHistory /\ [Next]_vars => MemoryMatchesHistory'
    <2> SUFFICES ASSUME TypeOK, MemoryMatchesHistory, [Next]_vars
                 PROVE  MemoryMatchesHistory'
        OBVIOUS
    <2>1. CASE UNCHANGED vars
        BY <2>1 DEF vars, MemoryMatchesHistory
    <2>2. ASSUME NEW e \in Events, mem' = ApplyEvent(mem, e), applied' = Append(applied, e)
          PROVE  MemoryMatchesHistory'
        <3>1. Matches(ApplyEvent(mem, e), Append(applied, e))
            BY MatchesStep DEF TypeOK, MemoryMatchesHistory
        <3> QED BY <2>2, <3>1 DEF MemoryMatchesHistory
    <2>3. CASE mem' = EmptyMemory /\ applied' = <<>>
        BY <2>3, EmptyMatches DEF MemoryMatchesHistory
    <2>4. CASE UNCHANGED <<mem, applied>>
        BY <2>4 DEF MemoryMatchesHistory
    <2> QED BY <2>1, <2>2, <2>3, <2>4, MemorySteps
<1> QED BY <1>1, <1>2, TypeCorrect, PTL DEF Spec

-----------------------------------------------------------------------------
(* Nothing acknowledged is lost while lines reach the disk whole *)

(* Every line is one event, and what a process that has opened the store holds
   is the whole log; while it replays, the part it has read.  The acknowledged
   events are a prefix of the log. *)
WholeLines == \A i \in DOMAIN log : log[i].nl /\ Parses(log[i])

Opened == {"Idle", "Appending", "Anchoring", "Publishing", "Sealing"}

HoldsFirst(n) == Len(applied) = n /\ \A i \in 1..n : applied[i] = EventOf(log[i])

DurableInLog ==
    Len(durable) <= Len(log) /\ \A i \in DOMAIN durable : durable[i] = EventOf(log[i])

LogInv ==
    /\ WholeLines
    /\ DurableInLog
    /\ pc = "Replaying" => HoldsFirst(pos)
    /\ pc \in Opened => HoldsFirst(Len(log))
    /\ pc = "Down" => applied = <<>> /\ pos = 0

(* A torn line is never mistaken for an event. *)
LEMMA TornIsNoEvent == Torn \notin Events
BY DEF Torn, Events, IngestEvents, StateChanges, VerificationEvents

(* A whole line written to a whole file is one more line (_append). *)
LEMMA WriteWhole ==
    ASSUME TypeOK, WholeLines, NEW e \in Events
    PROVE  LET file == Write(log, e, TRUE) IN
           /\ Len(file) = Len(log) + 1
           /\ file[Len(file)].nl /\ Parses(file[Len(file)]) /\ EventOf(file[Len(file)]) = e
           /\ \A i \in 1..Len(log) : file[i] = log[i]
<1> DEFINE line == [body |-> <<e>>, nl |-> TRUE]
           file == Write(log, e, TRUE)
<1>1. log \in Seq(Line(Events))
    BY DEF TypeOK
<1>2. Len(log) = 0 \/ log[Len(log)].nl
    BY <1>1 DEF WholeLines
<1>3. file = Append(log, line)
    BY <1>2 DEF Write
<1>4. line.nl /\ Parses(line) /\ EventOf(line) = e
    BY TornIsNoEvent DEF Parses, EventOf
<1>5. line \in Line(Events)
    BY DEF Line
<1> SUFFICES /\ Len(file) = Len(log) + 1
             /\ file[Len(file)].nl /\ Parses(file[Len(file)]) /\ EventOf(file[Len(file)]) = e
             /\ \A i \in 1..Len(log) : file[i] = log[i]
    OBVIOUS
<1> HIDE DEF line, file
<1>6. Len(file) = Len(log) + 1 /\ file[Len(log) + 1] = line
    BY <1>1, <1>3, <1>5
<1>7. \A i \in 1..Len(log) : file[i] = log[i]
    BY <1>1, <1>3, <1>5
<1> QED BY <1>4, <1>6, <1>7

(* The append moves log and applied together. *)
LEMMA AppendKeepsLogInv ==
    ASSUME TypeOK, LogInv, AppendLine
    PROVE  LogInv'
<1> DEFINE e == Head(todo)
<1>1. e \in Events
    BY DEF AppendLine, TypeOK
<1>2. WholeLines /\ DurableInLog /\ HoldsFirst(Len(log))
    BY DEF LogInv, AppendLine, Opened
<1>3. /\ log' = Write(log, e, TRUE) /\ applied' = Append(applied, e)
      /\ pc' = "Anchoring" /\ durable' = durable
    BY DEF AppendLine
<1>4. /\ Len(log') = Len(log) + 1
      /\ log'[Len(log')].nl /\ Parses(log'[Len(log')]) /\ EventOf(log'[Len(log')]) = e
      /\ \A i \in 1..Len(log) : log'[i] = log[i]
    BY <1>1, <1>2, <1>3, WriteWhole
<1>5. log \in Seq(Line(Events)) /\ applied \in Seq(Events) /\ durable \in Seq(Events)
    BY DEF TypeOK
<1>6. log' \in Seq(Line(Events))
    BY <1>1, <1>3, <1>5, WriteType
<1> HIDE DEF e
<1>7. WholeLines'
    <2> SUFFICES ASSUME NEW i \in DOMAIN log'
                 PROVE  log'[i].nl /\ Parses(log'[i])
        BY DEF WholeLines
    <2>1. CASE i = Len(log')
        BY <2>1, <1>4
    <2>2. CASE i \in 1..Len(log)
        BY <2>2, <1>2, <1>4, <1>5 DEF WholeLines
    <2> QED BY <2>1, <2>2, <1>4, <1>5, <1>6
<1>8. DurableInLog'
    <2> SUFFICES /\ Len(durable) <= Len(log')
                 /\ \A i \in DOMAIN durable : durable[i] = EventOf(log'[i])
        BY <1>3 DEF DurableInLog
    <2>1. Len(durable) <= Len(log) /\ \A i \in DOMAIN durable : durable[i] = EventOf(log[i])
        BY <1>2 DEF DurableInLog
    <2>2. Len(durable) <= Len(log')
        BY <2>1, <1>4, <1>5
    <2>3. \A i \in DOMAIN durable : log'[i] = log[i]
        BY <2>1, <1>4, <1>5
    <2> QED BY <2>1, <2>2, <2>3
<1>9. HoldsFirst(Len(log))'
    <2>0. Len(applied) = Len(log)
        BY <1>2 DEF HoldsFirst
    <2>a. applied' = Append(applied, e)
        BY <1>3
    <2>b. Len(applied') = Len(applied) + 1 /\ applied'[Len(applied) + 1] = e
        BY <2>a, <1>1, <1>5
    <2>1. Len(applied') = Len(log')
        BY <2>0, <2>b, <1>4
    <2>2. applied'[Len(log')] = e
        BY <2>0, <2>b, <1>4
    <2>3. \A i \in 1..Len(log) : applied'[i] = EventOf(log'[i])
        <3> TAKE i \in 1..Len(log)
        <3>1. applied'[i] = applied[i]
            BY <2>0, <1>1, <1>3, <1>5
        <3>2. applied[i] = EventOf(log[i])
            BY <1>2 DEF HoldsFirst
        <3> QED BY <3>1, <3>2, <1>4
    <2> SUFFICES \A i \in 1..Len(log') : applied'[i] = EventOf(log'[i])
        BY <2>1 DEF HoldsFirst
    <2> TAKE i \in 1..Len(log')
    <2>4. CASE i = Len(log')
        BY <2>4, <2>2, <1>4
    <2>5. CASE i \in 1..Len(log)
        BY <2>5, <2>3
    <2> QED BY <2>4, <2>5, <1>4, <1>5
<1> QED BY <1>3, <1>7, <1>8, <1>9 DEF LogInv

(* Replaying a line of a whole log reads one more event into memory. *)
LEMMA ReplayKeepsLogInv ==
    ASSUME TypeOK, LogInv, ReplayLine
    PROVE  LogInv'
<1> DEFINE e == EventOf(log[pos + 1])
<1>1. /\ pc = "Replaying" /\ pc' = pc /\ pos < Len(log) /\ pos' = pos + 1
      /\ log' = log /\ durable' = durable /\ applied' = Append(applied, e)
    BY DEF ReplayLine, disk
<1>2. HoldsFirst(pos) /\ WholeLines /\ DurableInLog
    BY <1>1 DEF LogInv
<1>3. log \in Seq(Line(Events)) /\ applied \in Seq(Events) /\ pos \in Nat
    BY DEF TypeOK
<1>4. e \in Events
    <2>1. pos + 1 \in DOMAIN log
        BY <1>1, <1>3
    <2> QED BY <1>3, <2>1, ParsedEvent DEF ReplayLine
<1>5. Len(applied) = pos /\ \A i \in 1..pos : applied[i] = EventOf(log[i])
    BY <1>2 DEF HoldsFirst
<1>6. HoldsFirst(pos)'
    <2>1. Len(applied') = pos + 1 /\ applied'[pos + 1] = e
        <3> HIDE DEF e
        <3> QED BY <1>1, <1>3, <1>4, <1>5
    <2>2. \A i \in 1..pos : applied'[i] = applied[i]
        <3> HIDE DEF e
        <3> QED BY <1>1, <1>3, <1>4, <1>5
    <2>3. ASSUME NEW i \in 1..(pos + 1)
          PROVE  applied'[i] = EventOf(log[i])
        <3>1. CASE i = pos + 1
            BY <3>1, <2>1
        <3>2. CASE i \in 1..pos
            BY <3>2, <2>2, <1>5
        <3> QED BY <3>1, <3>2, <1>3
    <2> QED BY <2>1, <2>3, <1>1 DEF HoldsFirst
<1> QED BY <1>1, <1>2, <1>6 DEF LogInv, WholeLines, DurableInLog, Opened

(* When an operation returns, what is acknowledged is what memory holds. *)
LEMMA ReturnKeepsLogInv ==
    ASSUME TypeOK, LogInv, pc \in Opened, UNCHANGED <<log, applied>>, pc' \in Opened,
           durable' \in {applied, durable}
    PROVE  LogInv'
<1>1. HoldsFirst(Len(log)) /\ WholeLines /\ DurableInLog
    BY DEF LogInv
<1>2. log \in Seq(Line(Events)) /\ applied \in Seq(Events)
    BY DEF TypeOK
<1>3. DurableInLog'
    BY <1>1, <1>2 DEF DurableInLog, HoldsFirst
<1>4. HoldsFirst(Len(log))'
    BY <1>1 DEF HoldsFirst
<1>5. WholeLines'
    BY <1>1 DEF WholeLines
<1>6. pc' # "Replaying" /\ pc' # "Down"
    BY DEF Opened
<1> QED BY <1>3, <1>4, <1>5, <1>6 DEF LogInv

(* The other steps leave log, applied and durable alone or forget memory. *)
LEMMA StepKeepsLogInv ==
    ASSUME ~TornWrites, TypeOK, LogInv, Next
    PROVE  LogInv'
<1>1. CASE Open \/ OpenRefused
    <2>1. pc = "Down" /\ pc' \in {"Replaying", "Refused"} /\ UNCHANGED <<log, applied, durable, pos>>
        BY <1>1 DEF Open, OpenRefused, disk, history
    <2>2. applied = <<>> /\ pos = 0 /\ WholeLines /\ DurableInLog
        BY <2>1 DEF LogInv
    <2>3. HoldsFirst(pos)'
        BY <2>1, <2>2 DEF HoldsFirst
    <2>4. WholeLines' /\ DurableInLog'
        BY <2>1, <2>2 DEF WholeLines, DurableInLog
    <2> QED BY <2>1, <2>3, <2>4 DEF LogInv, Opened
<1>2. CASE ReplayLine
    BY <1>2, ReplayKeepsLogInv
<1>3. CASE ReplayTornTail
    <2>1. pos + 1 \in DOMAIN log
        BY <1>3 DEF ReplayTornTail, TypeOK
    <2> QED BY <1>3, <2>1 DEF ReplayTornTail, LogInv, WholeLines
<1>4. CASE ReplayRefused
    BY <1>4 DEF ReplayRefused, LogInv, WholeLines, DurableInLog, Opened, disk, history
<1>5. CASE ReplayDone
    <2>1. HoldsFirst(Len(log)) /\ pc' \in Opened
        BY <1>5 DEF ReplayDone, LogInv, Opened
    <2> QED BY <1>5, <2>1 DEF ReplayDone, LogInv, WholeLines, DurableInLog, HoldsFirst,
                              Opened, disk, history
<1>6. CASE \/ \E c \in Claims : Ingest(c) \/ (\E p \in Claims : IngestSuperseding(c, p)) \/ Retract(c)
           \/ \E v \in Verdicts : AppendVerification(v) \/ AppendExternalVerification(v)
    <2>1. /\ pc \in Opened /\ pc' \in Opened /\ UNCHANGED <<log, applied>>
          /\ durable' \in {applied, durable}
        BY <1>6 DEF Ingest, IngestSuperseding, Retract, AppendVerification,
                    AppendExternalVerification, Ready, Start, Opened, disk, history
    <2> QED BY <2>1, ReturnKeepsLogInv
<1>7. CASE AppendLine
    BY <1>7, AppendKeepsLogInv
<1>8. CASE Anchor \/ PublishSnapshot \/ Seal
    <2>1. /\ pc \in Opened /\ pc' \in Opened /\ UNCHANGED <<log, applied>>
          /\ durable' \in {applied, durable}
        BY <1>8 DEF Anchor, PublishSnapshot, Seal, Return, Opened, history
    <2> QED BY <2>1, ReturnKeepsLogInv
<1>9. CASE Crash
    BY <1>9 DEF Crash, LoseMemory, LogInv, WholeLines, DurableInLog, Opened
<1>10. CASE CrashTornAppend
    BY <1>10 DEF CrashTornAppend
<1> QED BY <1>1, <1>2, <1>3, <1>4, <1>5, <1>6, <1>7, <1>8, <1>9, <1>10 DEF Next

LEMMA LogInvariance ==
    ASSUME ~TornWrites
    PROVE  Spec => []LogInv
<1>1. Init => LogInv
    BY DEF Init, LogInv, WholeLines, DurableInLog, Opened
<1>2. TypeOK /\ LogInv /\ [Next]_vars => LogInv'
    <2>1. TypeOK /\ LogInv /\ UNCHANGED vars => LogInv'
        BY DEF vars, LogInv, WholeLines, DurableInLog, HoldsFirst, Opened
    <2> QED BY <2>1, StepKeepsLogInv
<1> QED BY <1>1, <1>2, TypeCorrect, PTL DEF Spec

(* While lines reach the disk whole, every event that an operation had committed
   when it returned is in every later process that opens the store, in place. *)
THEOREM AcknowledgedAlwaysSurvives ==
    ASSUME ~TornWrites
    PROVE  Spec => []AcknowledgedSurvives
<1>1. TypeOK /\ LogInv => AcknowledgedSurvives
    BY DEF TypeOK, LogInv, AcknowledgedSurvives, IsPrefix, DurableInLog, HoldsFirst, Opened
<1> QED BY <1>1, LogInvariance, TypeCorrect, PTL

-----------------------------------------------------------------------------
(* What a history may hold *)

(* The first n events of h ingest c. *)
Ingested(h, n, c) == \E j \in 1..n : h[j].event = "INGEST" /\ h[j].claim = c

(* The first n events of h file v. *)
Filed(h, n, v) == \E j \in 1..n : h[j] = VerificationEvent(v)

(* After the first n events of h, e is new and all it refers to is there. *)
Fits(h, n, e) ==
    /\ e.event = "INGEST" =>
          /\ ~Ingested(h, n, e.claim)
          /\ e.supersedes # None => /\ Ingested(h, n, e.supersedes)
                                    /\ ClaimKey[e.supersedes] = ClaimKey[e.claim]
    /\ e.event = "STATE_CHANGE" =>
          /\ Ingested(h, n, e.claim)
          /\ e.state = "SUPERSEDED" => \E j \in 1..n : h[j] = IngestEvent(e.by, e.claim)
    /\ e.event = "VERIFICATION" =>
          /\ ~Filed(h, n, e.verdict)
          /\ \A c \in VerdictOf[e.verdict].evidence \cup {VerdictOf[e.verdict].claim} : Ingested(h, n, c)
          /\ VerdictOf[e.verdict].retires # None => Filed(h, n, VerdictOf[e.verdict].retires)

Sound(h) == \A i \in DOMAIN h : Fits(h, i - 1, h[i])

(* Whether an event fits depends on nothing but the events before it. *)
LEMMA FitsAgree ==
    ASSUME NEW g, NEW h, NEW n \in Nat, \A i \in 1..n : g[i] = h[i], NEW e
    PROVE  Fits(g, n, e) <=> Fits(h, n, e)
<1>1. \A c : Ingested(g, n, c) <=> Ingested(h, n, c)
    BY DEF Ingested
<1>2. \A v : Filed(g, n, v) <=> Filed(h, n, v)
    BY DEF Filed
<1>3. \A d, p : (\E j \in 1..n : g[j] = IngestEvent(d, p)) <=> (\E j \in 1..n : h[j] = IngestEvent(d, p))
    OBVIOUS
<1> QED BY <1>1, <1>2, <1>3, Zenon DEF Fits

(* The events of a longer history before a position of a shorter one. *)
LEMMA AppendedAgree ==
    ASSUME NEW h \in Seq(Events), NEW e \in Events
    PROVE  /\ Len(Append(h, e)) = Len(h) + 1
           /\ DOMAIN Append(h, e) = 1..(Len(h) + 1)
           /\ Append(h, e)[Len(h) + 1] = e
           /\ \A i \in 1..Len(h) : Append(h, e)[i] = h[i]
OBVIOUS

(* An event that fits after all of a sound history extends it. *)
LEMMA SoundAppend ==
    ASSUME NEW h \in Seq(Events), NEW e \in Events, Sound(h), Fits(h, Len(h), e)
    PROVE  Sound(Append(h, e))
<1> DEFINE g == Append(h, e)
<1>1. /\ DOMAIN g = 1..(Len(h) + 1) /\ g[Len(h) + 1] = e /\ Len(h) \in Nat
      /\ \A i \in 1..Len(h) : g[i] = h[i]
    BY AppendedAgree
<1> SUFFICES ASSUME NEW i \in DOMAIN g PROVE Fits(g, i - 1, g[i])
    BY DEF Sound
<1> HIDE DEF g
<1>2. i - 1 \in Nat /\ \A j \in 1..(i - 1) : g[j] = h[j]
    BY <1>1
<1>3. Fits(g, i - 1, g[i]) <=> Fits(h, i - 1, g[i])
    BY <1>2, FitsAgree
<1>4. CASE i = Len(h) + 1
    <2>1. i - 1 = Len(h) /\ g[i] = e
        BY <1>1, <1>4
    <2> QED BY <1>3, <2>1
<1>5. CASE i \in 1..Len(h)
    <2>1. i \in DOMAIN h /\ g[i] = h[i]
        BY <1>1, <1>5
    <2> QED BY <1>3, <2>1 DEF Sound
<1> QED BY <1>1, <1>4, <1>5

(* What was there stays there. *)
LEMMA IngestedStays ==
    ASSUME NEW h \in Seq(Events), NEW e \in Events, NEW c
    PROVE  Ingested(Append(h, e), Len(h) + 1, c) <=>
              Ingested(h, Len(h), c) \/ (e.event = "INGEST" /\ e.claim = c)
<1> DEFINE g == Append(h, e)
<1>1. /\ g[Len(h) + 1] = e /\ Len(h) \in Nat
      /\ \A i \in 1..Len(h) : g[i] = h[i]
    BY AppendedAgree
<1> HIDE DEF g
<1> SUFFICES Ingested(g, Len(h) + 1, c) <=>
              Ingested(h, Len(h), c) \/ (e.event = "INGEST" /\ e.claim = c)
    BY DEF g
<1> QED BY <1>1 DEF Ingested

(* A record that anything is about was ingested. *)
LEMMA TouchedIsIngested ==
    ASSUME NEW h \in Seq(Events), Sound(h), NEW c \in Claims, NEW i \in DOMAIN h, Touches(h[i], c)
    PROVE  Ingested(h, Len(h), c)
<1>1. i \in 1..Len(h) /\ Len(h) \in Nat
    OBVIOUS
<1>2. CASE h[i].event = "INGEST"
    BY <1>1, <1>2 DEF Touches, Ingested
<1>3. CASE h[i].event = "STATE_CHANGE"
    <2>1. Ingested(h, i - 1, c)
        BY <1>3 DEF Sound, Fits, Touches
    <2> QED BY <1>1, <2>1 DEF Ingested
<1> QED BY <1>2, <1>3 DEF Touches

(* The memory of a sound history knows the records it ingested and the
   verdicts it filed. *)
LEMMA KnownIsIngested ==
    ASSUME NEW m \in Memories, NEW h \in Seq(Events), Matches(m, h), Sound(h), NEW c \in Claims
    PROVE  Known(m, c) <=> Ingested(h, Len(h), c)
<1>1. ASSUME Known(m, c) PROVE Ingested(h, Len(h), c)
    <2>1. PICK i \in DOMAIN h : Touches(h[i], c)
        BY <1>1 DEF Matches, LifecycleMatches, Known
    <2> QED BY <2>1, TouchedIsIngested
<1>2. ASSUME Ingested(h, Len(h), c) PROVE Known(m, c)
    <2>1. PICK j \in DOMAIN h : Touches(h[j], c)
        BY <1>2 DEF Ingested, Touches
    <2>2. PICK i \in DOMAIN h : Touches(h[i], c) /\ m.lifecycle[c] = Outcome(h[i])
        BY <2>1 DEF Matches, LifecycleMatches
    <2>3. h[i] \in Events
        OBVIOUS
    <2>4. h[i] \in IngestEvents \cup StateChanges
        BY <2>2, <2>3, TouchesOnlyRecords
    <2>5. Outcome(h[i]) # "ABSENT"
        BY <2>4 DEF IngestEvents, StateChanges, Outcome, NonRetrievable
    <2> QED BY <2>2, <2>5 DEF Known
<1> QED BY <1>1, <1>2

LEMMA VerdictIdIsFiled ==
    ASSUME NEW m, NEW h \in Seq(Events), Matches(m, h), NEW v \in Verdicts
    PROVE  v \in m.verdictIds <=> Filed(h, Len(h), v)
BY DEF Matches, VerdictsMatch, Filed

-----------------------------------------------------------------------------
(* What can be read of a log is sound, torn or not *)

EventsOf(file) == [i \in DOMAIN file |-> EventOf(file[i])]
AllParse(file, n) == \A i \in 1..n : Parses(file[i])
NoEmptyLine(file) == \A i \in DOMAIN file : file[i].body # <<>>

ReadableSound(file) ==
    \A n \in DOMAIN file : AllParse(file, n) => Fits(EventsOf(file), n - 1, EventOf(file[n]))

(* What parses of a file that was written to is what parsed before, or all of
   it with the chunk just written as its last event: a line that is continued
   parses no more. *)
LEMMA WriteParses ==
    ASSUME NEW file \in Seq(Line(Events)), NoEmptyLine(file),
           NEW chunk \in Events \cup {Torn}, NEW nl \in BOOLEAN,
           NEW n \in DOMAIN Write(file, chunk, nl), AllParse(Write(file, chunk, nl), n)
    PROVE  LET w == Write(file, chunk, nl) IN
           \/ n \in DOMAIN file /\ n < Len(w) /\ \A i \in 1..n : w[i] = file[i]
           \/ /\ n = Len(file) + 1 /\ n = Len(w)
              /\ chunk # Torn /\ EventOf(w[n]) = chunk
              /\ \A i \in 1..Len(file) : w[i] = file[i]
<1> DEFINE w == Write(file, chunk, nl)
           k == Len(file)
<1>0. k \in Nat /\ DOMAIN file = 1..k
    OBVIOUS
<1>1. CASE k = 0 \/ file[k].nl
    <2> DEFINE line == [body |-> <<chunk>>, nl |-> nl]
    <2>1. w = Append(file, line) /\ line \in Line(Events)
        BY <1>1 DEF Write, Line
    <2>2. /\ DOMAIN w = 1..(k + 1) /\ Len(w) = k + 1 /\ w[k + 1] = line
          /\ \A i \in 1..k : w[i] = file[i]
        <3> HIDE DEF line
        <3> QED BY <2>1
    <2>3. EventOf(line) = chunk /\ (Parses(line) => chunk # Torn)
        BY DEF EventOf, Parses
    <2> HIDE DEF w, line, k
    <2>4. CASE n = k + 1
        <3>1. Parses(w[n])
            BY <1>0, <2>4 DEF AllParse, w
        <3> QED BY <1>0, <2>2, <2>3, <2>4, <3>1 DEF w, k
    <2>5. CASE n \in 1..k
        BY <1>0, <2>2, <2>5 DEF w, k
    <2> QED BY <1>0, <2>2, <2>4, <2>5 DEF w
<1>2. CASE ~(k = 0 \/ file[k].nl)
    <2>1. k \in 1..k /\ file[k] \in Line(Events) /\ file[k].body # <<>>
        BY <1>0, <1>2 DEF NoEmptyLine
    <2> DEFINE new == [body |-> Append(file[k].body, chunk), nl |-> nl]
    <2>2. w = [file EXCEPT ![k] = new]
        BY <1>2 DEF Write
    <2>3. DOMAIN w = 1..k /\ Len(w) = k /\ \A i \in 1..(k - 1) : w[i] = file[i]
        <3>1. w \in Seq(Line(Events))
            BY WriteType
        <3> HIDE DEF w, new, k
        <3>2. DOMAIN w = 1..k
            BY <1>0, <2>2
        <3>3. Len(w) = k
            BY <1>0, <3>1, <3>2
        <3>4. \A i \in 1..(k - 1) : w[i] = file[i]
            BY <1>0, <2>2
        <3> QED BY <3>2, <3>3, <3>4
    <2>4. w[k].body = Append(file[k].body, chunk)
        <3>1. w[k] = new
            <4> HIDE DEF w, new
            <4> QED BY <2>1, <2>2
        <3> HIDE DEF w
        <3> QED BY <3>1
    <2>5. file[k].body \in Seq(Events \cup {Torn})
        BY <2>1 DEF Line
    <2>6. ~Parses(w[k])
        BY <2>1, <2>4, <2>5 DEF Parses
    <2> HIDE DEF w
    <2>7. n # k
        BY <1>0, <2>1, <2>3, <2>6 DEF AllParse, w
    <2> QED BY <1>0, <2>3, <2>7 DEF w
<1> QED BY <1>1, <1>2

(* Continuing a line, or starting one, leaves no line empty. *)
LEMMA WriteNoEmptyLine ==
    ASSUME NEW file \in Seq(Line(Events)), NoEmptyLine(file),
           NEW chunk \in Events \cup {Torn}, NEW nl \in BOOLEAN
    PROVE  NoEmptyLine(Write(file, chunk, nl))
<1> DEFINE k == Len(file)
<1>1. CASE k = 0 \/ file[k].nl
    <2> DEFINE line == [body |-> <<chunk>>, nl |-> nl]
    <2>1. Write(file, chunk, nl) = Append(file, line) /\ line \in Line(Events) /\ line.body # <<>>
        BY <1>1 DEF Write, Line
    <2> HIDE DEF line
    <2> QED BY <2>1 DEF NoEmptyLine
<1>2. CASE ~(k = 0 \/ file[k].nl)
    <2>1. k \in DOMAIN file /\ file[k] \in Line(Events)
        BY <1>2
    <2>2. file[k].body \in Seq(Events \cup {Torn})
        BY <2>1 DEF Line
    <2>3. Append(file[k].body, chunk) # <<>>
        BY <2>2
    <2> QED BY <1>2, <2>1, <2>3 DEF Write, NoEmptyLine
<1> QED BY <1>1, <1>2

(* A write leaves what can be read sound when its event fits after all of it. *)
LEMMA ReadableWrite ==
    ASSUME NEW file \in Seq(Line(Events)), NoEmptyLine(file), ReadableSound(file),
           NEW chunk \in Events \cup {Torn}, NEW nl \in BOOLEAN,
           chunk # Torn /\ AllParse(file, Len(file)) => Fits(EventsOf(file), Len(file), chunk)
    PROVE  ReadableSound(Write(file, chunk, nl))
<1> DEFINE w == Write(file, chunk, nl)
<1> SUFFICES ASSUME NEW n \in DOMAIN w, AllParse(w, n)
             PROVE  Fits(EventsOf(w), n - 1, EventOf(w[n]))
    BY DEF ReadableSound
<1>1. w \in Seq(Line(Events)) /\ Len(w) >= Len(file)
    BY WriteType
<1>2. \/ n \in DOMAIN file /\ \A i \in 1..n : w[i] = file[i]
      \/ /\ n = Len(file) + 1 /\ chunk # Torn /\ EventOf(w[n]) = chunk
         /\ \A i \in 1..Len(file) : w[i] = file[i]
    BY WriteParses, SMTT(30)
<1> HIDE DEF w
<1>3. n - 1 \in Nat /\ \A i \in 1..(n - 1) : EventsOf(w)[i] = EventsOf(file)[i]
    <2>1. \A i \in 1..(n - 1) : i \in DOMAIN w /\ i \in DOMAIN file /\ w[i] = file[i]
        BY <1>1, <1>2
    <2> QED BY <1>1, <2>1 DEF EventsOf
<1>4. Fits(EventsOf(w), n - 1, EventOf(w[n])) <=> Fits(EventsOf(file), n - 1, EventOf(w[n]))
    BY <1>3, FitsAgree
<1>5. CASE n \in DOMAIN file /\ \A i \in 1..n : w[i] = file[i]
    <2>1. AllParse(file, n) /\ w[n] = file[n]
        BY <1>5 DEF AllParse
    <2> QED BY <1>4, <1>5, <2>1 DEF ReadableSound
<1>6. CASE /\ n = Len(file) + 1 /\ chunk # Torn /\ EventOf(w[n]) = chunk
           /\ \A i \in 1..Len(file) : w[i] = file[i]
    <2>1. AllParse(file, Len(file)) /\ n - 1 = Len(file)
        BY <1>6 DEF AllParse
    <2> QED BY <1>4, <1>6, <2>1
<1> QED BY <1>2, <1>5, <1>6

-----------------------------------------------------------------------------
(* The store only ever applies events that fit *)

(* While it replays, a process has applied what it has read, but for a torn last
   line; once open, it has applied all of the log if all of it can be read. *)
ReplayInv ==
    /\ pc = "Replaying" =>
          /\ \/ Len(applied) = pos
             \/ Len(applied) = pos - 1 /\ pos = Len(log) /\ ~Parses(log[pos])
          /\ \A i \in DOMAIN applied : Parses(log[i]) /\ applied[i] = EventOf(log[i])
    /\ pc \in Opened => (AllParse(log, Len(log)) => EventsOf(log) = applied)
    /\ pc = "Down" => applied = <<>> /\ pos = 0

(* What an operation has still to append fits; the only operation of two events
   ingests a successor and then supersedes its predecessor. *)
TodoInv ==
    /\ pc \in {"Down", "Replaying", "Idle"} => todo = <<>>
    /\ Len(todo) <= 2
    /\ pc = "Appending" =>
          /\ Fits(applied, Len(applied), Head(todo))
          /\ Len(todo) = 2 => \E c, p \in Claims :
                                 todo = <<IngestEvent(c, p), StateChange(p, "SUPERSEDED", c)>>
    /\ pc \in {"Anchoring", "Publishing", "Sealing"} /\ Len(todo) = 2 =>
          Fits(applied, Len(applied), todo[2])

HistoryInv ==
    /\ Sound(applied)
    /\ NoEmptyLine(log) /\ ReadableSound(log)
    /\ ReplayInv
    /\ TodoInv

(* An operation starts with events that fit. *)
LEMMA StartKeepsHistory ==
    ASSUME HistoryInv, pc = "Idle", NEW events, Start(events), Len(events) <= 2,
           Fits(applied, Len(applied), Head(events)),
           Len(events) = 2 => \E c, p \in Claims :
                                 events = <<IngestEvent(c, p), StateChange(p, "SUPERSEDED", c)>>
    PROVE  HistoryInv'
<1>1. UNCHANGED <<log, applied, pos>> /\ pc' = "Appending" /\ todo' = events
    BY DEF Start, disk, history
<1>2. ReplayInv'
    BY <1>1 DEF HistoryInv, ReplayInv, Opened
<1>3. TodoInv'
    <2>1. Len(todo') <= 2 /\ pc' \notin {"Down", "Replaying", "Idle", "Anchoring", "Publishing", "Sealing"}
        BY <1>1
    <2>2. Fits(applied', Len(applied'), Head(todo'))
        BY <1>1
    <2>3. Len(todo') = 2 => \E c, p \in Claims :
              todo' = <<IngestEvent(c, p), StateChange(p, "SUPERSEDED", c)>>
        BY <1>1
    <2> QED BY <2>1, <2>2, <2>3 DEF TodoInv
<1> QED BY <1>1, <1>2, <1>3 DEF HistoryInv

LEMMA StartOneKeepsHistory ==
    ASSUME HistoryInv, pc = "Idle", NEW e, Start(<<e>>), Fits(applied, Len(applied), e)
    PROVE  HistoryInv'
<1>1. Len(<<e>>) <= 2 /\ Len(<<e>>) # 2 /\ Head(<<e>>) = e
    OBVIOUS
<1> QED BY <1>1, StartKeepsHistory

(* ingest, retract, append_verification: what they check makes their events fit. *)
LEMMA OperationsKeepHistory ==
    ASSUME TypeOK, MemoryMatchesHistory, HistoryInv,
           \/ \E c \in Claims : Ingest(c) \/ (\E p \in Claims : IngestSuperseding(c, p)) \/ Retract(c)
           \/ \E v \in Verdicts : AppendVerification(v) \/ AppendExternalVerification(v)
    PROVE  HistoryInv'
<1>1. /\ mem \in Memories /\ applied \in Seq(Events) /\ Matches(mem, applied) /\ Sound(applied)
      /\ Len(applied) \in Nat
    BY DEF TypeOK, MemoryMatchesHistory, HistoryInv
<1>2. \A c \in Claims : Known(mem, c) <=> Ingested(applied, Len(applied), c)
    BY <1>1, KnownIsIngested
<1>3. \A v \in Verdicts : v \in mem.verdictIds <=> Filed(applied, Len(applied), v)
    BY <1>1, VerdictIdIsFiled
<1>4. ASSUME NEW c \in Claims, Ingest(c) PROVE HistoryInv'
    <2>1. pc = "Idle" /\ Start(<<IngestEvent(c, None)>>) /\ ~Known(mem, c)
        BY <1>4 DEF Ingest, Ready
    <2>2. Fits(applied, Len(applied), IngestEvent(c, None))
        BY <1>2, <2>1 DEF Fits, IngestEvent
    <2> QED BY <2>1, <2>2, StartOneKeepsHistory
<1>5. ASSUME NEW c \in Claims, NEW p \in Claims, IngestSuperseding(c, p) PROVE HistoryInv'
    <2> DEFINE events == <<IngestEvent(c, p), StateChange(p, "SUPERSEDED", c)>>
    <2>1. pc = "Idle" /\ Start(events) /\ ~Known(mem, c) /\ Known(mem, p) /\ ClaimKey[p] = ClaimKey[c]
        BY <1>5 DEF IngestSuperseding, Ready
    <2>2. Fits(applied, Len(applied), IngestEvent(c, p))
        BY <1>2, <2>1 DEF Fits, IngestEvent
    <2>3. Len(events) = 2 /\ Head(events) = IngestEvent(c, p)
        OBVIOUS
    <2>4. \E d, q \in Claims :
              events = <<IngestEvent(d, q), StateChange(q, "SUPERSEDED", d)>>
        OBVIOUS
    <2> HIDE DEF events
    <2>5. Len(events) <= 2
        BY <2>3
    <2> QED BY <2>1, <2>2, <2>3, <2>4, <2>5, StartKeepsHistory
<1>6. ASSUME NEW c \in Claims, Retract(c) PROVE HistoryInv'
    <2>1. pc = "Idle" /\ Start(<<StateChange(c, "RETRACTED", None)>>) /\ Known(mem, c)
        BY <1>6 DEF Retract, Ready
    <2>2. Fits(applied, Len(applied), StateChange(c, "RETRACTED", None))
        BY <1>2, <2>1 DEF Fits, StateChange
    <2> QED BY <2>1, <2>2, StartOneKeepsHistory
<1>7. ASSUME NEW v \in Verdicts, AppendVerification(v) \/ AppendExternalVerification(v)
      PROVE  HistoryInv'
    <2>1. VerdictOf[v] \in Determinations
        BY EventConstants
    <2>2. /\ pc = "Idle" /\ Start(<<VerificationEvent(v)>>) /\ v \notin mem.verdictIds
          /\ \A c \in VerdictOf[v].evidence \cup {VerdictOf[v].claim} : Known(mem, c)
          /\ VerdictOf[v].retires = None \/ VerdictOf[v].retires \in mem.verdictIds
        BY <1>7, EventConstants DEF AppendVerification, AppendExternalVerification, Ready
    <2>3. \A c \in VerdictOf[v].evidence \cup {VerdictOf[v].claim} : c \in Claims
        BY <2>1 DEF Determinations
    <2>4. VerdictOf[v].retires # None =>
              VerdictOf[v].retires \in Verdicts /\ VerdictOf[v].retires \in mem.verdictIds
        BY <2>1, <2>2 DEF Determinations
    <2>5. Fits(applied, Len(applied), VerificationEvent(v))
        BY <1>2, <1>3, <2>2, <2>3, <2>4 DEF Fits, VerificationEvent
    <2> QED BY <2>2, <2>5, StartOneKeepsHistory
<1> QED BY <1>4, <1>5, <1>6, <1>7

(* _append: the line written last is the event applied last. *)
LEMMA AppendKeepsHistory ==
    ASSUME TypeOK, HistoryInv, AppendLine
    PROVE  HistoryInv'
<1> DEFINE e == Head(todo)
<1>1. /\ pc = "Appending" /\ pc' = "Anchoring" /\ todo' = todo
      /\ log' = Write(log, e, TRUE) /\ applied' = Append(applied, e)
    BY DEF AppendLine
<1>2. /\ e \in Events /\ e # Torn /\ todo \in Seq(Events)
      /\ applied \in Seq(Events) /\ log \in Seq(Line(Events))
      /\ Len(applied) \in Nat /\ Len(log) \in Nat
    BY <1>1, TornIsNoEvent DEF TypeOK
<1>3. Fits(applied, Len(applied), e)
    BY <1>1 DEF HistoryInv, TodoInv
<1>4. AllParse(log, Len(log)) => EventsOf(log) = applied
    BY <1>1 DEF HistoryInv, ReplayInv, Opened
<1>5. AllParse(log, Len(log)) => Len(applied) = Len(log)
    <2>1. EventsOf(log) = applied => DOMAIN applied = DOMAIN log
        BY DEF EventsOf
    <2> QED BY <1>2, <1>4, <2>1
<1>6. Sound(applied')
    BY <1>1, <1>2, <1>3, SoundAppend DEF HistoryInv
<1>7. NoEmptyLine(log') /\ ReadableSound(log')
    BY <1>1, <1>2, <1>3, <1>4, <1>5, WriteNoEmptyLine, ReadableWrite DEF HistoryInv
<1> HIDE DEF e
<1>8. ReplayInv'
    <2> SUFFICES ASSUME AllParse(log', Len(log')) PROVE EventsOf(log') = applied'
        BY <1>1 DEF ReplayInv
    <2>1. log' \in Seq(Line(Events)) /\ Len(log') >= Len(log) /\ Len(log') >= 1
        BY <1>1, <1>2, WriteType
    <2>2. Len(log') \in DOMAIN log'
        BY <2>1
    <2>3. /\ Len(log') = Len(log) + 1 /\ EventOf(log'[Len(log')]) = e
          /\ \A i \in 1..Len(log) : log'[i] = log[i]
        <3> DEFINE w == Write(log, e, TRUE)
        <3>1. log' = w /\ Len(w) \in DOMAIN w /\ AllParse(w, Len(w)) /\ NoEmptyLine(log)
            BY <1>1, <2>2 DEF HistoryInv
        <3>2. \/ Len(w) < Len(w)
              \/ /\ Len(w) = Len(log) + 1 /\ EventOf(w[Len(w)]) = e
                 /\ \A i \in 1..Len(log) : w[i] = log[i]
            BY <1>2, <3>1, WriteParses
        <3> HIDE DEF w
        <3> QED BY <2>1, <3>1, <3>2
    <2>4. AllParse(log, Len(log))
        BY <1>2, <2>3 DEF AllParse
    <2>5. /\ DOMAIN applied' = 1..(Len(log) + 1) /\ applied'[Len(log) + 1] = e
          /\ \A i \in 1..Len(log) : applied'[i] = EventOf(log[i])
        <3>1. \A i \in 1..Len(log) : applied[i] = EventOf(log[i])
            BY <1>2, <1>4, <2>4 DEF EventsOf
        <3> QED BY <1>1, <1>2, <1>5, <2>4, <3>1, AppendedAgree
    <2>6. DOMAIN log' = 1..(Len(log) + 1)
        BY <2>1, <2>3
    <2>7. \A i \in DOMAIN log' : EventOf(log'[i]) = applied'[i]
        BY <1>2, <2>3, <2>5, <2>6
    <2>8. applied' \in Seq(Events)
        BY <1>1, <1>2
    <2>9. applied' = [i \in DOMAIN applied' |-> applied'[i]]
        BY <2>8
    <2>10. DOMAIN applied' = DOMAIN log'
        BY <2>5, <2>6
    <2> QED BY <2>7, <2>9, <2>10, Zenon DEF EventsOf
<1>9. TodoInv'
    <2>1. Len(todo) <= 2
        BY DEF HistoryInv, TodoInv
    <2>2. ASSUME Len(todo) = 2 PROVE Fits(applied', Len(applied'), todo[2])
        <3>1. PICK c \in Claims, p \in Claims :
                  todo = <<IngestEvent(c, p), StateChange(p, "SUPERSEDED", c)>>
            BY <1>1, <2>2 DEF HistoryInv, TodoInv
        <3>2. e = IngestEvent(c, p) /\ todo[2] = StateChange(p, "SUPERSEDED", c) /\ p # None
            BY <3>1, EventConstants DEF e
        <3>3. Ingested(applied, Len(applied), p)
            BY <1>3, <3>2 DEF Fits, IngestEvent
        <3>4. /\ Len(applied') = Len(applied) + 1
              /\ applied'[Len(applied) + 1] = IngestEvent(c, p)
            BY <1>1, <1>2, <3>2
        <3>5. Ingested(applied', Len(applied'), p)
            BY <1>1, <1>2, <3>3, <3>4, IngestedStays
        <3> QED BY <1>2, <3>2, <3>4, <3>5 DEF Fits, StateChange
    <2> QED BY <1>1, <2>1, <2>2 DEF TodoInv
<1> QED BY <1>6, <1>7, <1>8, <1>9 DEF HistoryInv

(* _stream_events: what it reads fits. *)
LEMMA ReplayKeepsHistory ==
    ASSUME TypeOK, HistoryInv, ReplayLine
    PROVE  HistoryInv'
<1> DEFINE e == EventOf(log[pos + 1])
<1>1. /\ pc = "Replaying" /\ pc' = pc /\ pos < Len(log) /\ pos' = pos + 1
      /\ log' = log /\ todo' = todo /\ applied' = Append(applied, e) /\ Parses(log[pos + 1])
    BY DEF ReplayLine, disk
<1>2. /\ applied \in Seq(Events) /\ log \in Seq(Line(Events)) /\ pos \in Nat
      /\ pos + 1 \in DOMAIN log
    BY <1>1 DEF TypeOK
<1>3. e \in Events
    BY <1>1, <1>2, ParsedEvent
<1>4. /\ Len(applied) = pos
      /\ \A i \in 1..pos : Parses(log[i]) /\ applied[i] = EventOf(log[i])
    BY <1>1, <1>2 DEF HistoryInv, ReplayInv
<1>5. Fits(applied, Len(applied), e)
    <2>1. AllParse(log, pos + 1)
        BY <1>1, <1>2, <1>4 DEF AllParse
    <2>2. Fits(EventsOf(log), pos, e)
        BY <1>2, <2>1 DEF HistoryInv, ReadableSound
    <2>3. \A i \in 1..pos : applied[i] = EventsOf(log)[i]
        BY <1>2, <1>4 DEF EventsOf
    <2> QED BY <1>2, <1>4, <2>2, <2>3, FitsAgree
<1>6. Sound(applied')
    BY <1>1, <1>2, <1>3, <1>5, SoundAppend DEF HistoryInv
<1>7. ReplayInv'
    <2>1. /\ Len(applied') = pos + 1 /\ DOMAIN applied' = 1..(pos + 1) /\ applied'[pos + 1] = e
          /\ \A i \in 1..pos : applied'[i] = applied[i]
        BY <1>1, <1>2, <1>3, <1>4, AppendedAgree
    <2> HIDE DEF e
    <2>2. ASSUME NEW i \in DOMAIN applied' PROVE Parses(log[i]) /\ applied'[i] = EventOf(log[i])
        <3>1. CASE i = pos + 1
            BY <1>1, <2>1, <3>1 DEF e
        <3>2. CASE i \in 1..pos
            BY <1>4, <2>1, <3>2
        <3> QED BY <1>2, <2>1, <3>1, <3>2
    <2> QED BY <1>1, <2>1, <2>2 DEF ReplayInv, Opened
<1> QED BY <1>1, <1>6, <1>7 DEF HistoryInv, TodoInv

LEMMA TailOfTwo ==
    ASSUME NEW s \in Seq(Events), Len(s) = 2
    PROVE  Len(Tail(s)) = 1 /\ Head(Tail(s)) = s[2]
<1> DEFINE k == Len(s)
           t == Tail(s)
<1>1. s # <<>> /\ k = 2
    BY EmptySeq
<1>2. Len(t) = k - 1
    BY <1>1, HeadTailProperties
<1>3. t[1] = s[2]
    BY <1>1
<1> HIDE DEF k, t
<1>4. Len(t) = 1
    BY <1>1, <1>2
<1>5. Head(t) = t[1]
    OBVIOUS
<1> QED BY <1>3, <1>4, <1>5 DEF t

LEMMA TailOfOne ==
    ASSUME NEW s \in Seq(Events), s # <<>>, ~(Len(s) > 1)
    PROVE  Tail(s) = <<>>
<1> DEFINE k == Len(s)
           t == Tail(s)
<1>1. k \in Nat \ {0} /\ ~(k > 1)
    BY EmptySeq
<1>2. t \in Seq(Events) /\ Len(t) = k - 1
    BY HeadTailProperties
<1> HIDE DEF k, t
<1>3. Len(t) = 0
    BY <1>1, <1>2
<1>4. t = <<>>
    BY <1>2, <1>3, EmptySeq
<1> QED BY <1>4 DEF t

(* An append that returns goes on with its next event or is done. *)
LEMMA ReturnKeepsHistory ==
    ASSUME TypeOK, HistoryInv, pc \in {"Anchoring", "Publishing", "Sealing"},
           UNCHANGED <<log, applied>>,
           \/ pc' \in {"Publishing", "Sealing"} /\ UNCHANGED todo
           \/ Return
    PROVE  HistoryInv'
<1>1. ReplayInv'
    BY DEF HistoryInv, ReplayInv, Opened, Return
<1>2. todo \in Seq(Events) /\ Len(todo) <= 2 /\ Len(todo) \in Nat
    BY DEF TypeOK, HistoryInv, TodoInv
<1>3. TodoInv'
    <2>1. CASE pc' \in {"Publishing", "Sealing"} /\ UNCHANGED todo
        BY <1>2, <2>1 DEF HistoryInv, TodoInv
    <2>2. CASE Return /\ Len(todo) = 2
        <3>1. pc' = "Appending" /\ todo' = Tail(todo) /\ Fits(applied, Len(applied), todo[2])
            BY <1>2, <2>2 DEF Return, HistoryInv, TodoInv
        <3>2. Len(Tail(todo)) = 1
            BY <1>2, <2>2, TailOfTwo
        <3>3. Head(Tail(todo)) = todo[2]
            BY <1>2, <2>2, TailOfTwo
        <3>4. Len(todo') = 1
            BY <3>1, <3>2
        <3>5. Len(todo') <= 2 /\ Len(todo') # 2
            BY <3>4
        <3>6. Fits(applied', Len(applied'), Head(todo'))
            BY <3>1, <3>3
        <3> QED BY <3>1, <3>5, <3>6 DEF TodoInv
    <2>3. CASE Return /\ Len(todo) # 2
        <3>0. Len(todo) \in Nat /\ Len(todo) <= 2 /\ Len(todo) # 2
            BY <1>2, <2>3
        <3>1. ~(Len(todo) > 1)
            <4>1. \A n \in Nat : n <= 2 /\ n # 2 => ~(n > 1)
                OBVIOUS
            <4> QED BY <3>0, <4>1, Zenon
        <3>2. pc' = "Idle"
            BY <2>3, <3>1 DEF Return
        <3>3. todo # <<>> => Tail(todo) = <<>>
            BY <1>2, <3>1, TailOfOne
        <3>4. todo' = <<>>
            BY <2>3, <3>3 DEF Return
        <3> QED BY <3>2, <3>4 DEF TodoInv
    <2> QED BY <2>1, <2>2, <2>3
<1> QED BY <1>1, <1>3 DEF HistoryInv

LEMMA InitHistory == Init => HistoryInv
BY DEF Init, HistoryInv, Sound, NoEmptyLine, ReadableSound, ReplayInv, Opened, TodoInv

LEMMA StepKeepsHistory ==
    ASSUME TypeOK, MemoryMatchesHistory, HistoryInv, Next
    PROVE  HistoryInv'
<1>1. CASE Open \/ OpenRefused
    <2>1. /\ pc = "Down" /\ pc' \in {"Replaying", "Refused"}
          /\ UNCHANGED <<log, applied, pos, todo>>
        BY <1>1 DEF Open, OpenRefused, disk, history
    <2>2. applied = <<>> /\ pos = 0 /\ todo = <<>>
        BY <2>1 DEF HistoryInv, ReplayInv, TodoInv
    <2> QED BY <2>1, <2>2 DEF HistoryInv, ReplayInv, TodoInv, Opened
<1>2. CASE ReplayLine
    BY <1>2, ReplayKeepsHistory
<1>3. CASE ReplayTornTail
    <2>1. /\ pc = "Replaying" /\ pc' = pc /\ pos' = pos + 1 /\ pos + 1 = Len(log)
          /\ ~Parses(log[pos + 1]) /\ UNCHANGED <<log, applied, todo>>
        BY <1>3 DEF ReplayTornTail, disk, history
    <2>2. pos \in Nat /\ Len(applied) \in Nat /\ Len(log) \in Nat
        BY DEF TypeOK
    <2>3. Len(applied) = pos
        BY <2>1, <2>2 DEF HistoryInv, ReplayInv
    <2>4. ReplayInv'
        BY <2>1, <2>2, <2>3 DEF HistoryInv, ReplayInv, Opened
    <2> QED BY <2>1, <2>4 DEF HistoryInv, TodoInv
<1>4. CASE ReplayRefused
    BY <1>4 DEF ReplayRefused, HistoryInv, ReplayInv, TodoInv, Opened, disk, history
<1>5. CASE ReplayDone
    <2>1. /\ pc = "Replaying" /\ pc' \in {"Publishing", "Idle"} /\ pos = Len(log)
          /\ UNCHANGED <<log, applied, todo>>
        BY <1>5 DEF ReplayDone, disk, history
    <2>2. todo = <<>>
        BY <2>1 DEF HistoryInv, TodoInv
    <2>3. ASSUME AllParse(log, Len(log)) PROVE EventsOf(log) = applied
        <3>1. log \in Seq(Line(Events)) /\ applied \in Seq(Events)
            BY DEF TypeOK
        <3>2. Len(log) = 0 \/ Parses(log[Len(log)])
            BY <2>3, <3>1 DEF AllParse
        <3>3. /\ Len(applied) = Len(log)
              /\ \A i \in DOMAIN applied : applied[i] = EventOf(log[i])
            BY <2>1, <3>1, <3>2 DEF HistoryInv, ReplayInv
        <3>4. DOMAIN log = DOMAIN applied /\ applied = [i \in DOMAIN applied |-> applied[i]]
            BY <3>1, <3>3
        <3> QED BY <3>3, <3>4 DEF EventsOf
    <2>4. ReplayInv'
        BY <2>1, <2>3 DEF ReplayInv
    <2> QED BY <2>1, <2>2, <2>4 DEF HistoryInv, TodoInv
<1>6. CASE \/ \E c \in Claims : Ingest(c) \/ (\E p \in Claims : IngestSuperseding(c, p)) \/ Retract(c)
           \/ \E v \in Verdicts : AppendVerification(v) \/ AppendExternalVerification(v)
    BY <1>6, OperationsKeepHistory
<1>7. CASE AppendLine
    BY <1>7, AppendKeepsHistory
<1>8. CASE Anchor \/ PublishSnapshot \/ Seal
    <2>1. /\ pc \in {"Anchoring", "Publishing", "Sealing"} /\ UNCHANGED <<log, applied>>
          /\ \/ pc' \in {"Publishing", "Sealing"} /\ UNCHANGED todo
             \/ Return
        BY <1>8 DEF Anchor, PublishSnapshot, Seal, history
    <2> QED BY <2>1, ReturnKeepsHistory
<1>9. ASSUME LoseMemory, NoEmptyLine(log'), ReadableSound(log') PROVE HistoryInv'
    <2>1. pc' = "Down" /\ applied' = <<>> /\ pos' = 0 /\ todo' = <<>>
        BY <1>9 DEF LoseMemory
    <2> QED BY <1>9, <2>1 DEF HistoryInv, Sound, ReplayInv, TodoInv, Opened
<1>10. CASE Crash
    BY <1>9, <1>10 DEF Crash, HistoryInv
<1>11. CASE CrashTornAppend
    <2>1. pc = "Appending" /\ LoseMemory
        BY <1>11 DEF CrashTornAppend
    <2>2. PICK chunk \in {Torn, Head(todo)} : log' = Write(log, chunk, FALSE)
        BY <1>11 DEF CrashTornAppend
    <2>3. /\ Head(todo) \in Events /\ log \in Seq(Line(Events)) /\ applied \in Seq(Events)
          /\ NoEmptyLine(log) /\ ReadableSound(log)
          /\ Fits(applied, Len(applied), Head(todo))
        BY <2>1 DEF TypeOK, HistoryInv, TodoInv
    <2>4. AllParse(log, Len(log)) => Fits(EventsOf(log), Len(log), Head(todo))
        <3> SUFFICES ASSUME AllParse(log, Len(log)) PROVE Fits(EventsOf(log), Len(log), Head(todo))
            OBVIOUS
        <3>1. EventsOf(log) = applied
            BY <2>1 DEF HistoryInv, ReplayInv, Opened
        <3>2. DOMAIN applied = DOMAIN log
            BY <3>1 DEF EventsOf
        <3>3. Len(applied) = Len(log)
            BY <2>3, <3>2
        <3> QED BY <2>3, <3>1, <3>3
    <2>5. NoEmptyLine(log') /\ ReadableSound(log')
        BY <2>2, <2>3, <2>4, WriteNoEmptyLine, ReadableWrite
    <2> QED BY <1>9, <2>1, <2>5
<1> QED BY <1>1, <1>2, <1>3, <1>4, <1>5, <1>6, <1>7, <1>8, <1>10, <1>11 DEF Next

LEMMA HistoryInvariance == Spec => []HistoryInv
<1>1. TypeOK /\ MemoryMatchesHistory /\ HistoryInv /\ [Next]_vars => HistoryInv'
    <2>1. HistoryInv /\ UNCHANGED vars => HistoryInv'
        BY DEF vars, HistoryInv, ReplayInv, TodoInv
    <2> QED BY <2>1, StepKeepsHistory
<1> QED BY <1>1, InitHistory, TypeCorrect, MemoryFollowsHistory, PTL DEF Spec

(* No event that a process has applied, live or replayed, refers to a record or
   a determination that was not recorded before it, whatever was lost or torn. *)
THEOREM ReferencesAlwaysResolve == Spec => []ReferencesResolve
<1>1. TypeOK /\ HistoryInv => ReferencesResolve
    <2> SUFFICES ASSUME TypeOK, HistoryInv, NEW i \in DOMAIN applied
                 PROVE  LET e == applied[i]
                            ingested(c) == \E j \in 1..(i - 1) :
                                              applied[j].event = "INGEST" /\ applied[j].claim = c
                        IN CASE e.event = "INGEST" -> e.supersedes # None => ingested(e.supersedes)
                             [] e.event = "STATE_CHANGE" -> ingested(e.claim)
                             [] e.event = "VERIFICATION" ->
                                  /\ \A c \in VerdictOf[e.verdict].evidence
                                                  \cup {VerdictOf[e.verdict].claim} : ingested(c)
                                  /\ VerdictOf[e.verdict].retires # None =>
                                        \E j \in 1..(i - 1) :
                                            applied[j] = VerificationEvent(VerdictOf[e.verdict].retires)
        BY DEF ReferencesResolve
    <2>1. Fits(applied, i - 1, applied[i])
        BY DEF HistoryInv, Sound
    <2>2. applied[i] \in Events
        BY DEF TypeOK
    <2>3. applied[i].event \in {"INGEST", "STATE_CHANGE", "VERIFICATION"}
        BY <2>2 DEF Events, IngestEvents, StateChanges, VerificationEvents
    <2> QED BY <2>1, <2>3 DEF Fits, Ingested, Filed
<1> QED BY <1>1, TypeCorrect, HistoryInvariance, PTL

-----------------------------------------------------------------------------
(* A superseded record has its successor, whatever was lost or torn *)

(* A step applies one event that fits, or forgets everything, or leaves both. *)
LEMMA FittingSteps ==
    ASSUME TypeOK, HistoryInv, HistoryInv', Next
    PROVE  \/ \E e \in Events : /\ mem' = ApplyEvent(mem, e) /\ applied' = Append(applied, e)
                                /\ Fits(applied, Len(applied), e)
           \/ mem' = EmptyMemory /\ applied' = <<>>
           \/ UNCHANGED <<mem, applied>>
<1>1. ASSUME NEW e \in Events, applied' = Append(applied, e)
      PROVE  Fits(applied, Len(applied), e)
    <2>1. /\ applied \in Seq(Events) /\ Len(applied) \in Nat
        BY DEF TypeOK
    <2>2. /\ DOMAIN applied' = 1..(Len(applied) + 1) /\ applied'[Len(applied) + 1] = e
          /\ \A i \in 1..Len(applied) : applied'[i] = applied[i]
        BY <1>1, <2>1, AppendedAgree
    <2>3. Fits(applied', Len(applied) + 1 - 1, e)
        BY <2>1, <2>2 DEF HistoryInv, Sound
    <2>4. Fits(applied', Len(applied), e)
        BY <2>1, <2>3
    <2> QED BY <2>1, <2>2, <2>4, FitsAgree
<1> QED BY <1>1, MemorySteps

(* What an event about a record makes of the successor it names. *)
LEMMA SuccessorOf ==
    ASSUME NEW m \in Memories, NEW e \in IngestEvents \cup StateChanges, NEW c \in Claims
    PROVE  ApplyEvent(m, e).supersededBy[c] =
               IF e.claim # c THEN m.supersededBy[c]
               ELSE IF e \in IngestEvents THEN None
               ELSE IF e.by = None THEN m.supersededBy[c] ELSE e.by
<1>1. e.claim \in Claims /\ ClaimKey[e.claim] \in Keys
    BY KeyOfClaim DEF IngestEvents, StateChanges
<1>2. CASE e \in IngestEvents
    <2>1. ApplyEvent(m, e) = ApplyIngest([m EXCEPT !.version = @ + 1], e)
        BY <1>2 DEF ApplyEvent, IngestEvents
    <2> QED BY <1>1, <1>2, <2>1 DEF ApplyIngest, IndexClaimKey, Memories
<1>3. CASE e \in StateChanges
    <2>1. ApplyEvent(m, e) = ApplyStateChange([m EXCEPT !.version = @ + 1], e) /\ e \notin IngestEvents
        BY <1>3 DEF ApplyEvent, IngestEvents, StateChanges
    <2> QED BY <1>1, <1>3, <2>1 DEF ApplyStateChange, IndexClaimKey, Memories
<1> QED BY <1>2, <1>3

(* One event that fits keeps every superseded record's successor. *)
LEMMA SuccessorStep ==
    ASSUME NEW m \in Memories, NEW h \in Seq(Events), NEW e \in Events,
           Matches(m, h), Sound(h), Fits(h, Len(h), e),
           NEW c \in Claims, ApplyEvent(m, e).lifecycle[c] = "SUPERSEDED",
           m.lifecycle[c] = "SUPERSEDED" =>
               /\ m.supersededBy[c] \in Claims
               /\ \E i \in DOMAIN h : h[i] = IngestEvent(m.supersededBy[c], c)
    PROVE  LET d == ApplyEvent(m, e).supersededBy[c] IN
           /\ d \in Claims
           /\ \E i \in DOMAIN Append(h, e) : Append(h, e)[i] = IngestEvent(d, c)
<1> DEFINE n == ApplyEvent(m, e)
           g == Append(h, e)
<1>1. /\ DOMAIN g = 1..(Len(h) + 1) /\ DOMAIN h = 1..Len(h)
      /\ \A i \in 1..Len(h) : g[i] = h[i]
    BY AppendedAgree
<1>2. ASSUME m.lifecycle[c] = "SUPERSEDED", n.supersededBy[c] = m.supersededBy[c]
      PROVE  /\ n.supersededBy[c] \in Claims
             /\ \E i \in DOMAIN g : g[i] = IngestEvent(n.supersededBy[c], c)
    <2>1. PICK i \in DOMAIN h : h[i] = IngestEvent(n.supersededBy[c], c)
        BY <1>2
    <2>2. i \in DOMAIN g /\ g[i] = h[i]
        BY <1>1
    <2> HIDE DEF n, g
    <2> QED BY <1>2, <2>1, <2>2
<1>3. CASE e \in VerificationEvents
    <2>1. n.lifecycle = m.lifecycle /\ n.supersededBy = m.supersededBy
        BY <1>3, ApplyToVerdicts
    <2> QED BY <1>2, <2>1
<1>4. CASE e \in IngestEvents \cup StateChanges /\ e.claim # c
    <2>1. n.lifecycle = [m.lifecycle EXCEPT ![e.claim] = Outcome(e)]
        BY <1>4, ApplyToRecords
    <2>2. n.lifecycle[c] = m.lifecycle[c]
        BY <1>4, <2>1 DEF Memories
    <2>3. n.supersededBy[c] = m.supersededBy[c]
        BY <1>4, SuccessorOf
    <2> QED BY <1>2, <2>2, <2>3
<1>5. CASE e \in IngestEvents \cup StateChanges /\ e.claim = c
    <2>1. n.lifecycle = [m.lifecycle EXCEPT ![c] = Outcome(e)]
        BY <1>5, ApplyToRecords
    <2>2. Outcome(e) = "SUPERSEDED"
        BY <2>1 DEF Memories
    <2>3. e \in StateChanges /\ e.event = "STATE_CHANGE" /\ e.state = "SUPERSEDED"
        BY <1>5, <2>2 DEF Outcome, IngestEvents, StateChanges
    <2>4. PICK j \in 1..Len(h) : h[j] = IngestEvent(e.by, c)
        BY <1>5, <2>3 DEF Fits
    <2>5. e.by \in Claims /\ e.by # None
        <3>1. h[j] \in Events /\ h[j].event = "INGEST" /\ h[j].claim = e.by
            BY <2>4 DEF IngestEvent
        <3>2. h[j] \in IngestEvents
            BY <3>1 DEF Events, StateChanges, VerificationEvents
        <3>3. h[j].claim \in Claims
            BY <3>2 DEF IngestEvents
        <3> QED BY <3>1, <3>3, EventConstants
    <2>6. n.supersededBy[c] = e.by
        <3>1. e \notin IngestEvents
            BY <2>3 DEF IngestEvents
        <3>2. n.supersededBy[c] = IF e.claim # c THEN m.supersededBy[c]
                                  ELSE IF e \in IngestEvents THEN None
                                  ELSE IF e.by = None THEN m.supersededBy[c] ELSE e.by
            BY <1>5, SuccessorOf
        <3> HIDE DEF n
        <3> QED BY <1>5, <2>5, <3>1, <3>2
    <2>7. j \in DOMAIN g /\ g[j] = h[j]
        BY <1>1
    <2>8. n.supersededBy[c] \in Claims /\ \E i \in DOMAIN g : g[i] = IngestEvent(n.supersededBy[c], c)
        <3> HIDE DEF n, g
        <3> QED BY <2>4, <2>5, <2>6, <2>7
    <2> QED BY <2>8
<1> QED BY <1>3, <1>4, <1>5 DEF Events

SuccessorInv ==
    \A c \in Claims :
        mem.lifecycle[c] = "SUPERSEDED" =>
            /\ mem.supersededBy[c] \in Claims
            /\ \E i \in DOMAIN applied : applied[i] = IngestEvent(mem.supersededBy[c], c)

(* A superseded record names a stored successor of its key that names it back,
   in every state: between the two appends of a supersession and after a crash
   there too. *)
THEOREM SupersededAlwaysHasSuccessor == Spec => []SupersededHasSuccessor
<1>1. Init => SuccessorInv
    BY DEF Init, SuccessorInv, EmptyMemory
<1>2. /\ TypeOK /\ MemoryMatchesHistory /\ HistoryInv /\ HistoryInv'
      /\ SuccessorInv /\ [Next]_vars
      => SuccessorInv'
    <2> SUFFICES ASSUME TypeOK, MemoryMatchesHistory, HistoryInv, HistoryInv',
                        SuccessorInv, [Next]_vars
                 PROVE  SuccessorInv'
        OBVIOUS
    <2>1. ASSUME NEW e \in Events, mem' = ApplyEvent(mem, e), applied' = Append(applied, e),
                 Fits(applied, Len(applied), e)
          PROVE  SuccessorInv'
        <3> SUFFICES ASSUME NEW c \in Claims, mem'.lifecycle[c] = "SUPERSEDED"
                     PROVE  /\ mem'.supersededBy[c] \in Claims
                            /\ \E i \in DOMAIN applied' :
                                  applied'[i] = IngestEvent(mem'.supersededBy[c], c)
            BY DEF SuccessorInv
        <3>1. /\ mem \in Memories /\ applied \in Seq(Events)
              /\ Matches(mem, applied) /\ Sound(applied)
            BY DEF TypeOK, MemoryMatchesHistory, HistoryInv
        <3>2. mem.lifecycle[c] = "SUPERSEDED" =>
                  /\ mem.supersededBy[c] \in Claims
                  /\ \E i \in DOMAIN applied : applied[i] = IngestEvent(mem.supersededBy[c], c)
            BY DEF SuccessorInv
        <3> QED BY <2>1, <3>1, <3>2, SuccessorStep
    <2>2. CASE mem' = EmptyMemory /\ applied' = <<>>
        BY <2>2 DEF SuccessorInv, EmptyMemory
    <2>3. CASE UNCHANGED <<mem, applied>>
        BY <2>3 DEF SuccessorInv
    <2> QED BY <2>1, <2>2, <2>3, FittingSteps DEF vars
<1>3. TypeOK /\ MemoryMatchesHistory /\ HistoryInv /\ SuccessorInv => SupersededHasSuccessor
    <2> SUFFICES ASSUME TypeOK, MemoryMatchesHistory, HistoryInv, SuccessorInv,
                        NEW c \in Claims, mem.lifecycle[c] = "SUPERSEDED"
                 PROVE  LET d == mem.supersededBy[c] IN
                        /\ d \in Claims
                        /\ Known(mem, d)
                        /\ ClaimKey[d] = ClaimKey[c]
                        /\ \E i \in DOMAIN applied : applied[i] = IngestEvent(d, c)
        BY DEF SupersededHasSuccessor
    <2> DEFINE d == mem.supersededBy[c]
    <2>1. d \in Claims /\ c # None
        BY EventConstants DEF SuccessorInv
    <2>2. PICK i \in DOMAIN applied : applied[i] = IngestEvent(d, c)
        BY DEF SuccessorInv
    <2> HIDE DEF d
    <2>3. applied \in Seq(Events) /\ mem \in Memories /\ i \in 1..Len(applied)
        BY DEF TypeOK
    <2>4. Fits(applied, i - 1, IngestEvent(d, c))
        BY <2>2 DEF HistoryInv, Sound
    <2>5. ClaimKey[d] = ClaimKey[c]
        BY <2>1, <2>4 DEF Fits, IngestEvent
    <2>6. Ingested(applied, Len(applied), d)
        BY <2>2, <2>3 DEF Ingested, IngestEvent
    <2>7. Known(mem, d)
        BY <2>1, <2>3, <2>6, KnownIsIngested DEF MemoryMatchesHistory, HistoryInv
    <2> QED BY <2>1, <2>2, <2>5, <2>7 DEF d
<1> QED BY <1>1, <1>2, <1>3, TypeCorrect, MemoryFollowsHistory, HistoryInvariance, PTL DEF Spec

-----------------------------------------------------------------------------
(* What was withdrawn stays withdrawn *)

(* In a sound history nothing after a state change makes its record retrievable
   again: it was ingested before, and is ingested once. *)
LEMMA WithdrawnStaysWithdrawn ==
    ASSUME NEW m \in Memories, NEW h \in Seq(Events), Matches(m, h), Sound(h),
           NEW i \in DOMAIN h, h[i].event = "STATE_CHANGE"
    PROVE  h[i].claim \notin Retrievable(m)
<1> DEFINE c == h[i].claim
<1> SUFFICES ASSUME c \in Claims, m.lifecycle[c] = "ACTIVE" PROVE FALSE
    BY DEF Retrievable
<1>1. Touches(h[i], c) /\ Ingested(h, i - 1, c)
    BY DEF Touches, Sound, Fits
<1> HIDE DEF c
<1>2. PICK k \in DOMAIN h : /\ Touches(h[k], c)
                            /\ Outcome(h[k]) = "ACTIVE"
                            /\ \A j \in (k + 1)..Len(h) : ~Touches(h[j], c)
    BY <1>1 DEF Matches, LifecycleMatches
<1>3. h[k] \in Events /\ i \in 1..Len(h) /\ k \in 1..Len(h)
    OBVIOUS
<1>4. h[k].event = "INGEST" /\ h[k].claim = c
    <2>1. h[k] \in IngestEvents \cup StateChanges
        BY <1>2, <1>3, TouchesOnlyRecords
    <2>2. h[k] \notin StateChanges
        BY <1>2 DEF StateChanges, Outcome, NonRetrievable
    <2> QED BY <1>2, <2>1, <2>2 DEF IngestEvents, Touches
<1>5. ~Ingested(h, k - 1, c)
    BY <1>4 DEF Sound, Fits
<1>6. i <= k
    BY <1>1, <1>2, <1>3
<1>7. Ingested(h, k - 1, c)
    BY <1>1, <1>3, <1>6 DEF Ingested
<1> QED BY <1>5, <1>7

(* While lines reach the disk whole, a claim whose withdrawal was acknowledged
   is never served again, through restarts, re-ingestion and later events. *)
THEOREM WithdrawalLasts ==
    ASSUME ~TornWrites
    PROVE  Spec => []WithdrawalIsForever
<1>1. TypeOK /\ MemoryMatchesHistory /\ HistoryInv /\ AcknowledgedSurvives => WithdrawalIsForever
    <2> SUFFICES ASSUME TypeOK, MemoryMatchesHistory, HistoryInv, AcknowledgedSurvives,
                        pc = "Idle", NEW i \in DOMAIN durable, durable[i].event = "STATE_CHANGE"
                 PROVE  durable[i].claim \notin Retrievable(mem)
        BY DEF WithdrawalIsForever
    <2>1. /\ mem \in Memories /\ applied \in Seq(Events) /\ durable \in Seq(Events)
          /\ Matches(mem, applied) /\ Sound(applied)
        BY DEF TypeOK, MemoryMatchesHistory, HistoryInv
    <2>2. i \in DOMAIN applied /\ applied[i] = durable[i]
        BY <2>1 DEF AcknowledgedSurvives, IsPrefix
    <2> QED BY <2>1, <2>2, WithdrawnStaysWithdrawn
<1> QED BY <1>1, TypeCorrect, MemoryFollowsHistory, HistoryInvariance,
           AcknowledgedAlwaysSurvives, PTL

-----------------------------------------------------------------------------
(* What the manifest says, while lines reach the disk whole *)

(* The hasher has been fed the log.  The manifest is behind the log only between
   the write of a line and that of the manifest. *)
AnchorInv ==
    /\ pc \in {"Replaying"} \cup Opened => hasher = log
    /\ manifest.present =>
          /\ IsPrefix(manifest.hash, log)
          /\ manifest.version = Len(manifest.hash)
          /\ pc \in ({"Replaying"} \cup Opened) \ {"Anchoring"} => manifest.hash = log

LEMMA PrefixRefl ==
    ASSUME NEW s \in Seq(Line(Events))
    PROVE  IsPrefix(s, s)
BY DEF IsPrefix

(* What a process that has opened the store holds is the log. *)
LEMMA OpenHoldsLog ==
    ASSUME TypeOK, MemoryMatchesHistory, LogInv, AnchorInv, pc \in Opened
    PROVE  /\ hasher = log /\ applied = EventsOf(log)
           /\ Len(applied) = Len(log) /\ mem.version = Len(log)
<1>1. log \in Seq(Line(Events)) /\ applied \in Seq(Events)
    BY DEF TypeOK
<1>2. /\ Len(applied) = Len(log)
      /\ \A i \in 1..Len(log) : applied[i] = EventOf(log[i])
    BY DEF LogInv, HoldsFirst
<1>3. /\ DOMAIN applied = DOMAIN log /\ applied = [i \in DOMAIN applied |-> applied[i]]
      /\ \A i \in DOMAIN applied : applied[i] = EventOf(log[i])
    BY <1>1, <1>2
<1>4. applied = EventsOf(log)
    BY <1>3, Zenon DEF EventsOf
<1> QED BY <1>2, <1>4 DEF AnchorInv, MemoryMatchesHistory, Matches

(* A whole line leaves what the manifest covers a prefix of the log. *)
LEMMA AppendKeepsAnchor ==
    ASSUME TypeOK, LogInv, AnchorInv, AppendLine
    PROVE  AnchorInv'
<1> DEFINE e == Head(todo)
<1>1. /\ pc = "Appending" /\ pc' = "Anchoring"
      /\ log' = Write(log, e, TRUE) /\ hasher' = Write(hasher, e, TRUE)
      /\ UNCHANGED <<manifest, snapshot>>
    BY DEF AppendLine
<1>2. e \in Events /\ log \in Seq(Line(Events)) /\ WholeLines
    BY <1>1 DEF TypeOK, LogInv
<1>3. Len(log') = Len(log) + 1 /\ \A i \in 1..Len(log) : log'[i] = log[i]
    BY <1>1, <1>2, WriteWhole
<1> HIDE DEF e
<1>4. hasher' = log'
    BY <1>1 DEF AnchorInv, Opened
<1>5. manifest.present => IsPrefix(manifest.hash, log')
    <2>1. manifest.present => IsPrefix(manifest.hash, log)
        BY DEF AnchorInv
    <2>2. manifest.hash \in Seq(Line(Events))
        BY DEF TypeOK
    <2>3. Len(log) \in Nat /\ Len(manifest.hash) \in Nat
          /\ DOMAIN manifest.hash = 1..Len(manifest.hash)
        BY <1>2, <2>2
    <2> QED BY <1>3, <2>1, <2>3 DEF IsPrefix
<1> QED BY <1>1, <1>4, <1>5 DEF AnchorInv, Opened

(* The manifest is written with the hash of all of the log. *)
LEMMA ManifestKeepsAnchor ==
    ASSUME TypeOK, MemoryMatchesHistory, LogInv, AnchorInv, pc \in Opened,
           WriteManifest, pc' \in Opened, UNCHANGED <<log, hasher, snapshot>>
    PROVE  AnchorInv'
<1>1. hasher = log /\ mem.version = Len(log)
    BY OpenHoldsLog
<1>2. manifest'.hash = log /\ manifest'.version = Len(log)
    BY <1>1 DEF WriteManifest
<1>3. IsPrefix(log, log)
    BY PrefixRefl DEF TypeOK
<1> QED BY <1>1, <1>2, <1>3 DEF AnchorInv

LEMMA StepKeepsAnchor ==
    ASSUME ~TornWrites, TypeOK, MemoryMatchesHistory, LogInv, AnchorInv, Next
    PROVE  AnchorInv'
<1>1. CASE Open
    <2>1. /\ pc' = "Replaying" /\ hasher' = HashedLines(log) /\ UNCHANGED <<log, manifest, snapshot>>
          /\ ~manifest.present \/ HashedLines(log) = manifest.hash
        BY <1>1 DEF Open, Authentic, disk
    <2>2. HashedLines(log) = log
        <3>1. Len(log) > 0 => log[Len(log)].nl
            BY DEF LogInv, WholeLines, TypeOK
        <3> QED BY <3>1 DEF HashedLines
    <2> QED BY <2>1, <2>2 DEF AnchorInv
<1>2. CASE OpenRefused \/ ReplayRefused
    <2>1. pc' = "Refused" /\ UNCHANGED <<log, manifest, snapshot>>
        BY <1>2 DEF OpenRefused, ReplayRefused, disk
    <2> QED BY <2>1 DEF AnchorInv, Opened
<1>3. CASE ReplayLine \/ ReplayTornTail \/ ReplayDone
    <2>1. /\ pc = "Replaying" /\ pc' \in {"Replaying", "Publishing", "Idle"}
          /\ UNCHANGED <<log, manifest, snapshot, hasher>>
        BY <1>3 DEF ReplayLine, ReplayTornTail, ReplayDone, disk
    <2> QED BY <2>1 DEF AnchorInv, Opened
<1>4. CASE \/ \E c \in Claims : Ingest(c) \/ (\E p \in Claims : IngestSuperseding(c, p)) \/ Retract(c)
           \/ \E v \in Verdicts : AppendVerification(v) \/ AppendExternalVerification(v)
    <2>1. pc = "Idle" /\ pc' = "Appending" /\ UNCHANGED <<log, manifest, snapshot, hasher>>
        BY <1>4 DEF Ingest, IngestSuperseding, Retract, AppendVerification,
                    AppendExternalVerification, Ready, Start, disk
    <2> QED BY <2>1 DEF AnchorInv, Opened
<1>5. CASE AppendLine
    BY <1>5, AppendKeepsAnchor
<1>6. CASE Anchor
    BY <1>6, ManifestKeepsAnchor DEF Anchor, Return, Opened
<1>7. CASE PublishSnapshot
    <2>1. /\ pc = "Publishing" /\ pc' = "Sealing" /\ UNCHANGED <<log, manifest, hasher>>
        BY <1>7 DEF PublishSnapshot
    <2> QED BY <2>1 DEF AnchorInv, Opened
<1>8. CASE Seal
    BY <1>8, ManifestKeepsAnchor DEF Seal, Return, Opened
<1>9. CASE Crash
    BY <1>9 DEF Crash, LoseMemory, AnchorInv, Opened
<1>10. CASE CrashTornAppend
    BY <1>10 DEF CrashTornAppend
<1> QED BY <1>1, <1>2, <1>3, <1>4, <1>5, <1>6, <1>7, <1>8, <1>9, <1>10 DEF Next

LEMMA AnchorInvariance ==
    ASSUME ~TornWrites
    PROVE  Spec => []AnchorInv
<1>1. Init => AnchorInv
    BY DEF Init, AnchorInv, NoManifest, NoSnapshot, Opened
<1>2. TypeOK /\ MemoryMatchesHistory /\ LogInv /\ AnchorInv /\ [Next]_vars => AnchorInv'
    <2>1. AnchorInv /\ UNCHANGED vars => AnchorInv'
        BY DEF vars, AnchorInv
    <2> QED BY <2>1, StepKeepsAnchor
<1> QED BY <1>1, <1>2, TypeCorrect, MemoryFollowsHistory, LogInvariance, PTL DEF Spec

(* While lines reach the disk whole, the manifest never runs ahead of the log,
   and a store that serves has nothing in memory that it does not cover. *)
THEOREM ManifestAlwaysAnchors ==
    ASSUME ~TornWrites
    PROVE  Spec => []ManifestAnchorsLog
<1>1. TypeOK /\ MemoryMatchesHistory /\ LogInv /\ AnchorInv => ManifestAnchorsLog
    <2> SUFFICES ASSUME TypeOK, MemoryMatchesHistory, LogInv, AnchorInv, manifest.present
                 PROVE  /\ IsPrefix(manifest.hash, log)
                        /\ manifest.version = Len(manifest.hash)
                        /\ pc = "Idle" => manifest.hash = log /\ manifest.version = mem.version
        BY DEF ManifestAnchorsLog
    <2>1. IsPrefix(manifest.hash, log) /\ manifest.version = Len(manifest.hash)
        BY DEF AnchorInv
    <2>2. pc = "Idle" => manifest.hash = log /\ mem.version = Len(log)
        BY OpenHoldsLog DEF AnchorInv, Opened
    <2> QED BY <2>1, <2>2
<1> QED BY <1>1, TypeCorrect, MemoryFollowsHistory, LogInvariance, AnchorInvariance, PTL

-----------------------------------------------------------------------------
(* What the snapshot says, lines torn or not *)

(* h leaves c retrievable. *)
SaysActive(h, c) ==
    \E i \in DOMAIN h : /\ Touches(h[i], c)
                        /\ Outcome(h[i]) = "ACTIVE"
                        /\ \A j \in (i + 1)..Len(h) : ~Touches(h[j], c)

(* The history decides the retrievable records. *)
LEMMA HistorySaysActive ==
    ASSUME NEW m \in Memories, NEW h \in Seq(Events), LifecycleMatches(m, h)
    PROVE  Retrievable(m) = {c \in Claims : SaysActive(h, c)}
<1> SUFFICES ASSUME NEW c \in Claims
             PROVE  m.lifecycle[c] = "ACTIVE" <=> SaysActive(h, c)
    BY DEF Retrievable
<1>1. ASSUME m.lifecycle[c] = "ACTIVE" PROVE SaysActive(h, c)
    BY <1>1 DEF LifecycleMatches, SaysActive
<1>2. ASSUME SaysActive(h, c) PROVE m.lifecycle[c] = "ACTIVE"
    <2>1. PICK i \in DOMAIN h : /\ Touches(h[i], c)
                                /\ Outcome(h[i]) = "ACTIVE"
                                /\ \A j \in (i + 1)..Len(h) : ~Touches(h[j], c)
        BY <1>2 DEF SaysActive
    <2>2. PICK k \in DOMAIN h : /\ Touches(h[k], c)
                                /\ m.lifecycle[c] = Outcome(h[k])
                                /\ \A j \in (k + 1)..Len(h) : ~Touches(h[j], c)
        BY <2>1 DEF LifecycleMatches
    <2>3. i \in 1..Len(h) /\ k \in 1..Len(h)
        OBVIOUS
    <2>4. i = k
        BY <2>1, <2>2, <2>3
    <2> QED BY <2>1, <2>2, <2>4
<1> QED BY <1>1, <1>2

(* A file whose last line is ended: the next write leaves its lines alone. *)
Ended(h) == Len(h) > 0 => h[Len(h)].nl

(* What replaying h reads: all of its lines, or all but a last one that does not
   parse.  An earlier one would refuse the replay. *)
Readable(h) == AllParse(h, Len(h) - 1)
ReadLen(h) == IF AllParse(h, Len(h)) THEN Len(h) ELSE Len(h) - 1
ReadOf(h) == [i \in 1..ReadLen(h) |-> EventOf(h[i])]

(* h is what replaying file reads, or longer: an event that continues an unended
   line takes the one before it with it. *)
Reads(file, h) ==
    /\ ~Ended(file) => Parses(file[Len(file)])
    /\ Readable(file) =>
          /\ Len(h) >= ReadLen(file)
          /\ Len(h) = ReadLen(file) => h = ReadOf(file)

(* The bytes a process vouches for when it opens the store. *)
Anchored == IF manifest.present THEN manifest.hash ELSE HashedLines(log)

(* The process hashes what is anchored until it writes a line, and what it has
   applied is at least what replaying its hash would read. *)
HashInv ==
    /\ pc \in ({"Replaying"} \cup Opened) \ {"Anchoring"} => hasher = Anchored
    /\ pc = "Replaying" => hasher = HashedLines(log)
    /\ pc \in Opened => Reads(hasher, applied)

(* A snapshot whose version counts what replaying its hash reads holds what that
   dictates.  Its hash, if ended, is of a prefix of what is anchored and hashed;
   if not, no later write leaves it.  So the snapshot a process accepts was
   right when it opened the store, or is its own. *)
SnapInv ==
    snapshot.present =>
       /\ Readable(snapshot.hash) /\ snapshot.version = ReadLen(snapshot.hash) =>
             snapshot.active = {c \in Claims : SaysActive(ReadOf(snapshot.hash), c)}
       /\ Ended(snapshot.hash) =>
             /\ IsPrefix(snapshot.hash, Anchored)
             /\ pc = "Anchoring" => IsPrefix(snapshot.hash, hasher)
       /\ pc \in Opened /\ SnapshotIsValid => snapshot.active = Retrievable(mem)

(* After an ended line, a write starts a line of its own (_append). *)
LEMMA WriteToEnded ==
    ASSUME NEW file \in Seq(Line(Events)), Ended(file),
           NEW chunk \in Events \cup {Torn}, NEW nl \in BOOLEAN,
           NEW w, w = Write(file, chunk, nl)
    PROVE  /\ Len(w) = Len(file) + 1
           /\ \A i \in 1..Len(file) : w[i] = file[i]
           /\ nl => Ended(w)
           /\ chunk # Torn => Parses(w[Len(w)]) /\ EventOf(w[Len(w)]) = chunk
<1> DEFINE line == [body |-> <<chunk>>, nl |-> nl]
<1>1. Len(file) = 0 \/ file[Len(file)].nl
    BY DEF Ended
<1>2. w = Append(file, line) /\ line \in Line(Events)
    BY <1>1 DEF Write, Line
<1>3. (nl => line.nl) /\ (chunk # Torn => Parses(line) /\ EventOf(line) = chunk)
    BY DEF Parses, EventOf
<1> HIDE DEF line
<1>4. Len(w) = Len(file) + 1 /\ w[Len(w)] = line /\ \A i \in 1..Len(file) : w[i] = file[i]
    BY <1>2
<1>5. nl => Ended(w)
    BY <1>3, <1>4 DEF Ended
<1> QED BY <1>3, <1>4, <1>5

(* An unended line is continued by the next write, and parses no more (_append). *)
LEMMA WriteToUnended ==
    ASSUME NEW file \in Seq(Line(Events)), ~Ended(file),
           NEW chunk \in Events \cup {Torn}, NEW nl \in BOOLEAN,
           NEW w, w = Write(file, chunk, nl)
    PROVE  /\ Len(w) = Len(file) /\ Len(file) > 0
           /\ \A i \in 1..(Len(file) - 1) : w[i] = file[i]
           /\ nl => Ended(w)
           /\ Parses(file[Len(file)]) => ~Parses(w[Len(w)])
<1> DEFINE k == Len(file)
           line == [body |-> Append(file[k].body, chunk), nl |-> nl]
<1>1. k > 0 /\ ~file[k].nl /\ DOMAIN file = 1..k /\ k \in Nat
    BY DEF Ended
<1>2. w = [file EXCEPT ![k] = line]
    <2>1. ~(k = 0 \/ file[k].nl)
        BY <1>1
    <2> QED BY <2>1 DEF Write
<1>3. nl => line.nl
    OBVIOUS
<1>4. Parses(file[k]) => ~Parses(line)
    <2>0. file[k] \in Line(Events)
        BY <1>1
    <2>1. file[k].body \in Seq(Events \cup {Torn})
        BY <2>0 DEF Line
    <2>2. Len(Append(file[k].body, chunk)) = Len(file[k].body) + 1
        BY <2>1
    <2> QED BY <2>2 DEF Parses
<1>5. w \in Seq(Line(Events))
    BY WriteType
<1> HIDE DEF line, k
<1>6. DOMAIN w = 1..k /\ w[k] = line /\ \A i \in 1..(k - 1) : w[i] = file[i]
    BY <1>1, <1>2
<1>7. Len(w) = k
    BY <1>1, <1>5, <1>6
<1>8. nl => Ended(w)
    BY <1>3, <1>6, <1>7 DEF Ended
<1> QED BY <1>1, <1>4, <1>6, <1>7, <1>8 DEF k

(* _append ends its line. *)
LEMMA WriteEnds ==
    ASSUME NEW file \in Seq(Line(Events)), NEW chunk \in Events
    PROVE  Ended(Write(file, chunk, TRUE))
<1>1. chunk \in Events \cup {Torn} /\ TRUE \in BOOLEAN
    OBVIOUS
<1>2. CASE Ended(file)
    BY <1>1, <1>2, WriteToEnded, Zenon
<1>3. CASE ~Ended(file)
    BY <1>1, <1>3, WriteToUnended, Zenon
<1> QED BY <1>2, <1>3

(* Ended lines stay as they are, and are less than the file after a write. *)
LEMMA EndedPrefixWrite ==
    ASSUME NEW s \in Seq(Line(Events)), NEW file \in Seq(Line(Events)),
           Ended(s), IsPrefix(s, file),
           NEW chunk \in Events \cup {Torn}, NEW nl \in BOOLEAN,
           NEW w, w = Write(file, chunk, nl)
    PROVE  IsPrefix(s, w) /\ Len(s) < Len(w)
<1>1. /\ Len(s) \in Nat /\ Len(file) \in Nat /\ DOMAIN s = 1..Len(s)
      /\ Len(s) <= Len(file) /\ \A i \in 1..Len(s) : s[i] = file[i]
    BY DEF IsPrefix
<1>2. CASE Ended(file)
    <2>1. Len(w) = Len(file) + 1 /\ \A i \in 1..Len(file) : w[i] = file[i]
        BY <1>2, WriteToEnded, Zenon
    <2> QED BY <1>1, <2>1 DEF IsPrefix
<1>3. CASE ~Ended(file)
    <2>0. Len(w) = Len(file)
        BY <1>3, WriteToUnended, Zenon
    <2>1. \A i \in 1..(Len(file) - 1) : w[i] = file[i]
        BY <1>3, WriteToUnended, ZenonT(30)
    <2>2. Len(s) # Len(file)
        BY <1>1, <1>3 DEF Ended
    <2>3. /\ Len(s) \in Nat /\ Len(file) \in Nat
          /\ Len(s) <= Len(file) /\ Len(s) # Len(file) /\ Len(w) = Len(file)
        BY <1>1, <2>0, <2>2
    <2>4. Len(s) < Len(w) /\ \A i \in 1..Len(s) : i \in 1..(Len(file) - 1)
        BY <2>3
    <2>5. \A i \in DOMAIN s : s[i] = w[i]
        BY <1>1, <2>1, <2>4
    <2> QED BY <2>3, <2>5, <2>4 DEF IsPrefix
<1> QED BY <1>2, <1>3

(* Only an unended line is left out of a hash (_committed_log_sha256). *)
LEMMA EndedPrefixHashed ==
    ASSUME NEW s \in Seq(Line(Events)), NEW file \in Seq(Line(Events)), Ended(s)
    PROVE  IsPrefix(s, file) <=> IsPrefix(s, HashedLines(file))
<1> DEFINE k == Len(file)
<1>1. CASE k > 0 /\ ~file[k].nl /\ ~Parses(file[k])
    <2>1. HashedLines(file) = SubSeq(file, 1, k - 1)
        BY <1>1 DEF HashedLines
    <2>2. /\ Len(SubSeq(file, 1, k - 1)) = k - 1
          /\ \A i \in 1..(k - 1) : SubSeq(file, 1, k - 1)[i] = file[i]
        <3>1. k \in Nat \ {0} /\ DOMAIN file = 1..k
            BY <1>1
        <3>2. /\ Len(SubSeq(file, 1, k - 1)) = IF 1 <= k - 1 THEN k - 1 - 1 + 1 ELSE 0
              /\ \A i \in 1..(k - 1 - 1 + 1) : SubSeq(file, 1, k - 1)[i] = file[1 + i - 1]
            BY <3>1, SubSeqProperties
        <3> HIDE DEF k
        <3> QED BY <3>1, <3>2
    <2>3. DOMAIN s = 1..Len(s) /\ Len(s) \in Nat /\ k \in Nat
        OBVIOUS
    <2>4. IsPrefix(s, file) => Len(s) # k
        BY <1>1, <2>3 DEF IsPrefix, Ended
    <2> DEFINE h == HashedLines(file)
    <2>5. Len(h) = k - 1 /\ \A i \in 1..(k - 1) : h[i] = file[i]
        BY <2>1, <2>2
    <2> HIDE DEF h
    <2>6. ASSUME IsPrefix(s, file) PROVE IsPrefix(s, h)
        <3>1. Len(s) <= k - 1 /\ \A i \in 1..Len(s) : s[i] = file[i]
            BY <2>3, <2>4, <2>6 DEF IsPrefix
        <3> HIDE DEF k
        <3> QED BY <2>3, <2>5, <3>1 DEF IsPrefix
    <2>7. IsPrefix(s, h) => IsPrefix(s, file)
        BY <2>3, <2>5 DEF IsPrefix, k
    <2> QED BY <2>6, <2>7 DEF h
<1>2. CASE ~(k > 0 /\ ~file[k].nl /\ ~Parses(file[k]))
    BY <1>2 DEF HashedLines
<1> QED BY <1>1, <1>2

(* An unended line is hashed only if it parses. *)
LEMMA HashedEnd ==
    ASSUME NEW file \in Seq(Line(Events)), Readable(file)
    PROVE  LET h == HashedLines(file) IN
           /\ ~Ended(h) => Parses(h[Len(h)])
           /\ Readable(h) /\ ReadLen(h) = ReadLen(file)
           /\ ReadOf(h) = ReadOf(file)
<1> DEFINE k == Len(file)
           h == HashedLines(file)
<1>0. k \in Nat
    OBVIOUS
<1>1. CASE k > 0 /\ ~file[k].nl /\ ~Parses(file[k])
    <2>1. Len(h) = k - 1 /\ \A i \in 1..(k - 1) : h[i] = file[i]
        BY <1>1 DEF HashedLines
    <2> HIDE DEF h
    <2>2. AllParse(h, k - 1) /\ AllParse(h, k - 2) /\ ~AllParse(file, k)
        BY <1>0, <1>1, <2>1 DEF Readable, AllParse
    <2>3. ReadLen(h) = k - 1 /\ ReadLen(file) = k - 1
        BY <2>1, <2>2 DEF ReadLen
    <2>4. ReadOf(h) = ReadOf(file)
        BY <2>1, <2>3 DEF ReadOf
    <2>5. ~Ended(h) => Parses(h[Len(h)])
        BY <1>0, <2>1, <2>2 DEF Ended, AllParse
    <2>6. Readable(h)
        BY <1>0, <2>1, <2>2 DEF Readable
    <2> QED BY <2>3, <2>4, <2>5, <2>6 DEF h
<1>2. CASE ~(k > 0 /\ ~file[k].nl /\ ~Parses(file[k]))
    <2>1. h = file
        BY <1>2 DEF HashedLines
    <2> HIDE DEF h
    <2>2. ~Ended(file) => Parses(file[k])
        BY <1>2 DEF Ended
    <2> QED BY <2>1, <2>2 DEF h
<1> QED BY <1>1, <1>2
(* Replayed to its end, a log leaves what its hash would read. *)
LEMMA ReplayedAll ==
    ASSUME TypeOK, ReplayInv, pc = "Replaying", pos = Len(log)
    PROVE  Readable(log) /\ Len(applied) = ReadLen(log) /\ applied = ReadOf(log)
<1>1. /\ log \in Seq(Line(Events)) /\ applied \in Seq(Events)
      /\ Len(applied) \in Nat /\ Len(log) \in Nat
      /\ DOMAIN applied = 1..Len(applied)
    BY DEF TypeOK
<1>2. \A i \in 1..Len(applied) : Parses(log[i]) /\ applied[i] = EventOf(log[i])
    BY <1>1 DEF ReplayInv
<1>3. Readable(log) /\ Len(applied) = ReadLen(log)
    <2>1. CASE Len(applied) = pos
        BY <1>1, <1>2, <2>1 DEF Readable, ReadLen, AllParse
    <2>2. CASE Len(applied) = pos - 1 /\ ~Parses(log[pos])
        <3>1. ~AllParse(log, Len(log))
            BY <1>1, <2>2 DEF AllParse
        <3> QED BY <1>1, <1>2, <2>2, <3>1 DEF Readable, ReadLen, AllParse
    <2> QED BY <2>1, <2>2 DEF ReplayInv
<1>4. applied = [i \in 1..Len(applied) |-> EventOf(log[i])]
    BY <1>1, <1>2
<1> QED BY <1>3, <1>4 DEF ReadOf

(* One more line that is read, and one more event. *)
LEMMA ReadsOneMore ==
    ASSUME NEW file \in Seq(Line(Events)), NEW h \in Seq(Events), Reads(file, h),
           NEW w \in Seq(Line(Events)), Len(w) = Len(file) + 1,
           \A i \in 1..Len(file) : w[i] = file[i],
           Parses(w[Len(w)])
    PROVE  Reads(w, Append(h, EventOf(w[Len(w)])))
<1> DEFINE n == Len(file)
           e == EventOf(w[Len(w)])
           g == Append(h, e)
<1>1. n \in Nat /\ Len(h) \in Nat /\ Len(w) = n + 1
    OBVIOUS
<1>2. /\ Len(g) = Len(h) + 1 /\ g[Len(g)] = e /\ \A i \in 1..Len(h) : g[i] = h[i]
      /\ g = [i \in 1..Len(g) |-> g[i]]
    <2>1. e \in Events
        <3>1. Len(w) \in DOMAIN w
            BY <1>1
        <3> QED BY <3>1, ParsedEvent
    <2> HIDE DEF e
    <2>2. g \in Seq(Events)
        BY <2>1
    <2>3. g = [i \in 1..Len(g) |-> g[i]]
        <3> HIDE DEF g
        <3> QED BY <2>2
    <2> QED BY <2>1, <2>3
<1> HIDE DEF n, g
<1> SUFFICES ASSUME Readable(w)
             PROVE  /\ Len(g) >= ReadLen(w)
                    /\ Len(g) = ReadLen(w) => g = ReadOf(w)
    BY DEF Reads, g
<1>3. AllParse(w, n)
    BY <1>1 DEF Readable
<1>4. AllParse(file, n) /\ AllParse(w, n + 1) /\ AllParse(file, n - 1)
    BY <1>1, <1>3, SMTT(30) DEF AllParse, n
<1>5. Readable(file) /\ ReadLen(file) = n /\ ReadLen(w) = n + 1
    BY <1>1, <1>4 DEF Readable, ReadLen, n
<1>6. Len(h) >= n /\ (Len(h) = n => h = ReadOf(file))
    BY <1>5 DEF Reads
<1>7. ASSUME Len(h) = n PROVE g = ReadOf(w)
    <2>1. h = [i \in 1..n |-> EventOf(file[i])]
        BY <1>5, <1>6, <1>7 DEF ReadOf
    <2>2. \A i \in 1..(n + 1) : g[i] = EventOf(w[i])
        BY <1>1, <1>2, <1>7, <2>1 DEF n
    <2>3. g = [i \in 1..(n + 1) |-> EventOf(w[i])]
        BY <1>1, <1>2, <1>7, <2>2
    <2> QED BY <1>5, <2>3 DEF ReadOf
<1> QED BY <1>1, <1>2, <1>5, <1>6, <1>7

(* One line that is read no more, and one more event. *)
LEMMA ReadsOneLess ==
    ASSUME NEW file \in Seq(Line(Events)), NEW h \in Seq(Events), Reads(file, h),
           ~Ended(file),
           NEW w \in Seq(Line(Events)), Len(w) = Len(file), Ended(w),
           \A i \in 1..(Len(file) - 1) : w[i] = file[i],
           ~Parses(w[Len(w)]),
           NEW e \in Events
    PROVE  Reads(w, Append(h, e))
<1> DEFINE n == Len(file)
<1>1. n \in Nat /\ n > 0 /\ Len(h) \in Nat /\ Len(Append(h, e)) = Len(h) + 1
    BY DEF Ended
<1>2. Parses(file[n])
    BY DEF Reads
<1> SUFFICES ASSUME Readable(w)
             PROVE  Len(h) + 1 >= ReadLen(w) /\ Len(h) + 1 # ReadLen(w)
    BY <1>1 DEF Reads
<1> HIDE DEF n
<1>3. ReadLen(w) = n - 1
    <2>1. ~AllParse(w, Len(w))
        BY <1>1 DEF AllParse, n
    <2> QED BY <2>1 DEF ReadLen, n
<1>4. AllParse(file, n - 1) /\ AllParse(file, n)
    BY <1>1, <1>2 DEF Readable, AllParse, n
<1>5. Readable(file) /\ ReadLen(file) = n
    BY <1>4 DEF Readable, ReadLen, n
<1>6. Len(h) >= n
    BY <1>5 DEF Reads
<1> QED BY <1>1, <1>3, <1>6

(* The write of an event does the one or the other. *)
LEMMA WriteReads ==
    ASSUME NEW file \in Seq(Line(Events)), NEW h \in Seq(Events), Reads(file, h),
           NEW e \in Events, NEW nl \in BOOLEAN, NEW w, w = Write(file, e, nl),
           Ended(w)
    PROVE  Reads(w, Append(h, e))
<1>1. w \in Seq(Line(Events)) /\ e \in Events \cup {Torn} /\ e # Torn
    BY WriteType, TornIsNoEvent
<1>2. CASE Ended(file)
    <2>1. /\ Len(w) = Len(file) + 1 /\ \A i \in 1..Len(file) : w[i] = file[i]
          /\ Parses(w[Len(w)]) /\ EventOf(w[Len(w)]) = e
        BY <1>1, <1>2, WriteToEnded
    <2> QED BY <1>1, <2>1, ReadsOneMore
<1>3. CASE ~Ended(file)
    <2>1. Parses(file[Len(file)])
        BY <1>3 DEF Reads
    <2>2. /\ Len(w) = Len(file) /\ \A i \in 1..(Len(file) - 1) : w[i] = file[i]
          /\ ~Parses(w[Len(w)])
        BY <1>1, <1>3, <2>1, WriteToUnended
    <2> QED BY <1>1, <1>3, <2>2, ReadsOneLess
<1> QED BY <1>2, <1>3

(* The hash and what is applied grow by the same event. *)
LEMMA AppendKeepsHash ==
    ASSUME TypeOK, HashInv, AppendLine
    PROVE  HashInv'
<1>1. /\ pc = "Appending" /\ pc' = "Anchoring" /\ Head(todo) \in Events
      /\ hasher' = Write(hasher, Head(todo), TRUE) /\ applied' = Append(applied, Head(todo))
      /\ hasher \in Seq(Line(Events)) /\ applied \in Seq(Events)
    BY DEF AppendLine, TypeOK
<1>2. Reads(hasher, applied)
    BY <1>1 DEF HashInv, Opened
<1>3. Ended(hasher')
    BY <1>1, WriteEnds
<1>4. Reads(hasher', applied')
    BY <1>1, <1>2, <1>3, WriteReads
<1> QED BY <1>1, <1>4 DEF HashInv

LEMMA StepKeepsHash ==
    ASSUME TypeOK, HistoryInv, HashInv, Next
    PROVE  HashInv'
<1>1. CASE Open
    <2>1. /\ pc' = "Replaying" /\ hasher' = HashedLines(log) /\ UNCHANGED <<log, manifest>>
          /\ ~manifest.present \/ HashedLines(log) = manifest.hash
        BY <1>1 DEF Open, Authentic, disk
    <2> QED BY <2>1 DEF HashInv, Opened, Anchored
<1>2. CASE OpenRefused \/ ReplayRefused
    <2>1. pc' = "Refused"
        BY <1>2 DEF OpenRefused, ReplayRefused
    <2> QED BY <2>1 DEF HashInv, Opened
<1>3. CASE ReplayLine \/ ReplayTornTail
    <2>1. pc = "Replaying" /\ pc' = "Replaying" /\ UNCHANGED <<log, manifest, hasher>>
        BY <1>3 DEF ReplayLine, ReplayTornTail, disk
    <2> QED BY <2>1 DEF HashInv, Opened, Anchored
<1>4. CASE ReplayDone
    <2>1. /\ pc = "Replaying" /\ pos = Len(log) /\ pc' \in {"Publishing", "Idle"}
          /\ UNCHANGED <<log, manifest, hasher, applied>>
        BY <1>4 DEF ReplayDone, disk, history
    <2>2. hasher = Anchored /\ hasher = HashedLines(log) /\ log \in Seq(Line(Events))
        BY <2>1 DEF HashInv, TypeOK
    <2>3. Readable(log) /\ Len(applied) = ReadLen(log) /\ applied = ReadOf(log)
        BY <2>1, ReplayedAll DEF HistoryInv
    <2>4. /\ ~Ended(hasher) => Parses(hasher[Len(hasher)])
          /\ Len(applied) = ReadLen(hasher) /\ applied = ReadOf(hasher)
        BY <2>2, <2>3, HashedEnd
    <2>5. Reads(hasher, applied)
        <3>1. Len(applied) \in Nat
            BY DEF TypeOK
        <3> QED BY <2>4, <3>1 DEF Reads
    <2> QED BY <2>1, <2>2, <2>5 DEF HashInv, Opened, Anchored
<1>5. CASE \/ \E c \in Claims : Ingest(c) \/ (\E p \in Claims : IngestSuperseding(c, p)) \/ Retract(c)
           \/ \E v \in Verdicts : AppendVerification(v) \/ AppendExternalVerification(v)
    <2>1. pc = "Idle" /\ pc' = "Appending" /\ UNCHANGED <<log, manifest, hasher, applied>>
        BY <1>5 DEF Ingest, IngestSuperseding, Retract, AppendVerification,
                    AppendExternalVerification, Ready, Start, disk, history
    <2> QED BY <2>1 DEF HashInv, Opened, Anchored
<1>6. CASE AppendLine
    BY <1>6, AppendKeepsHash
<1>7. CASE Anchor \/ Seal
    <2>1. /\ pc \in {"Anchoring", "Sealing"} /\ pc' \in {"Publishing", "Appending", "Idle"}
          /\ manifest'.present /\ manifest'.hash = hasher /\ UNCHANGED <<hasher, applied>>
        BY <1>7 DEF Anchor, Seal, Return, WriteManifest
    <2> QED BY <2>1 DEF HashInv, Opened, Anchored
<1>8. CASE PublishSnapshot
    <2>1. /\ pc = "Publishing" /\ pc' = "Sealing" /\ UNCHANGED <<log, manifest, hasher, applied>>
        BY <1>8 DEF PublishSnapshot, history
    <2> QED BY <2>1 DEF HashInv, Opened, Anchored
<1>9. CASE Crash \/ CrashTornAppend
    <2>1. pc' = "Down"
        BY <1>9 DEF Crash, CrashTornAppend, LoseMemory
    <2> QED BY <2>1 DEF HashInv, Opened
<1> QED BY <1>1, <1>2, <1>3, <1>4, <1>5, <1>6, <1>7, <1>8, <1>9 DEF Next

(* What is anchored keeps an ended prefix while the log is written to. *)
LEMMA AnchoredKeepsPrefix ==
    ASSUME TypeOK, TypeOK', UNCHANGED manifest,
           NEW chunk \in Events \cup {Torn}, NEW nl \in BOOLEAN, log' = Write(log, chunk, nl),
           NEW s \in Seq(Line(Events)), Ended(s), IsPrefix(s, Anchored)
    PROVE  IsPrefix(s, Anchored')
<1>1. log \in Seq(Line(Events)) /\ log' \in Seq(Line(Events))
    BY DEF TypeOK
<1>2. CASE manifest.present
    BY <1>2 DEF Anchored
<1>3. CASE ~manifest.present
    <2>1. IsPrefix(s, log)
        BY <1>1, <1>3, EndedPrefixHashed DEF Anchored
    <2>2. IsPrefix(s, log')
        BY <1>1, <2>1, EndedPrefixWrite
    <2>3. IsPrefix(s, HashedLines(log'))
        BY <1>1, <2>2, EndedPrefixHashed
    <2> QED BY <1>3, <2>3 DEF Anchored
<1> QED BY <1>2, <1>3

(* No snapshot on disk has the hash of what is written next. *)
LEMMA AppendKeepsSnap ==
    ASSUME TypeOK, TypeOK', HashInv, SnapInv, AppendLine
    PROVE  SnapInv'
<1>1. /\ pc = "Appending" /\ pc' = "Anchoring" /\ Head(todo) \in Events
      /\ log' = Write(log, Head(todo), TRUE) /\ hasher' = Write(hasher, Head(todo), TRUE)
      /\ UNCHANGED <<manifest, snapshot>>
      /\ hasher \in Seq(Line(Events)) /\ snapshot.hash \in Seq(Line(Events))
    BY DEF AppendLine, TypeOK
<1> SUFFICES ASSUME snapshot.present
             PROVE  /\ Readable(snapshot.hash) /\ snapshot.version = ReadLen(snapshot.hash) =>
                          snapshot.active = {c \in Claims : SaysActive(ReadOf(snapshot.hash), c)}
                    /\ Ended(snapshot.hash) =>
                          IsPrefix(snapshot.hash, Anchored') /\ IsPrefix(snapshot.hash, hasher')
                    /\ snapshot.hash # hasher'
    BY <1>1 DEF SnapInv, SnapshotIsValid
<1>2. CASE Ended(snapshot.hash)
    <2>1. IsPrefix(snapshot.hash, Anchored) /\ hasher = Anchored
        BY <1>1, <1>2 DEF SnapInv, HashInv, Opened
    <2>2. IsPrefix(snapshot.hash, hasher') /\ Len(snapshot.hash) < Len(hasher')
        BY <1>1, <1>2, <2>1, EndedPrefixWrite
    <2>3. snapshot.hash # hasher'
        <3>1. Len(snapshot.hash) \in Nat
            BY <1>1
        <3> QED BY <2>2, <3>1
    <2>4. IsPrefix(snapshot.hash, Anchored')
        BY <1>1, <1>2, <2>1, AnchoredKeepsPrefix
    <2> QED BY <2>2, <2>3, <2>4 DEF SnapInv
<1>3. CASE ~Ended(snapshot.hash)
    <2>1. Ended(hasher')
        BY <1>1, WriteEnds
    <2> QED BY <1>3, <2>1 DEF SnapInv
<1> QED BY <1>2, <1>3

LEMMA StepKeepsSnap ==
    ASSUME TypeOK, TypeOK', MemoryMatchesHistory, HistoryInv, HashInv, SnapInv, Next
    PROVE  SnapInv'
<1>1. CASE Open \/ OpenRefused \/ ReplayRefused \/ ReplayLine \/ ReplayTornTail \/ Crash
    <2>1. /\ pc' \in {"Replaying", "Refused", "Down"} /\ UNCHANGED <<log, manifest, snapshot>>
        BY <1>1 DEF Open, OpenRefused, ReplayRefused, ReplayLine, ReplayTornTail, Crash,
                    LoseMemory, disk
    <2> QED BY <2>1 DEF SnapInv, Opened, Anchored
<1>2. CASE ReplayDone
    <2>1. /\ pc = "Replaying" /\ pos = Len(log) /\ pc' \in {"Publishing", "Idle"}
          /\ UNCHANGED <<log, manifest, snapshot, hasher, mem>>
        BY <1>2 DEF ReplayDone, disk
    <2>2. ASSUME snapshot.present, SnapshotIsValid
          PROVE  snapshot.active = Retrievable(mem)
        <3>1. hasher = HashedLines(log) /\ log \in Seq(Line(Events)) /\ snapshot.hash = hasher
            BY <2>1, <2>2 DEF HashInv, TypeOK, SnapshotIsValid
        <3>2. Readable(log) /\ Len(applied) = ReadLen(log) /\ applied = ReadOf(log)
            BY <2>1, ReplayedAll DEF HistoryInv
        <3>3. /\ Readable(snapshot.hash) /\ Len(applied) = ReadLen(snapshot.hash)
              /\ applied = ReadOf(snapshot.hash)
            BY <3>1, <3>2, HashedEnd
        <3>4. snapshot.version = Len(applied)
            BY <2>2 DEF SnapshotIsValid, MemoryMatchesHistory, Matches
        <3>5. snapshot.active = {c \in Claims : SaysActive(applied, c)}
            BY <2>2, <3>3, <3>4 DEF SnapInv
        <3> QED BY <3>5, HistorySaysActive DEF TypeOK, MemoryMatchesHistory, Matches
    <2> QED BY <2>1, <2>2 DEF SnapInv, Anchored, SnapshotIsValid
<1>3. CASE \/ \E c \in Claims : Ingest(c) \/ (\E p \in Claims : IngestSuperseding(c, p)) \/ Retract(c)
           \/ \E v \in Verdicts : AppendVerification(v) \/ AppendExternalVerification(v)
    <2>1. pc = "Idle" /\ pc' = "Appending" /\ UNCHANGED <<log, manifest, snapshot, hasher, mem>>
        BY <1>3 DEF Ingest, IngestSuperseding, Retract, AppendVerification,
                    AppendExternalVerification, Ready, Start, disk
    <2> QED BY <2>1 DEF SnapInv, Opened, Anchored, SnapshotIsValid
<1>4. CASE AppendLine
    BY <1>4, AppendKeepsSnap
<1>5. CASE Anchor \/ Seal
    <2>1. /\ pc \in {"Anchoring", "Sealing"} /\ pc' \in {"Publishing", "Appending", "Idle"}
          /\ manifest'.present /\ manifest'.hash = hasher /\ UNCHANGED <<snapshot, hasher, mem>>
        BY <1>5 DEF Anchor, Seal, Return, WriteManifest
    <2>2. ASSUME snapshot.present, Ended(snapshot.hash) PROVE IsPrefix(snapshot.hash, hasher)
        <3>1. pc = "Sealing" => hasher = Anchored
            BY DEF HashInv, Opened
        <3> QED BY <2>1, <2>2, <3>1 DEF SnapInv
    <2> QED BY <2>1, <2>2 DEF SnapInv, Opened, Anchored, SnapshotIsValid
<1>6. CASE PublishSnapshot
    <2>1. /\ pc = "Publishing" /\ pc' = "Sealing" /\ UNCHANGED <<log, manifest, hasher, mem>>
          /\ snapshot'.hash = hasher /\ snapshot'.version = mem.version
          /\ snapshot'.active = Retrievable(mem)
        BY <1>6 DEF PublishSnapshot
    <2>2. hasher = Anchored /\ Reads(hasher, applied) /\ IsPrefix(hasher, hasher)
        BY <2>1, PrefixRefl DEF HashInv, Opened, TypeOK
    <2>3. mem.version = Len(applied) /\ Retrievable(mem) = {c \in Claims : SaysActive(applied, c)}
        BY HistorySaysActive DEF TypeOK, MemoryMatchesHistory, Matches
    <2>4. ASSUME Readable(hasher), mem.version = ReadLen(hasher)
          PROVE  Retrievable(mem) = {c \in Claims : SaysActive(ReadOf(hasher), c)}
        BY <2>2, <2>3, <2>4 DEF Reads
    <2> QED BY <2>1, <2>2, <2>4 DEF SnapInv, Anchored
<1>7. CASE CrashTornAppend
    <2>1. PICK chunk \in {Torn, Head(todo)} : log' = Write(log, chunk, FALSE)
        BY <1>7 DEF CrashTornAppend
    <2>2. /\ pc = "Appending" /\ pc' = "Down" /\ UNCHANGED <<manifest, snapshot>>
          /\ chunk \in Events \cup {Torn} /\ snapshot.hash \in Seq(Line(Events))
        BY <1>7 DEF CrashTornAppend, LoseMemory, TypeOK
    <2>3. ASSUME snapshot.present, Ended(snapshot.hash) PROVE IsPrefix(snapshot.hash, Anchored')
        BY <2>1, <2>2, <2>3, AnchoredKeepsPrefix DEF SnapInv
    <2> QED BY <2>2, <2>3 DEF SnapInv, Opened
<1> QED BY <1>1, <1>2, <1>3, <1>4, <1>5, <1>6, <1>7 DEF Next

LEMMA SnapInvariance == Spec => [](HashInv /\ SnapInv)
<1>1. Init => HashInv /\ SnapInv
    BY DEF Init, HashInv, SnapInv, NoSnapshot, Opened
<1>2. TypeOK /\ TypeOK' /\ MemoryMatchesHistory /\ HistoryInv /\ HashInv /\ SnapInv /\ [Next]_vars
          => HashInv' /\ SnapInv'
    <2>1. HashInv /\ SnapInv /\ UNCHANGED vars => HashInv' /\ SnapInv'
        BY DEF vars, HashInv, SnapInv, Anchored, SnapshotIsValid
    <2> QED BY <2>1, StepKeepsHash, StepKeepsSnap
<1> QED BY <1>1, <1>2, TypeCorrect, MemoryFollowsHistory, HistoryInvariance, PTL DEF Spec

(* However often processes die and whatever lines they tear, a snapshot that
   snapshot_is_valid accepts holds the records that are retrievable now. *)
THEOREM TrustedSnapshotIsCurrent == Spec => []SnapshotTrustedOnlyIfCurrent
<1>1. SnapInv => SnapshotTrustedOnlyIfCurrent
    BY DEF SnapInv, SnapshotTrustedOnlyIfCurrent, SnapshotIsValid, Opened
<1> QED BY <1>1, SnapInvariance, PTL

-----------------------------------------------------------------------------
(* The store implements ClaimHistory, while lines reach the disk whole *)

View == IF pc = "Idle" THEN mem.lifecycle ELSE [c \in Claims |-> "ABSENT"]

(* The instance in the store's own terms. *)
LEMMA HistoryVars ==
    /\ History!historyVars = <<EventsOf(log), pc = "Idle", View>>
    /\ History!HistoryInit <=>
          EventsOf(log) = <<>> /\ (pc = "Idle") = FALSE /\ View = [c \in Claims |-> "ABSENT"]
    /\ \A e : History!Commit(e) <=>
          /\ pc # "Idle"
          /\ History!Admissible(EventsOf(log), e)
          /\ EventsOf(log)' = Append(EventsOf(log), e)
          /\ (pc = "Idle")' = (pc = "Idle") /\ View' = View
    /\ History!Serve <=>
          /\ pc # "Idle"
          /\ (pc = "Idle")' = TRUE
          /\ View' = [c \in Claims |-> History!LifecycleIn(EventsOf(log), c)]
          /\ EventsOf(log)' = EventsOf(log)
    /\ History!Pause <=>
          /\ pc = "Idle"
          /\ (pc = "Idle")' = FALSE
          /\ View' = [c \in Claims |-> "ABSENT"]
          /\ EventsOf(log)' = EventsOf(log)
BY DEF History!historyVars, History!HistoryInit, History!Commit, History!Serve,
       History!Pause, History!NoView, View, EventsOf

LEMMA HistoryEvents ==
    /\ History!Events = Events
    /\ \A c, p : History!IngestEvent(c, p) = IngestEvent(c, p)
    /\ \A v : History!VerificationEvent(v) = VerificationEvent(v)
BY DEF History!Events, History!IngestEvents, History!StateChanges, History!VerificationEvents,
       History!NonRetrievable, History!IngestEvent, History!VerificationEvent,
       Events, IngestEvents, StateChanges, VerificationEvents, NonRetrievable,
       IngestEvent, VerificationEvent

(* An event that fits is admissible. *)
LEMMA FittingIsAdmissible ==
    ASSUME NEW h \in Seq(Events), NEW e \in Events, Fits(h, Len(h), e)
    PROVE  History!Admissible(h, e)
<1>1. DOMAIN h = 1..Len(h)
    OBVIOUS
<1>2. \A c : Ingested(h, Len(h), c) <=> History!Recorded(h, c)
    BY <1>1 DEF Ingested, History!Recorded
<1>3. \A v : Filed(h, Len(h), v) <=> History!Appended(h, v)
    BY <1>1, HistoryEvents DEF Filed, History!Appended
<1>4. e.event \in {"INGEST", "STATE_CHANGE", "VERIFICATION"}
    BY DEF Events, IngestEvents, StateChanges, VerificationEvents
<1>5. CASE e.event = "INGEST"
    BY <1>2, <1>5 DEF Fits, History!Admissible, History!AdmissibleIngest
<1>6. CASE e.event = "STATE_CHANGE"
    BY <1>1, <1>2, <1>6, HistoryEvents DEF Fits, History!Admissible, History!AdmissibleChange
<1>7. CASE e.event = "VERIFICATION"
    BY <1>2, <1>3, <1>7 DEF Fits, History!Admissible, History!AdmissibleVerdict
<1> QED BY <1>4, <1>5, <1>6, <1>7

(* The records hold what the whole history says of each. *)
LEMMA LifecycleIsLastWord ==
    ASSUME NEW m \in Memories, NEW h \in Seq(Events), LifecycleMatches(m, h)
    PROVE  m.lifecycle = [c \in Claims |-> History!LifecycleIn(h, c)]
<1> SUFFICES ASSUME NEW c \in Claims
             PROVE  m.lifecycle[c] = History!LifecycleIn(h, c)
    BY DEF Memories
<1> DEFINE T == History!Touching(h, c)
<1>1. \A i : i \in T <=> i \in DOMAIN h /\ Touches(h[i], c)
    BY DEF History!Touching, Touches
<1>2. History!LifecycleIn(h, c) =
          IF T = {} THEN "ABSENT"
          ELSE Outcome(h[CHOOSE i \in T : \A j \in T : j <= i])
    BY DEF History!LifecycleIn, Outcome
<1> HIDE DEF T
<1>3. CASE m.lifecycle[c] = "ABSENT" /\ \A i \in DOMAIN h : ~Touches(h[i], c)
    BY <1>1, <1>2, <1>3
<1>4. ASSUME NEW i \in DOMAIN h, Touches(h[i], c), m.lifecycle[c] = Outcome(h[i]),
             \A j \in (i + 1)..Len(h) : ~Touches(h[j], c)
      PROVE  m.lifecycle[c] = History!LifecycleIn(h, c)
    <2>1. i \in T /\ T \subseteq 1..Len(h)
        BY <1>1, <1>4
    <2>2. \A j \in T : j <= i
        BY <1>1, <1>4, <2>1
    <2>3. (CHOOSE k \in T : \A j \in T : j <= k) = i
        <3>1. \A k \in T : (\A j \in T : j <= k) => k = i
            BY <2>1, <2>2
        <3> QED BY <2>1, <2>2, <3>1
    <2> QED BY <1>2, <1>4, <2>1, <2>3
<1> QED BY <1>3, <1>4 DEF LifecycleMatches

(* Only the write of a line changes the log, and no step stays Idle. *)
LEMMA OtherSteps ==
    ASSUME ~TornWrites, Next, ~AppendLine
    PROVE  UNCHANGED log /\ ~(pc = "Idle" /\ pc' = "Idle")
BY DEF Next, Open, OpenRefused, ReplayLine, ReplayTornTail, ReplayRefused, ReplayDone,
       Ingest, IngestSuperseding, Retract, AppendVerification, AppendExternalVerification,
       Ready, Start, Anchor, PublishSnapshot, Seal, Return, Crash, CrashTornAppend,
       LoseMemory, disk

StoreInv ==
    /\ TypeOK /\ MemoryMatchesHistory /\ HistoryInv
    /\ pc \in Opened => applied = EventsOf(log)

(* The line written commits its event; a store that becomes Idle serves what the
   whole log says; every other step is invisible or ends the service. *)
LEMMA StepHistory ==
    ASSUME ~TornWrites, StoreInv, StoreInv', [Next]_vars
    PROVE  [History!HistoryNext]_(History!historyVars)
<1>1. CASE AppendLine
    <2>1. pc = "Appending" /\ pc' = "Anchoring" /\ applied' = Append(applied, Head(todo))
        BY <1>1 DEF AppendLine
    <2>2. applied = EventsOf(log) /\ applied' = EventsOf(log')
        BY <2>1 DEF StoreInv, Opened, EventsOf
    <2>3. Head(todo) \in Events /\ applied \in Seq(Events)
        BY <2>1 DEF StoreInv, TypeOK
    <2>4. Fits(applied, Len(applied), Head(todo))
        BY <2>1 DEF StoreInv, HistoryInv, TodoInv
    <2>5. History!Admissible(EventsOf(log), Head(todo))
        BY <2>2, <2>3, <2>4, FittingIsAdmissible
    <2>6. EventsOf(log)' = EventsOf(log')
        BY DEF EventsOf
    <2>7. History!Commit(Head(todo))
        BY <2>1, <2>2, <2>5, <2>6, HistoryVars DEF View
    <2> QED BY <2>3, <2>7, HistoryEvents DEF History!HistoryNext
<1>2. ASSUME UNCHANGED log, ~(pc = "Idle" /\ pc' = "Idle")
      PROVE  [History!HistoryNext]_(History!historyVars)
    <2>1. EventsOf(log)' = EventsOf(log)
        BY <1>2 DEF EventsOf
    <2>2. CASE pc # "Idle" /\ pc' = "Idle"
        <3>1. applied' = EventsOf(log') /\ mem' \in Memories /\ applied' \in Seq(Events)
              /\ LifecycleMatches(mem', applied')
            BY <2>2 DEF StoreInv, Opened, TypeOK, MemoryMatchesHistory, Matches, EventsOf
        <3>2. mem'.lifecycle = [c \in Claims |-> History!LifecycleIn(applied', c)]
            BY <3>1, LifecycleIsLastWord
        <3>3. View' = [c \in Claims |-> History!LifecycleIn(EventsOf(log), c)]
            BY <1>2, <2>2, <3>1, <3>2 DEF View
        <3> QED BY <2>1, <2>2, <3>3, HistoryVars DEF History!HistoryNext
    <2>3. CASE pc = "Idle" /\ pc' # "Idle"
        BY <2>1, <2>3, HistoryVars DEF History!HistoryNext, View
    <2>4. CASE pc # "Idle" /\ pc' # "Idle"
        BY <2>1, <2>4 DEF History!historyVars, EventsOf
    <2> QED BY <1>2, <2>2, <2>3, <2>4
<1>3. CASE UNCHANGED vars
    <2>1. log' = log /\ pc' = pc /\ mem' = mem
        BY <1>3 DEF vars
    <2> QED BY <2>1 DEF History!historyVars
<1> QED BY <1>1, <1>2, <1>3, OtherSteps

(* With crashes between any two writes, log, manifest, snapshot and memory
   together are a history that only grows by admissible events and a service
   that answers with what the whole of it says or not at all. *)
THEOREM StoreImplementsHistory ==
    ASSUME ~TornWrites
    PROVE  Spec => ImplementsHistory
<1>1. Init => History!HistoryInit
    BY HistoryVars DEF Init, EventsOf, View
<1>2. StoreInv /\ StoreInv' /\ [Next]_vars => [History!HistoryNext]_(History!historyVars)
    BY StepHistory
<1>3. Spec => []StoreInv
    <2>1. TypeOK /\ MemoryMatchesHistory /\ HistoryInv /\ LogInv /\ AnchorInv => StoreInv
        BY OpenHoldsLog DEF StoreInv
    <2> QED BY <2>1, TypeCorrect, MemoryFollowsHistory, HistoryInvariance, LogInvariance,
               AnchorInvariance, PTL
<1> QED BY <1>1, <1>2, <1>3, PTL DEF Spec, ImplementsHistory, History!HistorySpec

=============================================================================
