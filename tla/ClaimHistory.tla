----------------------------- MODULE ClaimHistory -----------------------------
(****************************************************************************)
(* What ClaimStore promises: a history that only grows, by admissible       *)
(* events, and a service that answers with what the whole history says or   *)
(* does not answer at all (during an operation, a restart, or for good).    *)
(****************************************************************************)
EXTENDS ClaimEvents

VARIABLES
    committed,  \* the events of the history
    serving,    \* the store answers
    view        \* lifecycle state of every record, while it answers

historyVars == <<committed, serving, view>>

Recorded(h, c) == \E i \in DOMAIN h : h[i].event = "INGEST" /\ h[i].claim = c
Appended(h, v) == \E i \in DOMAIN h : h[i] = VerificationEvent(v)

\* The positions of h that decide the lifecycle of c.
Touching(h, c) ==
    {i \in DOMAIN h : h[i].event \in {"INGEST", "STATE_CHANGE"} /\ h[i].claim = c}

\* Last writer wins; ingest writes ACTIVE.
LifecycleIn(h, c) ==
    IF Touching(h, c) = {} THEN "ABSENT"
    ELSE LET last == h[CHOOSE i \in Touching(h, c) : \A j \in Touching(h, c) : j <= i]
         IN IF last.event = "INGEST" THEN "ACTIVE" ELSE last.state

NoView == [c \in Claims |-> "ABSENT"]

\* An id is recorded once, and an event refers only to what came before it.
AdmissibleIngest(h, e) ==
    /\ ~Recorded(h, e.claim)
    /\ e.supersedes # None => /\ Recorded(h, e.supersedes)
                              /\ ClaimKey[e.supersedes] = ClaimKey[e.claim]

AdmissibleChange(h, e) ==
    /\ Recorded(h, e.claim)
    /\ e.state = "SUPERSEDED" => \E i \in DOMAIN h : h[i] = IngestEvent(e.by, e.claim)

AdmissibleVerdict(h, v) ==
    LET d == VerdictOf[v] IN
    /\ ~Appended(h, v)
    /\ \A c \in d.evidence \cup {d.claim} : Recorded(h, c)
    /\ d.retires # None => Appended(h, d.retires)

Admissible(h, e) ==
    CASE e.event = "INGEST"       -> AdmissibleIngest(h, e)
      [] e.event = "STATE_CHANGE" -> AdmissibleChange(h, e)
      [] e.event = "VERIFICATION" -> AdmissibleVerdict(h, e.verdict)

HistoryInit == committed = <<>> /\ serving = FALSE /\ view = NoView

Commit(e) ==
    /\ ~serving
    /\ Admissible(committed, e)
    /\ committed' = Append(committed, e)
    /\ UNCHANGED <<serving, view>>

Serve ==
    /\ ~serving
    /\ serving' = TRUE
    /\ view' = [c \in Claims |-> LifecycleIn(committed, c)]
    /\ UNCHANGED committed

Pause ==
    /\ serving
    /\ serving' = FALSE
    /\ view' = NoView
    /\ UNCHANGED committed

HistoryNext == (\E e \in Events : Commit(e)) \/ Serve \/ Pause

HistorySpec == HistoryInit /\ [][HistoryNext]_historyVars

=============================================================================
