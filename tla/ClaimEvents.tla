------------------------------ MODULE ClaimEvents ------------------------------
(****************************************************************************)
(* The canonical events of the claim store and the state they derive:       *)
(* src/hrm_adaptive_memory/memory_write/claim_store.py and verification.py. *)
(*                                                                          *)
(* Record ids and verification ids are content addresses, so an id stands   *)
(* for the whole content: Claims are the records a caller can ingest and    *)
(* Verdicts the determinations it can append.                               *)
(****************************************************************************)
EXTENDS Integers, Sequences, FiniteSets

CONSTANTS
    Claims,        \* record ids
    ClaimKey,      \* [Claims -> (entity, relation) after normalisation]
    Verdicts,      \* verification event ids
    VerdictOf,     \* [Verdicts -> the determination the id addresses]
    Results,       \* VerificationResult values
    Jobs,          \* verification job ids
    None           \* absent optional field

\* An external (V2A) determination cites records of the evidence store, not
\* claims: its evidence here is empty.
Determinations ==
    [claim : Claims, evidence : SUBSET Claims, result : Results,
     retires : Verdicts \cup {None}, external : BOOLEAN, job : Jobs \cup {None}]

ASSUME EventConstants ==
    /\ None \notin Claims \cup Verdicts \cup Jobs
    /\ DOMAIN ClaimKey = Claims
    /\ VerdictOf \in [Verdicts -> Determinations]
    /\ \A v \in Verdicts :
          VerdictOf[v].external => /\ VerdictOf[v].retires = None
                                   /\ VerdictOf[v].evidence = {}

-----------------------------------------------------------------------------
(* Events *)

NonRetrievable == {"SUPERSEDED", "RETRACTED"}
Lifecycles == {"ABSENT", "ACTIVE"} \cup NonRetrievable

IngestEvent(c, prior) == [event |-> "INGEST", claim |-> c, supersedes |-> prior]
StateChange(c, state, by) ==
    [event |-> "STATE_CHANGE", claim |-> c, state |-> state, by |-> by]
VerificationEvent(v) == [event |-> "VERIFICATION", verdict |-> v]

IngestEvents == [event : {"INGEST"}, claim : Claims, supersedes : Claims \cup {None}]
StateChanges == [event : {"STATE_CHANGE"}, claim : Claims, state : NonRetrievable,
                 by : Claims \cup {None}]
VerificationEvents == [event : {"VERIFICATION"}, verdict : Verdicts]
Events == IngestEvents \cup StateChanges \cup VerificationEvents

-----------------------------------------------------------------------------
(* The derived state and how one event changes it *)

Keys == {ClaimKey[c] : c \in Claims}

Memories ==
    [version : Nat, lifecycle : [Claims -> Lifecycles],
     supersededBy : [Claims -> Claims \cup {None}], active : [Keys -> SUBSET Claims],
     verdicts : [Claims -> Seq(Verdicts)], verdictIds : SUBSET Verdicts, jobIds : SUBSET Jobs]

EmptyMemory ==
    [version      |-> 0,
     lifecycle    |-> [c \in Claims |-> "ABSENT"],
     supersededBy |-> [c \in Claims |-> None],
     active       |-> [k \in Keys |-> {}],
     verdicts     |-> [c \in Claims |-> <<>>],
     verdictIds   |-> {},
     jobIds       |-> {}]

Known(m, c) == m.lifecycle[c] # "ABSENT"
Retrievable(m) == {c \in Claims : m.lifecycle[c] = "ACTIVE"}

\* Mutant: a withdrawn record stays in its bucket.
IndexClaimKeyGrowing(m, c) == [m EXCEPT !.active[ClaimKey[c]] = @ \cup {c}]

\* _index_claim_key
IndexClaimKey(m, c) ==
    [m EXCEPT !.active[ClaimKey[c]] =
        IF m.lifecycle[c] \in NonRetrievable THEN @ \ {c} ELSE @ \cup {c}]

\* A new ClaimRecord has no superseded_by.
ApplyIngest(m, e) ==
    IndexClaimKey([m EXCEPT !.lifecycle[e.claim] = "ACTIVE",
                            !.supersededBy[e.claim] = None], e.claim)

ApplyStateChange(m, e) ==
    IndexClaimKey([m EXCEPT !.lifecycle[e.claim] = e.state,
                            !.supersededBy[e.claim] = IF e.by = None THEN @ ELSE e.by],
                  e.claim)

\* V11: an identical determination is idempotent, not a second opinion.
ApplyVerification(m, v) ==
    LET d == VerdictOf[v] IN
    IF v \in m.verdictIds
    THEN m
    ELSE [m EXCEPT !.verdictIds = @ \cup {v},
                   !.jobIds = @ \cup ({d.job} \ {None}),
                   !.verdicts[d.claim] = Append(@, v)]

ApplyEvent(m, e) ==
    LET n == [m EXCEPT !.version = @ + 1] IN
    CASE e.event = "INGEST"       -> ApplyIngest(n, e)
      [] e.event = "STATE_CHANGE" -> ApplyStateChange(n, e)
      [] e.event = "VERIFICATION" -> ApplyVerification(n, e.verdict)

\* The lifecycle an event about a record gives it.
Outcome(e) == IF e.event = "INGEST" THEN "ACTIVE" ELSE e.state

\* self._records[rid] raises KeyError for an unknown record.
Applicable(m, e) == e.event = "STATE_CHANGE" => Known(m, e.claim)

-----------------------------------------------------------------------------
(* Verification status, derived on demand *)

VerdictsOn(m, c) == {m.verdicts[c][i] : i \in DOMAIN m.verdicts[c]}

\* A V1 verdict counts only while every record it cites is retrievable.
LiveVerdicts(m, c) ==
    {v \in VerdictsOn(m, c) : VerdictOf[v].external
                              \/ VerdictOf[v].evidence \subseteq Retrievable(m)}

RetiredIds(verdicts) == {VerdictOf[v].retires : v \in verdicts} \ {None}

DeriveStatus(verdicts, retired) ==
    LET results == {VerdictOf[v].result : v \in verdicts \ retired} IN
    IF results = {} THEN "UNVERIFIED"
    ELSE IF Cardinality(results) = 1 THEN CHOOSE r \in results : TRUE
    ELSE "INCONCLUSIVE"

VerificationStatus(m, c) ==
    DeriveStatus(LiveVerdicts(m, c), RetiredIds(LiveVerdicts(m, c)))

=============================================================================
