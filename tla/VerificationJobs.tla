--------------------------- MODULE VerificationJobs ---------------------------
(****************************************************************************)
(* What the verification queue and its worker promise: a job that was       *)
(* enqueued gets one verdict, and is done only then.                        *)
(****************************************************************************)
CONSTANTS
    Jobs,
    Findings,  \* what a verdict says
    Undecided  \* no verdict yet

VARIABLES
    stage,    \* [Jobs -> {"absent", "queued", "done"}]
    verdict   \* [Jobs -> Findings or Undecided]

vars == <<stage, verdict>>

Init ==
    /\ stage = [j \in Jobs |-> "absent"]
    /\ verdict = [j \in Jobs |-> Undecided]

Enqueue(j) ==
    /\ stage[j] = "absent"
    /\ stage' = [stage EXCEPT ![j] = "queued"]
    /\ UNCHANGED verdict

\* The verdict is final: nothing changes it once it is there.
Decide(j, f) ==
    /\ stage[j] = "queued"
    /\ verdict[j] = Undecided
    /\ verdict' = [verdict EXCEPT ![j] = f]
    /\ UNCHANGED stage

Finish(j) ==
    /\ stage[j] = "queued"
    /\ verdict[j] # Undecided
    /\ stage' = [stage EXCEPT ![j] = "done"]
    /\ UNCHANGED verdict

Next == \E j \in Jobs : Enqueue(j) \/ Finish(j) \/ \E f \in Findings : Decide(j, f)

JobsSpec == Init /\ [][Next]_vars

=============================================================================
