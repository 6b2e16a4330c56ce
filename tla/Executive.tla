------------------------------ MODULE Executive ------------------------------
(****************************************************************************)
(* One task under the metareasoning executive of                            *)
(* src/hrm_adaptive_memory/executive: first the oracle's policy table is    *)
(* built (metareasoning_transition_table.py), breadth first and then        *)
(* backwards; then an arbitrary controller proposes actions, which the      *)
(* policy gate resolves, the budgets admit and the executor applies         *)
(* (metareasoning_loop.py; with feedback, metareasoning_i3_2.py).           *)
(*                                                                          *)
(* Reasoning tokens are counted in the units of 128 that the canonical      *)
(* state demands; money costs nothing in the frozen cost table and is left  *)
(* out.  Utilities are in hundredths.                                       *)
(****************************************************************************)
EXTENDS PolicyGate, Integers, SequencesExt

CONSTANTS
    Tasks,           \* [stakes, expected, required, evidence, effects, budget]
    Utility,         \* the frozen weights and rewards
    FailurePenalty,  \* of the benchmark's own weights
    MaxStates,       \* max_states of the table
    MaxSteps         \* max_steps of run_task_with_runtime

MaxPolicyRejections == 3

Counters == {"retrieval", "verification", "search", "reasoning"}
Kinds == Counters \cup {"steps", "elapsed"}
Fields == {"verification", "temporal", "conflict", "composition", "provenance",
           "resolvable", "outcomes", "retrieved", "searched"}

ASSUME ExecutiveConstants ==
    /\ \A t \in Tasks :
          /\ t.budget \in [Kinds -> Nat]
          /\ DOMAIN t.evidence = Fields
          /\ t.expected \in Terminal
    /\ Utility \in [correct_answer : Int, incorrect_answer : Int,
                    correct_defer : Int, incorrect_defer : Int,
                    correct_stop : Int, incorrect_stop : Int,
                    step : Int, retrieval : Int, verification : Int, search : Int,
                    reasoning : Int, ms : Int]
    /\ FailurePenalty \in Int
    /\ None \notin {"TASK_SUCCESS", "TASK_FAILURE"}
    /\ MaxStates \in Nat /\ MaxSteps \in Nat

VARIABLES
    task, policy,
    feedback,   \* include_policy_feedback: refusals are charged (I3.2)
    phase,      \* "explore", "solve", "run" or "done"
    states,     \* runtimes, one for each canonical state found
    queue,      \* those still to be expanded
    value,      \* state_values, by canonical state
    runtime,
    proposals,  \* turns of the loop so far
    rejections, \* policy_rejections of the loop without feedback
    refused,    \* with feedback: the proposals in the history that were refused
    executed,   \* executed_action of the last turn, or None
    realized,   \* realized_utility
    result      \* terminal_result

table == <<states, queue, value>>
run == <<runtime, proposals, rejections, refused, executed, realized, result>>
vars == <<task, policy, feedback, phase, table, run>>

-----------------------------------------------------------------------------
(* Resources *)

Charged == [a \in Actions |-> CASE a = "RETRIEVE"    -> "retrieval"
                                [] a = "VERIFY"      -> "verification"
                                [] a = "SEARCH_MORE" -> "search"
                                [] a = "REASON_MORE" -> "reasoning"
                                [] OTHER             -> "none"]
Elapses == [a \in Actions |-> CASE a = "RETRIEVE"    -> 5
                                [] a = "VERIFY"      -> 8
                                [] a = "SEARCH_MORE" -> 6
                                [] a = "REASON_MORE" -> 4
                                [] OTHER             -> 1]

\* consume, before it compares with the budget.
Consume(used, a) ==
    [k \in Kinds |-> CASE k = "steps"   -> used[k] + 1
                       [] k = "elapsed" -> used[k] + Elapses[a]
                       [] OTHER         -> used[k] + (IF k = Charged[a] THEN 1 ELSE 0)]

\* Mutant: the budget is compared before the cost is added.
CanExecuteBeforeCharge(used, a) == \A k \in Kinds : used[k] <= task.budget[k]

CanExecute(used, a) == \A k \in Kinds : Consume(used, a)[k] <= task.budget[k]

\* consume_policy_rejection: a step and the time of a deferral, on those budgets only.
ChargeRejection(used) ==
    [used EXCEPT !["steps"] = @ + 1, !["elapsed"] = @ + Elapses["DEFER"]]
CanCharge(used) ==
    \A k \in {"steps", "elapsed"} : ChargeRejection(used)[k] <= task.budget[k]

Rejected(r) == [r EXCEPT !.used = ChargeRejection(@), !.rejections = @ + 1]

-----------------------------------------------------------------------------
(* The environment *)

Answerable(e) ==
    /\ e.verification = "SUFFICIENT"
    /\ e.temporal = "CURRENT"
    /\ ~e.conflict
    /\ e.composition
    /\ e.provenance >= task.required

\* The facts the policy sees of a runtime.
PolicyFacts(r) ==
    LET e == r.evidence
        holds == [high_stakes            |-> task.stakes,
                  unverified             |-> e.verification = "UNVERIFIED",
                  falsified              |-> e.verification = "FALSIFIED",
                  stale                  |-> "STALE" \in {e.temporal, e.verification},
                  unresolved_conflict    |-> e.conflict /\ ~e.resolvable,
                  evidence_sufficient    |-> Answerable(e),
                  retrieval_exhausted    |-> r.used["retrieval"] = task.budget["retrieval"],
                  verification_exhausted |-> r.used["verification"] = task.budget["verification"],
                  search_exhausted       |-> r.used["search"] = task.budget["search"]]
    IN  {<<f>> : f \in {g \in DOMAIN holds : holds[g]}}

ConditionMatches(e, rule) ==
    /\ \A f \in DOMAIN rule.when : e[f] = rule.when[f]
    /\ rule.contains \subseteq ToSet(e.outcomes)
    /\ rule.lacks \cap ToSet(e.outcomes) = {}

Appended(e, rule) ==
    IF rule.once THEN SelectSeq(rule.append, LAMBDA x : x \notin ToSet(e.outcomes))
    ELSE rule.append

\* Effects are given as strings, resolvable as a JSON boolean too, whose true is
\* here "True"; the flags but this one know one spelling.
Parsed(f, v) ==
    CASE f \in {"conflict", "composition"} -> v = "true"
      [] f = "resolvable"                  -> v \in {"true", "True"}
      [] OTHER                             -> v

\* The first rule that matches applies; a default is a last rule without condition.
ApplyEffect(e, rules) ==
    LET hit == SelectInSeq(rules, LAMBDA rule : ConditionMatches(e, rule))
    IN  IF hit = 0 THEN e
        ELSE [f \in DOMAIN e |->
                CASE f \in DOMAIN rules[hit].set -> Parsed(f, rules[hit].set[f])
                  [] f = "outcomes"              -> e[f] \o Appended(e, rules[hit])
                  [] OTHER                       -> e[f]]

Marked(e, a) ==
    CASE a = "RETRIEVE"    -> [e EXCEPT !.retrieved = TRUE]
      [] a = "SEARCH_MORE" -> [e EXCEPT !.searched = TRUE]
      [] OTHER             -> e

After(r, a) ==
    [r EXCEPT !.used = Consume(@, a),
              !.evidence = ApplyEffect(Marked(@, a), task.effects[a])]

\* An action is final, or leaves a budget that admits nothing more.
Ends(r, a) ==
    a \in Terminal \/ \A b \in Actions : ~CanExecute(After(r, a).used, b)

Succeeds(r, a) ==
    /\ a \in Terminal /\ task.expected = a
    /\ a = "ANSWER" => Answerable(After(r, a).evidence)

Outcome(r, a) == IF a \notin Terminal THEN "RESOURCE_EXHAUSTED"
                 ELSE IF Succeeds(r, a) THEN "TASK_SUCCESS" ELSE "TASK_FAILURE"

-----------------------------------------------------------------------------
(* Canonical states and utilities *)

\* canonicalize_runtime_state: what can still matter.  Elapsed time is dropped.
Canonical(r) ==
    [evidence   |-> r.evidence,
     remaining  |-> [k \in Counters \cup {"steps"} |-> task.budget[k] - r.used[k]],
     rejections |-> r.rejections]

\* runtime_from_oracle_state: only nonterminal actions and refusals precede a
\* state, so their counters give the time back.
FromCanonical(c) ==
    LET used == [k \in Counters \cup {"steps"} |-> task.budget[k] - c.remaining[k]]
    IN  [evidence |-> c.evidence,
         used |-> [k \in Kinds |->
                     IF k # "elapsed" THEN used[k]
                     ELSE used["retrieval"] * Elapses["RETRIEVE"]
                          + used["verification"] * Elapses["VERIFY"]
                          + used["search"] * Elapses["SEARCH_MORE"]
                          + used["reasoning"] * Elapses["REASON_MORE"]
                          + c.rejections * Elapses["DEFER"]],
         rejections |-> c.rejections]

ActionCost(before, after) ==
    LET spent(k) == after.used[k] - before.used[k]
    IN  Utility.step * spent("steps") + Utility.ms * spent("elapsed")
        + Utility.retrieval * spent("retrieval") + Utility.verification * spent("verification")
        + Utility.search * spent("search") + Utility.reasoning * spent("reasoning")

\* An action that runs out of budget is scored as a wrong answer.
TerminalReward(a, success) ==
    CASE a = "DEFER" -> IF success THEN Utility.correct_defer ELSE Utility.incorrect_defer
      [] a = "STOP"  -> IF success THEN Utility.correct_stop ELSE Utility.incorrect_stop
      [] OTHER       -> IF success THEN Utility.correct_answer ELSE Utility.incorrect_answer

FailureValue == Min({Utility.incorrect_answer, Utility.incorrect_defer, Utility.incorrect_stop})

Resolved(r, p) == Evaluate(policy, PolicyFacts(r), p)

\* Denied by the policy, or resolved to what no budget admits.
IsRefused(r, p) ==
    LET a == Resolved(r, p).action IN a # None => ~CanExecute(r.used, a)

\* What the executor would be given for some proposal.
Executable(r) ==
    {a \in {Resolved(r, p).action : p \in Actions} : a # None => CanExecute(r.used, a)} \ {None}

Initial == [evidence |-> task.evidence, used |-> [k \in Kinds |-> 0], rejections |-> 0]

Init ==
    /\ task \in Tasks /\ policy \in Policies /\ feedback \in BOOLEAN
    /\ phase = "explore"
    /\ states = {Initial} /\ queue = {Initial} /\ value = <<>>
    /\ runtime = Initial
    /\ proposals = 0 /\ rejections = 0 /\ refused = {} /\ realized = 0
    /\ executed = None /\ result = None

-----------------------------------------------------------------------------
(* The table *)

\* Mutant: the table does not know that a refusal is charged.
SuccessorsWithoutRefusal(r) == {After(r, a) : a \in {b \in Executable(r) : ~Ends(r, b)}}

Successors(r) ==
    {After(r, a) : a \in {b \in Executable(r) : ~Ends(r, b)}}
    \cup (IF feedback /\ CanCharge(r.used) /\ \E p \in Actions : IsRefused(r, p)
          THEN {Rejected(r)} ELSE {})

\* Every step uses one executive step, so the queue is worked off in layers.
Discovered ==
    LET found == {Canonical(r) : r \in states}
    IN  {s \in UNION {Successors(r) : r \in queue} : Canonical(s) \notin found}

Explore ==
    /\ phase = "explore"
    /\ queue # {}
    /\ queue' = Discovered
    /\ states' = states \cup queue'
    /\ Cardinality(states') <= MaxStates
    /\ UNCHANGED <<task, policy, feedback, phase, value, run>>

\* ORACLE_STATE_SPACE_LIMIT is raised out of the run.
OverLimit ==
    /\ phase = "explore"
    /\ Cardinality(states \cup Discovered) > MaxStates
    /\ phase' = "done" /\ result' = "ORACLE_STATE_SPACE_LIMIT"
    /\ UNCHANGED <<task, policy, feedback, table, runtime, proposals, rejections, refused>>
    /\ UNCHANGED <<executed, realized>>

Explored ==
    /\ phase = "explore"
    /\ queue = {}
    /\ phase' = "solve"
    /\ UNCHANGED <<task, policy, feedback, table, run>>

\* Mutant: the cost of the whole path so far is charged again.
QValueOfWholePath(r, a) ==
    (IF Ends(r, a) THEN TerminalReward(a, Succeeds(r, a)) ELSE value[Canonical(After(r, a))])
    - ActionCost(Initial, After(r, a))

\* q_values: what action a is worth in r, from states with fewer steps left.
QValue(r, a) ==
    (IF Ends(r, a) THEN TerminalReward(a, Succeeds(r, a)) ELSE value[Canonical(After(r, a))])
    - ActionCost(r, After(r, a))

StateValue(r) ==
    IF Executable(r) = {} THEN FailureValue ELSE Max({QValue(r, a) : a \in Executable(r)})

Unsolved == {r \in states : Canonical(r) \notin DOMAIN value}

\* Backward dynamic programming, the states with fewest steps left first; a
\* canonical state has one runtime.
Solve ==
    /\ phase = "solve"
    /\ Unsolved # {}
    /\ \E layer \in {{r \in Unsolved : \A s \in Unsolved : s.used["steps"] <= r.used["steps"]}} :
          value' = [c \in DOMAIN value \cup {Canonical(r) : r \in layer} |->
                       IF c \in DOMAIN value THEN value[c]
                       ELSE Max({StateValue(r) : r \in {q \in layer : Canonical(q) = c}})]
    /\ UNCHANGED <<task, policy, feedback, phase, states, queue, run>>

Solved ==
    /\ phase = "solve"
    /\ Unsolved = {}
    /\ phase' = "run"
    /\ UNCHANGED <<task, policy, feedback, table, run>>

-----------------------------------------------------------------------------
(* The run: whatever the controller proposes *)

\* The action selected for a proposal is executed and its outcome scored.
Execute(a) ==
    /\ a # None /\ CanExecute(runtime.used, a)
    /\ runtime' = After(runtime, a)
    /\ proposals' = proposals + 1
    /\ executed' = a
    /\ IF Ends(runtime, a)
       THEN /\ phase' = "done" /\ result' = Outcome(runtime, a)
            /\ realized' = realized - ActionCost(runtime, runtime')
                           + TerminalReward(a, Succeeds(runtime, a))
       ELSE /\ realized' = realized - ActionCost(runtime, runtime')
            /\ UNCHANGED <<phase, result>>
    /\ UNCHANGED <<task, policy, feedback, table, rejections, refused>>

\* A run that ends without executing anything more.
Stop(outcome, utility) ==
    /\ phase' = "done" /\ result' = outcome /\ realized' = utility
    /\ UNCHANGED <<task, policy, feedback, table, runtime, refused>>

\* _run_task: proposals are bounded, refusals cost nothing and three denials end it.
ProposalLimit == 2 * task.budget["steps"] + MaxPolicyRejections

Turn == phase = "run" /\ ~feedback /\ proposals < ProposalLimit

Deny ==
    /\ Turn
    /\ proposals' = proposals + 1
    /\ rejections' = rejections + 1
    /\ executed' = None
    /\ IF rejections' >= MaxPolicyRejections
       THEN Stop("POLICY_REJECTION_LIMIT", realized + Utility.incorrect_defer)
       ELSE UNCHANGED <<task, policy, feedback, phase, table, runtime, refused, realized, result>>

RejectForResources(a) ==
    /\ Turn
    /\ ~CanExecute(runtime.used, a)
    /\ proposals' = proposals + 1
    /\ executed' = None
    /\ UNCHANGED <<task, policy, feedback, phase, table, runtime, rejections, refused>>
    /\ UNCHANGED <<realized, result>>

\* Mutant: off by one.
ReachProposalLimitLate ==
    /\ phase = "run" /\ ~feedback
    /\ proposals > ProposalLimit
    /\ Stop("PROPOSAL_LIMIT", realized - FailurePenalty)
    /\ UNCHANGED <<proposals, rejections, executed>>

ReachProposalLimit ==
    /\ phase = "run" /\ ~feedback
    /\ proposals = ProposalLimit
    /\ Stop("PROPOSAL_LIMIT", realized - FailurePenalty)
    /\ UNCHANGED <<proposals, rejections, executed>>

\* run_task_with_runtime: the controller keeps to the actions it is offered,
\* and a refusal is charged, which what is offered always leaves room for.
Allowed == {a \in Actions : CanExecute(runtime.used, a)}

TurnWithFeedback(p) ==
    phase = "run" /\ feedback /\ proposals < MaxSteps /\ p \in Allowed

ChargeRefusal(p) ==
    /\ runtime' = Rejected(runtime)
    /\ refused' = refused \cup {p}
    /\ proposals' = proposals + 1
    /\ executed' = None
    /\ realized' = realized - ActionCost(runtime, runtime')
    /\ UNCHANGED <<task, policy, feedback, phase, table, rejections, result>>

\* What was refused or, by its counter, executed so far.
Attempted == refused \cup {a \in Actions : Charged[a] \in Counters /\ runtime.used[Charged[a]] > 0}

\* The sequential oracle has no entry for a repeated proposal that neither ends
\* the run nor changes what can be observed (_epistemic_signature) for any task
\* that looks the same so far.  The other tasks are not known here: it may.
MayBePruned(p) ==
    /\ p \in Attempted
    /\ ~IsRefused(runtime, p) =>
          LET a == Resolved(runtime, p).action
          IN  /\ ~Ends(runtime, a)
              /\ \A f \in Fields \ {"retrieved", "searched"} :
                    After(runtime, a).evidence[f] = runtime.evidence[f]

\* run_task_with_runtime raises for a proposal without an entry.
RaiseForPruned(p) ==
    /\ TurnWithFeedback(p)
    /\ MayBePruned(p)
    /\ Stop("ABSENT_FROM_SEQUENTIAL_ORACLE", realized)
    /\ UNCHANGED <<proposals, rejections, executed>>

RunOut ==
    /\ phase = "run" /\ feedback
    /\ proposals = MaxSteps \/ Allowed = {}
    /\ Stop(IF proposals = MaxSteps THEN "CONTROLLER_STEP_LIMIT" ELSE "RESOURCE_EXHAUSTED",
            realized)
    /\ UNCHANGED <<proposals, rejections, executed>>

\* One proposal, and what becomes of the gate's decision on it.
Propose(p) ==
    /\ Turn \/ TurnWithFeedback(p)
    /\ \E decision \in {Resolved(runtime, p)} :
          \/ Execute(decision.action)
          \/ decision.effect = "DENY" /\ Deny
          \/ decision.effect # "DENY" /\ RejectForResources(decision.action)
          \/ TurnWithFeedback(p) /\ IsRefused(runtime, p) /\ ChargeRefusal(p)

Next ==
    \/ Explore \/ OverLimit \/ Explored
    \/ Solve \/ Solved
    \/ \E p \in Actions : Propose(p) \/ RaiseForPruned(p)
    \/ ReachProposalLimit \/ RunOut

\* A call of the runner, which nothing interrupts.
Spec == Init /\ [][Next]_vars /\ WF_vars(Next)

-----------------------------------------------------------------------------
(* Correctness *)

Runtimes == [evidence : {runtime.evidence} \cup {s.evidence : s \in states},
             used : [Kinds -> Nat], rejections : Nat]
WithinBudget(r) == \A k \in Kinds : r.used[k] <= task.budget[k]

\* Every state variable has its type, and no runtime ever exceeds a budget of
\* its task (ResourceState.consume).
TypesAndBudgets ==
    /\ task \in Tasks /\ policy \in Policies /\ feedback \in BOOLEAN
    /\ phase \in {"explore", "solve", "run", "done"}
    /\ states \subseteq Runtimes /\ queue \subseteq states
    /\ runtime \in Runtimes
    /\ \A r \in states \cup {runtime} : WithinBudget(r)
    /\ proposals \in Nat /\ rejections \in 0 .. MaxPolicyRejections
    /\ refused \subseteq Actions
    /\ executed \in Actions \cup {None}
    /\ realized \in Int

\* The canonical state leaves out elapsed time because the counters give it
\* (metareasoning_state.py:103): a running task is in a state the table was
\* built for, the very one and not another of equal canonical form, so every
\* lookup of solve and action_regret finds its entry, and the runtime that is
\* rebuilt from that entry is the one that runs.
EveryStateIsTabled ==
    phase = "run" => /\ runtime \in states
                     /\ \A r \in states : FromCanonical(Canonical(r)) = r

\* The budget admits an action, the policy refuses every proposal of one.
DeadEnd(r) == Executable(r) = {} /\ \E a \in Actions : CanExecute(r.used, a)

\* What a run has earned and can still earn never exceeds what the table
\* promised at its start, and neither does a run that an action ends: no
\* controller beats the oracle, so the trajectory regret of
\* metareasoning_loop.py:315 is there never cut off at 0.  A table with
\* feedback does not weigh being refused as a way out of a dead end, nor of
\* having to spend more than a refusal costs, and is held to this only for
\* policies, like the frozen ones, that leave neither.
NoRunBeatsTheOracle ==
    (feedback => \A r \in states : ~DeadEnd(r)) =>
        /\ phase = "run" => realized + value[Canonical(runtime)] <= value[Canonical(Initial)]
        /\ result \in {"TASK_SUCCESS", "TASK_FAILURE"} => realized <= value[Canonical(Initial)]

\* Whatever is executed, proposed or put in the place of a proposal, is neither
\* denied by what the rules conclude nor different from what they require:
\* a required action is not held against the denials (core.py:254), and only
\* the budgets keep an exhausted one from being run.
OnlyPermittedActionsRun ==
    [][runtime' # runtime /\ executed' # None =>
          LET known == PolicyFacts(runtime) \cup {<<"proposed", executed'>>}
          IN  /\ ~Concludes(policy, known, <<"deny", executed'>>)
              /\ \A a \in Actions \ {executed'} : ~Concludes(policy, known, <<"require", a>>)]_vars

\* Every run ends: under a controller that ignores every refusal as well.
RunEnds == <>(phase = "done")

=============================================================================
