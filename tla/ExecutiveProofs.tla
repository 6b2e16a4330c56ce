--------------------------- MODULE ExecutiveProofs ---------------------------
(* Proofs about Executive and PolicyGate, for any tasks, policies and         *)
(* utilities: types and budgets, that the run never leaves the states of the  *)
(* table, that the engine derives what its rules imply and nothing else, that *)
(* only what the gate permits is run, and that no run earns more than the     *)
(* table promises.                                                            *)
EXTENDS Executive, FiniteSetTheorems, WellFoundedInduction, TLAPS

\* A runtime of the task in hand, within its budget.
Sound(r) ==
    /\ r \in [evidence : {r.evidence}, used : [Kinds -> Nat], rejections : Nat]
    /\ WithinBudget(r)

\* Nonterminal actions and refusals are all that has used steps and time.
Derived(r) ==
    LET n == r.used["retrieval"] + r.used["verification"] + r.used["search"]
             + r.used["reasoning"] + r.rejections
        ms == 5 * r.used["retrieval"] + 8 * r.used["verification"] + 6 * r.used["search"]
              + 4 * r.used["reasoning"] + r.rejections
    IN  r.used["steps"] = n /\ r.used["elapsed"] = ms

Scalars ==
    /\ task \in Tasks /\ policy \in Policies /\ feedback \in BOOLEAN
    /\ phase \in {"explore", "solve", "run", "done"}
    /\ proposals \in Nat
    /\ rejections \in 0 .. MaxPolicyRejections
    /\ phase # "done" => rejections < MaxPolicyRejections
    /\ refused \subseteq Actions
    /\ executed \in Actions \cup {None}
    /\ realized \in Int

\* What the table holds: every state but those queued has its successors in it.
TableInv ==
    /\ queue \subseteq states
    /\ \A r \in states : Sound(r) /\ Derived(r)
    /\ \A r \in states \ queue : Successors(r) \subseteq states
    /\ phase \in {"solve", "run"} => queue = {}

RunInv ==
    /\ Sound(runtime)
    /\ phase # "done" => runtime \in states

IInv == Scalars /\ TableInv /\ RunInv

-----------------------------------------------------------------------------

LEMMA ElapsesNat == \A a \in Actions : Elapses[a] \in Nat /\ Elapses[a] >= 1
  BY DEF Elapses, Actions, Terminal

LEMMA GateAction ==
    ASSUME NEW rules, NEW facts, NEW p \in Actions
    PROVE  Evaluate(rules, facts, p).action \in Actions \cup {None}
<1> DEFINE derived == Derive(rules, facts \cup {<<"proposed", p>>})
<1>1. Required(derived) \subseteq Actions
  BY DEF Required
<1>2. ~(Required(derived) \subseteq {p}) => (CHOOSE a \in Required(derived) : TRUE) \in Actions
  BY <1>1
<1>. QED  BY <1>2 DEF Evaluate

LEMMA ConsumeType ==
    ASSUME NEW used \in [Kinds -> Nat], NEW a \in Actions
    PROVE  Consume(used, a) \in [Kinds -> Nat]
  BY ElapsesNat DEF Consume

LEMMA ChargeType ==
    ASSUME NEW used \in [Kinds -> Nat]
    PROVE  ChargeRejection(used) \in [Kinds -> Nat]
  BY ElapsesNat DEF ChargeRejection, Kinds, Counters, Actions, Terminal

LEMMA AfterSound ==
    ASSUME NEW r, Sound(r), NEW a \in Actions, CanExecute(r.used, a)
    PROVE  Sound(After(r, a))
<1>1. /\ After(r, a).used = Consume(r.used, a)
      /\ After(r, a).rejections = r.rejections
      /\ After(r, a) \in [evidence : {After(r, a).evidence}, used : {Consume(r.used, a)},
                          rejections : {r.rejections}]
  BY DEF Sound, After
<1>2. Consume(r.used, a) \in [Kinds -> Nat]
  BY ConsumeType DEF Sound
<1>. QED  BY <1>1, <1>2 DEF Sound, WithinBudget, CanExecute

LEMMA AfterDerived ==
    ASSUME NEW r, Sound(r), Derived(r), NEW a \in Actions \ Terminal
    PROVE  Derived(After(r, a))
<1>1. After(r, a).used = Consume(r.used, a) /\ After(r, a).rejections = r.rejections
  BY DEF Sound, After
<1>2. r.used \in [Kinds -> Nat] /\ r.rejections \in Nat
  BY DEF Sound
<1>3. a \in {"RETRIEVE", "VERIFY", "SEARCH_MORE", "REASON_MORE"}
  BY DEF Actions
<1>. QED  BY <1>1, <1>2, <1>3
          DEF Derived, Consume, Charged, Elapses, Kinds, Counters, Actions, Terminal

LEMMA RejectedSound ==
    ASSUME task \in Tasks, NEW r, Sound(r), CanCharge(r.used)
    PROVE  Sound(Rejected(r))
<1>1. /\ Rejected(r).used = ChargeRejection(r.used)
      /\ Rejected(r) \in [evidence : {Rejected(r).evidence}, used : {ChargeRejection(r.used)},
                          rejections : {r.rejections + 1}]
  BY DEF Sound, Rejected
<1>2. ChargeRejection(r.used) \in [Kinds -> Nat] /\ r.used \in [Kinds -> Nat]
  BY ChargeType DEF Sound
<1>3. \A k \in Kinds \ {"steps", "elapsed"} : ChargeRejection(r.used)[k] = r.used[k]
  BY <1>2 DEF ChargeRejection
<1>4. \A k \in Kinds : ChargeRejection(r.used)[k] <= task.budget[k]
  BY <1>3 DEF CanCharge, Sound, WithinBudget
<1>. QED  BY <1>1, <1>2, <1>4 DEF Sound, WithinBudget

LEMMA RejectedDerived ==
    ASSUME NEW r, Sound(r), Derived(r)
    PROVE  Derived(Rejected(r))
<1>1. Rejected(r).used = ChargeRejection(r.used) /\ Rejected(r).rejections = r.rejections + 1
  BY DEF Sound, Rejected
<1>2. r.used \in [Kinds -> Nat] /\ r.rejections \in Nat
  BY DEF Sound
<1>3. Elapses["DEFER"] = 1
  BY DEF Elapses, Actions, Terminal
<1>4. Kinds = {"retrieval", "verification", "search", "reasoning", "steps", "elapsed"}
  BY DEF Kinds, Counters
<1> DEFINE used == r.used
           charged == ChargeRejection(used)
<1>5. /\ charged["steps"] = used["steps"] + 1
      /\ charged["elapsed"] = used["elapsed"] + 1
  BY <1>2, <1>3, <1>4 DEF ChargeRejection
<1>6. \A k \in Counters : charged[k] = used[k]
  BY <1>2, <1>4 DEF ChargeRejection, Counters
<1>7. /\ charged["retrieval"] = used["retrieval"]
      /\ charged["verification"] = used["verification"]
      /\ charged["search"] = used["search"]
      /\ charged["reasoning"] = used["reasoning"]
  BY <1>6 DEF Counters
<1>8. \A k \in Kinds : used[k] \in Nat
  BY <1>2
<1>9. /\ used["retrieval"] \in Nat /\ used["verification"] \in Nat
      /\ used["search"] \in Nat /\ used["reasoning"] \in Nat
  BY <1>8, <1>4
<1>10. /\ used["steps"] = used["retrieval"] + used["verification"] + used["search"]
                          + used["reasoning"] + r.rejections
       /\ used["elapsed"] = 5 * used["retrieval"] + 8 * used["verification"]
                            + 6 * used["search"] + 4 * used["reasoning"] + r.rejections
  BY DEF Derived
<1>11. /\ charged["steps"] = charged["retrieval"] + charged["verification"]
                             + charged["search"] + charged["reasoning"] + (r.rejections + 1)
       /\ charged["elapsed"] = 5 * charged["retrieval"] + 8 * charged["verification"]
                               + 6 * charged["search"] + 4 * charged["reasoning"]
                               + (r.rejections + 1)
  <2> HIDE DEF used, charged
  <2>. QED  BY <1>2, <1>5, <1>7, <1>9, <1>10
<1>12. Rejected(r).used = charged /\ Rejected(r).rejections = r.rejections + 1
  BY <1>1
<1> HIDE DEF used, charged
<1>. QED  BY <1>11, <1>12 DEF Derived

\* Whatever is executed or refused in a state of the table, and does not end
\* the run, leads to a runtime of the same kind.
LEMMA SuccessorSound ==
    ASSUME task \in Tasks, NEW r, Sound(r), Derived(r), NEW s \in Successors(r)
    PROVE  Sound(s) /\ Derived(s)
<1>1. CASE s \in {After(r, a) : a \in {b \in Executable(r) : ~Ends(r, b)}}
  <2>1. PICK a \in Executable(r) : ~Ends(r, a) /\ s = After(r, a)
    BY <1>1
  <2>2. a \in Actions /\ CanExecute(r.used, a)
    <3>1. PICK p \in Actions : a = Resolved(r, p).action /\ a # None
      BY DEF Executable
    <3>2. a \in Actions
      BY <3>1, GateAction DEF Resolved
    <3>. QED  BY <3>2 DEF Executable
  <2>3. a \notin Terminal
    BY <2>1 DEF Ends
  <2>. QED  BY <2>1, <2>2, <2>3, AfterSound, AfterDerived
<1>2. CASE s = Rejected(r) /\ CanCharge(r.used)
  BY <1>2, RejectedSound, RejectedDerived
<1>. QED  BY <1>1, <1>2 DEF Successors

\* The canonical state determines its runtime: elapsed time is a function of
\* the counters it keeps.
LEMMA CanonicalInverts ==
    ASSUME task \in Tasks, NEW r, Sound(r), Derived(r)
    PROVE  FromCanonical(Canonical(r)) = r
<1> DEFINE c == Canonical(r)
           back == FromCanonical(c)
<1>1. r.used \in [Kinds -> Nat] /\ task.budget \in [Kinds -> Nat] /\ r.rejections \in Nat
  BY ExecutiveConstants DEF Sound
<1>2. \A k \in Counters \cup {"steps"} : c.remaining[k] = task.budget[k] - r.used[k]
  BY DEF Canonical
<1>3. \A k \in Counters \cup {"steps"} : task.budget[k] - c.remaining[k] = r.used[k]
  BY <1>1, <1>2 DEF Kinds
<1>4. c.evidence = r.evidence /\ c.rejections = r.rejections
  BY DEF Canonical
<1>5. back.used \in [Kinds -> {back.used[k] : k \in Kinds}] /\ DOMAIN back.used = Kinds
  BY DEF FromCanonical
<1>6. \A k \in Kinds \ {"elapsed"} : back.used[k] = r.used[k]
  BY <1>3 DEF FromCanonical, Kinds
<1>7. back.used["elapsed"] = r.used["elapsed"]
  <2>1. back.used["elapsed"] =
            r.used["retrieval"] * 5 + r.used["verification"] * 8 + r.used["search"] * 6
            + r.used["reasoning"] * 4 + r.rejections * 1
    BY <1>3, <1>4 DEF FromCanonical, Kinds, Counters, Elapses, Actions, Terminal
  <2>. QED  BY <2>1, <1>1 DEF Derived, Kinds, Counters
<1>8. back.used = r.used
  <2>1. \A k \in Kinds : back.used[k] = r.used[k]
    BY <1>6, <1>7
  <2>. QED  BY <2>1, <1>1, <1>5
<1>9. back = [evidence |-> r.evidence, used |-> r.used, rejections |-> r.rejections]
  BY <1>4, <1>8 DEF FromCanonical
<1>. QED  BY <1>9 DEF Sound

-----------------------------------------------------------------------------
(* Steps *)

LEMMA ResolvedAction ==
    ASSUME NEW r, NEW p \in Actions
    PROVE  Resolved(r, p).action \in Actions \cup {None}
  BY GateAction DEF Resolved

LEMMA RewardType ==
    ASSUME NEW a \in Actions, NEW success
    PROVE  TerminalReward(a, success) \in Int
  BY ExecutiveConstants DEF TerminalReward

LEMMA CostType ==
    ASSUME NEW r, NEW s, r.used \in [Kinds -> Nat], s.used \in [Kinds -> Nat]
    PROVE  ActionCost(r, s) \in Int
<1> DEFINE spent(k) == s.used[k] - r.used[k]
<1>1. \A k \in Kinds : spent(k) \in Int
  OBVIOUS
<1>2. /\ spent("steps") \in Int /\ spent("elapsed") \in Int /\ spent("retrieval") \in Int
      /\ spent("verification") \in Int /\ spent("search") \in Int
      /\ spent("reasoning") \in Int
  BY <1>1 DEF Kinds, Counters
<1>3. /\ Utility.step \in Int /\ Utility.ms \in Int /\ Utility.retrieval \in Int
      /\ Utility.verification \in Int /\ Utility.search \in Int /\ Utility.reasoning \in Int
  BY ExecutiveConstants
<1>4. ActionCost(r, s) =
          Utility.step * spent("steps") + Utility.ms * spent("elapsed")
          + Utility.retrieval * spent("retrieval")
          + Utility.verification * spent("verification")
          + Utility.search * spent("search") + Utility.reasoning * spent("reasoning")
  BY DEF ActionCost
<1> HIDE DEF spent
<1>. QED  BY <1>2, <1>3, <1>4

\* The task, the policy and the mode determine what follows a state.
LEMMA EnvironmentIsFixed ==
    ASSUME UNCHANGED <<task, policy, feedback>>, NEW r
    PROVE  /\ Sound(r)' <=> Sound(r)
           /\ Successors(r)' = Successors(r)
<1>1. Sound(r)' <=> Sound(r)
  BY DEF Sound, WithinBudget
<1>2. ASSUME NEW used, NEW a PROVE CanExecute(used, a)' <=> CanExecute(used, a)
  BY DEF CanExecute
<1>3. ASSUME NEW used PROVE CanCharge(used)' <=> CanCharge(used)
  BY DEF CanCharge
<1>4. ASSUME NEW a PROVE After(r, a)' = After(r, a)
  BY DEF After
<1>5. ASSUME NEW a PROVE Ends(r, a)' <=> Ends(r, a)
  BY <1>4 DEF Ends, CanExecute
<1>6. ASSUME NEW p PROVE Resolved(r, p)' = Resolved(r, p)
  <2>1. PolicyFacts(r)' = PolicyFacts(r)
    BY DEF PolicyFacts, Answerable
  <2>. QED  BY <2>1 DEF Resolved
<1>7. ASSUME NEW p PROVE IsRefused(r, p)' <=> IsRefused(r, p)
  BY <1>6, <1>2 DEF IsRefused
<1>8. Executable(r)' = Executable(r)
  BY <1>6, <1>2 DEF Executable
<1>9. Rejected(r)' = Rejected(r)
  BY DEF Rejected
<1>. QED  BY <1>1, <1>3, <1>4, <1>5, <1>7, <1>8, <1>9 DEF Successors

\* A step of the run leaves the table as it is.
LEMMA TableUnchanged ==
    ASSUME IInv, UNCHANGED <<task, policy, feedback, table>>,
           phase' \in {"solve", "run"} => phase \in {"solve", "run"} \/ queue = {}
    PROVE  TableInv'
<1>1. states' = states /\ queue' = queue
  BY DEF table
<1>2. \A r : (Sound(r)' <=> Sound(r)) /\ Successors(r)' = Successors(r)
  BY EnvironmentIsFixed
<1>. QED  BY <1>1, <1>2 DEF TableInv, IInv

LEMMA InitIInv == Init => IInv
<1> SUFFICES ASSUME Init PROVE IInv
  OBVIOUS
<1> DEFINE zero == [k \in Kinds |-> 0]
<1>1. zero \in [Kinds -> Nat]
  OBVIOUS
<1>2. Initial = [evidence |-> task.evidence, used |-> zero, rejections |-> 0]
  BY DEF Initial
<1>3. \A k \in Kinds : zero[k] <= task.budget[k]
  BY ExecutiveConstants DEF Init
<1>4. Sound(Initial)
  BY <1>1, <1>2, <1>3 DEF Sound, WithinBudget
<1>5. Derived(Initial)
  BY <1>2 DEF Derived, Kinds, Counters
<1>. QED  BY <1>4, <1>5 DEF Init, IInv, Scalars, TableInv, RunInv, MaxPolicyRejections

LEMMA ExploreStep == IInv /\ Explore => IInv'
<1> SUFFICES ASSUME IInv, Explore PROVE IInv'
  OBVIOUS
<1>0. UNCHANGED <<task, policy, feedback>> /\ task \in Tasks
  BY DEF Explore, IInv, Scalars
<1>1. \A r : (Sound(r)' <=> Sound(r)) /\ Successors(r)' = Successors(r)
  BY <1>0, EnvironmentIsFixed
<1>2. states' = states \cup queue' /\ queue' = Discovered
  BY DEF Explore
<1>3. \A r \in states : Sound(r) /\ Derived(r)
  BY DEF IInv, TableInv
<1>4. \A s \in queue' : \E r \in queue : s \in Successors(r)
  BY <1>2 DEF Discovered
<1>5. \A s \in queue' : Sound(s) /\ Derived(s)
  BY <1>0, <1>3, <1>4, SuccessorSound DEF IInv, TableInv
<1>6. ASSUME NEW r \in states, NEW s \in Successors(r) PROVE s \in states'
  <2>1. CASE r \notin queue
    BY <1>2, <2>1 DEF IInv, TableInv
  <2>2. CASE r \in queue /\ \E q \in states : Canonical(s) = Canonical(q)
    <3>1. PICK q \in states : Canonical(s) = Canonical(q)
      BY <2>2
    <3>2. Sound(s) /\ Derived(s) /\ Sound(q) /\ Derived(q)
      BY <1>0, <1>3, SuccessorSound
    <3>3. s = q
      BY <1>0, <3>1, <3>2, CanonicalInverts
    <3>. QED  BY <1>2, <3>3
  <2>3. CASE r \in queue /\ \A q \in states : Canonical(s) # Canonical(q)
    BY <1>2, <2>3 DEF Discovered
  <2>. QED  BY <2>1, <2>2, <2>3
<1>7. TableInv'
  <2>1. queue' \subseteq states'
    BY <1>2
  <2>2. \A r \in states' : Sound(r)' /\ Derived(r)
    BY <1>1, <1>2, <1>3, <1>5
  <2>3. \A r \in states' \ queue' : Successors(r)' \subseteq states'
    BY <1>1, <1>2, <1>6
  <2>. QED  BY <2>1, <2>2, <2>3 DEF TableInv, Explore
<1>8. Scalars'
  BY DEF Explore, run, IInv, Scalars
<1>9. RunInv'
  BY <1>0, <1>2 DEF Explore, run, IInv, RunInv, Sound, WithinBudget
<1>. QED  BY <1>7, <1>8, <1>9 DEF IInv

\* The steps that leave the run and the states of the table alone.
LEMMA TableSteps == IInv /\ (OverLimit \/ Explored \/ Solve \/ Solved) => IInv'
<1> SUFFICES ASSUME IInv, OverLimit \/ Explored \/ Solve \/ Solved PROVE IInv'
  OBVIOUS
<1>1. /\ UNCHANGED <<task, policy, feedback, states, queue, runtime, proposals, rejections>>
      /\ UNCHANGED <<refused, executed, realized>>
      /\ phase' \in {"explore", "solve", "run", "done"}
      /\ phase # "done"
      /\ phase' \in {"solve", "run"} => phase \in {"solve", "run"} \/ queue = {}
  BY DEF OverLimit, Explored, Solve, Solved, table, run
<1>2. \A r : (Sound(r)' <=> Sound(r)) /\ Successors(r)' = Successors(r)
  BY <1>1, EnvironmentIsFixed
<1>3. TableInv'
  BY <1>1, <1>2 DEF TableInv, IInv
<1>4. Scalars'
  BY <1>1 DEF IInv, Scalars
<1>5. RunInv'
  BY <1>1 DEF IInv, RunInv, Sound, WithinBudget
<1>. QED  BY <1>3, <1>4, <1>5 DEF IInv

\* What the gate resolves a proposal to and the budget admits is charged; the
\* runtime stays in the table unless the run ends.
LEMMA ExecuteStep ==
    ASSUME IInv, phase = "run", NEW p \in Actions, Execute(Resolved(runtime, p).action)
    PROVE  IInv'
<1> DEFINE a == Resolved(runtime, p).action
<1>1. a \in Actions /\ CanExecute(runtime.used, a)
  BY ResolvedAction DEF Execute
<1>2. /\ runtime' = After(runtime, a)
      /\ UNCHANGED <<task, policy, feedback, states, queue, rejections, refused>>
      /\ proposals' = proposals + 1 /\ executed' = a
  BY DEF Execute, table
<1>3. runtime \in states /\ Sound(runtime) /\ task \in Tasks /\ queue = {}
  BY DEF IInv, RunInv, Scalars, TableInv
<1>4. Sound(After(runtime, a))
  <2>1. \A b \in Actions : \A r : Sound(r) /\ CanExecute(r.used, b) => Sound(After(r, b))
    BY AfterSound
  <2>. QED  BY <1>1, <1>3, <2>1
<1>5. Sound(runtime)'
  BY <1>2, <1>4 DEF Sound, WithinBudget
<1>6. /\ runtime.used \in [Kinds -> Nat]
      /\ After(runtime, a).used \in [Kinds -> Nat]
  BY <1>3, <1>4 DEF Sound
<1>7. /\ ActionCost(runtime, runtime') \in Int
      /\ TerminalReward(a, Succeeds(runtime, a)) \in Int
  <2>1. \A r, s : r.used \in [Kinds -> Nat] /\ s.used \in [Kinds -> Nat]
                    => ActionCost(r, s) \in Int
    BY CostType
  <2>2. \A b \in Actions : \A success : TerminalReward(b, success) \in Int
    BY RewardType
  <2>. QED  BY <1>1, <1>2, <1>6, <2>1, <2>2
<1>8. realized' \in Int
  <2>1. realized \in Int
    BY DEF IInv, Scalars
  <2>2. \/ realized' = realized - ActionCost(runtime, runtime')
        \/ realized' = realized - ActionCost(runtime, runtime')
                       + TerminalReward(a, Succeeds(runtime, a))
    BY DEF Execute
  <2>. QED  BY <1>7, <2>1, <2>2
<1>9. phase' = "done" \/ (phase' = phase /\ ~Ends(runtime, a))
  BY DEF Execute
<1>10. ~Ends(runtime, a) => runtime' \in states'
  <2>1. a # None
    BY DEF Execute
  <2>2. a \in Executable(runtime)
    BY <1>1, <2>1 DEF Executable
  <2>3. ~Ends(runtime, a) => After(runtime, a) \in Successors(runtime)
    BY <2>2 DEF Successors
  <2>. QED  BY <1>2, <1>3, <2>3 DEF IInv, TableInv
<1>11. Scalars'
  BY <1>1, <1>2, <1>8, <1>9 DEF IInv, Scalars
<1>12. TableInv'
  <2>1. \A r : (Sound(r)' <=> Sound(r)) /\ Successors(r)' = Successors(r)
    BY <1>2, EnvironmentIsFixed
  <2>. QED  BY <1>2, <1>3, <2>1 DEF IInv, TableInv
<1>13. RunInv'
  BY <1>5, <1>9, <1>10 DEF RunInv
<1>. QED  BY <1>11, <1>12, <1>13 DEF IInv

\* A refusal, charged or not, and the steps that end the run without another.
LEMMA RefuseStep ==
    ASSUME IInv, UNCHANGED <<task, policy, feedback, states, queue, runtime, refused>>,
           phase = "run", phase' \in {"run", "done"}, proposals' \in Nat,
           rejections' \in 0 .. MaxPolicyRejections,
           phase' = "run" => rejections' < MaxPolicyRejections,
           executed' \in Actions \cup {None}, realized' \in Int
    PROVE  IInv'
<1>1. \A r : (Sound(r)' <=> Sound(r)) /\ Successors(r)' = Successors(r)
  BY EnvironmentIsFixed
<1>2. TableInv'
  BY <1>1 DEF TableInv, IInv
<1>3. Scalars'
  BY DEF IInv, Scalars
<1>4. RunInv'
  BY DEF IInv, RunInv, Sound, WithinBudget
<1>. QED  BY <1>2, <1>3, <1>4 DEF IInv

LEMMA FinalRewardType ==
    ASSUME IInv
    PROVE  /\ realized + Utility.incorrect_defer \in Int
           /\ realized - FailurePenalty \in Int
           /\ proposals + 1 \in Nat
  BY ExecutiveConstants DEF IInv, Scalars

LEMMA UnchargedSteps ==
    ASSUME IInv,
           \/ Deny
           \/ \E p \in Actions : RejectForResources(Resolved(runtime, p).action)
           \/ ReachProposalLimit
           \/ RunOut
           \/ \E p \in Actions : RaiseForPruned(p)
    PROVE  IInv'
<1>1. phase = "run" /\ UNCHANGED <<task, policy, feedback, states, queue, runtime, refused>>
  BY DEF Deny, RejectForResources, ReachProposalLimit, RunOut, RaiseForPruned, Turn,
         TurnWithFeedback, Stop, table
<1>2. /\ proposals \in Nat /\ realized \in Int /\ executed \in Actions \cup {None}
      /\ rejections \in Nat /\ rejections < MaxPolicyRejections
      /\ rejections \in 0 .. MaxPolicyRejections
  BY <1>1 DEF IInv, Scalars, MaxPolicyRejections
<1>3. CASE Deny
  <2>1. rejections' = rejections + 1 /\ proposals' = proposals + 1 /\ executed' = None
    BY <1>3 DEF Deny
  <2>2. \/ phase' = "done" /\ realized' = realized + Utility.incorrect_defer
        \/ phase' = "run" /\ realized' = realized /\ ~(rejections' >= MaxPolicyRejections)
    BY <1>1, <1>3 DEF Deny, Stop
  <2>3. realized' \in Int /\ proposals' \in Nat /\ phase' \in {"run", "done"}
    BY <1>2, <2>1, <2>2, FinalRewardType
  <2>4. /\ rejections' \in 0 .. MaxPolicyRejections
        /\ phase' = "run" => rejections' < MaxPolicyRejections
    BY <1>2, <2>1, <2>2 DEF MaxPolicyRejections
  <2>. QED  BY <1>1, <2>1, <2>3, <2>4, RefuseStep
<1>4. CASE \E p \in Actions : RejectForResources(Resolved(runtime, p).action)
  <2>1. /\ proposals' = proposals + 1 /\ executed' = None
        /\ UNCHANGED <<phase, rejections, realized>>
    BY <1>4 DEF RejectForResources
  <2>. QED  BY <1>1, <1>2, <2>1, RefuseStep, FinalRewardType
<1>5. CASE ReachProposalLimit
  <2>1. /\ phase' = "done" /\ realized' = realized - FailurePenalty
        /\ UNCHANGED <<proposals, rejections, executed>>
    BY <1>5 DEF ReachProposalLimit, Stop
  <2>. QED  BY <1>1, <1>2, <2>1, RefuseStep, FinalRewardType
<1>6. CASE RunOut \/ \E p \in Actions : RaiseForPruned(p)
  <2>1. phase' = "done" /\ realized' = realized /\ UNCHANGED <<proposals, rejections, executed>>
    BY <1>6 DEF RunOut, RaiseForPruned, Stop
  <2>. QED  BY <1>1, <1>2, <2>1, RefuseStep
<1>. QED  BY <1>3, <1>4, <1>5, <1>6

\* Whatever is offered leaves room for a refusal, and the table has its successor.
LEMMA ChargeRefusalStep ==
    ASSUME IInv, NEW p \in Actions, TurnWithFeedback(p), IsRefused(runtime, p), ChargeRefusal(p)
    PROVE  IInv'
<1>1. /\ phase = "run" /\ feedback /\ CanExecute(runtime.used, p)
      /\ runtime' = Rejected(runtime)
      /\ UNCHANGED <<task, policy, feedback, phase, states, queue, rejections>>
      /\ proposals' = proposals + 1 /\ executed' = None
      /\ refused' = refused \cup {p}
      /\ realized' = realized - ActionCost(runtime, runtime')
  BY DEF TurnWithFeedback, Allowed, ChargeRefusal, table
<1>2. runtime \in states /\ Sound(runtime) /\ Derived(runtime) /\ task \in Tasks /\ queue = {}
  BY <1>1 DEF IInv, RunInv, Scalars, TableInv
<1>3. CanCharge(runtime.used)
  <2>1. runtime.used \in [Kinds -> Nat] /\ task.budget \in [Kinds -> Nat]
    BY <1>2, ExecutiveConstants DEF Sound
  <2>2. Elapses["DEFER"] = 1 /\ Elapses[p] \in Nat /\ Elapses[p] >= 1
    <3>1. Elapses["DEFER"] = 1
      BY DEF Elapses, Actions, Terminal
    <3>. QED  BY <3>1, ElapsesNat
  <2>3. /\ runtime.used["steps"] + 1 <= task.budget["steps"]
        /\ runtime.used["elapsed"] + Elapses[p] <= task.budget["elapsed"]
    BY <1>1 DEF CanExecute, Consume, Kinds
  <2>4. /\ ChargeRejection(runtime.used)["steps"] = runtime.used["steps"] + 1
        /\ ChargeRejection(runtime.used)["elapsed"] = runtime.used["elapsed"] + Elapses["DEFER"]
    BY <2>1 DEF ChargeRejection, Kinds
  <2>5. /\ runtime.used["elapsed"] \in Nat /\ task.budget["elapsed"] \in Nat
    BY <2>1 DEF Kinds
  <2>. QED  BY <2>2, <2>3, <2>4, <2>5 DEF CanCharge
<1>4. Rejected(runtime) \in Successors(runtime)
  BY <1>1, <1>3 DEF Successors
<1>5. Rejected(runtime) \in states
  BY <1>2, <1>4 DEF IInv, TableInv
<1>6. Sound(Rejected(runtime))
  BY <1>5 DEF IInv, TableInv
<1>7. realized' \in Int
  <2>1. runtime.used \in [Kinds -> Nat] /\ Rejected(runtime).used \in [Kinds -> Nat]
    BY <1>2, <1>6 DEF Sound
  <2>2. \A r, s : r.used \in [Kinds -> Nat] /\ s.used \in [Kinds -> Nat]
                    => ActionCost(r, s) \in Int
    BY CostType
  <2>3. ActionCost(runtime, runtime') \in Int
    BY <1>1, <2>1, <2>2
  <2>. QED  BY <1>1, <2>3 DEF IInv, Scalars
<1>8. Scalars'
  BY <1>1, <1>7 DEF IInv, Scalars
<1>9. TableInv'
  <2>1. \A r : (Sound(r)' <=> Sound(r)) /\ Successors(r)' = Successors(r)
    BY <1>1, EnvironmentIsFixed
  <2>. QED  BY <1>1, <1>2, <2>1 DEF IInv, TableInv
<1>10. RunInv'
  BY <1>1, <1>5, <1>6 DEF RunInv, Sound, WithinBudget
<1>. QED  BY <1>8, <1>9, <1>10 DEF IInv

LEMMA ProposeStep ==
    ASSUME IInv, NEW p \in Actions, Propose(p)
    PROVE  IInv'
<1>1. phase = "run"
  BY DEF Propose, Turn, TurnWithFeedback
<1>2. \/ Execute(Resolved(runtime, p).action)
      \/ Deny
      \/ RejectForResources(Resolved(runtime, p).action)
      \/ TurnWithFeedback(p) /\ IsRefused(runtime, p) /\ ChargeRefusal(p)
  BY DEF Propose
<1>. QED  BY <1>1, <1>2, ExecuteStep, UnchargedSteps, ChargeRefusalStep

LEMMA StepIInv == IInv /\ [Next]_vars => IInv'
<1> SUFFICES ASSUME IInv, [Next]_vars PROVE IInv'
  OBVIOUS
<1>1. CASE Next
  BY <1>1, ExploreStep, TableSteps, ProposeStep, UnchargedSteps DEF Next
<1>2. CASE UNCHANGED vars
  <2>1. UNCHANGED <<task, policy, feedback, phase, states, queue, runtime, proposals,
                    rejections, refused, executed, realized>>
    BY <1>2 DEF vars, table, run
  <2>2. \A r : (Sound(r)' <=> Sound(r)) /\ Successors(r)' = Successors(r)
    BY <2>1, EnvironmentIsFixed
  <2>3. TableInv' /\ Scalars'
    BY <2>1, <2>2 DEF IInv, TableInv, Scalars
  <2>4. RunInv'
    BY <2>1 DEF IInv, RunInv, Sound, WithinBudget
  <2>. QED  BY <2>3, <2>4 DEF IInv
<1>. QED  BY <1>1, <1>2

LEMMA Invariance == Spec => []IInv
  BY InitIInv, StepIInv, PTL DEF Spec

-----------------------------------------------------------------------------

LEMMA IInvTypes == IInv => TypesAndBudgets
<1> SUFFICES ASSUME IInv PROVE TypesAndBudgets
  OBVIOUS
<1>1. \A r : Sound(r) => r \in [evidence : {r.evidence}, used : [Kinds -> Nat], rejections : Nat]
  BY DEF Sound
<1>2. states \subseteq Runtimes
  <2> SUFFICES ASSUME NEW r \in states PROVE r \in Runtimes
    OBVIOUS
  <2>1. r \in [evidence : {r.evidence}, used : [Kinds -> Nat], rejections : Nat]
    BY <1>1 DEF IInv, TableInv
  <2>2. r.evidence \in {runtime.evidence} \cup {s.evidence : s \in states}
    OBVIOUS
  <2>. QED  BY <2>1, <2>2 DEF Runtimes
<1>3. runtime \in Runtimes
  BY DEF IInv, RunInv, Sound, Runtimes
<1>4. \A r \in states \cup {runtime} : WithinBudget(r)
  BY DEF IInv, TableInv, RunInv, Sound
<1>. QED  BY <1>2, <1>3, <1>4 DEF IInv, Scalars, TableInv, TypesAndBudgets

\* Types, and that no runtime of the run or of the table exceeds a budget, for
\* any tasks, policies, utilities and limits.
THEOREM BudgetsHold == Spec => []TypesAndBudgets
  BY Invariance, IInvTypes, PTL

\* The table is closed under whatever the run may do, and its canonical states
\* can be told apart: no lookup of a running task misses.
THEOREM RunStaysInTable == Spec => []EveryStateIsTabled
<1>1. IInv => EveryStateIsTabled
  BY CanonicalInverts DEF IInv, Scalars, TableInv, RunInv, EveryStateIsTabled
<1>. QED  BY <1>1, Invariance, PTL
-----------------------------------------------------------------------------
(* The Datalog engine *)

LEMMA LeastNumber ==
    ASSUME NEW T \in SUBSET Nat, T # {}
    PROVE  \E m \in T : \A k \in T : m <= k
<1> DEFINE R == OpToRel(<, Nat)
<1>1. PICK m \in T : \A k \in T : <<k, m>> \notin R
  <2>1. IsWellFoundedOn(R, Nat)
    BY NatLessThanWellFounded
  <2> HIDE DEF R
  <2>. QED  BY <2>1, WFMin
<1>2. \A k \in T : ~(k < m)
  BY <1>1 DEF OpToRel
<1>. QED  BY <1>2

Round(rules, before) == before \cup Consequences(rules, before)

\* known is what derive knows after each of its first n rounds.
Rounds(known, rules, facts, n) ==
    known = [k \in 0 .. n |->
                IF k = 0 THEN facts
                ELSE UNION {before \cup Consequences(rules, before) : before \in {known[k - 1]}}]

LEMMA RoundsExist ==
    ASSUME NEW rules, NEW facts, NEW n \in Nat
    PROVE  \E known : Rounds(known, rules, facts, n)
<1> DEFINE T == {k \in Nat : ~\E known : Rounds(known, rules, facts, k)}
           Next1(x) == UNION {before \cup Consequences(rules, before) : before \in {x}}
<1> SUFFICES ASSUME T # {} PROVE FALSE
  OBVIOUS
<1>1. PICK k \in T : \A j \in T : k <= j
  BY LeastNumber
<1>2. CASE k = 0
  <2> DEFINE known == [j \in 0 .. 0 |-> facts]
  <2>1. known = [j \in 0 .. 0 |-> IF j = 0 THEN facts ELSE Next1(known[j - 1])]
    OBVIOUS
  <2>2. Rounds(known, rules, facts, 0)
    BY <2>1 DEF Rounds
  <2>. QED  BY <1>2, <2>2
<1>3. CASE k # 0
  <2>1. k - 1 \in Nat /\ k - 1 \notin T
    BY <1>1, <1>3
  <2>2. PICK known : Rounds(known, rules, facts, k - 1)
    BY <2>1
  <2> DEFINE more == [j \in 0 .. k |-> IF j = k THEN Next1(known[k - 1]) ELSE known[j]]
  <2>3. ASSUME NEW j \in 0 .. k
        PROVE  more[j] = IF j = 0 THEN facts ELSE Next1(more[j - 1])
    <3> HIDE DEF Next1
    <3>1. CASE j = k
      <4>1. more[j] = Next1(known[k - 1]) /\ more[k - 1] = known[k - 1]
        BY <1>3, <3>1
      <4>. QED  BY <1>3, <3>1, <4>1
    <3>2. CASE j # k
      <4>1. j \in 0 .. k - 1 /\ more[j] = known[j] /\ (j # 0 => more[j - 1] = known[j - 1])
        BY <3>2
      <4>2. known[j] = IF j = 0 THEN facts ELSE Next1(known[j - 1])
        BY <2>2, <4>1 DEF Rounds, Next1
      <4>. QED  BY <4>1, <4>2
    <3>. QED  BY <3>1, <3>2
  <2>4. more = [j \in 0 .. k |-> more[j]]
    OBVIOUS
  <2> HIDE DEF more
  <2>5. Rounds(more, rules, facts, k)
    BY <2>3, <2>4 DEF Rounds
  <2>. QED  BY <2>5
<1>. QED  BY <1>2, <1>3

\* What derive returns is the end of as many rounds as there are rules.
LEMMA DeriveRounds ==
    ASSUME NEW rules, IsFiniteSet(rules), NEW facts
    PROVE  \E known :
              /\ known[0] = facts
              /\ \A k \in 1 .. Cardinality(rules) : known[k] = Round(rules, known[k - 1])
              /\ Derive(rules, facts) = known[Cardinality(rules)]
<1> DEFINE n == Cardinality(rules)
           known == CHOOSE m : Rounds(m, rules, facts, n)
<1>1. n \in Nat
  BY FS_CardinalityType
<1>2. Derive(rules, facts) = known[n]
  BY DEF Derive, Rounds
<1>3. Rounds(known, rules, facts, n)
  BY <1>1, RoundsExist
<1> HIDE DEF known, n
<1>4. \A k \in 0 .. n :
        known[k] = IF k = 0 THEN facts
                   ELSE UNION {before \cup Consequences(rules, before) : before \in {known[k - 1]}}
  BY <1>3, Zenon DEF Rounds
<1>5. \A x : UNION {before \cup Consequences(rules, before) : before \in {x}} = Round(rules, x)
  BY DEF Round
<1>6. \A k \in 0 .. n : known[k] = IF k = 0 THEN facts ELSE Round(rules, known[k - 1])
  BY <1>4, <1>5, Zenon
<1>7. known[0] = facts /\ \A k \in 1 .. n : known[k] = Round(rules, known[k - 1])
  BY <1>1, <1>6
<1>. QED  BY <1>2, <1>7 DEF n

Heads(rules) == {r.head : r \in rules}

\* Nothing is known but facts, and what every set closed under the rules has.
LEMMA DeriveIsSound ==
    ASSUME NEW rules, IsFiniteSet(rules), NEW facts, NEW heads,
           Consequences(rules, facts \cup heads) \subseteq heads
    PROVE  Derive(rules, facts) \subseteq facts \cup heads
<1> DEFINE n == Cardinality(rules)
<1>1. n \in Nat
  BY FS_CardinalityType
<1>2. PICK known :
          /\ known[0] = facts
          /\ \A k \in 1 .. n : known[k] = Round(rules, known[k - 1])
          /\ Derive(rules, facts) = known[n]
  BY DeriveRounds
<1> HIDE DEF n
<1> DEFINE T == {k \in 0 .. n : ~(known[k] \subseteq facts \cup heads)}
<1> SUFFICES ASSUME T # {} PROVE FALSE
  BY <1>1, <1>2
<1>3. PICK k \in T : \A j \in T : k <= j
  <2>1. T \in SUBSET Nat
    OBVIOUS
  <2> HIDE DEF T
  <2>. QED  BY <2>1, LeastNumber
<1>4. k # 0
  BY <1>2
<1>5. k - 1 \in 0 .. n /\ k - 1 \notin T /\ k \in 1 .. n
  BY <1>1, <1>3, <1>4
<1>6. known[k - 1] \subseteq facts \cup heads
  BY <1>5
<1>7. Consequences(rules, known[k - 1]) \subseteq Consequences(rules, facts \cup heads)
  BY <1>6 DEF Consequences
<1>8. known[k] = Round(rules, known[k - 1])
  BY <1>2, <1>5
<1>. QED  BY <1>6, <1>7, <1>8 DEF Round

\* As many rounds as there are rules are enough: a round that adds anything adds
\* the head of a rule that had not been added before.
LEMMA DeriveIsClosed ==
    ASSUME NEW rules, IsFiniteSet(rules), NEW facts
    PROVE  /\ facts \subseteq Derive(rules, facts)
           /\ Consequences(rules, Derive(rules, facts)) \subseteq Derive(rules, facts)
<1> DEFINE n == Cardinality(rules)
<1>1. n \in Nat
  BY FS_CardinalityType
<1>2. PICK known :
          /\ known[0] = facts
          /\ \A k \in 1 .. n : known[k] = Round(rules, known[k - 1])
          /\ Derive(rules, facts) = known[n]
  BY DeriveRounds
<1> DEFINE given(k) == {r \in rules : r.head \in known[k]}
           Closed(k) == Consequences(rules, known[k]) \subseteq known[k]
           Holds(k) == facts \subseteq known[k] /\ (Closed(k) \/ Cardinality(given(k)) >= k)
<1>3. \A k : IsFiniteSet(given(k)) /\ Cardinality(given(k)) \in Nat
  <2>1. \A k : given(k) \in SUBSET rules
    OBVIOUS
  <2>. QED  BY <2>1, FS_Subset, FS_CardinalityType
<1>4. Holds(n)
  <2> HIDE DEF n
  <2> DEFINE T == {k \in 0 .. n : ~Holds(k)}
  <2> SUFFICES ASSUME T # {} PROVE FALSE
    <3> HIDE DEF Holds
    <3>. QED  BY <1>1
  <2>1. PICK k \in T : \A j \in T : k <= j
    <3>1. T \in SUBSET Nat
      OBVIOUS
    <3> HIDE DEF T
    <3>. QED  BY <3>1, LeastNumber
  <2>2. k # 0
    <3>1. Cardinality(given(0)) >= 0
      <4> HIDE DEF given
      <4>. QED  BY <1>3
    <3>2. Holds(0)
      BY <1>2, <3>1
    <3> HIDE DEF Holds
    <3>. QED  BY <3>2
  <2>3. k - 1 \in 0 .. n /\ k - 1 \notin T /\ k \in 1 .. n
    BY <1>1, <2>1, <2>2
  <2>4. known[k] = Round(rules, known[k - 1]) /\ Holds(k - 1)
    BY <1>2, <2>3
  <2>5. known[k - 1] \subseteq known[k] /\ facts \subseteq known[k]
    BY <2>4 DEF Round
  <2>6. CASE Closed(k - 1)
    <3>1. known[k] = known[k - 1]
      BY <2>4, <2>6 DEF Round
    <3>. QED  BY <2>1, <2>5, <2>6, <3>1
  <2>7. CASE ~Closed(k - 1)
    <3>1. PICK r \in rules : r.body \subseteq known[k - 1] /\ r.head \notin known[k - 1]
      BY <2>7 DEF Consequences
    <3>2. r.head \in known[k]
      BY <2>4, <3>1 DEF Round, Consequences
    <3>3. given(k - 1) \cup {r} \in SUBSET given(k) /\ r \notin given(k - 1)
      BY <2>5, <3>1, <3>2
    <3> HIDE DEF given
    <3>4. Cardinality(given(k - 1) \cup {r}) = Cardinality(given(k - 1)) + 1
      BY <1>3, <3>3, FS_AddElement
    <3>5. Cardinality(given(k - 1) \cup {r}) <= Cardinality(given(k))
      BY <1>3, <3>3, FS_Subset
    <3>6. Cardinality(given(k - 1)) >= k - 1
      BY <2>4, <2>7
    <3>7. Cardinality(given(k)) >= k
      BY <1>3, <2>3, <3>4, <3>5, <3>6
    <3>. QED  BY <2>1, <2>5, <3>7
  <2>. QED  BY <2>6, <2>7
<1>5. Closed(n)
  <2> SUFFICES ASSUME NEW r \in rules, r.body \subseteq known[n], r.head \notin known[n],
                      Cardinality(given(n)) >= n
               PROVE  FALSE
    BY <1>4 DEF Consequences
  <2>1. given(n) \cup {r} \in SUBSET rules /\ r \notin given(n)
    OBVIOUS
  <2> HIDE DEF given
  <2>2. Cardinality(given(n) \cup {r}) = Cardinality(given(n)) + 1
    BY <1>3, <2>1, FS_AddElement
  <2>3. Cardinality(given(n) \cup {r}) <= n
    BY <2>1, FS_Subset
  <2>. QED  BY <1>1, <1>3, <2>2, <2>3
<1>. QED  BY <1>2, <1>4, <1>5

\* The engine derives what follows from its facts by its rules, no more and no
\* less: derive of datalog.py, in as many rounds as there are rules, against the
\* least set that the rules can add nothing to.
THEOREM DeriveIsLeast ==
    ASSUME NEW rules, IsFiniteSet(rules), NEW facts, NEW atom
    PROVE  atom \in Derive(rules, facts) <=> Concludes(rules, facts, atom)
<1> DEFINE derived == Derive(rules, facts)
           heads == derived \cap Heads(rules)
<1>1. ASSUME atom \in derived PROVE Concludes(rules, facts, atom)
  BY <1>1, DeriveIsSound DEF Concludes
<1>2. ASSUME Concludes(rules, facts, atom) PROVE atom \in derived
  <2>1. derived \subseteq facts \cup heads
    <3>1. Consequences(rules, facts \cup Heads(rules)) \subseteq Heads(rules)
      BY DEF Consequences, Heads
    <3>. QED  BY <3>1, DeriveIsSound
  <2>2. facts \cup heads = derived
    BY <2>1, DeriveIsClosed
  <2>3. Consequences(rules, facts \cup heads) \subseteq heads
    BY <2>2, DeriveIsClosed DEF Consequences, Heads
  <2>4. heads \in SUBSET {r.head : r \in rules}
    BY DEF Heads
  <2>5. atom \in facts \cup heads
    BY <1>2, <2>3, <2>4 DEF Concludes
  <2>. QED  BY <2>2, <2>5
<1>. QED  BY <1>1, <1>2

-----------------------------------------------------------------------------
(* The gate *)

LEMMA ActionsFinite == IsFiniteSet(Actions)
<1>1. IsFiniteSet({"ANSWER", "DEFER", "STOP"})
  <2>1. {"ANSWER", "DEFER", "STOP"} = ({"ANSWER"} \cup {"DEFER"}) \cup {"STOP"}
    OBVIOUS
  <2>2. IsFiniteSet({"ANSWER"})
    BY FS_Singleton
  <2>3. IsFiniteSet({"ANSWER"} \cup {"DEFER"})
    BY <2>2, FS_AddElement
  <2>4. IsFiniteSet(({"ANSWER"} \cup {"DEFER"}) \cup {"STOP"})
    BY <2>3, FS_AddElement
  <2>. QED  BY <2>1, <2>4
<1>2. Actions = (((Terminal \cup {"RETRIEVE"}) \cup {"VERIFY"}) \cup {"SEARCH_MORE"})
                \cup {"REASON_MORE"}
  BY DEF Actions
<1>. QED  BY <1>1, <1>2, FS_AddElement DEF Terminal

\* The rules, with action p proposed, do not deny it, and require nothing but a,
\* which is p or required in its place.
Permitted(rules, facts, p, a) ==
    LET known == facts \cup {<<"proposed", p>>}
    IN  /\ ~Concludes(rules, known, <<"deny", p>>)
        /\ \A b \in Actions \ {a} : ~Concludes(rules, known, <<"require", b>>)
        /\ a # p => Concludes(rules, known, <<"require", a>>)

LEMMA GateIsSound ==
    ASSUME NEW rules \in Policies, NEW facts, NEW p \in Actions,
           Evaluate(rules, facts, p).action # None
    PROVE  Permitted(rules, facts, p, Evaluate(rules, facts, p).action)
<1> DEFINE known == facts \cup {<<"proposed", p>>}
           derived == Derive(rules, known)
           required == Required(derived)
           a == Evaluate(rules, facts, p).action
<1>1. \A atom : atom \in derived <=> Concludes(rules, known, atom)
  BY DeriveIsLeast, PolicyConstants
<1>2. /\ <<"deny", p>> \notin derived /\ ~(Cardinality(required) > 1)
      /\ \/ required \subseteq {p} /\ a = p
         \/ ~(required \subseteq {p}) /\ a = CHOOSE b \in required : TRUE
  BY DEF Evaluate
<1> HIDE DEF a
<1>3. required \subseteq {a}
  <2>1. CASE required \subseteq {p} /\ a = p
    BY <2>1
  <2>2. CASE ~(required \subseteq {p}) /\ a = CHOOSE b \in required : TRUE
    <3>1. a \in required
      BY <2>2
    <3>2. IsFiniteSet(required) /\ Cardinality(required) \in Nat
      <4>1. required \in SUBSET Actions
        BY DEF Required
      <4>. QED  BY <4>1, ActionsFinite, FS_Subset, FS_CardinalityType
    <3>3. Cardinality(required) = 0 \/ Cardinality(required) = 1
      BY <1>2, <3>2
    <3>4. Cardinality(required) # 0
      BY <3>1, <3>2, FS_EmptySet
    <3>5. PICK x : required = {x}
      BY <3>2, <3>3, <3>4, FS_Singleton
    <3>. QED  BY <3>1, <3>5
  <2>. QED  BY <1>2, <2>1, <2>2
<1>4. a # p => <<"require", a>> \in derived
  BY <1>2 DEF Required
<1>5. \A b \in Actions \ {a} : <<"require", b>> \notin derived
  BY <1>3 DEF Required
<1> HIDE DEF derived, required
<1>6. Permitted(rules, facts, p, a)
  BY <1>1, <1>2, <1>4, <1>5 DEF Permitted
<1>. QED  BY <1>6 DEF a

\* What a step of the run executes is what the gate made of a proposal.
LEMMA OnlyProposalsExecute ==
    ASSUME IInv, [Next]_vars, runtime' # runtime, executed' # None
    PROVE  \E p \in Actions : /\ executed' = Resolved(runtime, p).action
                              /\ CanExecute(runtime.used, executed')
<1>1. PICK p \in Actions : Propose(p)
  BY DEF Next, vars, run, Explore, OverLimit, Explored, Solve, Solved, ReachProposalLimit, RunOut,
         RaiseForPruned, Stop
<1>2. Execute(Resolved(runtime, p).action)
  BY <1>1 DEF Propose, Deny, RejectForResources, ChargeRefusal
<1>. QED  BY <1>2 DEF Execute

\* Whatever policies the gate is given, nothing runs but what was proposed and
\* is not denied, where nothing else is required, or the one action required in
\* the place of a proposal that is not denied.
THEOREM GateIsObeyed ==
    Spec => [][runtime' # runtime /\ executed' # None =>
                  \E p \in Actions :
                      Permitted(policy, PolicyFacts(runtime), p, executed')]_vars
<1>1. ASSUME IInv, [Next]_vars, runtime' # runtime, executed' # None
      PROVE  \E p \in Actions : Permitted(policy, PolicyFacts(runtime), p, executed')
  <2>1. PICK p \in Actions : executed' = Resolved(runtime, p).action
    BY <1>1, OnlyProposalsExecute
  <2>2. policy \in Policies
    BY <1>1 DEF IInv, Scalars
  <2>. QED  BY <1>1, <2>1, <2>2, GateIsSound DEF Resolved
<1>2. IInv /\ [Next]_vars => (runtime' # runtime /\ executed' # None =>
          \E p \in Actions : Permitted(policy, PolicyFacts(runtime), p, executed'))
  BY <1>1
<1>. QED  BY <1>2, Invariance, PTL DEF Spec

\* The facts that keep an action from being denied only where its budget is
\* used up.
Exhausted == [a \in {"RETRIEVE", "VERIFY", "SEARCH_MORE"} |->
                CASE a = "RETRIEVE" -> "retrieval_exhausted"
                  [] a = "VERIFY"   -> "verification_exhausted"
                  [] OTHER          -> "search_exhausted"]

\* Rules that look at no proposal, and deny an action that they can require only
\* where its budget is used up: v2b_i2_policy_v1.json and v2b_i3_policy_v1.json.
Consistent(rules) ==
    /\ \A r \in rules : \A p : <<"proposed", p>> \notin r.body
    /\ \A d, r \in rules : \A a \in Actions :
           d.head = <<"deny", a>> /\ r.head = <<"require", a>> =>
               a \in DOMAIN Exhausted /\ <<Exhausted[a]>> \in d.body

LEMMA ProposalIsUnread ==
    ASSUME NEW rules, Consistent(rules), NEW facts, NEW p, NEW q, NEW kind, NEW b,
           kind # "proposed",
           Concludes(rules, facts \cup {<<"proposed", p>>}, <<kind, b>>)
    PROVE  Concludes(rules, facts \cup {<<"proposed", q>>}, <<kind, b>>)
<1> SUFFICES ASSUME NEW heads \in SUBSET {r.head : r \in rules},
                    Consequences(rules, (facts \cup {<<"proposed", q>>}) \cup heads) \subseteq heads
             PROVE  <<kind, b>> \in (facts \cup {<<"proposed", q>>}) \cup heads
  BY DEF Concludes
<1>1. \A r \in rules :
        r.body \subseteq (facts \cup {<<"proposed", p>>}) \cup heads =>
            r.body \subseteq (facts \cup {<<"proposed", q>>}) \cup heads
  BY DEF Consistent
<1>2. Consequences(rules, (facts \cup {<<"proposed", p>>}) \cup heads) \subseteq heads
  BY <1>1 DEF Consequences
<1>3. <<kind, b>> \in (facts \cup {<<"proposed", p>>}) \cup heads
  BY <1>2 DEF Concludes
<1>4. <<kind, b>> # <<"proposed", p>>
  OBVIOUS
<1>. QED  BY <1>3, <1>4

\* What is concluded and is no fact is the head of a rule whose body holds.
LEMMA ConclusionsHaveRules ==
    ASSUME NEW rules, IsFiniteSet(rules), NEW facts, NEW atom,
           Concludes(rules, facts, atom), atom \notin facts
    PROVE  \E r \in rules : r.head = atom /\ r.body \subseteq Derive(rules, facts)
<1> DEFINE derived == Derive(rules, facts)
           heads == Consequences(rules, derived)
<1>1. facts \cup heads \subseteq derived
  BY DeriveIsClosed
<1>2. Consequences(rules, facts \cup heads) \subseteq heads
  BY <1>1 DEF Consequences
<1>3. atom \in facts \cup heads
  BY <1>2 DEF Concludes, Consequences
<1>. QED  BY <1>3 DEF Consequences

LEMMA FactsAreNullary ==
    ASSUME NEW r
    PROVE  \A fact \in PolicyFacts(r) : \E f : fact = <<f>>
  BY DEF PolicyFacts

\* The policy sees that a budget is used up just where it is.
LEMMA ExhaustedIsTrue ==
    ASSUME NEW r, r.used \in [Kinds -> Nat], task.budget \in [Kinds -> Nat],
           NEW a \in DOMAIN Exhausted, <<Exhausted[a]>> \in PolicyFacts(r)
    PROVE  ~CanExecute(r.used, a)
<1>1. \/ a = "RETRIEVE" /\ r.used["retrieval"] = task.budget["retrieval"]
      \/ a = "VERIFY" /\ r.used["verification"] = task.budget["verification"]
      \/ a = "SEARCH_MORE" /\ r.used["search"] = task.budget["search"]
  <2> DEFINE e == r.evidence
             holds == [high_stakes            |-> task.stakes,
                       unverified             |-> e.verification = "UNVERIFIED",
                       falsified              |-> e.verification = "FALSIFIED",
                       stale                  |-> "STALE" \in {e.temporal, e.verification},
                       unresolved_conflict    |-> e.conflict /\ ~e.resolvable,
                       evidence_sufficient    |-> Answerable(e),
                       retrieval_exhausted    |-> r.used["retrieval"] = task.budget["retrieval"],
                       verification_exhausted |->
                           r.used["verification"] = task.budget["verification"],
                       search_exhausted       |-> r.used["search"] = task.budget["search"]]
  <2>1. PolicyFacts(r) = {<<f>> : f \in {g \in DOMAIN holds : holds[g]}}
    BY DEF PolicyFacts
  <2>2. /\ holds.retrieval_exhausted <=> r.used["retrieval"] = task.budget["retrieval"]
        /\ holds.verification_exhausted <=> r.used["verification"] = task.budget["verification"]
        /\ holds.search_exhausted <=> r.used["search"] = task.budget["search"]
    OBVIOUS
  <2> HIDE DEF holds
  <2>3. holds[Exhausted[a]]
    BY <2>1
  <2>4. \/ a = "RETRIEVE" /\ Exhausted[a] = "retrieval_exhausted"
        \/ a = "VERIFY" /\ Exhausted[a] = "verification_exhausted"
        \/ a = "SEARCH_MORE" /\ Exhausted[a] = "search_exhausted"
    BY DEF Exhausted
  <2>. QED  BY <2>2, <2>3, <2>4
<1>2. \E k \in {"retrieval", "verification", "search"} :
         Charged[a] = k /\ r.used[k] = task.budget[k]
  BY <1>1 DEF Charged, Actions, Terminal
<1>3. PICK k \in {"retrieval", "verification", "search"} :
         Charged[a] = k /\ r.used[k] = task.budget[k]
  BY <1>2
<1>4. k \in Kinds /\ Consume(r.used, a)[k] = r.used[k] + 1
  BY <1>3 DEF Consume, Kinds, Counters
<1>. QED  BY <1>3, <1>4 DEF CanExecute

\* Where what a policy requires is denied only for want of budget, nothing runs
\* that the rules, with what runs as the proposal, deny or replace: a required
\* action that is not held against the denials (core.py:254) is then kept from
\* running by the budgets alone.
THEOREM PermittedActionsRun ==
    ASSUME \A rules \in Policies : Consistent(rules)
    PROVE  Spec => OnlyPermittedActionsRun
<1> DEFINE Holds ==
        runtime' # runtime /\ executed' # None =>
          LET known == PolicyFacts(runtime) \cup {<<"proposed", executed'>>}
          IN  /\ ~Concludes(policy, known, <<"deny", executed'>>)
              /\ \A a \in Actions \ {executed'} : ~Concludes(policy, known, <<"require", a>>)
<1>1. IInv /\ [Next]_vars => Holds
  <2> SUFFICES ASSUME IInv, [Next]_vars, runtime' # runtime, executed' # None PROVE Holds
    OBVIOUS
  <2>1. PICK p \in Actions :
            executed' = Resolved(runtime, p).action /\ CanExecute(runtime.used, executed')
    BY OnlyProposalsExecute
  <2> DEFINE a == executed'
             facts == PolicyFacts(runtime)
             Known(b) == facts \cup {<<"proposed", b>>}
  <2>2. policy \in Policies /\ IsFiniteSet(policy) /\ WellFormed(policy) /\ Consistent(policy)
    BY PolicyConstants DEF IInv, Scalars
  <2>3. Permitted(policy, facts, p, a)
    BY <2>1, <2>2, GateIsSound DEF Resolved
  <2>4. a \in Actions
    BY <2>1, ResolvedAction
  <2> HIDE DEF facts, a
  <2>5. \A b \in Actions \ {a} : ~Concludes(policy, Known(a), <<"require", b>>)
    BY <2>2, <2>3, ProposalIsUnread DEF Permitted
  <2>6. ~Concludes(policy, Known(a), <<"deny", a>>)
    <3>1. CASE a = p
      BY <2>3, <3>1 DEF Permitted
    <3>2. CASE a # p
      <4> SUFFICES ASSUME Concludes(policy, Known(a), <<"deny", a>>) PROVE FALSE
        OBVIOUS
      <4>1. Concludes(policy, Known(a), <<"require", a>>)
        BY <2>2, <2>3, <3>2, ProposalIsUnread DEF Permitted
      <4>2. \A x, y : x # "proposed" => <<x, y>> \notin Known(a)
        BY FactsAreNullary DEF facts
      <4>3. PICK d \in policy : d.head = <<"deny", a>> /\ d.body \subseteq Derive(policy, Known(a))
        <5>1. <<"deny", a>> \notin Known(a)
          BY <4>2
        <5>. QED  BY <2>2, <5>1, ConclusionsHaveRules
      <4>4. PICK r \in policy : r.head = <<"require", a>>
        <5>1. <<"require", a>> \notin Known(a)
          BY <4>2
        <5>. QED  BY <2>2, <4>1, <5>1, ConclusionsHaveRules
      <4>5. a \in DOMAIN Exhausted /\ <<Exhausted[a]>> \in d.body
        BY <2>2, <2>4, <4>3, <4>4 DEF Consistent
      <4>6. <<Exhausted[a]>> \in Known(a) \cup Heads(policy)
        <5>1. Consequences(policy, Known(a) \cup Heads(policy)) \subseteq Heads(policy)
          BY DEF Consequences, Heads
        <5>. QED  BY <2>2, <4>3, <4>5, <5>1, DeriveIsSound
      <4>7. <<Exhausted[a]>> \in facts
        <5>1. \A h \in Heads(policy) : \E x, y : h = <<x, y>>
          BY <2>2 DEF WellFormed, Heads
        <5>2. \A f, x, y : <<f>> # <<x, y>>
          OBVIOUS
        <5>. QED  BY <4>6, <5>1, <5>2
      <4>8. ~CanExecute(runtime.used, a)
        <5>1. runtime.used \in [Kinds -> Nat] /\ task.budget \in [Kinds -> Nat]
          BY ExecutiveConstants DEF IInv, Scalars, RunInv, Sound
        <5>. QED  BY <4>5, <4>7, <5>1, ExhaustedIsTrue DEF facts
      <4>. QED  BY <2>1, <4>8 DEF a
    <3>. QED  BY <3>1, <3>2
  <2>. QED  BY <2>5, <2>6 DEF facts, a
<1>. QED  BY <1>1, Invariance, PTL DEF Spec, OnlyPermittedActionsRun

-----------------------------------------------------------------------------
(* The table is the best that can be earned *)

Tabled(r) == Canonical(r) \in DOMAIN value

\* Solve goes from the states with fewest steps left to those with most: where a
\* state has its value, all that can follow it have theirs, and its value is
\* what the recursion of q_values makes of them.
ValueInv ==
    /\ phase = "explore" => DOMAIN value = {}
    /\ phase = "run" => \A r \in states : Tabled(r)
    /\ \A r \in states : Tabled(r) => /\ value[Canonical(r)] \in Int
                                      /\ value[Canonical(r)] = StateValue(r)
    /\ \A r, s \in states : Tabled(r) /\ s.used["steps"] > r.used["steps"] => Tabled(s)

\* Nothing is earned before the run, and none is judged before its end.
StartInv ==
    /\ Initial \in states
    /\ phase \in {"explore", "solve"} => runtime = Initial /\ realized = 0
    /\ phase # "done" => result = None

EarnInv == ~feedback => NoRunBeatsTheOracle

OracleInv == IInv /\ ValueInv /\ StartInv /\ EarnInv

LEMMA UpperBound ==
    ASSUME NEW f \in [Actions -> Int]
    PROVE  \E u \in Int : \A a \in Actions : f[a] <= u
<1>1. \A x, y \in Int : \E u \in Int : x <= u /\ y <= u
  OBVIOUS
<1>2. PICK u1 \in Int : f["ANSWER"] <= u1 /\ f["DEFER"] <= u1
  BY <1>1 DEF Actions, Terminal
<1>3. PICK u2 \in Int : f["STOP"] <= u2 /\ f["RETRIEVE"] <= u2
  BY <1>1 DEF Actions, Terminal
<1>4. PICK u3 \in Int : f["VERIFY"] <= u3 /\ f["SEARCH_MORE"] <= u3
  BY <1>1 DEF Actions, Terminal
<1>5. f["REASON_MORE"] \in Int
  BY DEF Actions
<1>6. PICK u4 \in Int : u1 <= u4 /\ u2 <= u4
  BY <1>1
<1>7. PICK u5 \in Int : u3 <= u5 /\ f["REASON_MORE"] <= u5
  BY <1>1, <1>5
<1>8. PICK u \in Int : u4 <= u /\ u5 <= u
  BY <1>1
<1>9. \A a \in Actions : f[a] \in Int
  OBVIOUS
<1>. QED  BY <1>2, <1>3, <1>4, <1>5, <1>6, <1>7, <1>8, <1>9 DEF Actions, Terminal

LEMMA MaxOfActions ==
    ASSUME NEW f \in [Actions -> Int], NEW E \in SUBSET Actions, E # {}
    PROVE  /\ Max({f[a] : a \in E}) \in Int
           /\ \A a \in E : f[a] <= Max({f[b] : b \in E})
<1> DEFINE S == {f[a] : a \in E}
<1>1. PICK u \in Int : \A a \in Actions : f[a] <= u
  BY UpperBound
<1>2. S \in SUBSET Int /\ S # {} /\ \A x \in S : x <= u
  BY <1>1
<1> DEFINE T == {u - x : x \in S}
<1>3. T \in SUBSET Nat /\ T # {}
  BY <1>2
<1>4. PICK m \in T : \A k \in T : m <= k
  <2> HIDE DEF T
  <2>. QED  BY <1>3, LeastNumber
<1>5. PICK x \in S : m = u - x
  OBVIOUS
<1> HIDE DEF S
<1>6. ASSUME NEW y \in S PROVE x >= y
  <2>1. u - y \in T
    OBVIOUS
  <2> HIDE DEF T
  <2>2. m <= u - y
    BY <1>4, <2>1
  <2>. QED  BY <1>2, <1>5, <2>2
<1>7. Max(S) \in S /\ \A y \in S : Max(S) >= y
  BY <1>6 DEF Max
<1>. QED  BY <1>2, <1>7 DEF S

LEMMA FailureValueType == FailureValue \in Int
<1> DEFINE S == {Utility.incorrect_answer, Utility.incorrect_defer, Utility.incorrect_stop}
<1>1. S \in SUBSET Int
  BY ExecutiveConstants
<1>2. \E x \in S : \A y \in S : x =< y
  BY <1>1
<1> HIDE DEF S
<1>3. Min(S) \in S
  BY <1>2 DEF Min
<1>. QED  BY <1>1, <1>3 DEF FailureValue, S

LEMMA SingletonMax == \A x \in Int : Max({x}) = x
  BY DEF Max

\* An action that does not end the run leads to a state of the table, with one
\* step less.
LEMMA SuccessorTabled ==
    ASSUME IInv, queue = {}, NEW r \in states, NEW a \in Executable(r), ~Ends(r, a)
    PROVE  After(r, a) \in states /\ After(r, a).used["steps"] > r.used["steps"]
<1>1. After(r, a) \in states
  BY DEF IInv, TableInv, Successors
<1>2. After(r, a).used = Consume(r.used, a) /\ r.used \in [Kinds -> Nat]
  BY DEF IInv, TableInv, Sound, After
<1>3. Consume(r.used, a)["steps"] = r.used["steps"] + 1
  BY DEF Consume, Kinds
<1>. QED  BY <1>1, <1>2, <1>3 DEF Kinds

LEMMA ExecutableActions ==
    ASSUME NEW r
    PROVE  Executable(r) \subseteq {a \in Actions : CanExecute(r.used, a)}
  BY ResolvedAction DEF Executable

\* Where what can follow a state has its value, the state has one that none of
\* its actions exceeds.
LEMMA StateValueIsBest ==
    ASSUME IInv, NEW r \in states,
           \A a \in Executable(r) : ~Ends(r, a) => value[Canonical(After(r, a))] \in Int
    PROVE  /\ StateValue(r) \in Int
           /\ \A a \in Executable(r) : QValue(r, a) \in Int /\ QValue(r, a) <= StateValue(r)
<1> DEFINE f == [a \in Actions |-> IF a \in Executable(r) THEN QValue(r, a) ELSE 0]
<1>1. \A a \in Executable(r) : QValue(r, a) \in Int
  <2> SUFFICES ASSUME NEW a \in Executable(r) PROVE QValue(r, a) \in Int
    OBVIOUS
  <2>1. a \in Actions /\ CanExecute(r.used, a)
    BY ExecutableActions
  <2>2. Sound(r) /\ Sound(After(r, a))
    BY <2>1, AfterSound DEF IInv, TableInv
  <2>3. ActionCost(r, After(r, a)) \in Int
    BY <2>2, CostType DEF Sound
  <2>4. TerminalReward(a, Succeeds(r, a)) \in Int
    BY <2>1, RewardType
  <2>. QED  BY <2>3, <2>4 DEF QValue
<1>2. f \in [Actions -> Int] /\ Executable(r) \in SUBSET Actions
  BY <1>1, ExecutableActions
<1>3. {QValue(r, a) : a \in Executable(r)} = {f[a] : a \in Executable(r)}
  BY <1>2
<1>4. \A a \in Executable(r) : QValue(r, a) = f[a]
  BY <1>2
<1> HIDE DEF f
<1>5. CASE Executable(r) = {}
  BY <1>5, FailureValueType DEF StateValue
<1>6. CASE Executable(r) # {}
  <2>1. StateValue(r) = Max({f[a] : a \in Executable(r)})
    BY <1>3, <1>6 DEF StateValue
  <2>. QED  BY <1>1, <1>2, <1>4, <1>6, <2>1, MaxOfActions
<1>. QED  BY <1>5, <1>6

\* What is fixed by the task, the policy and the mode; and a state keeps its
\* value where those that can follow it do.
LEMMA ActionsAreFixed ==
    ASSUME UNCHANGED <<task, policy, feedback>>, NEW r
    PROVE  /\ Executable(r)' = Executable(r)
           /\ Canonical(r)' = Canonical(r)
           /\ \A a : /\ After(r, a)' = After(r, a)
                     /\ Ends(r, a)' <=> Ends(r, a)
                     /\ Succeeds(r, a)' <=> Succeeds(r, a)
<1>1. ASSUME NEW used, NEW a PROVE CanExecute(used, a)' <=> CanExecute(used, a)
  BY DEF CanExecute
<1>2. ASSUME NEW a PROVE After(r, a)' = After(r, a)
  BY DEF After
<1>3. ASSUME NEW a PROVE Ends(r, a)' <=> Ends(r, a)
  BY <1>2 DEF Ends, CanExecute
<1>4. ASSUME NEW p PROVE Resolved(r, p)' = Resolved(r, p)
  <2>1. PolicyFacts(r)' = PolicyFacts(r)
    BY DEF PolicyFacts, Answerable
  <2>. QED  BY <2>1 DEF Resolved
<1>5. Executable(r)' = Executable(r)
  BY <1>1, <1>4 DEF Executable
<1>6. ASSUME NEW a PROVE Succeeds(r, a)' <=> Succeeds(r, a)
  BY <1>2 DEF Succeeds, Answerable
<1>7. Canonical(r)' = Canonical(r)
  BY DEF Canonical
<1>. QED  BY <1>2, <1>3, <1>5, <1>6, <1>7

LEMMA ValueIsFixed ==
    ASSUME UNCHANGED <<task, policy, feedback>>, NEW r,
           \A a \in Executable(r) : ~Ends(r, a) =>
               value'[Canonical(After(r, a))] = value[Canonical(After(r, a))]
    PROVE  StateValue(r)' = StateValue(r)
<1>1. ASSUME NEW a \in Executable(r) PROVE QValue(r, a)' = QValue(r, a)
  <2>1. /\ After(r, a)' = After(r, a) /\ (Ends(r, a)' <=> Ends(r, a))
        /\ Succeeds(r, a)' <=> Succeeds(r, a)
    BY ActionsAreFixed
  <2>2. \A s : Canonical(s)' = Canonical(s)
    BY ActionsAreFixed
  <2>3. TerminalReward(a, Succeeds(r, a))' = TerminalReward(a, Succeeds(r, a))
    BY <2>1 DEF TerminalReward
  <2>. QED  BY <2>1, <2>2, <2>3 DEF QValue, ActionCost
<1>2. Executable(r)' = Executable(r)
  BY ActionsAreFixed
<1>. QED  BY <1>1, <1>2 DEF StateValue, FailureValue

LEMMA InitOracle == Init => OracleInv
<1> SUFFICES ASSUME Init PROVE OracleInv
  OBVIOUS
<1>1. IInv
  BY InitIInv
<1>2. ValueInv /\ StartInv
  BY DEF Init, ValueInv, StartInv, Tabled
<1>3. EarnInv
  BY ExecutiveConstants DEF Init, EarnInv, NoRunBeatsTheOracle
<1>. QED  BY <1>1, <1>2, <1>3 DEF OracleInv

\* Steps that leave the states and their values as they are.
LEMMA SameTable ==
    ASSUME OracleInv, UNCHANGED <<task, policy, feedback, states, value>>,
           phase' = "explore" => phase = "explore",
           phase' = "run" => \A r \in states : Tabled(r)
    PROVE  ValueInv'
<1>1. \A r : StateValue(r)' = StateValue(r)
  BY ValueIsFixed
<1>2. \A r : (Tabled(r)' <=> Tabled(r)) /\ Canonical(r)' = Canonical(r)
  BY ActionsAreFixed DEF Tabled
<1>. QED  BY <1>1, <1>2 DEF ValueInv, OracleInv

LEMMA ExploreOracle == OracleInv /\ Explore => ValueInv' /\ StartInv' /\ EarnInv'
<1> SUFFICES ASSUME OracleInv, Explore PROVE ValueInv' /\ StartInv' /\ EarnInv'
  OBVIOUS
<1>1. /\ phase = "explore" /\ states \subseteq states'
      /\ UNCHANGED <<task, policy, feedback, phase, value, runtime, realized, result>>
  BY DEF Explore, run
<1>2. ValueInv'
  BY <1>1 DEF OracleInv, ValueInv, Tabled
<1>3. StartInv'
  <2>1. Initial' = Initial
    BY <1>1 DEF Initial
  <2>. QED  BY <1>1, <2>1 DEF OracleInv, StartInv
<1>4. EarnInv'
  BY <1>1, <1>3, ExecutiveConstants DEF EarnInv, NoRunBeatsTheOracle, StartInv
<1>. QED  BY <1>2, <1>3, <1>4

\* One layer: the unsolved states with fewest steps left.
LEMMA SolveOracle == OracleInv /\ Solve => ValueInv' /\ StartInv' /\ EarnInv'
<1> SUFFICES ASSUME OracleInv, Solve PROVE ValueInv' /\ StartInv' /\ EarnInv'
  OBVIOUS
<1>1. /\ phase = "solve" /\ queue = {} /\ task \in Tasks
      /\ UNCHANGED <<task, policy, feedback, phase, states, runtime, realized, result>>
      /\ IInv /\ ValueInv
  BY DEF Solve, run, OracleInv, IInv, TableInv, Scalars
<1> DEFINE layer == {r \in Unsolved : \A s \in Unsolved : s.used["steps"] <= r.used["steps"]}
<1>2. value' = [c \in DOMAIN value \cup {Canonical(r) : r \in layer} |->
                   IF c \in DOMAIN value THEN value[c]
                   ELSE Max({StateValue(r) : r \in {q \in layer : Canonical(q) = c}})]
  BY DEF Solve
<1>3. \A r, s \in states : Canonical(r) = Canonical(s) => r = s
  BY <1>1, CanonicalInverts DEF IInv, TableInv
<1>4. layer \subseteq states /\ \A r \in layer : ~Tabled(r)
  BY DEF Unsolved, Tabled
<1>5. \A r \in layer : \A s \in states : s.used["steps"] > r.used["steps"] => Tabled(s)
  <2>1. \A r \in states : r.used["steps"] \in Nat
    BY <1>1 DEF IInv, TableInv, Sound, Kinds
  <2>. QED  BY <1>4, <2>1 DEF Unsolved, Tabled
<1> HIDE DEF layer
<1>6. ASSUME NEW r \in states, Tabled(r) \/ r \in layer
      PROVE  \A a \in Executable(r) : ~Ends(r, a) =>
                 /\ Tabled(After(r, a))
                 /\ value[Canonical(After(r, a))] \in Int
                 /\ value'[Canonical(After(r, a))] = value[Canonical(After(r, a))]
  <2> SUFFICES ASSUME NEW a \in Executable(r), ~Ends(r, a)
               PROVE  /\ Tabled(After(r, a))
                      /\ value[Canonical(After(r, a))] \in Int
                      /\ value'[Canonical(After(r, a))] = value[Canonical(After(r, a))]
    OBVIOUS
  <2>1. After(r, a) \in states /\ After(r, a).used["steps"] > r.used["steps"]
    BY <1>1, SuccessorTabled
  <2>2. Tabled(After(r, a))
    BY <1>1, <1>5, <1>6, <2>1 DEF ValueInv
  <2>. QED  BY <1>1, <1>2, <2>1, <2>2 DEF ValueInv, Tabled
<1>7. \A r \in states : Tabled(r) \/ r \in layer => StateValue(r)' = StateValue(r)
  BY <1>1, <1>6, ValueIsFixed
<1>8. \A r \in layer : StateValue(r) \in Int
  BY <1>1, <1>4, <1>6, StateValueIsBest
<1>9. \A r \in states : Tabled(r)' <=> Tabled(r) \/ r \in layer
  <2>1. \A r : Canonical(r)' = Canonical(r)
    BY <1>1, ActionsAreFixed
  <2>. QED  BY <1>2, <1>3, <1>4, <2>1 DEF Tabled
<1>10. \A r \in layer : value'[Canonical(r)] = StateValue(r)
  <2> SUFFICES ASSUME NEW r \in layer PROVE value'[Canonical(r)] = StateValue(r)
    OBVIOUS
  <2>1. {q \in layer : Canonical(q) = Canonical(r)} = {r}
    BY <1>3, <1>4
  <2>2. value'[Canonical(r)] = Max({StateValue(s) : s \in {q \in layer : Canonical(q) = Canonical(r)}})
    BY <1>2, <1>4 DEF Tabled
  <2>3. {StateValue(s) : s \in {q \in layer : Canonical(q) = Canonical(r)}} = {StateValue(r)}
    BY <2>1
  <2>. QED  BY <1>8, <2>2, <2>3, SingletonMax
<1>11. \A r \in states : Tabled(r) => value'[Canonical(r)] = value[Canonical(r)]
  BY <1>2 DEF Tabled
<1>12. ValueInv'
  <2>1. \A r : Canonical(r)' = Canonical(r)
    BY <1>1, ActionsAreFixed
  <2>2. \A r \in states : Tabled(r)' => /\ value'[Canonical(r)] \in Int
                                        /\ value'[Canonical(r)] = StateValue(r)'
    BY <1>1, <1>7, <1>8, <1>9, <1>10, <1>11 DEF ValueInv
  <2>3. \A r, s \in states : Tabled(r)' /\ s.used["steps"] > r.used["steps"] => Tabled(s)'
    BY <1>1, <1>5, <1>9 DEF ValueInv
  <2>. QED  BY <1>1, <2>1, <2>2, <2>3 DEF ValueInv
<1>13. StartInv'
  <2>1. Initial' = Initial
    BY <1>1 DEF Initial
  <2>. QED  BY <1>1, <2>1 DEF OracleInv, StartInv
<1>14. EarnInv'
  BY <1>1, <1>13, ExecutiveConstants DEF EarnInv, NoRunBeatsTheOracle, StartInv
<1>. QED  BY <1>12, <1>13, <1>14

\* The run starts with nothing earned and all that is promised.
LEMMA SolvedOracle == OracleInv /\ (Explored \/ Solved \/ OverLimit) => ValueInv' /\ StartInv' /\ EarnInv'
<1> SUFFICES ASSUME OracleInv, Explored \/ Solved \/ OverLimit
             PROVE  ValueInv' /\ StartInv' /\ EarnInv'
  OBVIOUS
<1>1. /\ UNCHANGED <<task, policy, feedback, states, value, runtime, realized>>
      /\ phase \in {"explore", "solve"} /\ phase' \in {"solve", "run", "done"}
      /\ phase' = "run" => \A r \in states : Tabled(r)
      /\ IF phase' = "done" THEN result' = "ORACLE_STATE_SPACE_LIMIT" ELSE result' = result
  BY DEF Explored, Solved, OverLimit, table, run, Unsolved, Tabled
<1>2. ValueInv'
  BY <1>1, SameTable
<1>3. StartInv'
  <2>1. Initial' = Initial
    BY <1>1 DEF Initial
  <2>. QED  BY <1>1, <2>1 DEF OracleInv, StartInv
<1>4. EarnInv'
  <2>1. CASE phase' = "run"
    <3>1. runtime = Initial /\ realized = 0 /\ Initial \in states /\ result' = None
      BY <1>1, <2>1 DEF OracleInv, StartInv
    <3>2. value[Canonical(Initial)] \in Int
      BY <1>1, <2>1, <3>1 DEF OracleInv, ValueInv
    <3>3. Canonical(Initial)' = Canonical(Initial) /\ Canonical(runtime)' = Canonical(runtime)
      BY <1>1 DEF Canonical, Initial
    <3>. QED  BY <1>1, <3>1, <3>2, <3>3, ExecutiveConstants DEF EarnInv, NoRunBeatsTheOracle
  <2>2. CASE phase' # "run"
    <3>1. result' = None \/ result' = "ORACLE_STATE_SPACE_LIMIT"
      BY <1>1 DEF OracleInv, StartInv
    <3>. QED  BY <2>2, <3>1, ExecutiveConstants DEF EarnInv, NoRunBeatsTheOracle
  <2>. QED  BY <2>1, <2>2
<1>. QED  BY <1>2, <1>3, <1>4

\* What is executed is worth no more than the state it is executed in.
LEMMA ExecuteOracle ==
    ASSUME OracleInv, phase = "run", NEW p \in Actions, Execute(Resolved(runtime, p).action)
    PROVE  ValueInv' /\ StartInv' /\ EarnInv'
<1> DEFINE a == Resolved(runtime, p).action
<1>1. a \in Executable(runtime)
  BY DEF Execute, Executable
<1>2. /\ UNCHANGED <<task, policy, feedback, states, value>>
      /\ runtime' = After(runtime, a)
  BY DEF Execute, table
<1>3. /\ IInv /\ queue = {} /\ runtime \in states /\ result = None /\ Initial \in states
      /\ \A r \in states : Tabled(r) /\ value[Canonical(r)] \in Int
      /\ value[Canonical(runtime)] = StateValue(runtime)
      /\ realized \in Int
  BY DEF OracleInv, IInv, TableInv, RunInv, Scalars, ValueInv, StartInv
<1> HIDE DEF a
<1>4. /\ QValue(runtime, a) \in Int /\ QValue(runtime, a) <= value[Canonical(runtime)]
      /\ value[Canonical(runtime)] \in Int
  <2>1. \A b \in Executable(runtime) : ~Ends(runtime, b) =>
            value[Canonical(After(runtime, b))] \in Int
    BY <1>3, SuccessorTabled
  <2>. QED  BY <1>1, <1>3, <2>1, StateValueIsBest
<1>5. ValueInv'
  <2>1. phase' # "explore"
    BY DEF Execute
  <2>. QED  BY <1>2, <1>3, <2>1, SameTable
<1>6. StartInv'
  <2>1. Initial' = Initial
    BY <1>2 DEF Initial
  <2>2. phase' = "done" \/ (phase' = "run" /\ result' = result)
    BY DEF Execute
  <2>. QED  BY <1>2, <1>3, <2>1, <2>2 DEF StartInv
<1>7. EarnInv'
  <2> SUFFICES ASSUME ~feedback PROVE NoRunBeatsTheOracle'
    BY <1>2 DEF EarnInv
  <2>1. realized + value[Canonical(runtime)] <= value[Canonical(Initial)]
    BY DEF OracleInv, EarnInv, NoRunBeatsTheOracle
  <2>2. Canonical(Initial)' = Canonical(Initial) /\ Canonical(runtime)' = Canonical(runtime')
    BY <1>2 DEF Canonical, Initial
  <2>3. value[Canonical(Initial)] \in Int
    BY <1>3
  <2>4. ActionCost(runtime, runtime') \in Int
    <3>1. a \in Actions /\ CanExecute(runtime.used, a)
      BY <1>1, ExecutableActions
    <3>2. Sound(runtime) /\ Sound(After(runtime, a))
      BY <1>3, <3>1, AfterSound DEF IInv, TableInv
    <3>. QED  BY <1>2, <3>2, CostType DEF Sound
  <2>5. CASE Ends(runtime, a)
    <3>1. /\ phase' = "done"
          /\ realized' = realized - ActionCost(runtime, runtime')
                         + TerminalReward(a, Succeeds(runtime, a))
      BY <2>5 DEF Execute, a
    <3>2. QValue(runtime, a) =
              TerminalReward(a, Succeeds(runtime, a)) - ActionCost(runtime, runtime')
      BY <1>2, <2>5 DEF QValue
    <3>3. TerminalReward(a, Succeeds(runtime, a)) \in Int
      BY <1>1, ExecutableActions, RewardType
    <3>4. realized' = realized + QValue(runtime, a)
      BY <1>3, <2>4, <3>1, <3>2, <3>3
    <3>5. realized' <= value[Canonical(Initial)]
      BY <1>3, <1>4, <2>1, <2>3, <3>4
    <3>. QED  BY <1>2, <2>2, <3>1, <3>5 DEF NoRunBeatsTheOracle
  <2>6. CASE ~Ends(runtime, a)
    <3>1. /\ phase' = "run" /\ result' = None
          /\ realized' = realized - ActionCost(runtime, runtime')
      BY <1>3, <2>6 DEF Execute, a
    <3>2. QValue(runtime, a) =
              value[Canonical(runtime')] - ActionCost(runtime, runtime')
      BY <1>2, <2>6 DEF QValue
    <3>3. value[Canonical(runtime')] \in Int
      BY <1>1, <1>2, <1>3, <2>6, SuccessorTabled
    <3>4. realized' + value[Canonical(runtime')] = realized + QValue(runtime, a)
      BY <1>3, <2>4, <3>1, <3>2, <3>3
    <3>5. realized' + value[Canonical(runtime')] <= value[Canonical(Initial)]
      BY <1>3, <1>4, <2>1, <2>3, <3>4
    <3>. QED  BY <1>2, <2>2, <3>1, <3>5, ExecutiveConstants DEF NoRunBeatsTheOracle
  <2>. QED  BY <2>5, <2>6
<1>. QED  BY <1>5, <1>6, <1>7

\* A run that goes on with what it has, or ends by no action of its own.
LEMMA QuietOracle ==
    ASSUME OracleInv, UNCHANGED <<task, policy, feedback, states, value>>, phase = "run",
           \/ feedback /\ phase' = "run" /\ result' = result
           \/ phase' = "run" /\ UNCHANGED <<runtime, realized, result>>
           \/ phase' = "done" /\ result' \notin {"TASK_SUCCESS", "TASK_FAILURE"}
    PROVE  ValueInv' /\ StartInv' /\ EarnInv'
<1>1. ValueInv'
  BY SameTable DEF OracleInv, ValueInv
<1>2. StartInv'
  <2>1. Initial' = Initial
    BY DEF Initial
  <2>. QED  BY <2>1 DEF OracleInv, StartInv
<1>3. EarnInv'
  <2> SUFFICES ASSUME ~feedback PROVE NoRunBeatsTheOracle'
    BY DEF EarnInv
  <2>1. CASE phase' = "run"
    <3>1. Canonical(Initial)' = Canonical(Initial) /\ Canonical(runtime)' = Canonical(runtime)
      BY <2>1 DEF Canonical, Initial
    <3>. QED  BY <2>1, <3>1 DEF OracleInv, EarnInv, NoRunBeatsTheOracle
  <2>2. CASE phase' = "done" /\ result' \notin {"TASK_SUCCESS", "TASK_FAILURE"}
    BY <2>2 DEF NoRunBeatsTheOracle
  <2>. QED  BY <2>1, <2>2
<1>. QED  BY <1>1, <1>2, <1>3

LEMMA RunOracle ==
    ASSUME OracleInv,
           \/ \E p \in Actions : Propose(p) \/ RaiseForPruned(p)
           \/ ReachProposalLimit
           \/ RunOut
    PROVE  ValueInv' /\ StartInv' /\ EarnInv'
<1>1. ASSUME NEW p \in Actions, Propose(p) PROVE ValueInv' /\ StartInv' /\ EarnInv'
  <2>1. phase = "run"
    BY <1>1 DEF Propose, Turn, TurnWithFeedback
  <2>2. CASE Execute(Resolved(runtime, p).action)
    BY <2>1, <2>2, ExecuteOracle
  <2>3. CASE Deny
    <3>1. /\ UNCHANGED <<task, policy, feedback, states, value>>
          /\ \/ phase' = "run" /\ UNCHANGED <<runtime, realized, result>>
             \/ phase' = "done" /\ result' = "POLICY_REJECTION_LIMIT"
      BY <2>1, <2>3 DEF Deny, Stop, table
    <3>. QED  BY <2>1, <3>1, QuietOracle
  <2>4. CASE RejectForResources(Resolved(runtime, p).action)
    <3>1. /\ UNCHANGED <<task, policy, feedback, states, value>>
          /\ phase' = "run" /\ UNCHANGED <<runtime, realized, result>>
      BY <2>1, <2>4 DEF RejectForResources, table
    <3>. QED  BY <2>1, <3>1, QuietOracle
  <2>5. CASE TurnWithFeedback(p) /\ ChargeRefusal(p)
    <3>1. /\ UNCHANGED <<task, policy, feedback, states, value>>
          /\ feedback /\ phase' = "run" /\ result' = result
      BY <2>1, <2>5 DEF TurnWithFeedback, ChargeRefusal, table
    <3>. QED  BY <2>1, <3>1, QuietOracle
  <2>. QED  BY <1>1, <2>2, <2>3, <2>4, <2>5 DEF Propose
<1>2. CASE ReachProposalLimit \/ RunOut \/ \E p \in Actions : RaiseForPruned(p)
  <2>1. /\ UNCHANGED <<task, policy, feedback, states, value>> /\ phase = "run"
        /\ phase' = "done"
        /\ result' \in {"PROPOSAL_LIMIT", "CONTROLLER_STEP_LIMIT", "RESOURCE_EXHAUSTED",
                        "ABSENT_FROM_SEQUENTIAL_ORACLE"}
    BY <1>2 DEF ReachProposalLimit, RunOut, RaiseForPruned, TurnWithFeedback, Stop, table
  <2>. QED  BY <2>1, QuietOracle
<1>. QED  BY <1>1, <1>2

LEMMA StepOracle == OracleInv /\ [Next]_vars => OracleInv'
<1> SUFFICES ASSUME OracleInv, [Next]_vars PROVE OracleInv'
  OBVIOUS
<1>1. IInv'
  BY StepIInv DEF OracleInv
<1>2. CASE Next
  <2>1. ValueInv' /\ StartInv' /\ EarnInv'
    BY <1>2, ExploreOracle, SolveOracle, SolvedOracle, RunOracle DEF Next
  <2>. QED  BY <1>1, <2>1 DEF OracleInv
<1>3. CASE UNCHANGED vars
  <2>1. UNCHANGED <<task, policy, feedback, phase, states, value, runtime, realized, result>>
    BY <1>3 DEF vars, table, run
  <2>2. ValueInv'
    BY <2>1, SameTable DEF OracleInv, ValueInv
  <2>3. Initial' = Initial
    BY <2>1 DEF Initial
  <2>4. StartInv'
    BY <2>1, <2>3 DEF OracleInv, StartInv
  <2>5. EarnInv'
    <3>1. Canonical(Initial)' = Canonical(Initial) /\ Canonical(runtime)' = Canonical(runtime)
      BY <2>1 DEF Canonical, Initial
    <3>. QED  BY <2>1, <3>1 DEF OracleInv, EarnInv, NoRunBeatsTheOracle, DeadEnd
  <2>. QED  BY <1>1, <2>2, <2>4, <2>5 DEF OracleInv
<1>. QED  BY <1>2, <1>3

\* Where refusals are not charged, no controller earns more than the table
\* promises, whatever the tasks, policies, costs and rewards.
THEOREM OracleIsNeverBeaten == Spec => [](~feedback => NoRunBeatsTheOracle)
<1>1. Spec => []OracleInv
  BY InitOracle, StepOracle, PTL DEF Spec
<1>2. OracleInv => (~feedback => NoRunBeatsTheOracle)
  BY DEF OracleInv, EarnInv
<1>. QED  BY <1>1, <1>2, PTL

=============================================================================
