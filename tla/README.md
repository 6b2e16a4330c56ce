# DAPH: verification of the claim memory, its workers and its gates

This directory holds TLA+ models of the stateful core of `hrm_adaptive_memory`
and of the scripts that certify its results, the TLC configurations that check
them and the proofs that TLAPS checks. It is kept beside the code: every
definition names, in PROJECT.json's `map`, the lines it stands for.

## 1. The system

DAPH is a research code base: a memory of claims with provenance, workers that
verify the claims, an executive that decides what to do next, retrieval
backends and a long series of gated experiments. It is single-process Python
without threads; what makes it hard is that its stores are files which must
survive the death of the process at any instruction, that views are kept
incrementally, that workers go on from lists and captures taken earlier, and
that a result is certified from files which several commands, of several
revisions, have written.

| component | state | operations | interacts with |
|---|---|---|---|
| Claim store `memory_write/claim_store.py`, `states.py`, `verification.py` | event log, manifest, snapshot; in memory: records with lifecycle, claim-key index, verdicts | construct (replay), `ingest` with and without `supersedes`, `retract`, `append_verification`, `append_external_verification`, `publish_snapshot`; queries `retrievable`, `verification_status`, `verification_disagreements` | calls the consolidation index at every event |
| Consolidation `memory_write/consolidation.py` | incremental index of the claims; union-find forest while it computes | `apply_state_change`, `snapshot`; `consolidate_from_scratch` | read by the worker's queue |
| Memory-consistency worker `memory_write/verification.py` | the list `queue()` returned | `determine`, `verify`, `queue` | reads and writes the claim store |
| External verification `external_verification/core.py` | verification queue log, evidence log with manifest and raw bytes, position within `run_next` | `enqueue`, `next_pending`, `acknowledge`; `append_acquisition`, `retract`; `run_next`, `run_all` | writes evidence, then a verdict to the claim store, then its queue |
| Typed verifier, comparators, authority registry | none | pure comparisons | the `verifier` of the worker |
| Network transport | none | one HTTPS fetch | acquirers |
| Cognitive control `cognitive_control/core.py` | hash-chained log, manifest; provenance, bitemporal facts, conflicts, decisions | `append` with operation ids, `record_*`, `invalidate_provenance`, `supersede_fact`, `query_facts`, `detect_conflicts` | the executive records decisions in it |
| Policy gate, Datalog `cognitive_control/core.py`, `datalog.py` | none between calls | construct (validates the rules), `evaluate` | asked by the executive and by its transition table |
| Checkpoints `cognitive_control/checkpoints.py` | a checkpoint file | create, verify | the control store |
| Executive `executive/metareasoning_*.py`, `resources.py` | a task's evidence and used budgets; the transition table with its values | build the table, propose, gate, charge, execute | policy gate, control store |
| C4 evidence paths `c4/identity_stage.py`, `runtime_graph.py`, `g2_paths.py`, `typed_path.py`, `packet_composition.py`, `selector_v2.py`; `executive/retrieval_probe.py` | one query's pool, graph, paths, working set, packet | resolve the subject, build the graph, enumerate, rank, compose, fill | called on escalation by the executive |
| C4 qualification `scripts/run_gate_c4.py`, `certify_c4_run.py`, `colab_c4_requalify.py`; `c4/provenance.py`, `development_lineage.py` | per split: arm files, manifest, analysis, results hash, certificate, bundle hash | `full` (resumable), `certify`, `requalify`, checkout of a revision | each other, through the files |
| C4 runner, fusion, receipts, statistics | none between calls | fail-closed stages | the qualification scripts |
| Backends, retrieval, HRM model, experiments, `daph`, `daph_metareasoner`, other scripts | tensors, recorded data | training, scoring, reports | - |

What makes each of them correct, in the words used below:

* Claim store: what was acknowledged comes back after any crash; memory is what
  the log says; a withdrawn claim is never served again; a supersession leaves
  a successor behind; snapshots are trusted only when current; no event refers
  to something never recorded.
* Consolidation: the incremental view is the from-scratch view (C9 of the
  design); union-find computes connected components and its finds end.
* Workers: support stands on what is still there, and never on both sides; the
  queue empties; a job gets one verdict, over recorded evidence, and is called done only afterwards;
  every job finishes.
* Cognitive control: the log can always be replayed and the views are what it
  derives; an operation id commits once and can be retried; answers about the
  past do not change.
* Executive and policy gate: what the rules deny is not run, what they require
  is; no budget is exceeded; the table made before the run knows every state
  the run meets and is never beaten by it; every run ends.
* Evidence paths: the copies of the two-hop walk agree as far as their two ways
  of finding the subject allow; ranking leaves nothing
  out that fits; the best path reaches the reader whole; what is dropped with
  room left has no connection to the subject.
* Qualification: a bundle whose root hash verifies and whose certificate says
  valid is complete and of one piece; a qualification descends from a
  certified development; a launch certifies what its own revision produced;
  work that was paid for is kept.

The hazards are listed line by line in PROJECT.json (`hazards`), with the
properties that watch them.

## 2. Modules

```
EventLog            lines of a JSONL log, whole and torn
ClaimEvents         events of the claim store and the state they derive
  ClaimStore        the commit sequence, construction, crashes      --implements--> ClaimHistory
    MCClaimStore
    ClaimStoreProofs  (uses ClaimEventsProofs)
Components          connected components of a graph, by definition
  UnionFind         _union_find, one step per assignment
  Consolidation     both consolidations  (EXTENDS ClaimEvents)
    MemoryConsistency   claim store in memory + index + worker
      MCMemoryConsistency
      MemoryConsistencyProofs  (uses ClaimEventsProofs; UnionFind's proofs too)
ExternalVerification  worker + queue + evidence store + claim store  --implements--> VerificationJobs
  MCExternalVerification
  ExternalVerificationProofs
CognitiveControl    cognitive control store (EXTENDS EventLog)
  MCCognitiveControl
  CognitiveControlProofs
PolicyGate          policy gate and Datalog engine
  Executive         transition table, runners, executor, budgets
    MCExecutive
    ExecutiveProofs   (and those of the gate and the engine)
EvidencePaths       from the retrieved pool to the composed packet
  MCEvidencePaths
  EvidencePathsProofs
Qualification       resumable run, certifier, launcher over their bundles
  MCQualification
  QualificationProofs
```

**EventLog.** A log is a sequence of lines; a line is a sequence of chunks and
whether it ends in a newline. `Write` continues a line without one, as opening
a file with mode `a` does; a line parses only if it is one whole event. A chunk
`Torn` is a proper prefix of an event's JSON.

**ClaimEvents.** Record ids and verification ids are content addresses, so an
id stands for its content: `Claims` are the records a caller may ingest and
`Verdicts` the determinations it may append. `ApplyEvent` is `_apply_event`:
the lifecycle, the successor, the claim-key index, the verdicts per claim and
the id sets. `VerificationStatus` is the query.

**ClaimStore.** `pc` is where the process is: `Down`, `Replaying`, `Idle`,
then `Appending` (line and fsync, memory), `Anchoring` (manifest), `Publishing`
(snapshot), `Sealing` (manifest again), or `Refused` (the constructor raised).
An operation checks its arguments and lists its events in `todo`; a
supersession lists two. `hasher` is the running digest of the log, taken to be
its argument. `applied` and `durable` are history: the events this process has
applied, and those whose operation had returned.

**ClaimHistory** is the abstract store: an append-only history of admissible
events and a view of it while the store serves. `ImplementsHistory` is the
refinement: the events of the log are the history, and an idle store's
lifecycles are the view.

**Components, UnionFind, Consolidation.** `UnionFind` walks `_union_find`
edge by edge with path halving. `Consolidation` states `consolidate_from_scratch`
and the incremental `ConsolidationIndex` over the same data; for the clusters
both use `Components`, which the `UnionFind` run justifies.

**MemoryConsistency** puts the claim store's memory, the index and the worker
together; one step is one call, since nothing else runs within one, except that
the worklist is taken once and used item by item while callers write.

**ExternalVerification.** `run_next` step by step: is the verdict in already,
has the job a capture, acquire, record, anchor, append the verdict, anchor,
acknowledge; with what construction accepts and which manifests it rewrites, and
death anywhere. Claims, evidence and queue are their logs and how much the
manifests cover; `queueFile` says whether the queue's last line has its newline
and whether all of its lines parse, since a line cut short by a death is never
skipped, and one that lost its newline is continued by the next. What memory
holds is computed from the logs; `ClaimStore` is where that is shown.
The acquirer is external: it may bring a capture, findings without one
(`Findings`), fail, or bring bytes that do not decode, differently at each
attempt. The verifier is the constant `Result`.

**VerificationJobs** is the promise: absent, queued, decided once, done.
`KeepsPromise` is the refinement from the three logs.

**CognitiveControl.** A call checks what its public method checks
(`Permitted`) and puts its events in `todo`; `AppendEvent` writes the line and
applies it, `WriteManifest` follows, `ReturnPrior` and `RefuseDrift` are the
exits of `append` for an operation id that is committed already. Conflict
detection lists its conflicts first and appends them one by one. Replay is one
step, since it changes nothing on disk, and accepts exactly the logs whose
lines parse, whose operation ids differ, whose events apply in turn and which
the manifest covers. `reloaded` says which events came back from JSON, where
tuples have become lists. Timestamps are integers; callers pass any of them.

**PolicyGate.** `Derive` is the engine's loop to its fixpoint; `Evaluate`
derives from the facts of the task and the proposal, lets a single required
action take the proposal's place, refuses where two are required, and looks up
`deny` for what was proposed. One task is in hand, so atoms are ground.

**Executive.** First the table: `Explore` takes a state off the queue and adds
its `Successors`, `Solve` computes the values backwards, as
`build_oracle_policy_table_for_runtime` does. Then the run: `Propose` is any
controller; the gate resolves, `Deny`, `RejectForResources` and `ChargeRefusal`
are the refusals, `Execute` charges the budgets and applies the task's
conditional effects, which `Parsed` converts from the strings of the task file,
and `ReachProposalLimit` and `RunOut` end a controller that never heeds. With
`feedback` it is the I3.2 runner, which charges refusals; `refused` holds the
proposals it refused, and `RaiseForPruned` is the exception for one that the
oracle's sequences leave out.

**EvidencePaths.** A record is what the parsers see in its text: the entities
the extractor finds in it (`mentions`), the names that only lie in its words,
within a longer one (`buried`), whether it has the words of the relation, for
which entities it binds the relation, and which names it maps. The graph, the
oracle and G2 ask for the first (`RecordsOf`), G1's template and S2 for both
(`NamedIn`, `Words`). `Enumerate` builds the paths,
`Skip` and `Retain` are the two outcomes of one turn of
`rank_and_select_paths`, `EndRanking` leaves its loop, `AdmitPath` and
`AdmitNone` choose the composer's anchor, `Fill` appends one record in S2's
order. `admitted` is the working list: which records, and in what order their
paths brought them in. The frozen selector of an identified subject is any
order of the working set; the protected record of S1 comes first. G1's
template, the oracle's reach and the graph's neighbourhood are operators that
`WalksAgree` compares with the enumeration: the template misses nothing that G2
completes under its reading of the relation but connecting records about the
subject itself, and finds more only where the subject is named in the words of
a text and not by the extractor.

**Qualification.** `shell` is the command that runs and the step it has
reached; `arms`, `manifest`, `analysis`, `results`, `certificate` and `root`
are the files of each split's bundle. A receipt is the revision that generated
it, an analysis the receipts it was computed from, a hash what it was computed
over. The operator checks out revisions and starts `full`, `certify` and
`requalify` on either split; a kill may come at any step and leaves of the arm
file that is being written the old one, a torn one, or the first of its lines,
and the rest as it is. The gates that compare files with each other are
modelled, the others (tests, environment, contents of a receipt) decide as they
may. Where the certifier recomputes metrics and compares them with the
analysis, the model compares the receipts they come from.

Definitions commented `Mutant` are deliberate faults, one plausible bug each.
Exchanging the definition that follows for it must make the named property
fail (`mutants` in PROJECT.json).

## 3. Runs

| run | instance | states | shows |
|---|---|---|---|
| `ClaimStore_crashes` | 3 claims of 2 keys, 3 verdicts (one retiring another, one external), 5 log lines, snapshots on | 223k | what is acknowledged survives; withdrawals are final; manifests anchor; snapshots are trusted only when current; implements `ClaimHistory` |
| `ClaimStore_torn` | 2 claims, 1 verdict, 4 lines, torn lines of up to 3 chunks | 80k | with torn lines a store that opens holds in memory what the events it read derive, and every reference in them resolves |
| `UnionFind_components` | 4 names, up to 4 edges | 89k | the forest's trees are the components; links only descend; finds end |
| `Consolidation_aliases` | two records of one alias, claims under both names, 7 events | 26k | C9 |
| `MemoryConsistency_worker` | 4 claims, 4 sources, 5 events | 27k | support is current and never on both sides; verification takes effect; the queue drains |
| `ExternalVerification_crashes` | 2 jobs, 2 captures that both may bring, 3 crashes, 1 retraction, queue lines cut anywhere | 52k | one verdict and one capture per job, evidence first, `VerificationJobs` implemented, every job finishes |
| `CognitiveControl_retries` | 1 provenance, 2 facts that disagree, 2 decisions, 3 operation ids, 3 times, 5 log lines | 255k | the log always replays, views follow it, repeated calls are answered, the past is fixed |
| `Executive_tasks` | 4 tasks, 3 policies, with and without charged refusals, every sequence of proposals | 5k | budgets hold, every state met is in the table, no run beats the table, only permitted actions run, every run ends |
| `EvidencePaths_pools` | every pool of 5 records out of 9 texts, 4 names, one within another, two scores, M = 4, budget 3 | 644k | the walks agree as far as they can, nothing that fits is left out, the best path arrives whole, only alias-reached records are dropped |
| `Qualification_retries` | 3 revisions, 2 splits, 2 primary and 1 diagnostic arm, 2 tasks, 4 commands, 1 kill | 1.9M | verified bundles are whole, qualifications descend, launches are of their revision, paid work is kept |

The number of crashes of the claim store is not bounded: its state after a
crash depends on the files alone, so the log's length bounds the run. Five
lines hold an ingestion, a supersession (two lines) and two more events, with a
crash in every gap; a second supersession or a third withdrawal repeats pairs
that occur already. Four names are the fewest on which union by smaller name
meets two non-trivial trees, and path halving a path of length two. Five events
let two disagreeing pairs be ingested and leave one write of the callers to
interleave with the worker, whose own verdicts are not bounded. Three crashes
let one job die after its evidence, after its verdict and once more during the
next job. Five lines of the control store hold a provenance, both facts, their
conflict and one withdrawal or supersession, or two withdrawals of one
provenance; two conflicts of one detection would need seven and are not
reached. Operation ids are symmetric.

The executive's tasks are the shapes of the benchmark: one that needs
verification, a stale one with a conflict, a retrieval that fails once, and a
verification that decides nothing; the policies are the two frozen ones and one
whose rules build on each other. The table is complete at `MaxStates` 25, and
`MaxSteps` 3 is what ends a controller that ignores every refusal. Five records
let a working set of four overflow after an earlier path was taken, and a
packet of three leave one out; nine texts give answers about the subject, about
a neighbour and about an alias, records that only connect, two mappings of
which one is of another name that contains the asked one, and answers that hold
the asked name in a longer one, beside it or alone. Four commands and one
kill are the shortest sequences that certify development, move on, and fail or
repeat a qualification; three revisions are an ancestor, a descendant with
another pipeline, and one with another protocol.

Deadlock is checked in the claim store's runs, where the system cannot stop;
the other configurations turn it off: union-find stops when its edges are used
up, a worker when its callers are done, as do a run that has ended, a packet
that is composed and an operator who has used up the commands.

Runs that end in a violation show that a sentence of the repository does not
hold of the code.

| run | property | the sentence |
|---|---|---|
| `ClaimStore_crash_before_manifest` | `AlwaysRecovers` | a crash between any two stages leaves the canonical log sufficient for recovery |
| `Qualification_stale_certificate` | `OnlyCertifiedIsNamedValid` | an uncertified bundle must never be named VALID_CONFORMANT_* |

More divergences were met and have no run:

* Claim store: after a torn last line the next append continues that line
  (`claim_store.py:417`, against the comment at 172-175), so an acknowledged
  event can be lost with it; a supersession is two appends, and a retry after a
  crash between them takes the duplicate exit (511-513, 560, against
  `configs/verified_memory_write_v1_design.json:85`); a last line that lost
  only its newline is hashed and invalidates the manifest of the lines before
  it (138, against its docstring at 128); a verdict that cites a withdrawn
  record is not counted although no event retires it (679, against
  `configs/background_verification_v1_design.json:48`), while
  `verification_disagreements` still counts it (714-716 against its docstring
  at 711).
* External verification: bytes that do not decode raise out of the worker
  (`external_verification/core.py:340`, against
  `test_background_verification_v2a.py:109`); a torn last line of the queue
  stops every later construction (697 against the docstrings at 680 and 768).
* Cognitive control: a call repeated after a restart is refused as if its
  content had changed (`core.py:427`), because provenance, conflict and
  decision payloads hold tuples, which replay reads back as lists; the class
  promises "operation idempotency" (280), and `RetriesAreAnswered` holds within
  one process only. The reader splits lines with `str.splitlines` (305), which
  also splits at U+2028 and its like, and `_json` writes them unescaped: one
  event whose text holds such a character makes the store impossible to open.
  Withdrawing provenance a second time moves the withdrawal and brings facts
  back into answers about the time between (358); `PastIsFixed` excepts that
  step. A crash between the log line and the manifest makes the store refuse to
  open, as in the claim store.
* Executive: a state may have no way out, budgets left and every action denied,
  which the comment at `metareasoning_executor.py:281-283` rules out; a required
  action is not held against `deny` (`cognitive_control/core.py:254-276`);
  the table with feedback does not weigh a refusal as a way out of a dead end
  (240-263), for which `NoRunBeatsTheOracle` makes an exception; the sequential
  oracle of I3.2 values such states differently, where its
  "regret-decomposition invariant" fails.
* Qualification: `_resume_key` "invalidates on config/code changes" but hashes
  neither the commit nor the HRM revision, token limit, dtype or evaluator
  (`run_gate_c4.py:466`); a diagnostics-only `full --arms` by hand stamps the
  manifest with the revision checked out, so that certifying by hand accepts
  primary receipts of an older pipeline, which is why `LaunchIsOfItsRevision`
  is about launches; a torn arm file makes every resume raise (617).
* Evidence paths: the composer cuts a path that was not retained to the records
  in the working set and reports it as admitted atomically
  (`packet_composition.py:85-92`, against "A path either survives coherently or
  is not admitted as a path at all" in its header), so that a cut path that
  ranks first displaces a whole one; a bridge that only an alias leads to makes
  a complete path without a connecting record (`g2_paths.py:258-267`, against
  "A complete path needs both"); S2 drops such records though there is room
  (`selector_v2.py:286-304`, against "the packet budget is still spent in
  full"); when the record that maps the asked name does not reach the working
  set, S2's order is made for the asked name instead of the resolved subject
  (`retrieval_probe.py:165`), which `OnlyAliasReachedAreDropped` excepts.

## 4. Fairness

`ClaimStore`, `CognitiveControl`, `Qualification` and `EvidencePaths` assume
none: nothing obliges a caller or an operator to go on, and every property
checked there is about safety. `UnionFind`: the loops run on.
`MemoryConsistency`: the worker's loop goes on (weak fairness of its next step,
be it taking the queue or verifying the next item); callers are not fair and
stop writing after `MaxEvents`, without which a queue need not drain.
`ExternalVerification`: `run_all` calls `run_next` while a job is pending and
the process is started again after a crash (weak fairness of `Work` and of
construction); callers ingest the claims of the jobs they enqueue (otherwise
`run_next` raises for ever); a source that can answer decodably does so when
asked again and again (strong fairness of acquisition, the only assumption
about the world outside: an exception leaves its job at the head of the queue,
so a source that never answers decodably stops all of it). `EveryJobFinishes`
excepts stores that refuse to open, which is the subject of the crash run.
`Executive`: a task is one uninterrupted call, table and run (weak fairness of
`Next`); the controller is under no assumption.

## 5. Proofs

`tlapm` checks, for every value of the constants, every invariant and every
action property that a passing run checks, with the conditions named here, and
both refinements.

* **Claim store.** `TypeCorrect`, torn lines included; `TypeOK` is inductive: it
  carries that `todo` is non-empty while an append is under way and that the
  replay's position stays within the log. `MemoryFollowsHistory`, inductive
  together with it: one lemma per part (`LifecycleMatches`, `IndexMatches`,
  `VerdictsMatch`) about `ApplyEvent`, since replay and live append both extend
  `applied` by the event they apply. `ReferencesAlwaysResolve` and
  `SupersededAlwaysHasSuccessor`, torn lines included: `HistoryInv` says that
  every event applied fits those before it, that what an operation has still to
  append fits (`TodoInv`), and that the readable part of the log is such a
  history too (`ReplayInv`), which is what a crash leaves; `SuccessorInv` finds
  the record that names a superseded one. `TrustedSnapshotIsCurrent`, torn lines
  included, although the bytes hashed and those on disk then part: an event
  appended to a torn line is a line of its own to the hasher and none to the
  next reader. `HashInv` says that what is applied is what replaying the hashed
  bytes would give, or longer, since an event that continues an unended line
  takes the one before it with it; `SnapInv` says that no write brings the hash
  back to that of a snapshot on disk, and that a snapshot whose version counts
  the events its hash reads holds what they dictate.
* **Claim store, where writes are not torn** (`ASSUME ~TornWrites`, the instance
  of `ClaimStore_crashes`; with torn writes all four are false, for the first of
  the claim store's divergences in section 3). `AcknowledgedAlwaysSurvives`:
  `LogInv` relates three sequences: every line holds one event and its newline,
  what is applied is what was read of the log, and `durable` is a prefix of the
  log; a crash shortens `applied`, never the log. `WithdrawalLasts` follows from
  it and `HistoryInv`. `ManifestAlwaysAnchors`: `AnchorInv` says that the hasher
  was fed the log and that a manifest is of a prefix of it, and of all of it but
  between the write of a line and that of the manifest.
  `StoreImplementsHistory`: every step of the store appends one admissible event
  to the history of `ClaimHistory`, opens or closes its view, or leaves it alone.
* **Consolidation and its worker.** `IncrementalIsScratch` (C9): `IndexInv`
  says that the index's three maps are the active claims, the claims per
  content and the alias edges of active claims; withdrawing one of two records
  behind an alias edge is the case that makes it necessary.
  `ListedRecordsAreStored` adds `WorkInv`, that no event makes a listed record
  unknown, and gives the type invariant. `SupportStaysCurrent`
  and `VerificationAlwaysTakesEffect`: `VerdictInv` says that verdicts are the
  worker's, cite what bears them out, are filed under their claim, and that of two retrievable records
  that oppose each other not both are backed by verdicts, live or not.
* **Union-find.** `ForestNeverCycles`: links descend through every halving and
  union, so no find can loop. `LinksConnectComponents`: a set of names that no
  link leads out of or into is one no united edge leads out of or into, at any
  moment of a find (`CutsAgree`, kept by `FindInv`, which follows the cursor).
  `ClustersAreComponents` adds that every tree has one root, so that grouping by
  what find returns, as the end of `_union_find` does, gives the components.
* **External verification.** `VerdictsAreFinal`, `EvidenceComesFirst`,
  `CapturesAreReused` and `StoresAreTyped`, from one inductive invariant: what
  `run_next` knows of its job at each step (`JobInv`), what is on disk before
  an evidence record (`EvidenceInv`), and that acknowledged is committed is
  enqueued (`QueueInv`). `WorkerKeepsPromise`: every step of the three logs is
  a step of `VerificationJobs` or leaves it as it is.
* **Cognitive control.** `TypeCorrect`, `LogAlwaysReplays`, `MemoryIsDerived`,
  `RetriesAlwaysAnswered` and `PastStaysFixed`. The heart is that `append`
  writes a line before `_apply` has looked at it: what a public method has
  checked is what `_apply` will check (`TodoInv`), so the line that is written
  keeps the log a history (`ReplayInv`). `SettledInv` is why a retry is
  answered: the part of the check that a method repeats before `append` looks
  for the operation id is never undone. Withdrawing provenance twice is the one
  event `PastStaysFixed` excepts.
* **Policy gate and engine.** `DeriveIsLeast`: as many rounds as there are rules
  reach the fixpoint, since a round that adds anything adds the head of a rule
  that had not been added before; and what is derived is in every set closed
  under the rules. `GateIsObeyed`, for any policies: what runs was proposed and
  not denied while nothing else was required, or is the one action required in
  the place of a proposal that was not denied. `PermittedActionsRun` is the
  stronger `OnlyPermittedActionsRun`, under the condition `Consistent` that the
  code does not impose and both frozen policies meet: no rule looks at the
  proposal, and what can be required is denied only where its budget is used up.
  Then a required action that is not held against the denials is kept from
  running by the budgets.
* **Executive.** `BudgetsHold` and `RunStaysInTable`: every state of the table
  that is no longer queued has its successors in it, and steps and elapsed time
  are what the counters give, which is why the canonical form may leave elapsed
  time out. `OracleIsNeverBeaten`, for any tasks, policies, costs and rewards,
  where refusals are not charged: `ValueInv` says that where a state has its
  value, those with fewer steps left have theirs, and the value is what the
  recursion of `q_values` makes of them, so that each step of a run gives up as
  much of the value as it earns, or more. With charged refusals it is not true
  of every policy, dead ends or none: where each final action is denied and any
  other costs more than a refusal, being refused until the budget is gone is
  cheaper than the best the table knows. There `Executive_tasks` checks it for
  its policies.
* **Evidence paths.** `RankingIsMaximal`: a path once too large stays too large,
  for the working set only grows (`SettledInv`), and the walk stops with
  nothing left to rank or no room (`StopInv`), when anything new overflows.
  `BestPathsReachTheReader`: nothing comes in before the best path (`BestInv`)
  and, since paths of equal key have equal records, the composer's first is it
  (`KeptInv`); that `Precedes` orders them, tuples of ids included, are lemmas
  of their own. `GroundedRecordsAreServed`: each record came in with a path
  that is all there (`OriginInv`), whose records all mention its terminal, so
  one record about the subject connects the others. `CopiesOfTheWalkAgree`
  needs that the paths are those of the pool, and that what the extractor finds
  in a text is in its words.
* **Qualification.** `VerifiedBundlesAreWhole` and `QualificationsDescend`:
  between the gates and the hash nothing changes what was judged (`VerdictInv`),
  a root that certifies something is over a whole bundle (`RootInv`), and what
  was certified descends from a development certified before (`LineageInv`).
  `LaunchesAreOfTheirRevision` adds what each step of a launch has established
  of its runs, manifest and files. `PaidWorkStays` and `TypeCorrect` add
  `ReceiptsInv`, what files and certificates hold, and `StepInv`: while an arm
  is generated, what `run_full` has kept in memory holds every receipt of its
  file that the revision checked out can use, so that rewriting the file loses
  none.

Constants are under the assumptions each module names (`EventConstants`,
`CognitiveConstants`, `ExecutiveConstants`, `PathConstants`,
`QualificationConstants` and so on): types, what a constructor refuses, that
`None` is none of the values it is compared with, and that the facts that can be
named are finitely many, their identifiers being hashes. TLC evaluates them in
the runs.

Three definitions are recursive: the memory after each prefix of a history
(`MemoryAfter`), the root of a name (`Root`) and the rounds of `Derive`. The
library's induction takes the formula as a parameter, which the provers cannot
instantiate; the proofs argue by a least counterexample instead (`LeastNumber`,
from the well-foundedness of `<`): that a function as the definition asks for
exists, that two such agree, and what holds of all its values.

Only model-checked: liveness (`QueueDrains`, `EveryJobFinishes`, `RunEnds`,
`UnionReturns`), which needs ENABLED; and `NoRunBeatsTheOracle` with charged
refusals, which depends on the policies and costs.

## 6. Not modelled

* Of the claim store: the text of claims and its parsing, timestamps, the
  encoding of older state names, corroborating and contradicting ids of an
  ingest (recorded, never read again), hash collisions, a failing disk, the
  durability of the rename itself (no directory is fsynced), two processes on
  one directory.
* Of the evidence store: its snapshot, an accelerator as the claim store's;
  torn lines, read by the same kind of reader; audit reads of raw bytes.
* Of the control store: timestamp parsing and its canonical form, text, an I/O
  error that the process survives.
* Of the executive: the older I2 loop (`loop.py`, `executor.py`), observation
  masks and recorded traces, the `max_transitions` bound of the table, money
  (free in the frozen cost table), the sequential oracle over latent tasks.
* Of the evidence paths: the extraction of entities, relations and mappings
  from text (which names lie within which is the constant `Inside`); retrieval
  and fusion scores; the recognizers K2 and K3 and selector S3; the order the frozen
  selector gives and that of the records in a packet; edges, hashes and
  diagnostics. The branch of `upsert` that merges paths is never taken, since
  each subject record and each bridge is visited once.
* Of the qualification: smoke and dry runs; the launcher's steps 1 and 3 to 11,
  which end before a bundle is touched; the gates on tests, environment,
  determinism, receipt contents and statistics, which may decide either way;
  model output.
* The fail-closed runner, which executes its stages in a fixed order in one
  process and keeps nothing; checkpoints, a file written and read in one call
  each; the verifier's comparisons, the transport, vector backends, training
  and analysis code: pure functions, I/O or arithmetic on floats, where a model
  would restate the code without its behaviour.
* Everything marked `not_modelled` in PROJECT.json, with its reason there. Most
  lines of the repository are of this kind: experiments and their recorded
  results.

## 7. Plan

1. Claim store, consolidation, both workers, control store: done.
2. Policy gate, executive, evidence paths, qualification: done.
3. Proofs of every invariant and action property of the runs: done, but for the
   oracle with charged refusals, whose condition on policies and costs is still
   to be stated. The bounds behind the liveness properties (how often a find, a
   worker or a run can step before it ends) can be proved as invariants.
4. Then the I2 loop beside the I3 one, the sequential oracle over a small set
   of latent tasks, and the checkpoint as a reader of the control store's log
   while the store writes.
