---------------------------- MODULE Qualification ----------------------------
(****************************************************************************)
(* How a C4 result comes to be called valid: the resumable run of           *)
(* src/scripts/run_gate_c4.py, the certifier certify_c4_run.py and the      *)
(* launcher colab_c4_requalify.py that calls both, over the bundle          *)
(* directory of each split.  An operator checks out revisions and calls     *)
(* any of the three; a command may be killed, and a retry resumes from      *)
(* what it left on disk.                                                    *)
(*                                                                          *)
(* A receipt is the revision whose code generated it, an analysis the       *)
(* receipts it was computed from, a hash file what it was computed over.    *)
(* Arm files, rewritten after every batch, may be torn; the other files are *)
(* small and written once a run, and are taken to be written whole.         *)
(****************************************************************************)
EXTENDS Integers, SequencesExt

CONSTANTS
    Commits,
    Ancestors,     \* pairs <<a, c>>: a is an ancestor of c
    Key,           \* what _resume_key hashes of the code of a revision
    Protocol,      \* the protocol of a revision
    Primary,       \* PRIMARY_ORDER
    Diagnostic,    \* DIAGNOSTIC_ORDER
    Tasks,         \* task indices, in the order of the corpus
    None, Torn,
    MaxCommands,   \* commands and checkouts of the operator
    MaxKills

Development == "development"
Splits == {Development, "qualification"}
Arms == ToSet(Primary) \cup ToSet(Diagnostic)

ASSUME QualificationConstants ==
    /\ Tasks \subseteq Nat
    /\ Ancestors \subseteq Commits \X Commits
    /\ DOMAIN Key = Commits /\ DOMAIN Protocol = Commits
    /\ \A list \in {Primary, Diagnostic} : list \in Seq(ToSet(list)) /\ list # <<>>
    /\ ToSet(Primary) \cap ToSet(Diagnostic) = {}
    /\ Torn \notin [{} -> Commits]

Manifests == [commit : Commits, protocol : {Protocol[c] : c \in Commits}, arms : SUBSET Arms]

ASSUME NoneIsNoManifest == None \notin Manifests

VARIABLES
    head,         \* the revision checked out; its source is clean
    arms,         \* the C4_*.jsonl of each split: receipts by task, or Torn
    manifest, analysis, results,  \* manifest.json, analysis.json, RESULTS.sha256
    certificate,  \* certification/CERTIFICATION.json
    root,         \* BUNDLE.sha256
    shell,        \* the command that runs, and where it stands
    archive,      \* what the last launch packaged
    certified,    \* a history: the development configurations certified so far
    commands, kills

disk == <<arms, manifest, analysis, results, certificate, root>>
bounds == <<commands, kills>>
vars == <<head, disk, shell, archive, certified, bounds>>

Idle == [command |-> None, split |-> Development, at |-> "idle",
         runs |-> <<>>, todo |-> <<>>, kept |-> <<>>, verdict |-> None]

Init ==
    /\ head \in Commits
    /\ arms = [s \in Splits |-> [a \in Arms |-> <<>>]]
    /\ manifest = [s \in Splits |-> None] /\ analysis = manifest /\ results = manifest
    /\ certificate = manifest /\ root = manifest
    /\ shell = Idle /\ archive = None /\ certified = {}
    /\ commands = 0 /\ kills = 0

At(step) == shell.at = step
Go(step) == shell' = [shell EXCEPT !.at = step]
split == shell.split

-----------------------------------------------------------------------------
(* Hashes *)

\* compute_results_hash: the json and jsonl files directly in the bundle.
Results(s) == [arms |-> arms[s], manifest |-> manifest[s], analysis |-> analysis[s]]

\* Mutant: the receipts are not covered.
BundleWithoutReceipts(s) ==
    [manifest |-> manifest[s], analysis |-> analysis[s], results |-> results[s],
     certificate |-> certificate[s]]

\* compute_bundle_hash: every file below the bundle.
Bundle(s) == [contents |-> Results(s), results |-> results[s], certificate |-> certificate[s]]

Verifies(s) == root[s] # None /\ root[s] = Bundle(s)

-----------------------------------------------------------------------------
(* Lineage and gates *)

\* Mutant: a development that failed certification will do.
MatchesUncertified(protocol) ==
    LET dev == certificate[Development]
    IN  /\ dev # None
        /\ dev.protocol = protocol
        /\ <<dev.commit, head>> \in Ancestors \cup {<<head, head>>}

\* check_development_lineage: by the launcher before it starts, and by a gate.
MatchesDevelopment(protocol) ==
    LET dev == certificate[Development]
    IN  /\ dev # None
        /\ dev.valid
        /\ dev.protocol = protocol
        /\ <<dev.commit, head>> \in Ancestors \cup {<<head, head>>}

SourceLineage(s) == manifest[s].commit = head

ProtocolBound(s) == manifest[s].protocol = Protocol[head]

ArmsComplete(s) == \A a \in ToSet(Primary) : DOMAIN arms[s][a] = Tasks

\* Every metric is recomputed from the receipts and compared with the one in
\* analysis.json; here the metrics of receipts are the receipts.  A primary arm
\* has to be there; another is compared where analysis and bundle both have it.
Agrees(s) ==
    \A a \in Arms :
        a \in ToSet(Primary) \/ (analysis[s][a] # <<>> /\ arms[s][a] # <<>>)
            => analysis[s][a] = arms[s][a]

ResultsHashed(s) == results[s] = Results(s)

DevelopmentLineage(s) == s # Development => MatchesDevelopment(manifest[s].protocol)

GatesPass(s) ==
    /\ manifest[s] # None
    /\ analysis[s] # None
    /\ SourceLineage(s) /\ ProtocolBound(s)
    /\ ArmsComplete(s)
    /\ Agrees(s)
    /\ ResultsHashed(s)
    /\ DevelopmentLineage(s)

-----------------------------------------------------------------------------
(* The operator *)

Call(command, s, step, runs) ==
    /\ shell = Idle
    /\ commands < MaxCommands /\ commands' = commands + 1
    /\ shell' = [Idle EXCEPT !.command = command, !.split = s, !.at = step,
                             !.runs = runs, !.todo = IF runs = <<>> THEN <<>> ELSE runs[1]]
    /\ UNCHANGED <<head, disk, archive, certified, kills>>

\* run_gate_c4.py full --split s [--arms ...]
CallFull(s) == \E list \in {Primary, Diagnostic} : Call("full", s, "read", <<list>>)

\* certify_c4_run.py --bundle ...
CallCertify(s) == Call("certify", s, "gates", <<>>)

\* colab_c4_requalify.py --split s: the diagnostic arms are development's only.
CallRequalify(s) ==
    /\ s # Development => MatchesDevelopment(Protocol[head])
    /\ Call("requalify", s, "read",
            IF s = Development THEN <<Primary, Diagnostic>> ELSE <<Primary>>)

\* Evidence is the run's output and stays where it is.
Checkout(c) ==
    /\ shell = Idle /\ c # head
    /\ commands < MaxCommands /\ commands' = commands + 1
    /\ head' = c
    /\ UNCHANGED <<disk, shell, archive, certified, kills>>

-----------------------------------------------------------------------------
(* run_full *)

\* Mutant: receipts of any pipeline are taken over.
KeepAnyRevision(s, a) == DOMAIN arms[s][a]

\* _resume_key: the task, the arm's policies, the packet and the pipeline version.
Keep(s, a) == {t \in DOMAIN arms[s][a] : Key[arms[s][a][t]] = Key[head]}

\* Receipts of an equal resume key are taken over; a torn line raises.
ReadArm ==
    /\ At("read")
    /\ LET a == shell.todo[1]
       IN  shell' = IF arms[split][a] = Torn THEN Idle
                    ELSE [shell EXCEPT !.at = "generate",
                                       !.kept = [t \in Keep(split, a) |-> arms[split][a][t]]]
    /\ UNCHANGED <<head, disk, archive, certified, bounds>>

Pending == Tasks \ DOMAIN shell.kept

Earliest(tasks) == CHOOSE t \in tasks : \A u \in tasks : t <= u

\* The receipts there are once the next batch, of one task, is done.
Grown ==
    IF Pending = {} THEN shell.kept
    ELSE [u \in DOMAIN shell.kept \cup {Earliest(Pending)} |->
             IF u = Earliest(Pending) THEN head ELSE shell.kept[u]]

\* The file is written in the order of the tasks: its first lines.
FirstLines(receipts, n) == [u \in {v \in DOMAIN receipts : v < n} |-> receipts[u]]

\* Mutant: a batch is written without what was taken over or done before.
ForgetfulBatch ==
    /\ At("generate") /\ Pending # {}
    /\ shell' = [shell EXCEPT !.kept = Grown]
    /\ arms' = [arms EXCEPT ![split][shell.todo[1]] = [u \in {Earliest(Pending)} |-> head]]
    /\ UNCHANGED <<head, manifest, analysis, results, certificate, root, archive, certified, bounds>>

\* The next batch is generated, and everything so far is written.
Batch ==
    /\ At("generate") /\ Pending # {}
    /\ shell' = [shell EXCEPT !.kept = Grown]
    /\ arms' = [arms EXCEPT ![split][shell.todo[1]] = Grown]
    /\ UNCHANGED <<head, manifest, analysis, results, certificate, root, archive, certified, bounds>>

FinishArm ==
    /\ At("generate") /\ Pending = {}
    /\ arms' = [arms EXCEPT ![split][shell.todo[1]] = shell.kept]
    /\ shell' = [shell EXCEPT !.todo = Tail(@), !.kept = <<>>,
                              !.at = IF Len(shell.todo) = 1 THEN "manifest" ELSE "read"]
    /\ UNCHANGED <<head, manifest, analysis, results, certificate, root, archive, certified, bounds>>

\* A kill, of this or any command.  Of a file that is being rewritten it leaves
\* what was there, a line torn, or whole lines of the new one.
Kill ==
    /\ shell # Idle
    /\ kills < MaxKills /\ kills' = kills + 1
    /\ shell' = Idle
    /\ IF At("generate")
       THEN \E left \in {arms[split][shell.todo[1]], Torn, Grown}
                            \cup {FirstLines(Grown, n) : n \in Tasks} :
                arms' = [arms EXCEPT ![split][shell.todo[1]] = left]
       ELSE UNCHANGED arms
    /\ UNCHANGED <<head, manifest, analysis, results, certificate, root, archive, certified, commands>>

\* Mutant: the second call of run_full overwrites the arm list of the first.
OnlyThisCall(s, list) == ToSet(list) \cap Arms

\* _merged_arm_manifest_fields: the arms of this call and of those before.
MergedArms(s, list) ==
    ToSet(list) \cup (IF manifest[s] = None THEN {} ELSE manifest[s].arms)

WriteManifest ==
    /\ At("manifest")
    /\ manifest' = [manifest EXCEPT ![split] =
            [commit |-> head, protocol |-> Protocol[head],
             arms |-> MergedArms(split, shell.runs[1])]]
    /\ Go("analyze")
    /\ UNCHANGED <<head, arms, analysis, results, certificate, root, archive, certified, bounds>>

\* Mutant: a torn line is no error.
AlwaysReadable(s) == s \in Splits

\* The analyzer and the certifier read every arm there is, and fail on a torn one.
Readable(s) == \A a \in Arms : arms[s][a] # Torn

AnalyzeArms(s) == Readable(s) /\ analysis' = [analysis EXCEPT ![s] = arms[s]]

\* In run_full its failure is a warning.
Analyze ==
    /\ At("analyze")
    /\ \/ AnalyzeArms(split)
       \/ UNCHANGED analysis
    /\ Go("hash")
    /\ UNCHANGED <<head, arms, manifest, results, certificate, root, archive, certified, bounds>>

\* write_results_hash is the last of a run; the launcher goes on.
HashResults ==
    /\ At("hash")
    /\ results' = [results EXCEPT ![split] = Results(split)]
    /\ shell' = IF Len(shell.runs) > 1
                THEN [shell EXCEPT !.at = "read", !.runs = Tail(@), !.todo = shell.runs[2]]
                ELSE IF shell.command = "requalify" THEN [shell EXCEPT !.at = "reanalyze"]
                ELSE Idle
    /\ UNCHANGED <<head, arms, manifest, analysis, certificate, root, archive, certified, bounds>>

-----------------------------------------------------------------------------
(* The rest of the launcher *)

\* Step 14: here a failure aborts.
Reanalyze ==
    /\ At("reanalyze")
    /\ \/ AnalyzeArms(split) /\ Go("rehash")
       \/ UNCHANGED analysis /\ shell' = Idle
    /\ UNCHANGED <<head, arms, manifest, results, certificate, root, archive, certified, bounds>>

Rehash ==
    /\ At("rehash")
    /\ results' = [results EXCEPT ![split] = Results(split)]
    /\ Go("gates")
    /\ UNCHANGED <<head, arms, manifest, analysis, certificate, root, archive, certified, bounds>>

\* Step 18: the name is taken from the certificate that is there.
Package ==
    /\ At("package")
    /\ archive' = [named |-> IF certificate[split] # None /\ certificate[split].valid
                             THEN "VALID_CONFORMANT" ELSE "UNCERTIFIED",
                   split |-> split, contents |-> Bundle(split), verdict |-> shell.verdict]
    /\ shell' = Idle
    /\ UNCHANGED <<head, disk, certified, bounds>>

-----------------------------------------------------------------------------
(* certify_c4_run *)

\* The launcher packages whatever the certifier returned.
Leave(outcome) ==
    shell' = IF shell.command = "requalify"
             THEN [shell EXCEPT !.at = "package", !.verdict = outcome] ELSE Idle

\* The gates on what lies outside the bundle (tests, environment, determinism),
\* within a receipt (leakage, prompt, order) or in its numbers decide as they may.
Verdict(s, outside) ==
    [valid |-> GatesPass(s) /\ outside, commit |-> head,
     protocol |-> Protocol[head], split |-> s]

EvaluateGates ==
    /\ At("gates")
    /\ Readable(split)
    /\ \E outside \in BOOLEAN :
          shell' = [shell EXCEPT !.at = "certificate", !.verdict = Verdict(split, outside)]
    /\ UNCHANGED <<head, disk, archive, certified, bounds>>

\* An exception: a receipt that cannot be read, a suite that runs too long,
\* memory.  The process ends before, or between, what it writes.
CertifierDies ==
    /\ shell.at \in {"gates", "certificate", "root"}
    /\ \/ At("gates") /\ ~Readable(split) /\ UNCHANGED kills
       \/ kills < MaxKills /\ kills' = kills + 1
    /\ Leave(IF At("root") THEN shell.verdict ELSE None)
    /\ UNCHANGED <<head, disk, archive, certified, commands>>

\* CERTIFICATION.json is the last artifact of certification/.
WriteCertificate ==
    /\ At("certificate")
    /\ certificate' = [certificate EXCEPT ![split] = shell.verdict]
    /\ certified' = IF split = Development /\ shell.verdict.valid
                    THEN certified \cup {[commit |-> head, protocol |-> Protocol[head]]}
                    ELSE certified
    /\ Go("root")
    /\ UNCHANGED <<head, arms, manifest, analysis, results, root, archive, bounds>>

\* write_bundle_hash, strictly last.
HashBundle ==
    /\ At("root")
    /\ root' = [root EXCEPT ![split] = Bundle(split)]
    /\ Leave(shell.verdict)
    /\ UNCHANGED <<head, arms, manifest, analysis, results, certificate, archive, certified, bounds>>

Next ==
    \/ \E s \in Splits : CallFull(s) \/ CallCertify(s) \/ CallRequalify(s)
    \/ \E c \in Commits : Checkout(c)
    \/ Kill
    \/ ReadArm \/ Batch \/ FinishArm \/ WriteManifest \/ Analyze \/ HashResults
    \/ Reanalyze \/ Rehash \/ Package
    \/ EvaluateGates \/ CertifierDies \/ WriteCertificate \/ HashBundle

Spec == Init /\ [][Next]_vars

-----------------------------------------------------------------------------
(* Correctness *)

Receipts == UNION {[done -> Commits] : done \in SUBSET Tasks}
Files == [Arms -> Receipts \cup {Torn}]

\* Every variable has its type; a running command stands at one of its steps.
TypeOK ==
    /\ head \in Commits
    /\ arms \in [Splits -> Files]
    /\ \A s \in Splits : /\ analysis[s] = None \/ analysis[s] \in [Arms -> Receipts]
                         /\ manifest[s] = None \/ manifest[s] \in Manifests
                         /\ certificate[s] # None => certificate[s].split = s
    /\ shell.at \in {"read", "generate"} => shell.runs # <<>> /\ shell.todo # <<>>
    /\ shell.at = "generate" => shell.kept \in Receipts

\* The hash of the whole bundle is "the single root of trust" (provenance.py:96):
\* where it verifies and the certificate says VALID, whatever was killed and
\* repeated before, every primary arm is complete, the analysis is of these
\* very receipts, and the manifest is of the revision and protocol certified.
VerifiedBundleIsWhole ==
    \A s \in Splits :
        Verifies(s) /\ certificate[s] # None /\ certificate[s].valid =>
            /\ \A a \in ToSet(Primary) : /\ arms[s][a] # Torn
                                         /\ DOMAIN arms[s][a] = Tasks
                                         /\ analysis[s][a] = arms[s][a]
            /\ manifest[s].commit = certificate[s].commit
            /\ manifest[s].protocol = certificate[s].protocol

\* A qualification certified VALID descends from a development certified under
\* the same protocol (gate_development_lineage), also where development has
\* been run or certified again since.
QualificationFollowsDevelopment ==
    \A s \in Splits \ {Development} :
        certificate[s] # None /\ certificate[s].valid =>
            \E dev \in certified :
                /\ dev.protocol = certificate[s].protocol
                /\ <<dev.commit, certificate[s].commit>> \in
                        Ancestors \cup {<<c, c>> : c \in Commits}

\* What the launcher certifies VALID is of the revision it was started on: no
\* primary receipt an older pipeline left behind was taken over (_resume_key),
\* and the manifest names every arm of both calls of run_full
\* (_merged_arm_manifest_fields).
LaunchIsOfItsRevision ==
    shell.command = "requalify" /\ At("root") /\ shell.verdict.valid =>
        /\ \A a \in ToSet(Primary) : \A t \in Tasks : Key[arms[split][a][t]] = Key[head]
        /\ ToSet(Primary) \subseteq manifest[split].arms
        /\ split = Development => ToSet(Diagnostic) \subseteq manifest[split].arms

\* Resumability: a receipt on disk that the revision checked out can use is
\* neither lost nor generated again, unless its file is being written when the
\* run is killed.
PaidWorkIsKept ==
    [][\A s \in Splits, a \in Arms :
          kills' = kills /\ arms[s][a] # Torn =>
              \A t \in Keep(s, a) : t \in DOMAIN arms'[s][a] /\ arms'[s][a][t] = arms[s][a][t]]_vars

\* "An uncertified bundle must never be named VALID_CONFORMANT_*"
\* (colab_c4_requalify.py:632): what a launch names so, it has certified.
OnlyCertifiedIsNamedValid ==
    archive # None /\ archive.named = "VALID_CONFORMANT" =>
        archive.verdict # None /\ archive.verdict.valid

=============================================================================
