------------------------- MODULE QualificationProofs -------------------------
(* Proofs about Qualification, for any revisions, protocols, arms and tasks, *)
(* and any number of commands and kills.                                    *)
EXTENDS Qualification, SequenceTheorems, WellFoundedInduction, TLAPS

Shape(x) ==
    x \in [command : {x.command}, split : Splits, at : {x.at}, runs : {x.runs},
           todo : {x.todo}, kept : {x.kept}, verdict : {x.verdict}]

\* Files are kept by split, and a command is about one split.
ShapeInv ==
    /\ DOMAIN certificate = Splits /\ certificate = [s \in Splits |-> certificate[s]]
    /\ DOMAIN root = Splits /\ root = [s \in Splits |-> root[s]]
    /\ head \in Commits
    /\ Shape(shell)

\* What a valid verdict v says of receipts, their analysis and their manifest.
Judged(receipts, metrics, m, v) ==
    /\ \A a \in ToSet(Primary) : /\ receipts[a] # Torn
                                 /\ DOMAIN receipts[a] = Tasks
                                 /\ metrics[a] = receipts[a]
    /\ m.commit = v.commit
    /\ m.protocol = v.protocol

Whole(b) == Judged(b.contents.arms, b.contents.analysis, b.contents.manifest, b.certificate)

\* One of the developments has v's protocol, and v's revision descends from it.
Descends(devs, v) ==
    \E dev \in devs :
        /\ dev.protocol = v.protocol
        /\ <<dev.commit, v.commit>> \in Ancestors \cup {<<c, c>> : c \in Commits}

\* Between the gates and the bundle's hash nothing changes what was judged.
VerdictInv ==
    /\ shell.at \in {"certificate", "root"} /\ shell.verdict.valid =>
          /\ Judged(arms[shell.split], analysis[shell.split], manifest[shell.split], shell.verdict)
          /\ shell.verdict.commit = head /\ shell.verdict.protocol = Protocol[head]
          /\ shell.split # Development => Descends(certified, shell.verdict)
    /\ shell.at = "root" => certificate[shell.split] = shell.verdict

RootInv ==
    \A s \in Splits :
        root[s] # None /\ root[s].certificate # None /\ root[s].certificate.valid
            => Whole(root[s])

LineageInv ==
    /\ certificate[Development] # None /\ certificate[Development].valid =>
          \E dev \in certified : /\ dev.protocol = certificate[Development].protocol
                                 /\ dev.commit = certificate[Development].commit
    /\ \A s \in Splits \ {Development} :
          certificate[s] # None /\ certificate[s].valid => Descends(certified, certificate[s])

IInv == ShapeInv /\ VerdictInv /\ RootInv /\ LineageInv

-----------------------------------------------------------------------------

LEMMA IdleShape == Shape(Idle) /\ Idle.at = "idle"
  BY DEF Idle, Shape, Splits

LEMMA InitIInv == Init => IInv
<1> SUFFICES ASSUME Init PROVE IInv
  OBVIOUS
<1>1. /\ certificate = [s \in Splits |-> None] /\ root = [s \in Splits |-> None]
      /\ shell = Idle /\ head \in Commits
  BY DEF Init
<1>2. \A s \in Splits : certificate[s] = None /\ root[s] = None
  BY <1>1
<1>3. ShapeInv
  BY <1>1, IdleShape DEF ShapeInv
<1>4. VerdictInv
  BY <1>1, IdleShape DEF VerdictInv
<1>5. RootInv /\ LineageInv
  BY <1>2 DEF RootInv, LineageInv, Splits
<1>. QED  BY <1>3, <1>4, <1>5 DEF IInv

\* Steps of a command before its gates, and of the operator: the certificates
\* and the hashes of bundles stay, and no verdict is pending.
LEMMA BeforeGates ==
    ASSUME IInv, UNCHANGED <<certificate, root, certified>>, head' \in Commits,
           Shape(shell'), shell'.at \notin {"certificate", "root"}
    PROVE  IInv'
<1>1. ShapeInv'
  BY DEF IInv, ShapeInv
<1>2. VerdictInv'
  BY DEF VerdictInv
<1>3. RootInv'
  BY DEF IInv, RootInv
<1>4. LineageInv'
  BY DEF IInv, LineageInv
<1>. QED  BY <1>1, <1>2, <1>3, <1>4 DEF IInv

LEMMA CallStep ==
    ASSUME IInv, NEW command, NEW s \in Splits, NEW step \in {"read", "gates"}, NEW runs,
           Call(command, s, step, runs)
    PROVE  IInv'
<1>1. /\ UNCHANGED <<certificate, root, certified, head>>
      /\ shell' = [Idle EXCEPT !.command = command, !.split = s, !.at = step,
                               !.runs = runs, !.todo = IF runs = <<>> THEN <<>> ELSE runs[1]]
  BY DEF Call, disk
<1>2. Shape(shell') /\ shell'.at = step
  BY <1>1 DEF Idle, Shape
<1>. QED  BY <1>1, <1>2, BeforeGates DEF IInv, ShapeInv

LEMMA OperatorSteps ==
    ASSUME IInv,
           \/ \E s \in Splits : CallFull(s) \/ CallCertify(s) \/ CallRequalify(s)
           \/ \E c \in Commits : Checkout(c)
           \/ Kill
    PROVE  IInv'
<1>1. ASSUME NEW s \in Splits, CallFull(s) \/ CallCertify(s) \/ CallRequalify(s) PROVE IInv'
  BY <1>1, CallStep DEF CallFull, CallCertify, CallRequalify
<1>2. ASSUME NEW c \in Commits, Checkout(c) PROVE IInv'
  <2>1. /\ UNCHANGED <<certificate, root, certified, shell>> /\ head' \in Commits /\ shell = Idle
    BY <1>2 DEF Checkout, disk
  <2>. QED  BY <2>1, IdleShape, BeforeGates
<1>3. CASE Kill
  <2>1. UNCHANGED <<certificate, root, certified, head>> /\ shell' = Idle
    BY <1>3 DEF Kill
  <2>. QED  BY <2>1, IdleShape, BeforeGates DEF IInv, ShapeInv
<1>. QED  BY <1>1, <1>2, <1>3

LEMMA RunSteps ==
    ASSUME IInv,
           \/ ReadArm \/ Batch \/ FinishArm \/ WriteManifest \/ Analyze \/ HashResults
           \/ Reanalyze \/ Rehash \/ Package
    PROVE  IInv'
<1>1. UNCHANGED <<certificate, root, certified, head>>
  BY DEF ReadArm, Batch, FinishArm, WriteManifest, Analyze, HashResults, Reanalyze, Rehash,
         Package, disk
<1>2. Shape(shell)
  BY DEF IInv, ShapeInv
<1>3. CASE shell' = Idle
  BY <1>1, <1>3, IdleShape, BeforeGates DEF IInv, ShapeInv
<1>4. ASSUME ReadArm, shell' # Idle PROVE Shape(shell') /\ shell'.at = "generate"
  BY <1>2, <1>4 DEF ReadArm, Shape
<1>5. ASSUME Batch PROVE Shape(shell') /\ shell'.at = "generate"
  BY <1>2, <1>5 DEF Batch, At, Shape
<1>6. ASSUME FinishArm PROVE Shape(shell') /\ shell'.at \in {"manifest", "read"}
  BY <1>2, <1>6 DEF FinishArm, Shape
<1>7. ASSUME WriteManifest \/ Analyze \/ Reanalyze \/ Rehash, shell' # Idle
      PROVE  Shape(shell') /\ shell'.at \in {"analyze", "hash", "rehash", "gates"}
  BY <1>2, <1>7 DEF WriteManifest, Analyze, Reanalyze, Rehash, Go, Shape
<1>8. ASSUME HashResults, shell' # Idle
      PROVE  Shape(shell') /\ shell'.at \in {"read", "reanalyze"}
  BY <1>2, <1>8 DEF HashResults, Shape
<1>9. ASSUME Package PROVE shell' = Idle
  BY <1>9 DEF Package
<1>10. CASE shell' # Idle
  <2>1. Shape(shell') /\ shell'.at \notin {"certificate", "root"}
    BY <1>4, <1>5, <1>6, <1>7, <1>8, <1>9, <1>10
  <2>. QED  BY <1>1, <2>1, BeforeGates DEF IInv, ShapeInv
<1>. QED  BY <1>3, <1>10

\* What the gates judge is what they read.
LEMMA EvaluateStep == IInv /\ EvaluateGates => IInv'
<1> SUFFICES ASSUME IInv, EvaluateGates PROVE IInv'
  OBVIOUS
<1>1. PICK outside \in BOOLEAN :
          shell' = [shell EXCEPT !.at = "certificate", !.verdict = Verdict(split, outside)]
  BY DEF EvaluateGates
<1>2. UNCHANGED <<arms, manifest, analysis, results, certificate, root, certified, head>>
  BY DEF EvaluateGates, disk
<1>3. Shape(shell) /\ split = shell.split /\ split \in Splits
  BY DEF IInv, ShapeInv, Shape, split
<1>4. /\ Shape(shell') /\ shell'.at = "certificate" /\ shell'.split = split
      /\ shell'.verdict = Verdict(split, outside)
  BY <1>1, <1>3 DEF Shape
<1>5. /\ shell'.verdict.valid => GatesPass(split)
      /\ shell'.verdict.commit = head /\ shell'.verdict.protocol = Protocol[head]
  <2>1. /\ Verdict(split, outside).valid = (GatesPass(split) /\ outside)
        /\ Verdict(split, outside).commit = head
        /\ Verdict(split, outside).protocol = Protocol[head]
    BY DEF Verdict
  <2>2. shell'.verdict.valid = (GatesPass(split) /\ outside)
    BY <1>4, <2>1
  <2>. QED  BY <1>4, <2>1, <2>2
<1>6. ASSUME GatesPass(split)
      PROVE  Judged(arms[split], analysis[split], manifest[split], shell'.verdict)
  <2>1. \A a \in ToSet(Primary) : arms[split][a] # Torn
    BY DEF EvaluateGates, Readable, Arms
  <2>2. \A a \in ToSet(Primary) : /\ DOMAIN arms[split][a] = Tasks
                                  /\ analysis[split][a] = arms[split][a]
    BY <1>6 DEF GatesPass, ArmsComplete, Agrees, Arms
  <2>3. /\ manifest[split].commit = shell'.verdict.commit
        /\ manifest[split].protocol = shell'.verdict.protocol
    BY <1>5, <1>6 DEF GatesPass, SourceLineage, ProtocolBound
  <2>. QED  BY <2>1, <2>2, <2>3 DEF Judged
<1>7. ASSUME GatesPass(split), split # Development
      PROVE  Descends(certified, shell'.verdict)
  <2>1. MatchesDevelopment(Protocol[head])
    BY <1>7 DEF GatesPass, DevelopmentLineage, ProtocolBound
  <2>2. PICK dev \in certified : /\ dev.protocol = certificate[Development].protocol
                                 /\ dev.commit = certificate[Development].commit
    BY <2>1 DEF MatchesDevelopment, IInv, LineageInv
  <2>3. /\ dev.protocol = shell'.verdict.protocol
        /\ <<dev.commit, shell'.verdict.commit>> \in Ancestors \cup {<<head, head>>}
    BY <1>5, <2>1, <2>2 DEF MatchesDevelopment
  <2>. QED  BY <2>3 DEF Descends, IInv, ShapeInv
<1>8. VerdictInv'
  BY <1>2, <1>4, <1>5, <1>6, <1>7 DEF VerdictInv
<1>9. ShapeInv'
  BY <1>2, <1>4 DEF IInv, ShapeInv
<1>10. RootInv' /\ LineageInv'
  BY <1>2 DEF IInv, RootInv, LineageInv
<1>. QED  BY <1>8, <1>9, <1>10 DEF IInv

LEMMA DieStep == IInv /\ CertifierDies => IInv'
<1> SUFFICES ASSUME IInv, CertifierDies PROVE IInv'
  OBVIOUS
<1>1. UNCHANGED <<certificate, root, certified, head>>
  BY DEF CertifierDies, disk
<1>2. PICK outcome : Leave(outcome)
  BY DEF CertifierDies
<1>3. shell' = Idle \/ shell' = [shell EXCEPT !.at = "package", !.verdict = outcome]
  BY <1>2 DEF Leave
<1>4. Shape(shell') /\ shell'.at \notin {"certificate", "root"}
  BY <1>3, IdleShape DEF IInv, ShapeInv, Shape
<1>. QED  BY <1>1, <1>4, BeforeGates DEF IInv, ShapeInv

LEMMA WriteCertificateStep == IInv /\ WriteCertificate => IInv'
<1> SUFFICES ASSUME IInv, WriteCertificate PROVE IInv'
  OBVIOUS
<1>1. /\ shell.at = "certificate"
      /\ certificate' = [certificate EXCEPT ![split] = shell.verdict]
      /\ shell' = [shell EXCEPT !.at = "root"]
      /\ UNCHANGED <<arms, manifest, analysis, root, head>>
  BY DEF WriteCertificate, At, Go
<1>2. /\ certified \subseteq certified'
      /\ split = Development /\ shell.verdict.valid =>
            [commit |-> head, protocol |-> Protocol[head]] \in certified'
  BY DEF WriteCertificate
<1>3. Shape(shell) /\ split = shell.split /\ split \in Splits
  BY DEF IInv, ShapeInv, Shape, split
<1>4. /\ Shape(shell') /\ shell'.at = "root" /\ shell'.split = split
      /\ shell'.verdict = shell.verdict
  BY <1>1, <1>3 DEF Shape
<1>5. /\ certificate'[split] = shell.verdict
      /\ \A s \in Splits \ {split} : certificate'[s] = certificate[s]
      /\ DOMAIN certificate' = Splits /\ certificate' = [s \in Splits |-> certificate'[s]]
  BY <1>1, <1>3 DEF IInv, ShapeInv
<1>6. \A w : Descends(certified, w) => Descends(certified', w)
  BY <1>2 DEF Descends
<1>7. shell.verdict.valid =>
          /\ Judged(arms[split], analysis[split], manifest[split], shell.verdict)
          /\ shell.verdict.commit = head /\ shell.verdict.protocol = Protocol[head]
          /\ split # Development => Descends(certified, shell.verdict)
  BY <1>1, <1>3 DEF IInv, VerdictInv
<1>8. ShapeInv'
  BY <1>1, <1>4, <1>5 DEF IInv, ShapeInv
<1>9. VerdictInv'
  BY <1>1, <1>4, <1>5, <1>6, <1>7 DEF VerdictInv
<1>10. RootInv'
  BY <1>1 DEF IInv, RootInv
<1>11. LineageInv'
  <2>1. ASSUME certificate'[Development].valid, certificate'[Development] # None
        PROVE  \E dev \in certified' : /\ dev.protocol = certificate'[Development].protocol
                                       /\ dev.commit = certificate'[Development].commit
    <3>1. CASE split = Development
      <4>1. [commit |-> head, protocol |-> Protocol[head]] \in certified'
        BY <1>2, <1>5, <2>1, <3>1
      <4>. QED  BY <1>5, <1>7, <2>1, <3>1, <4>1
    <3>2. CASE split # Development
      BY <1>2, <1>5, <2>1, <3>2 DEF IInv, LineageInv, Splits
    <3>. QED  BY <3>1, <3>2
  <2>2. ASSUME NEW s \in Splits \ {Development}, certificate'[s] # None, certificate'[s].valid
        PROVE  Descends(certified', certificate'[s])
    <3>1. CASE s = split
      BY <1>5, <1>6, <1>7, <2>2, <3>1
    <3>2. CASE s # split
      <4>1. Descends(certified, certificate[s])
        BY <1>5, <2>2, <3>2 DEF IInv, LineageInv
      <4>. QED  BY <1>5, <1>6, <3>2, <4>1, <2>2
    <3>. QED  BY <3>1, <3>2
  <2>. QED  BY <2>1, <2>2 DEF LineageInv
<1>. QED  BY <1>8, <1>9, <1>10, <1>11 DEF IInv

LEMMA HashBundleStep == IInv /\ HashBundle => IInv'
<1> SUFFICES ASSUME IInv, HashBundle PROVE IInv'
  OBVIOUS
<1>1. /\ shell.at = "root" /\ root' = [root EXCEPT ![split] = Bundle(split)]
      /\ UNCHANGED <<certificate, certified, head>>
      /\ shell' = Idle \/ \E outcome : shell' = [shell EXCEPT !.at = "package", !.verdict = outcome]
  BY DEF HashBundle, At, Leave
<1>2. Shape(shell') /\ shell'.at \notin {"certificate", "root"}
  BY <1>1, IdleShape DEF IInv, ShapeInv, Shape
<1>3. split \in Splits
  BY DEF IInv, ShapeInv, Shape, split
<1>4. /\ root'[split] = Bundle(split)
      /\ \A s \in Splits \ {split} : root'[s] = root[s]
      /\ DOMAIN root' = Splits /\ root' = [s \in Splits |-> root'[s]]
  BY <1>1, <1>3 DEF IInv, ShapeInv
<1>5. Bundle(split).certificate = shell.verdict
  BY <1>1 DEF IInv, VerdictInv, Bundle, split
<1>6. shell.verdict.valid => Whole(Bundle(split))
  BY <1>1, <1>5 DEF IInv, VerdictInv, Whole, Bundle, Results, split
<1>7. RootInv'
  BY <1>4, <1>5, <1>6 DEF IInv, RootInv
<1>8. ShapeInv'
  BY <1>1, <1>2, <1>4 DEF IInv, ShapeInv
<1>9. VerdictInv'
  BY <1>2 DEF VerdictInv
<1>10. LineageInv'
  BY <1>1 DEF IInv, LineageInv
<1>. QED  BY <1>7, <1>8, <1>9, <1>10 DEF IInv

LEMMA StepIInv == IInv /\ [Next]_vars => IInv'
<1> SUFFICES ASSUME IInv, [Next]_vars PROVE IInv'
  OBVIOUS
<1>1. CASE Next
  BY <1>1, OperatorSteps, RunSteps, EvaluateStep, DieStep, WriteCertificateStep,
     HashBundleStep DEF Next
<1>2. CASE UNCHANGED vars
  <2>1. UNCHANGED <<head, arms, manifest, analysis, certificate, root, shell, certified>>
    BY <1>2 DEF vars, disk
  <2>. QED  BY <2>1 DEF IInv, ShapeInv, VerdictInv, RootInv, LineageInv
<1>. QED  BY <1>1, <1>2

LEMMA Invariance == Spec => []IInv
  BY InitIInv, StepIInv, PTL DEF Spec

-----------------------------------------------------------------------------

\* A certificate that says VALID under a hash that verifies stands for complete
\* receipts, their own analysis and the revision it names, whatever was killed,
\* resumed and repeated.
THEOREM VerifiedBundlesAreWhole == Spec => []VerifiedBundleIsWhole
<1>1. IInv => VerifiedBundleIsWhole
  <2> SUFFICES ASSUME IInv, NEW s \in Splits,
                      Verifies(s), certificate[s] # None, certificate[s].valid
               PROVE  /\ \A a \in ToSet(Primary) : /\ arms[s][a] # Torn
                                                   /\ DOMAIN arms[s][a] = Tasks
                                                   /\ analysis[s][a] = arms[s][a]
                      /\ manifest[s].commit = certificate[s].commit
                      /\ manifest[s].protocol = certificate[s].protocol
    BY DEF VerifiedBundleIsWhole
  <2>1. root[s] # None /\ root[s] = Bundle(s)
    BY DEF Verifies
  <2>2. Bundle(s).certificate = certificate[s]
    BY DEF Bundle
  <2>3. Whole(Bundle(s))
    BY <2>1, <2>2 DEF IInv, RootInv
  <2>. QED  BY <2>3 DEF Whole, Judged, Bundle, Results
<1>. QED  BY <1>1, Invariance, PTL

\* No qualification is certified without a certified development that it
\* descends from, under the same protocol.
THEOREM QualificationsDescend == Spec => []QualificationFollowsDevelopment
<1>1. IInv => QualificationFollowsDevelopment
  BY DEF IInv, LineageInv, Descends, QualificationFollowsDevelopment
<1>. QED  BY <1>1, Invariance, PTL

-----------------------------------------------------------------------------
(* The launcher, from its start to its verdict *)

\* The arms of the call of run_full under way that are not finished.
Unfinished == IF shell.at \in {"read", "generate"} THEN ToSet(shell.todo) ELSE {}

\* The receipts of an arm are there and of a pipeline equal to head's.
OfThisPipeline(receipts, revision) == \A t \in Tasks : Key[receipts[t]] = Key[revision]

FilesInv ==
    /\ arms = [s \in Splits |-> arms[s]]
    /\ \A s \in Splits : arms[s] = [a \in Arms |-> arms[s][a]]
    /\ manifest = [s \in Splits |-> manifest[s]]

AfterManifest == {"analyze", "hash", "reanalyze", "rehash", "gates", "certificate", "root"}
AfterRuns == {"reanalyze", "rehash", "gates", "certificate", "root"}

Launched == shell.command = "requalify" /\ shell.at \notin {"idle", "package"}

LaunchInv ==
    Launched =>
        /\ shell.runs \in {<<Primary, Diagnostic>>, <<Primary>>, <<Diagnostic>>}
        /\ shell.split = Development => shell.runs # <<Primary>>
        /\ shell.at \in AfterRuns => Len(shell.runs) = 1
        /\ shell.at \in {"read", "generate"} =>
              /\ shell.todo \in Seq(Arms) /\ shell.todo # <<>>
              /\ ToSet(shell.todo) \subseteq ToSet(shell.runs[1])
        /\ shell.at = "generate" => \A t \in DOMAIN shell.kept : Key[shell.kept[t]] = Key[head]
        /\ \A a \in ToSet(Primary) \ Unfinished : OfThisPipeline(arms[shell.split][a], head)
        /\ shell.at \in AfterManifest => ToSet(shell.runs[1]) \subseteq manifest[shell.split].arms
        /\ shell.at \in AfterManifest \/ shell.runs = <<Diagnostic>> => manifest[shell.split] # None
        /\ shell.runs = <<Diagnostic>> => ToSet(Primary) \subseteq manifest[shell.split].arms

\* What run_full was called for.
RunsInv ==
    /\ shell.runs \in {<<>>, <<Primary>>, <<Diagnostic>>, <<Primary, Diagnostic>>}
    /\ shell.at \in {"read", "generate", "manifest"} => ToSet(shell.runs[1]) \subseteq Arms

ManifestInv == \A s \in Splits : manifest[s] = None \/ manifest[s] \in Manifests

FullInv == IInv /\ RunsInv /\ ManifestInv /\ FilesInv /\ LaunchInv

LEMMA ListFacts ==
    ASSUME NEW list \in Seq(Arms), list # <<>>
    PROVE  /\ list[1] \in ToSet(list) /\ list[1] \in Arms
           /\ Tail(list) \in Seq(Arms)
           /\ ToSet(list) = {list[1]} \cup ToSet(Tail(list))
           /\ Len(list) = 1 <=> Tail(list) = <<>>
           /\ Len(list) = 1 => ToSet(list) = {list[1]}
<1>1. /\ Len(list) \in Nat /\ Len(list) >= 1 /\ DOMAIN list = 1 .. Len(list)
      /\ Tail(list) \in Seq(Arms) /\ Len(Tail(list)) = Len(list) - 1
      /\ DOMAIN Tail(list) = 1 .. (Len(list) - 1)
      /\ \A i \in 1 .. (Len(list) - 1) : Tail(list)[i] = list[i + 1]
  OBVIOUS
<1>2. 1 \in DOMAIN list
  BY <1>1
<1>3. list[1] \in ToSet(list) /\ list[1] \in Arms
  BY <1>1, <1>2 DEF ToSet
<1>4. ASSUME NEW y \in ToSet(list), y # list[1] PROVE y \in ToSet(Tail(list))
  <2>1. PICK i \in DOMAIN list : y = list[i]
    BY <1>4 DEF ToSet
  <2>2. i - 1 \in 1 .. (Len(list) - 1) /\ Tail(list)[i - 1] = y
    BY <1>1, <1>4, <2>1
  <2>. QED  BY <1>1, <2>2 DEF ToSet
<1>5. ToSet(Tail(list)) \subseteq ToSet(list)
  <2> SUFFICES ASSUME NEW i \in DOMAIN Tail(list) PROVE Tail(list)[i] \in ToSet(list)
    BY DEF ToSet
  <2>1. Tail(list)[i] = list[i + 1] /\ i + 1 \in DOMAIN list
    BY <1>1
  <2>. QED  BY <2>1 DEF ToSet
<1>6. Len(list) = 1 <=> Tail(list) = <<>>
  <2>1. Len(Tail(list)) = 0 <=> Len(list) = 1
    BY <1>1
  <2>2. Len(Tail(list)) = 0 => Tail(list) = <<>>
    <3>1. Tail(list) # <<>> => Len(Tail(list)) \in Nat \ {0}
      BY <1>1, EmptySeq
    <3>. QED  BY <3>1
  <2>3. Len(<<>>) = 0
    BY EmptySeq
  <2>. QED  BY <2>1, <2>2, <2>3
<1>7. Len(list) = 1 => ToSet(list) = {list[1]}
  <2> SUFFICES ASSUME Len(list) = 1, NEW y \in ToSet(list) PROVE y = list[1]
    BY <1>3
  <2>1. PICK i \in DOMAIN list : y = list[i]
    BY DEF ToSet
  <2>. QED  BY <1>1, <2>1
<1>. QED  BY <1>1, <1>3, <1>4, <1>5, <1>6, <1>7

LEMMA PrimaryFacts ==
    \A list \in {Primary, Diagnostic} :
        /\ list \in Seq(Arms) /\ list # <<>>
        /\ ToSet(list) \subseteq Arms
  BY QualificationConstants DEF Arms

\* Only the launcher of a development calls run_full twice.
LEMMA TwoRuns ==
    ASSUME RunsInv, Len(shell.runs) > 1
    PROVE  shell.runs = <<Primary, Diagnostic>>
<1>1. Len(<<>>) = 0 /\ Len(<<Primary>>) = 1 /\ Len(<<Diagnostic>>) = 1
  OBVIOUS
<1>2. ~(0 > 1) /\ ~(1 > 1)
  OBVIOUS
<1>3. shell.runs # <<>>
  BY <1>1, <1>2
<1>4. shell.runs # <<Primary>>
  BY <1>1, <1>2
<1>5. shell.runs # <<Diagnostic>>
  BY <1>1, <1>2
<1>. QED  BY <1>3, <1>4, <1>5 DEF RunsInv

LEMMA InitFull == Init => FullInv
<1> SUFFICES ASSUME Init PROVE FullInv
  OBVIOUS
<1>1. IInv
  BY InitIInv
<1>2. FilesInv /\ ManifestInv
  BY DEF Init, FilesInv, ManifestInv
<1>3. LaunchInv
  BY IdleShape DEF Init, LaunchInv, Launched
<1>4. RunsInv
  BY DEF Init, Idle, RunsInv
<1>. QED  BY <1>1, <1>2, <1>3, <1>4 DEF FullInv

LEMMA CallRuns ==
    ASSUME NEW command, NEW s, NEW step \in {"read", "gates"},
           NEW runs \in {<<>>, <<Primary>>, <<Diagnostic>>, <<Primary, Diagnostic>>},
           Call(command, s, step, runs), step = "read" => runs # <<>>
    PROVE  RunsInv'
<1>1. shell'.runs = runs /\ shell'.at = step
  BY DEF Call, Idle
<1>2. runs # <<>> => runs[1] \in {Primary, Diagnostic}
  OBVIOUS
<1>. QED  BY <1>1, <1>2, PrimaryFacts DEF RunsInv

LEMMA RunsStep == IInv /\ RunsInv /\ [Next]_vars => RunsInv'
<1> SUFFICES ASSUME IInv, RunsInv, [Next]_vars PROVE RunsInv'
  OBVIOUS
<1>1. Shape(shell)
  BY DEF IInv, ShapeInv
<1>2. CASE shell' = Idle
  BY <1>2 DEF Idle, RunsInv
<1>3. ASSUME NEW s \in Splits, CallFull(s) \/ CallCertify(s) \/ CallRequalify(s)
      PROVE  RunsInv'
  BY <1>3, CallRuns DEF CallFull, CallCertify, CallRequalify
<1>4. ASSUME shell'.runs = shell.runs,
             shell'.at \in {"read", "generate", "manifest"} =>
                 shell.at \in {"read", "generate", "manifest"}
      PROVE  RunsInv'
  BY <1>4 DEF RunsInv
<1>5. CASE (ReadArm \/ Batch \/ FinishArm) /\ shell' # Idle
  <2>1. shell'.runs = shell.runs /\ shell.at \in {"read", "generate", "manifest"}
    BY <1>1, <1>5 DEF ReadArm, Batch, FinishArm, At, Shape
  <2>. QED  BY <1>4, <2>1
<1>6. CASE HashResults /\ shell' # Idle
  <2>1. \/ /\ Len(shell.runs) > 1
           /\ shell' = [shell EXCEPT !.at = "read", !.runs = Tail(@), !.todo = shell.runs[2]]
        \/ shell' = [shell EXCEPT !.at = "reanalyze"]
    BY <1>6 DEF HashResults
  <2>2. CASE shell' = [shell EXCEPT !.at = "reanalyze"]
    BY <1>1, <1>4, <2>2 DEF Shape
  <2>3. CASE Len(shell.runs) > 1 /\ shell'.runs = Tail(shell.runs)
    <3>1. shell.runs = <<Primary, Diagnostic>>
      BY <2>3, TwoRuns
    <3>2. shell'.runs = <<Diagnostic>>
      BY <2>3, <3>1
    <3>. QED  BY <3>2, PrimaryFacts DEF RunsInv
  <2>. QED  BY <1>1, <2>1, <2>2, <2>3 DEF Shape
<1>7. CASE /\ WriteManifest \/ Analyze \/ Reanalyze \/ Rehash
           /\ shell' # Idle
  <2>1. shell'.runs = shell.runs /\ shell'.at \in {"analyze", "hash", "rehash", "gates"}
    BY <1>1, <1>7 DEF WriteManifest, Analyze, Reanalyze, Rehash, Go, Shape
  <2>. QED  BY <1>4, <2>1
<1>8. CASE /\ EvaluateGates \/ CertifierDies \/ WriteCertificate \/ HashBundle
           /\ shell' # Idle
  <2>1. shell'.runs = shell.runs /\ shell'.at \in {"certificate", "root", "package"}
    BY <1>1, <1>8 DEF EvaluateGates, CertifierDies, WriteCertificate, HashBundle, Leave, Go,
                      Shape
  <2>. QED  BY <1>4, <2>1
<1>9. CASE Package \/ Kill
  BY <1>2, <1>9 DEF Package, Kill
<1>10. CASE (\E c \in Commits : Checkout(c)) \/ UNCHANGED vars
  BY <1>10 DEF Checkout, vars, RunsInv
<1>. QED  BY <1>2, <1>3, <1>5, <1>6, <1>7, <1>8, <1>9, <1>10 DEF Next

LEMMA ManifestStep ==
    ASSUME IInv, RunsInv, ManifestInv, FilesInv, WriteManifest
    PROVE  /\ manifest'[split] \in Manifests
           /\ manifest'[split].arms = MergedArms(split, shell.runs[1])
           /\ \A s \in Splits \ {split} : manifest'[s] = manifest[s]
           /\ split \in Splits
<1>1. /\ shell.at = "manifest"
      /\ manifest' = [manifest EXCEPT ![split] =
            [commit |-> head, protocol |-> Protocol[head],
             arms |-> MergedArms(split, shell.runs[1])]]
  BY DEF WriteManifest, At
<1>2. split \in Splits /\ head \in Commits
  BY DEF IInv, ShapeInv, Shape, split
<1>3. MergedArms(split, shell.runs[1]) \subseteq Arms
  BY <1>1, <1>2 DEF MergedArms, RunsInv, ManifestInv, Manifests
<1>. QED  BY <1>1, <1>2, <1>3 DEF FilesInv, Manifests

LEMMA CallFullInv ==
    ASSUME FullInv, NEW command, NEW s \in Splits, NEW step \in {"read", "gates"}, NEW runs,
           Call(command, s, step, runs),
           command = "requalify" =>
               /\ step = "read"
               /\ runs = IF s = Development THEN <<Primary, Diagnostic>> ELSE <<Primary>>
    PROVE  FilesInv' /\ LaunchInv'
<1>1. /\ UNCHANGED <<arms, manifest, head>>
      /\ shell' = [Idle EXCEPT !.command = command, !.split = s, !.at = step,
                               !.runs = runs, !.todo = IF runs = <<>> THEN <<>> ELSE runs[1]]
  BY DEF Call, disk
<1>2. /\ shell'.command = command /\ shell'.at = step /\ shell'.split = s /\ shell'.runs = runs
      /\ shell'.todo = IF runs = <<>> THEN <<>> ELSE runs[1]
  BY <1>1 DEF Idle
<1>3. FilesInv'
  BY <1>1 DEF FullInv, FilesInv
<1>4. CASE command # "requalify"
  BY <1>2, <1>3, <1>4 DEF LaunchInv, Launched
<1>5. CASE command = "requalify"
  <2>1. /\ shell'.runs \in {<<Primary, Diagnostic>>, <<Primary>>}
        /\ shell'.split = Development => shell'.runs = <<Primary, Diagnostic>>
        /\ shell'.todo = Primary /\ shell'.runs[1] = Primary
        /\ shell'.at = "read"
    BY <1>2, <1>5
  <2>2. <<Primary, Diagnostic>> # <<Primary>> /\ <<Primary, Diagnostic>> # <<Diagnostic>>
    OBVIOUS
  <2>3. <<Primary>> = <<Diagnostic>> => FALSE
    <3>1. PICK a : a \in ToSet(Primary)
      BY PrimaryFacts, ListFacts
    <3>2. a \notin ToSet(Diagnostic)
      BY <3>1, QualificationConstants
    <3>. QED  BY <3>1, <3>2
  <2>. QED  BY <1>3, <2>1, <2>2, <2>3, PrimaryFacts
            DEF LaunchInv, Launched, Unfinished, AfterRuns, AfterManifest
<1>. QED  BY <1>4, <1>5

LEMMA IdleLaunch ==
    ASSUME FilesInv', shell' = Idle
    PROVE  FilesInv' /\ LaunchInv'
  BY IdleShape DEF LaunchInv, Launched

LEMMA OperatorFull ==
    ASSUME FullInv,
           \/ \E s \in Splits : CallFull(s) \/ CallCertify(s) \/ CallRequalify(s)
           \/ \E c \in Commits : Checkout(c)
           \/ Kill
    PROVE  FilesInv' /\ LaunchInv'
<1>1. ASSUME NEW s \in Splits, CallFull(s) PROVE FilesInv' /\ LaunchInv'
  BY <1>1, CallFullInv DEF CallFull
<1>2. ASSUME NEW s \in Splits, CallCertify(s) PROVE FilesInv' /\ LaunchInv'
  BY <1>2, CallFullInv DEF CallCertify
<1>3. ASSUME NEW s \in Splits, CallRequalify(s) PROVE FilesInv' /\ LaunchInv'
  BY <1>3, CallFullInv DEF CallRequalify
<1>4. ASSUME NEW c \in Commits, Checkout(c) PROVE FilesInv' /\ LaunchInv'
  <2>1. UNCHANGED <<arms, manifest>> /\ shell' = Idle
    BY <1>4 DEF Checkout, disk
  <2>. QED  BY <2>1, IdleLaunch DEF FullInv, FilesInv
<1>5. CASE Kill
  <2>1. manifest' = manifest /\ shell' = Idle
    BY <1>5 DEF Kill
  <2>2. \/ arms' = arms
        \/ \E a, left : arms' = [arms EXCEPT ![split][a] = left]
    BY <1>5 DEF Kill
  <2>3. FilesInv'
    BY <2>1, <2>2 DEF FullInv, FilesInv
  <2>. QED  BY <2>1, <2>3, IdleLaunch
<1>. QED  BY <1>1, <1>2, <1>3, <1>4, <1>5

\* Steps that leave receipts and manifest alone.
LEMMA ReadArmFull == FullInv /\ ReadArm => FilesInv' /\ LaunchInv'
<1> SUFFICES ASSUME FullInv, ReadArm PROVE FilesInv' /\ LaunchInv'
  OBVIOUS
<1>1. UNCHANGED <<arms, manifest, head>> /\ shell.at = "read"
  BY DEF ReadArm, disk, At
<1>2. FilesInv'
  BY <1>1 DEF FullInv, FilesInv
<1>3. CASE shell' = Idle
  BY <1>2, <1>3, IdleLaunch
<1>4. CASE shell' # Idle
  <2> DEFINE kept == [t \in Keep(split, shell.todo[1]) |-> arms[split][shell.todo[1]][t]]
  <2>1. shell' = [shell EXCEPT !.at = "generate", !.kept = kept]
    BY <1>4 DEF ReadArm
  <2>2. \A t \in DOMAIN kept : Key[kept[t]] = Key[head]
    BY DEF Keep
  <2>3. /\ shell'.at = "generate" /\ shell'.kept = kept /\ shell'.command = shell.command
        /\ shell'.split = shell.split /\ shell'.runs = shell.runs /\ shell'.todo = shell.todo
    BY <2>1 DEF FullInv, IInv, ShapeInv, Shape
  <2>4. \A t \in DOMAIN shell'.kept : Key[shell'.kept[t]] = Key[head]
    BY <2>2, <2>3
  <2> HIDE DEF kept
  <2>. QED  BY <1>1, <1>2, <2>3, <2>4
            DEF FullInv, LaunchInv, Launched, Unfinished, AfterRuns, AfterManifest
<1>. QED  BY <1>3, <1>4

LEMMA BatchFull == FullInv /\ Batch => FilesInv' /\ LaunchInv'
<1> SUFFICES ASSUME FullInv, Batch PROVE FilesInv' /\ LaunchInv'
  OBVIOUS
<1> DEFINE now == Grown
<1>1. /\ shell' = [shell EXCEPT !.kept = now]
      /\ arms' = [arms EXCEPT ![split][shell.todo[1]] = now]
      /\ UNCHANGED <<manifest, head>> /\ shell.at = "generate"
  BY DEF Batch, At
<1>2. /\ shell'.at = "generate" /\ shell'.kept = now /\ shell'.command = shell.command
      /\ shell'.split = shell.split /\ shell'.runs = shell.runs /\ shell'.todo = shell.todo
      /\ split = shell.split /\ split \in Splits
  BY <1>1 DEF FullInv, IInv, ShapeInv, Shape, split
<1>3. ASSUME Launched
      PROVE  \A u \in DOMAIN shell'.kept : Key[shell'.kept[u]] = Key[head]
  <2>1. \A u \in DOMAIN shell.kept : Key[shell.kept[u]] = Key[head]
    BY <1>1, <1>3 DEF FullInv, LaunchInv
  <2>2. \A u \in DOMAIN now : now[u] = head \/ (u \in DOMAIN shell.kept /\ now[u] = shell.kept[u])
    BY DEF Grown
  <2>. QED  BY <1>2, <2>1, <2>2
<1> HIDE DEF now
<1>4. FilesInv'
  BY <1>1 DEF FullInv, FilesInv
<1>5. CASE Launched
  <2>1. shell.todo[1] \in ToSet(shell.todo)
    BY <1>1, <1>5, ListFacts DEF FullInv, LaunchInv
  <2>2. \A a \in ToSet(Primary) \ Unfinished : arms'[split][a] = arms[split][a]
    BY <1>1, <1>2, <2>1 DEF FullInv, FilesInv, Unfinished, Arms
  <2>3. Unfinished' = Unfinished
    BY <1>1, <1>2 DEF Unfinished
  <2>4. \A a \in ToSet(Primary) \ Unfinished' : OfThisPipeline(arms'[shell'.split][a], head')
    BY <1>1, <1>2, <1>5, <2>2, <2>3 DEF FullInv, LaunchInv
  <2>. QED  BY <1>1, <1>2, <1>3, <1>4, <1>5, <2>4
            DEF FullInv, LaunchInv, Launched, AfterRuns, AfterManifest
<1>6. CASE ~Launched
  BY <1>1, <1>2, <1>4, <1>6 DEF LaunchInv, Launched
<1>. QED  BY <1>5, <1>6

LEMMA FinishArmFull == FullInv /\ FinishArm => FilesInv' /\ LaunchInv'
<1> SUFFICES ASSUME FullInv, FinishArm PROVE FilesInv' /\ LaunchInv'
  OBVIOUS
<1> DEFINE a1 == shell.todo[1]
<1>1. /\ arms' = [arms EXCEPT ![split][a1] = shell.kept]
      /\ shell' = [shell EXCEPT !.todo = Tail(@), !.kept = <<>>,
                                !.at = IF Len(shell.todo) = 1 THEN "manifest" ELSE "read"]
      /\ UNCHANGED <<manifest, head>> /\ shell.at = "generate"
      /\ Tasks \subseteq DOMAIN shell.kept
  BY DEF FinishArm, At, Pending
<1>2. /\ shell'.at = (IF Len(shell.todo) = 1 THEN "manifest" ELSE "read")
      /\ shell'.todo = Tail(shell.todo) /\ shell'.command = shell.command
      /\ shell'.split = shell.split /\ shell'.runs = shell.runs
      /\ split = shell.split /\ split \in Splits
  BY <1>1 DEF FullInv, IInv, ShapeInv, Shape, split
<1>3. FilesInv'
  BY <1>1 DEF FullInv, FilesInv
<1>4. CASE Launched
  <2>1. /\ shell.todo \in Seq(Arms) /\ shell.todo # <<>>
        /\ ToSet(shell.todo) \subseteq ToSet(shell.runs[1])
        /\ \A t \in DOMAIN shell.kept : Key[shell.kept[t]] = Key[head]
        /\ \A a \in ToSet(Primary) \ ToSet(shell.todo) : OfThisPipeline(arms[split][a], head)
    BY <1>1, <1>2, <1>4 DEF FullInv, LaunchInv, Unfinished
  <2>2. /\ a1 \in ToSet(shell.todo) /\ a1 \in Arms
        /\ Tail(shell.todo) \in Seq(Arms)
        /\ ToSet(shell.todo) = {a1} \cup ToSet(Tail(shell.todo))
        /\ Len(shell.todo) = 1 <=> Tail(shell.todo) = <<>>
        /\ Len(shell.todo) = 1 => ToSet(shell.todo) = {a1}
    BY <2>1, ListFacts
  <2>3. /\ arms'[split][a1] = shell.kept
        /\ \A a \in Arms \ {a1} : arms'[split][a] = arms[split][a]
    BY <1>1, <1>2, <2>2 DEF FullInv, FilesInv
  <2> HIDE DEF a1
  <2>4. ASSUME NEW a \in ToSet(Primary) \ Unfinished'
        PROVE  OfThisPipeline(arms'[split][a], head)
    <3>1. a \in Arms /\ (a = a1 \/ a \notin ToSet(shell.todo))
      BY <1>2, <2>2, <2>4 DEF Unfinished, Arms
    <3>2. CASE a = a1
      BY <1>1, <2>1, <2>3, <3>2 DEF OfThisPipeline
    <3>3. CASE a # a1
      BY <2>1, <2>3, <3>1, <3>3
    <3>. QED  BY <3>2, <3>3
  <2>5. shell'.at \in {"manifest", "read"} /\ (shell'.at = "read" => shell'.todo # <<>>)
    BY <1>2, <2>2
  <2>6. ToSet(shell'.todo) \subseteq ToSet(shell.runs[1]) /\ shell'.todo \in Seq(Arms)
    BY <1>2, <2>1, <2>2
  <2>7. \A a \in ToSet(Primary) \ Unfinished' : OfThisPipeline(arms'[shell'.split][a], head')
    BY <1>1, <1>2, <2>4
  <2>. QED  BY <1>1, <1>2, <1>3, <1>4, <2>5, <2>6, <2>7
            DEF FullInv, LaunchInv, Launched, AfterRuns, AfterManifest
<1>5. CASE ~Launched
  BY <1>1, <1>2, <1>3, <1>5 DEF LaunchInv, Launched
<1>. QED  BY <1>4, <1>5

LEMMA WriteManifestFull == FullInv /\ WriteManifest => FilesInv' /\ LaunchInv'
<1> SUFFICES ASSUME FullInv, WriteManifest PROVE FilesInv' /\ LaunchInv'
  OBVIOUS
<1>1. /\ shell' = [shell EXCEPT !.at = "analyze"] /\ shell.at = "manifest"
      /\ UNCHANGED <<arms, head>>
  BY DEF WriteManifest, At, Go
<1>2. /\ shell'.at = "analyze" /\ shell'.command = shell.command
      /\ shell'.split = split /\ shell'.runs = shell.runs
  BY <1>1 DEF FullInv, IInv, ShapeInv, Shape, split
<1>3. /\ manifest'[split] # None
      /\ manifest'[split].arms = MergedArms(split, shell.runs[1])
  BY ManifestStep, NoneIsNoManifest DEF FullInv
<1>4. FilesInv'
  BY <1>1 DEF WriteManifest, FullInv, FilesInv
<1>5. Launched => /\ ToSet(shell.runs[1]) \subseteq manifest'[split].arms
                  /\ shell.runs = <<Diagnostic>> => ToSet(Primary) \subseteq manifest'[split].arms
  BY <1>3 DEF MergedArms, FullInv, LaunchInv, split
<1>. QED  BY <1>1, <1>2, <1>3, <1>4, <1>5
          DEF FullInv, LaunchInv, Launched, Unfinished, AfterRuns,
              AfterManifest, split

\* The second call of run_full, of the diagnostic arms, starts.
LEMMA HashResultsFull == FullInv /\ HashResults => FilesInv' /\ LaunchInv'
<1> SUFFICES ASSUME FullInv, HashResults PROVE FilesInv' /\ LaunchInv'
  OBVIOUS
<1>1. UNCHANGED <<arms, manifest, head>> /\ shell.at = "hash"
  BY DEF HashResults, At
<1>2. FilesInv'
  BY <1>1 DEF FullInv, FilesInv
<1>3. CASE shell' = Idle
  BY <1>2, <1>3, IdleLaunch
<1>4. CASE /\ Len(shell.runs) > 1
           /\ shell' = [shell EXCEPT !.at = "read", !.runs = Tail(@), !.todo = shell.runs[2]]
  <2>1. shell.runs = <<Primary, Diagnostic>>
    BY <1>4, TwoRuns DEF FullInv
  <2>2. /\ shell'.at = "read" /\ shell'.runs = <<Diagnostic>> /\ shell'.todo = Diagnostic
        /\ shell'.command = shell.command /\ shell'.split = split
    BY <1>4, <2>1 DEF FullInv, IInv, ShapeInv, Shape, split
  <2>3. <<Diagnostic>> # <<Primary>>
    <3>1. PICK a : a \in ToSet(Primary)
      BY PrimaryFacts, ListFacts
    <3>2. a \notin ToSet(Diagnostic)
      BY <3>1, QualificationConstants
    <3>. QED  BY <3>1, <3>2
  <2>4. Launched => /\ ToSet(Primary) \subseteq manifest[split].arms
                    /\ manifest[split] # None
                    /\ \A a \in ToSet(Primary) : OfThisPipeline(arms[split][a], head)
    BY <1>1, <2>1 DEF FullInv, LaunchInv, AfterManifest, Unfinished, split
  <2>. QED  BY <1>1, <1>2, <2>2, <2>3, <2>4, PrimaryFacts
            DEF LaunchInv, Launched, AfterRuns, AfterManifest
<1>5. CASE ~(Len(shell.runs) > 1) /\ shell' = [shell EXCEPT !.at = "reanalyze"]
  <2>1. /\ shell'.at = "reanalyze" /\ shell'.command = shell.command
        /\ shell'.split = split /\ shell'.runs = shell.runs
    BY <1>5 DEF FullInv, IInv, ShapeInv, Shape, split
  <2>2. Launched => Len(shell.runs) = 1
    BY <1>5 DEF FullInv, LaunchInv
  <2>. QED  BY <1>1, <1>2, <2>1, <2>2
            DEF FullInv, LaunchInv, Launched, Unfinished, AfterRuns,
                AfterManifest, split
<1>. QED  BY <1>3, <1>4, <1>5 DEF HashResults

\* Steps that leave receipts and manifest alone, and start no call of run_full.
LEMMA LaterSteps ==
    ASSUME FullInv, UNCHANGED <<arms, manifest, head>>,
           shell'.command = shell.command, shell'.split = shell.split, shell'.runs = shell.runs,
           shell.at \in AfterManifest,
           \/ shell'.at = "hash"
           \/ shell'.at \in AfterRuns /\ shell.at \in AfterRuns
           \/ shell'.at = "package"
    PROVE  FilesInv' /\ LaunchInv'
<1>1. FilesInv'
  BY DEF FullInv, FilesInv
<1>2. CASE shell'.at = "package"
  BY <1>1, <1>2 DEF LaunchInv, Launched
<1>3. CASE shell'.at # "package"
  <2>1. /\ shell'.at \notin {"read", "generate", "idle"}
        /\ shell'.at \in AfterManifest
        /\ shell'.at \in AfterRuns => shell.at \in AfterRuns
        /\ shell.at \notin {"read", "generate", "idle", "package"}
    BY <1>3 DEF AfterRuns, AfterManifest
  <2>. QED  BY <1>1, <2>1 DEF FullInv, LaunchInv, Launched, Unfinished
<1>. QED  BY <1>2, <1>3

LEMMA LaterFull ==
    ASSUME FullInv,
           \/ Analyze \/ Reanalyze \/ Rehash \/ Package
           \/ EvaluateGates \/ CertifierDies \/ WriteCertificate \/ HashBundle
    PROVE  FilesInv' /\ LaunchInv'
<1>1. UNCHANGED <<arms, manifest, head>> /\ Shape(shell)
  BY DEF Analyze, Reanalyze, Rehash, Package, EvaluateGates, CertifierDies, WriteCertificate,
         HashBundle, disk, FullInv, IInv, ShapeInv
<1>2. CASE shell' = Idle
  <2>1. FilesInv'
    BY <1>1 DEF FullInv, FilesInv
  <2>. QED  BY <1>2, <2>1, IdleLaunch
<1>3. CASE Analyze
  <2>1. shell' = [shell EXCEPT !.at = "hash"] /\ shell.at = "analyze"
    BY <1>3 DEF Analyze, At, Go
  <2>. QED  BY <1>1, <2>1, LaterSteps DEF Shape, AfterManifest
<1>4. CASE (Reanalyze \/ Rehash) /\ shell' # Idle
  <2>1. \/ shell' = [shell EXCEPT !.at = "rehash"] /\ shell.at = "reanalyze"
        \/ shell' = [shell EXCEPT !.at = "gates"] /\ shell.at = "rehash"
    BY <1>4 DEF Reanalyze, Rehash, At, Go
  <2>. QED  BY <1>1, <2>1, LaterSteps DEF Shape, AfterManifest, AfterRuns
<1>5. CASE EvaluateGates
  <2>1. PICK verdict : shell' = [shell EXCEPT !.at = "certificate", !.verdict = verdict]
    BY <1>5 DEF EvaluateGates
  <2>2. shell.at = "gates"
    BY <1>5 DEF EvaluateGates, At
  <2>. QED  BY <1>1, <2>1, <2>2, LaterSteps DEF Shape, AfterManifest, AfterRuns
<1>6. CASE WriteCertificate
  <2>1. shell' = [shell EXCEPT !.at = "root"] /\ shell.at = "certificate"
    BY <1>6 DEF WriteCertificate, At, Go
  <2>. QED  BY <1>1, <2>1, LaterSteps DEF Shape, AfterManifest, AfterRuns
<1>7. CASE (CertifierDies \/ HashBundle) /\ shell' # Idle
  <2>1. PICK outcome : shell' = [shell EXCEPT !.at = "package", !.verdict = outcome]
    BY <1>7 DEF CertifierDies, HashBundle, Leave
  <2>2. shell.at \in {"gates", "certificate", "root"}
    BY <1>7 DEF CertifierDies, HashBundle, At
  <2>. QED  BY <1>1, <2>1, <2>2, LaterSteps DEF Shape, AfterManifest
<1>8. CASE Package
  BY <1>2, <1>8 DEF Package
<1>. QED  BY <1>2, <1>3, <1>4, <1>5, <1>6, <1>7, <1>8

LEMMA ManifestsStep == FullInv /\ [Next]_vars => ManifestInv'
<1> SUFFICES ASSUME FullInv, [Next]_vars PROVE ManifestInv'
  OBVIOUS
<1>1. CASE WriteManifest
  <2>1. /\ manifest'[split] \in Manifests
        /\ \A s \in Splits \ {split} : manifest'[s] = manifest[s]
    BY <1>1, ManifestStep DEF FullInv
  <2>. QED  BY <2>1 DEF FullInv, ManifestInv
<1>2. CASE ~WriteManifest
  <2>1. manifest' = manifest
    BY <1>2 DEF Next, CallFull, CallCertify, CallRequalify, Call, Checkout, Kill, ReadArm, Batch,
                FinishArm, Analyze, HashResults, Reanalyze, Rehash, Package, EvaluateGates,
                CertifierDies, WriteCertificate, HashBundle, disk, vars
  <2>. QED  BY <2>1 DEF FullInv, ManifestInv
<1>. QED  BY <1>1, <1>2

LEMMA StepFull == FullInv /\ [Next]_vars => FullInv'
<1> SUFFICES ASSUME FullInv, [Next]_vars PROVE FullInv'
  OBVIOUS
<1>1. IInv' /\ RunsInv' /\ ManifestInv'
  BY StepIInv, RunsStep, ManifestsStep DEF FullInv
<1>2. CASE Next
  BY <1>1, <1>2, OperatorFull, ReadArmFull, BatchFull, FinishArmFull, WriteManifestFull,
     HashResultsFull, LaterFull DEF Next, FullInv
<1>3. CASE UNCHANGED vars
  <2>1. UNCHANGED <<arms, manifest, shell, head>>
    BY <1>3 DEF vars, disk
  <2>2. FilesInv'
    BY <2>1 DEF FullInv, FilesInv
  <2>3. LaunchInv'
    BY <2>1 DEF FullInv, LaunchInv, Launched, Unfinished
  <2>. QED  BY <1>1, <2>2, <2>3 DEF FullInv
<1>. QED  BY <1>2, <1>3

\* What a launch certifies VALID was generated, or taken over, under the
\* pipeline of its own revision, and its manifest names the arms of both calls.
THEOREM LaunchesAreOfTheirRevision == Spec => []LaunchIsOfItsRevision
<1>1. FullInv => LaunchIsOfItsRevision
  <2> SUFFICES ASSUME FullInv, shell.command = "requalify", shell.at = "root"
               PROVE  /\ \A a \in ToSet(Primary) : OfThisPipeline(arms[split][a], head)
                      /\ ToSet(Primary) \subseteq manifest[split].arms
                      /\ split = Development => ToSet(Diagnostic) \subseteq manifest[split].arms
    BY DEF LaunchIsOfItsRevision, At, OfThisPipeline
  <2>1. /\ Launched /\ Unfinished = {} /\ split = shell.split
        /\ shell.at \in AfterRuns /\ shell.at \in AfterManifest
    BY DEF Launched, Unfinished, split, AfterRuns, AfterManifest
  <2>2. /\ shell.runs \in {<<Primary, Diagnostic>>, <<Primary>>, <<Diagnostic>>}
        /\ Len(shell.runs) = 1
        /\ shell.split = Development => shell.runs # <<Primary>>
        /\ ToSet(shell.runs[1]) \subseteq manifest[split].arms
        /\ shell.runs = <<Diagnostic>> => ToSet(Primary) \subseteq manifest[split].arms
        /\ \A a \in ToSet(Primary) : OfThisPipeline(arms[split][a], head)
    BY <2>1 DEF FullInv, LaunchInv
  <2>3. shell.runs # <<Primary, Diagnostic>>
    <3>1. Len(<<Primary, Diagnostic>>) = 2
      OBVIOUS
    <3>. QED  BY <2>2, <3>1
  <2>. QED  BY <2>1, <2>2, <2>3
<1>2. Spec => []FullInv
  BY InitFull, StepFull, PTL DEF Spec
<1>. QED  BY <1>1, <1>2, PTL

-----------------------------------------------------------------------------
(* Types of receipts, and what a retry may not lose *)

(* Every set of numbers that is not empty has a least one. *)
LEMMA LeastNumber ==
    ASSUME NEW T \in SUBSET Nat, T # {}
    PROVE  \E m \in T : \A k \in T : m <= k
<1> DEFINE R == OpToRel(<, Nat)
<1>1. PICK m \in T : \A k \in T : <<k, m>> \notin R
  <2>1. IsWellFoundedOn(R, Nat)
    BY NatLessThanWellFounded
  <2> HIDE DEF R
  <2>. QED  BY <2>1, WFMin
<1>2. \A k \in T : ~(k < m)
  BY <1>1 DEF OpToRel
<1>. QED  BY <1>2

\* kept holds every receipt of arm a that head can use.
HoldsPaid(kept, s, a) ==
    arms[s][a] # Torn => \A t \in Keep(s, a) : t \in DOMAIN kept /\ kept[t] = arms[s][a][t]

ReceiptsInv ==
    /\ \A s \in Splits : \A a \in Arms : arms[s][a] \in Receipts \cup {Torn}
    /\ analysis = [s \in Splits |-> analysis[s]]
    /\ \A s \in Splits : analysis[s] = None \/ analysis[s] \in [Arms -> Receipts]
    /\ \A s \in Splits : certificate[s] # None => certificate[s].split = s
    /\ kills \in Nat

StepInv ==
    /\ shell.at \in {"certificate", "root"} => shell.verdict.split = shell.split
    /\ shell.at \in {"read", "generate"} =>
          shell.runs # <<>> /\ shell.todo \in Seq(Arms) /\ shell.todo # <<>>
    /\ shell.at = "generate" =>
          shell.kept \in Receipts /\ HoldsPaid(shell.kept, shell.split, shell.todo[1])

PaidInv == FullInv /\ ReceiptsInv /\ StepInv

LEMMA ReceiptsFacts ==
    /\ <<>> \in Receipts
    /\ \A done \in SUBSET Tasks : [done -> Commits] \subseteq Receipts
    /\ \A r \in Receipts : r \in [DOMAIN r -> Commits] /\ DOMAIN r \in SUBSET Tasks
  BY DEF Receipts

LEMMA InitPaid == Init => PaidInv
<1> SUFFICES ASSUME Init PROVE PaidInv
  OBVIOUS
<1>1. FullInv
  BY InitFull
<1>2. /\ arms = [s \in Splits |-> [a \in Arms |-> <<>>]] /\ kills = 0 /\ shell = Idle
      /\ analysis = [s \in Splits |-> None] /\ certificate = [s \in Splits |-> None]
  BY DEF Init
<1>3. ReceiptsInv
  BY <1>2, ReceiptsFacts DEF ReceiptsInv
<1>4. StepInv
  BY <1>2, IdleShape DEF StepInv
<1>. QED  BY <1>1, <1>3, <1>4 DEF PaidInv

\* Steps that leave receipts, analysis and certificates alone, and do not lead
\* into run_full or past the gates.
LEMMA QuietStep ==
    ASSUME PaidInv, UNCHANGED <<arms, analysis, certificate>>, kills' \in Nat,
           shell'.at \notin {"certificate", "root", "read", "generate"}
    PROVE  ReceiptsInv' /\ StepInv'
<1>1. ReceiptsInv'
  BY DEF PaidInv, ReceiptsInv
<1>2. StepInv'
  BY DEF StepInv
<1>. QED  BY <1>1, <1>2

LEMMA StartStep ==
    ASSUME PaidInv, UNCHANGED <<arms, analysis, certificate, kills>>,
           shell'.at = "read", shell'.runs # <<>>, shell'.todo \in {Primary, Diagnostic}
    PROVE  ReceiptsInv' /\ StepInv'
<1>1. ReceiptsInv'
  BY DEF PaidInv, ReceiptsInv
<1>2. StepInv'
  BY PrimaryFacts DEF StepInv
<1>. QED  BY <1>1, <1>2

LEMMA OperatorPaid ==
    ASSUME PaidInv,
           \/ \E s \in Splits : CallFull(s) \/ CallCertify(s) \/ CallRequalify(s)
           \/ \E c \in Commits : Checkout(c)
    PROVE  ReceiptsInv' /\ StepInv'
<1>0. kills \in Nat
  BY DEF PaidInv, ReceiptsInv
<1>1. ASSUME NEW command, NEW s \in Splits, Call(command, s, "gates", <<>>)
      PROVE  ReceiptsInv' /\ StepInv'
  <2>1. UNCHANGED <<arms, analysis, certificate, kills>> /\ shell'.at = "gates"
    BY <1>1 DEF Call, disk, Idle
  <2>. QED  BY <1>0, <2>1, QuietStep
<1>2. ASSUME NEW command, NEW s \in Splits,
             NEW runs \in {<<Primary>>, <<Diagnostic>>, <<Primary, Diagnostic>>},
             Call(command, s, "read", runs)
      PROVE  ReceiptsInv' /\ StepInv'
  <2>1. runs # <<>> /\ runs[1] \in {Primary, Diagnostic}
    OBVIOUS
  <2>2. /\ UNCHANGED <<arms, analysis, certificate, kills>>
        /\ shell'.at = "read" /\ shell'.runs = runs /\ shell'.todo = runs[1]
    BY <1>2, <2>1 DEF Call, disk, Idle
  <2>. QED  BY <2>1, <2>2, StartStep
<1>3. ASSUME NEW c \in Commits, Checkout(c) PROVE ReceiptsInv' /\ StepInv'
  <2>1. UNCHANGED <<arms, analysis, certificate, kills>> /\ shell' = Idle
    BY <1>3 DEF Checkout, disk
  <2>. QED  BY <1>0, <2>1, IdleShape, QuietStep
<1>. QED  BY <1>1, <1>2, <1>3 DEF CallFull, CallCertify, CallRequalify

LEMMA ReadArmPaid == PaidInv /\ ReadArm => ReceiptsInv' /\ StepInv'
<1> SUFFICES ASSUME PaidInv, ReadArm PROVE ReceiptsInv' /\ StepInv'
  OBVIOUS
<1> DEFINE a == shell.todo[1]
           kept == [t \in Keep(split, a) |-> arms[split][a][t]]
<1>1. UNCHANGED <<arms, analysis, certificate, kills>> /\ kills \in Nat /\ shell.at = "read"
  BY DEF ReadArm, disk, bounds, At, PaidInv, ReceiptsInv
<1>2. CASE shell' = Idle
  BY <1>1, <1>2, IdleShape, QuietStep
<1>3. CASE arms[split][a] # Torn /\ shell' = [shell EXCEPT !.at = "generate", !.kept = kept]
  <2>1. /\ Shape(shell) /\ split = shell.split /\ split \in Splits /\ head' = head
        /\ shell.runs # <<>> /\ shell.todo \in Seq(Arms) /\ shell.todo # <<>> /\ a \in Arms
    BY <1>1 DEF PaidInv, FullInv, IInv, ShapeInv, Shape, split, StepInv, ReadArm
  <2>2. /\ shell'.at = "generate" /\ shell'.kept = kept /\ shell'.split = split
        /\ shell'.runs = shell.runs /\ shell'.todo = shell.todo
    BY <1>3, <2>1 DEF Shape
  <2>3. arms[split][a] \in Receipts
    BY <1>3, <2>1 DEF PaidInv, ReceiptsInv
  <2>4. kept \in Receipts
    <3>1. Keep(split, a) \in SUBSET Tasks
          /\ \A t \in Keep(split, a) : arms[split][a][t] \in Commits
      BY <2>3, ReceiptsFacts DEF Keep
    <3>2. kept \in [Keep(split, a) -> Commits]
      BY <3>1
    <3>. QED  BY <3>1, <3>2, ReceiptsFacts
  <2>5. HoldsPaid(shell.kept, shell.split, shell.todo[1])'
    <3>1. arms' = arms /\ head' = head
      BY <1>1, <2>1
    <3>2. shell'.kept = kept /\ shell'.split = split
      BY <2>2
    <3>3. shell'.todo[1] = a
      BY <2>2
    <3>4. HoldsPaid(kept, split, a)
      BY DEF HoldsPaid
    <3> HIDE DEF kept, a
    <3>5. HoldsPaid(shell'.kept, shell'.split, shell'.todo[1])
      BY <3>2, <3>3, <3>4
    <3>. QED  BY <3>1, <3>5 DEF HoldsPaid, Keep
  <2> HIDE DEF kept
  <2>6. StepInv'
    <3>1. shell'.at = "generate" /\ shell'.kept \in Receipts /\ shell'.todo \in Seq(Arms)
          /\ shell'.todo # <<>> /\ shell'.todo[1] \in Arms /\ shell'.runs # <<>>
      BY <2>1, <2>2, <2>4
    <3>. QED  BY <2>5, <3>1 DEF StepInv
  <2>7. ReceiptsInv'
    BY <1>1 DEF PaidInv, ReceiptsInv
  <2>. QED  BY <2>6, <2>7
<1>. QED  BY <1>2, <1>3 DEF ReadArm

\* The next batch adds one receipt to those that are kept, and any of its first
\* lines are receipts too.
LEMMA GrownFacts ==
    ASSUME PaidInv, shell.at = "generate"
    PROVE  /\ Grown \in Receipts
           /\ \A n \in Tasks : FirstLines(Grown, n) \in Receipts
           /\ \A u \in DOMAIN shell.kept : u \in DOMAIN Grown /\ Grown[u] = shell.kept[u]
<1>1. shell.kept \in Receipts /\ head \in Commits
  BY DEF PaidInv, StepInv, FullInv, IInv, ShapeInv
<1>2. ASSUME Pending # {} PROVE Earliest(Pending) \in Pending
  <2>1. Pending \in SUBSET Nat
    BY QualificationConstants DEF Pending
  <2>. QED  BY <1>2, <2>1, LeastNumber DEF Earliest
<1>3. /\ Grown \in Receipts
      /\ \A u \in DOMAIN shell.kept : u \in DOMAIN Grown /\ Grown[u] = shell.kept[u]
  <2>1. CASE Pending = {}
    BY <1>1, <2>1 DEF Grown
  <2>2. CASE Pending # {}
    <3> DEFINE t == Earliest(Pending)
    <3>1. t \in Tasks \ DOMAIN shell.kept
      BY <1>2, <2>2 DEF Pending
    <3>2. Grown = [u \in DOMAIN shell.kept \cup {t} |-> IF u = t THEN head ELSE shell.kept[u]]
      BY <2>2 DEF Grown
    <3> HIDE DEF t
    <3>3. DOMAIN shell.kept \cup {t} \in SUBSET Tasks
      BY <1>1, <3>1, ReceiptsFacts
    <3>4. Grown \in [DOMAIN shell.kept \cup {t} -> Commits]
      BY <1>1, <3>2, ReceiptsFacts
    <3>. QED  BY <3>1, <3>2, <3>3, <3>4, ReceiptsFacts
  <2>. QED  BY <2>1, <2>2
<1>4. ASSUME NEW n \in Tasks PROVE FirstLines(Grown, n) \in Receipts
  <2> DEFINE early == {v \in DOMAIN Grown : v < n}
  <2>1. Grown \in [DOMAIN Grown -> Commits] /\ DOMAIN Grown \in SUBSET Tasks
    BY <1>3, ReceiptsFacts
  <2>2. early \in SUBSET Tasks /\ FirstLines(Grown, n) \in [early -> Commits]
    BY <2>1 DEF FirstLines
  <2>. QED  BY <2>2, ReceiptsFacts
<1>. QED  BY <1>3, <1>4

LEMMA BatchAdds ==
    ASSUME PaidInv, Batch
    PROVE  \E now \in Receipts :
              /\ shell' = [shell EXCEPT !.kept = now]
              /\ arms' = [arms EXCEPT ![split][shell.todo[1]] = now]
              /\ \A u \in DOMAIN shell.kept : u \in DOMAIN now /\ now[u] = shell.kept[u]
<1>1. /\ shell.at = "generate"
      /\ shell' = [shell EXCEPT !.kept = Grown]
      /\ arms' = [arms EXCEPT ![split][shell.todo[1]] = Grown]
  BY DEF Batch, At
<1>. QED  BY <1>1, GrownFacts

\* The file under way is written, with receipts that hold what was kept.
LEMMA FileWritten ==
    ASSUME PaidInv, shell.at = "generate", NEW now \in Receipts \cup {Torn},
           arms' = [arms EXCEPT ![split][shell.todo[1]] = now]
    PROVE  /\ split = shell.split /\ split \in Splits /\ shell.todo[1] \in Arms
           /\ arms'[split][shell.todo[1]] = now
           /\ \A s \in Splits, a \in Arms :
                  s # split \/ a # shell.todo[1] => arms'[s][a] = arms[s][a]
           /\ \A s \in Splits : \A a \in Arms : arms'[s][a] \in Receipts \cup {Torn}
<1>1. /\ split = shell.split /\ split \in Splits /\ shell.todo[1] \in Arms
  BY DEF PaidInv, FullInv, IInv, ShapeInv, Shape, split, StepInv
<1>2. /\ arms = [s \in Splits |-> arms[s]]
      /\ \A s \in Splits : arms[s] = [a \in Arms |-> arms[s][a]]
  BY DEF PaidInv, FullInv, FilesInv
<1>3. /\ arms'[split] = [arms[split] EXCEPT ![shell.todo[1]] = now]
      /\ \A s \in Splits \ {split} : arms'[s] = arms[s]
  BY <1>1, <1>2
<1>4. arms'[split][shell.todo[1]] = now
  BY <1>1, <1>2, <1>3
<1>5. ASSUME NEW s \in Splits, NEW a \in Arms, s # split \/ a # shell.todo[1]
      PROVE  arms'[s][a] = arms[s][a]
  BY <1>1, <1>2, <1>3, <1>5
<1>6. ASSUME NEW s \in Splits, NEW a \in Arms PROVE arms'[s][a] \in Receipts \cup {Torn}
  BY <1>4, <1>5 DEF PaidInv, ReceiptsInv
<1>. QED  BY <1>1, <1>4, <1>5, <1>6

LEMMA BatchPaid == PaidInv /\ Batch => ReceiptsInv' /\ StepInv'
<1> SUFFICES ASSUME PaidInv, Batch PROVE ReceiptsInv' /\ StepInv'
  OBVIOUS
<1>1. PICK now \in Receipts :
          /\ shell' = [shell EXCEPT !.kept = now]
          /\ arms' = [arms EXCEPT ![split][shell.todo[1]] = now]
  BY BatchAdds
<1>2. shell.at = "generate" /\ UNCHANGED <<head, analysis, certificate, kills>>
  BY DEF Batch, At, bounds
<1>3. /\ shell'.at = "generate" /\ shell'.kept = now /\ shell'.split = shell.split
      /\ shell'.runs = shell.runs /\ shell'.todo = shell.todo
  BY <1>1, <1>2 DEF PaidInv, FullInv, IInv, ShapeInv, Shape
<1>4. /\ split = shell.split /\ arms'[split][shell.todo[1]] = now
      /\ \A s \in Splits : \A a \in Arms : arms'[s][a] \in Receipts \cup {Torn}
  BY <1>1, <1>2, FileWritten
<1>5. ReceiptsInv'
  BY <1>2, <1>4 DEF PaidInv, ReceiptsInv
<1>6. HoldsPaid(shell.kept, shell.split, shell.todo[1])'
  BY <1>3, <1>4 DEF HoldsPaid, Keep
<1>7. StepInv'
  BY <1>1, <1>2, <1>3, <1>6 DEF PaidInv, StepInv
<1>. QED  BY <1>5, <1>7

LEMMA FinishArmPaid == PaidInv /\ FinishArm => ReceiptsInv' /\ StepInv'
<1> SUFFICES ASSUME PaidInv, FinishArm PROVE ReceiptsInv' /\ StepInv'
  OBVIOUS
<1>1. /\ shell.at = "generate" /\ UNCHANGED <<analysis, certificate, kills>>
      /\ arms' = [arms EXCEPT ![split][shell.todo[1]] = shell.kept]
      /\ shell' = [shell EXCEPT !.todo = Tail(@), !.kept = <<>>,
                                !.at = IF Len(shell.todo) = 1 THEN "manifest" ELSE "read"]
  BY DEF FinishArm, At, bounds
<1>2. /\ shell.kept \in Receipts /\ shell.runs # <<>>
      /\ shell.todo \in Seq(Arms) /\ shell.todo # <<>>
  BY <1>1 DEF PaidInv, StepInv
<1>3. /\ shell'.at = IF Len(shell.todo) = 1 THEN "manifest" ELSE "read"
      /\ shell'.todo = Tail(shell.todo) /\ shell'.runs = shell.runs
  BY <1>1 DEF PaidInv, FullInv, IInv, ShapeInv, Shape
<1>4. shell'.at \in {"manifest", "read"} /\ (shell'.at = "read" => shell'.todo # <<>>)
      /\ shell'.todo \in Seq(Arms)
  BY <1>2, <1>3, ListFacts
<1>5. \A s \in Splits : \A a \in Arms : arms'[s][a] \in Receipts \cup {Torn}
  BY <1>1, <1>2, FileWritten
<1>6. ReceiptsInv'
  BY <1>1, <1>5 DEF PaidInv, ReceiptsInv
<1>7. StepInv'
  BY <1>2, <1>3, <1>4 DEF StepInv
<1>. QED  BY <1>6, <1>7

LEMMA KillPaid == PaidInv /\ Kill => ReceiptsInv' /\ StepInv'
<1> SUFFICES ASSUME PaidInv, Kill PROVE ReceiptsInv' /\ StepInv'
  OBVIOUS
<1>1. shell' = Idle /\ UNCHANGED <<analysis, certificate>> /\ kills' = kills + 1 /\ kills' \in Nat
  BY DEF Kill, PaidInv, ReceiptsInv
<1>2. CASE arms' = arms
  BY <1>1, <1>2, IdleShape, QuietStep
<1>3. CASE At("generate")
  <2>1. PICK left \in {arms[split][shell.todo[1]], Torn, Grown}
                          \cup {FirstLines(Grown, n) : n \in Tasks} :
            arms' = [arms EXCEPT ![split][shell.todo[1]] = left]
    BY <1>3 DEF Kill
  <2>2. split \in Splits /\ shell.todo[1] \in Arms
    BY <1>3 DEF At, PaidInv, FullInv, IInv, ShapeInv, Shape, split, StepInv
  <2>3. left \in Receipts \cup {Torn}
    <3>1. Grown \in Receipts /\ \A n \in Tasks : FirstLines(Grown, n) \in Receipts
      BY <1>3, GrownFacts DEF At
    <3>2. arms[split][shell.todo[1]] \in Receipts \cup {Torn}
      BY <2>2 DEF PaidInv, ReceiptsInv
    <3>. QED  BY <2>1, <3>1, <3>2
  <2>4. \A s \in Splits : \A a \in Arms : arms'[s][a] \in Receipts \cup {Torn}
    BY <1>3, <2>1, <2>3, FileWritten DEF At
  <2>5. ReceiptsInv'
    BY <1>1, <2>4 DEF PaidInv, ReceiptsInv
  <2>6. StepInv'
    BY <1>1, IdleShape DEF StepInv
  <2>. QED  BY <2>5, <2>6
<1>. QED  BY <1>2, <1>3 DEF Kill

\* An analysis is computed from arms that can be read.
LEMMA AnalyzePaid == PaidInv /\ (Analyze \/ Reanalyze) => ReceiptsInv' /\ StepInv'
<1> SUFFICES ASSUME PaidInv, Analyze \/ Reanalyze PROVE ReceiptsInv' /\ StepInv'
  OBVIOUS
<1>1. /\ UNCHANGED <<arms, certificate, kills>> /\ Shape(shell) /\ split \in Splits
      /\ AnalyzeArms(split) \/ UNCHANGED analysis
  BY DEF Analyze, Reanalyze, bounds, PaidInv, FullInv, IInv, ShapeInv, Shape, split
<1>2. shell'.at \in {"hash", "rehash", "idle"}
  BY <1>1, IdleShape DEF Analyze, Reanalyze, Go, Shape
<1>3. ASSUME AnalyzeArms(split)
      PROVE  /\ analysis' = [s \in Splits |-> analysis'[s]]
             /\ \A s \in Splits : analysis'[s] = None \/ analysis'[s] \in [Arms -> Receipts]
  <2>1. arms[split] \in [Arms -> Receipts]
    BY <1>1, <1>3 DEF AnalyzeArms, Readable, PaidInv, FullInv, FilesInv, ReceiptsInv
  <2>2. analysis' = [analysis EXCEPT ![split] = arms[split]]
    BY <1>3 DEF AnalyzeArms
  <2>. QED  BY <1>1, <2>1, <2>2 DEF PaidInv, ReceiptsInv
<1>4. ReceiptsInv'
  BY <1>1, <1>3 DEF PaidInv, ReceiptsInv
<1>5. StepInv'
  BY <1>2 DEF StepInv
<1>. QED  BY <1>4, <1>5

LEMMA HashResultsPaid == PaidInv /\ HashResults => ReceiptsInv' /\ StepInv'
<1> SUFFICES ASSUME PaidInv, HashResults PROVE ReceiptsInv' /\ StepInv'
  OBVIOUS
<1>1. UNCHANGED <<arms, analysis, certificate, kills>> /\ kills \in Nat /\ Shape(shell)
  BY DEF HashResults, bounds, PaidInv, ReceiptsInv, FullInv, IInv, ShapeInv
<1>2. CASE /\ Len(shell.runs) > 1
           /\ shell' = [shell EXCEPT !.at = "read", !.runs = Tail(@), !.todo = shell.runs[2]]
  <2>1. shell.runs = <<Primary, Diagnostic>>
    BY <1>2, TwoRuns DEF PaidInv, FullInv
  <2>2. shell'.at = "read" /\ shell'.runs = <<Diagnostic>> /\ shell'.todo = Diagnostic
    BY <1>1, <1>2, <2>1 DEF Shape
  <2>3. shell'.runs # <<>>
    BY <2>2
  <2>. QED  BY <1>1, <2>2, <2>3, StartStep
<1>3. CASE shell' = [shell EXCEPT !.at = "reanalyze"] \/ shell' = Idle
  <2>1. shell'.at \in {"reanalyze", "idle"}
    BY <1>1, <1>3, IdleShape DEF Shape
  <2>. QED  BY <1>1, <2>1, QuietStep
<1>. QED  BY <1>2, <1>3 DEF HashResults

LEMMA CertifierPaid ==
    PaidInv /\ (EvaluateGates \/ WriteCertificate \/ CertifierDies \/ HashBundle)
        => ReceiptsInv' /\ StepInv'
<1> SUFFICES ASSUME PaidInv, EvaluateGates \/ WriteCertificate \/ CertifierDies \/ HashBundle
             PROVE  ReceiptsInv' /\ StepInv'
  OBVIOUS
<1>1. Shape(shell) /\ split = shell.split /\ split \in Splits /\ kills \in Nat
  BY DEF PaidInv, FullInv, IInv, ShapeInv, Shape, split, ReceiptsInv
<1>2. CASE EvaluateGates
  <2>1. PICK outside \in BOOLEAN :
            shell' = [shell EXCEPT !.at = "certificate", !.verdict = Verdict(split, outside)]
    BY <1>2 DEF EvaluateGates
  <2>2. /\ shell'.at = "certificate" /\ shell'.split = split
        /\ shell'.verdict = Verdict(split, outside)
    BY <1>1, <2>1 DEF Shape
  <2>3. StepInv'
    BY <2>2 DEF StepInv, Verdict
  <2>4. ReceiptsInv'
    BY <1>2 DEF EvaluateGates, disk, bounds, PaidInv, ReceiptsInv
  <2>. QED  BY <2>3, <2>4
<1>3. CASE WriteCertificate
  <2>1. /\ UNCHANGED <<arms, analysis, kills>> /\ shell.at = "certificate"
        /\ certificate' = [certificate EXCEPT ![split] = shell.verdict]
        /\ shell' = [shell EXCEPT !.at = "root"]
    BY <1>3 DEF WriteCertificate, bounds, At, Go
  <2>2. shell.verdict.split = split
    BY <1>1, <2>1 DEF PaidInv, StepInv
  <2>3. shell'.at = "root" /\ shell'.verdict = shell.verdict /\ shell'.split = split
    BY <1>1, <2>1 DEF Shape
  <2>4. \A s \in Splits : certificate'[s] # None => certificate'[s].split = s
    BY <1>1, <2>1, <2>2 DEF PaidInv, ReceiptsInv, FullInv, IInv, ShapeInv
  <2>5. ReceiptsInv'
    BY <2>1, <2>4 DEF PaidInv, ReceiptsInv
  <2>6. StepInv'
    BY <2>2, <2>3 DEF StepInv
  <2>. QED  BY <2>5, <2>6
<1>4. CASE CertifierDies \/ HashBundle
  <2>1. UNCHANGED <<arms, analysis, certificate>> /\ kills' \in Nat
    BY <1>1, <1>4 DEF CertifierDies, HashBundle, disk, bounds
  <2>2. PICK outcome : Leave(outcome)
    BY <1>4 DEF CertifierDies, HashBundle
  <2>3. shell'.at \in {"package", "idle"}
    BY <1>1, <2>2, IdleShape DEF Leave, Shape
  <2>. QED  BY <2>1, <2>3, QuietStep
<1>. QED  BY <1>2, <1>3, <1>4

LEMMA StepPaid == PaidInv /\ [Next]_vars => PaidInv'
<1> SUFFICES ASSUME PaidInv, [Next]_vars PROVE PaidInv'
  OBVIOUS
<1>1. FullInv'
  BY StepFull DEF PaidInv
<1>2. Shape(shell) /\ kills \in Nat
  BY DEF PaidInv, FullInv, IInv, ShapeInv, ReceiptsInv
<1>3. CASE WriteManifest \/ Rehash \/ Package
  <2>1. UNCHANGED <<arms, analysis, certificate, kills>>
    BY <1>3 DEF WriteManifest, Rehash, Package, disk, bounds
  <2>2. shell'.at \in {"analyze", "gates", "idle"}
    BY <1>2, <1>3, IdleShape DEF WriteManifest, Rehash, Package, Go, Shape
  <2>. QED  BY <1>1, <1>2, <2>1, <2>2, QuietStep DEF PaidInv
<1>4. CASE UNCHANGED vars
  <2>1. ReceiptsInv'
    BY <1>4 DEF vars, disk, bounds, PaidInv, ReceiptsInv
  <2>2. StepInv'
    BY <1>4 DEF vars, disk, PaidInv, StepInv, HoldsPaid, Keep
  <2>. QED  BY <1>1, <2>1, <2>2 DEF PaidInv
<1>5. CASE Next /\ ~(WriteManifest \/ Rehash \/ Package)
  <2>1. ReceiptsInv' /\ StepInv'
    BY <1>5, OperatorPaid, KillPaid, ReadArmPaid, BatchPaid, FinishArmPaid, AnalyzePaid,
       HashResultsPaid, CertifierPaid DEF Next
  <2>. QED  BY <1>1, <2>1 DEF PaidInv
<1>. QED  BY <1>3, <1>4, <1>5

LEMMA PaidInvariance == Spec => []PaidInv
  BY InitPaid, StepPaid, PTL DEF Spec

\* Files hold receipts of revisions by task, or are torn, analyses are of files
\* that can be read, certificates are of the split they lie in, and a run that
\* reads or generates has an arm to do.
THEOREM TypeCorrect == Spec => []TypeOK
<1>1. PaidInv => TypeOK
  <2> SUFFICES ASSUME PaidInv PROVE TypeOK
    OBVIOUS
  <2>1. arms \in [Splits -> Files]
    <3>1. /\ arms = [s \in Splits |-> arms[s]]
          /\ \A s \in Splits : arms[s] = [a \in Arms |-> arms[s][a]]
          /\ \A s \in Splits : \A a \in Arms : arms[s][a] \in Receipts \cup {Torn}
      BY DEF PaidInv, FullInv, FilesInv, ReceiptsInv
    <3>2. \A s \in Splits : arms[s] \in Files
      BY <3>1 DEF Files
    <3>. QED  BY <3>1, <3>2
  <2>2. /\ head \in Commits
        /\ \A s \in Splits : manifest[s] = None \/ manifest[s] \in Manifests
    BY DEF PaidInv, FullInv, IInv, ShapeInv, ManifestInv
  <2>. QED  BY <2>1, <2>2 DEF PaidInv, ReceiptsInv, StepInv, TypeOK
<1>. QED  BY <1>1, PaidInvariance, PTL

\* A receipt that the revision checked out can use is neither lost nor made
\* anew by any step, a kill apart, of whatever command.
THEOREM PaidWorkStays == Spec => PaidWorkIsKept
<1> DEFINE Kept == \A s \in Splits, a \in Arms :
                     kills' = kills /\ arms[s][a] # Torn =>
                         \A t \in Keep(s, a) : t \in DOMAIN arms'[s][a]
                                               /\ arms'[s][a][t] = arms[s][a][t]
<1>1. ASSUME arms' = arms PROVE Kept
  BY <1>1 DEF Keep
<1>2. ASSUME PaidInv, Batch \/ FinishArm PROVE Kept
  <2>1. shell.at = "generate"
    BY <1>2 DEF Batch, FinishArm, At
  <2>2. /\ shell.kept \in Receipts
        /\ HoldsPaid(shell.kept, shell.split, shell.todo[1])
    BY <1>2, <2>1 DEF PaidInv, StepInv
  <2>3. PICK now \in Receipts :
            /\ arms' = [arms EXCEPT ![split][shell.todo[1]] = now]
            /\ \A u \in DOMAIN shell.kept : u \in DOMAIN now /\ now[u] = shell.kept[u]
    BY <1>2, <2>2, BatchAdds DEF FinishArm
  <2>4. /\ split = shell.split /\ arms'[split][shell.todo[1]] = now
        /\ \A s \in Splits, a \in Arms :
               s # split \/ a # shell.todo[1] => arms'[s][a] = arms[s][a]
    BY <1>2, <2>1, <2>3, FileWritten
  <2> SUFFICES ASSUME NEW s \in Splits, NEW a \in Arms, arms[s][a] # Torn, NEW t \in Keep(s, a)
               PROVE  t \in DOMAIN arms'[s][a] /\ arms'[s][a][t] = arms[s][a][t]
    OBVIOUS
  <2>5. CASE s = split /\ a = shell.todo[1]
    BY <2>2, <2>3, <2>4, <2>5 DEF HoldsPaid
  <2>6. CASE s # split \/ a # shell.todo[1]
    BY <2>4, <2>6 DEF Keep
  <2>. QED  BY <2>5, <2>6
<1>3. ASSUME PaidInv, Kill PROVE Kept
  <2>1. kills' = kills + 1 /\ kills \in Nat
    BY <1>3 DEF Kill, PaidInv, ReceiptsInv
  <2>. QED  BY <2>1
<1>4. ASSUME [Next]_vars, ~Batch, ~FinishArm, ~Kill PROVE arms' = arms
  BY <1>4 DEF Next, CallFull, CallCertify, CallRequalify, Call, Checkout, ReadArm, WriteManifest,
              Analyze, HashResults, Reanalyze, Rehash, Package, EvaluateGates, CertifierDies,
              WriteCertificate, HashBundle, disk, vars
<1>5. PaidInv /\ [Next]_vars => Kept
  <2> HIDE DEF Kept
  <2>. QED  BY <1>1, <1>2, <1>3, <1>4
<1>. QED  BY <1>5, PaidInvariance, PTL DEF Spec, PaidWorkIsKept

=============================================================================
