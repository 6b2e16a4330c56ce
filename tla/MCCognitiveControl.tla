-------------------------- MODULE MCCognitiveControl --------------------------
(* A small instance of CognitiveControl: two facts of one provenance that     *)
(* disagree about one subject, and a decision that led to another.            *)
EXTENDS CognitiveControl, TLC

CONSTANTS p1, f1, f2, d1, d2, o1, o2, o3

MCCreatedAt == [p \in Provenances |-> 0]
MCProvenanceOf == [f \in Facts |-> p1]
MCRecordedAt == [f \in Facts |-> IF f = f1 THEN 0 ELSE 1]
MCValidFrom == [f \in Facts |-> 0]
MCValidUntil == [f \in Facts |-> IF f = f1 THEN None ELSE 2]
MCSubject == [f \in Facts |-> "subject"]
MCValue == [f \in Facts |-> f]
MCParent == [d \in Decisions |-> IF d = d2 THEN d1 ELSE None]
MCTimestamp == [d \in Decisions |-> IF d = d2 THEN 1 ELSE 0]

\* The names of operations are interchangeable.
MCSymmetry == Permutations(Operations)

=============================================================================
