------------------------ MODULE MCExternalVerification ------------------------
(* Small instances of ExternalVerification: jobs p and q, q about another      *)
(* claim, may bring the same capture e1.                                       *)
EXTENDS ExternalVerification

CONSTANTS p, q, e1, e2, cp, cq

MCClaimOf == [j \in Jobs |-> IF j = p THEN cp ELSE cq]
MCRank == [j \in Jobs |-> IF j = p THEN 1 ELSE 2]
MCResult == [j \in Jobs |-> [e \in Captures |-> IF e = e1 THEN "SUPPORTED" ELSE "FALSIFIED"]]

\* The source of p changes between two acquisitions; that of q may be down or
\* answer in the wrong encoding now and then.
MCOutcomes == [j \in Jobs |-> IF j = p THEN {e1, e2} ELSE {e1, "FAILED", "UNDECODABLE"}]

=============================================================================
