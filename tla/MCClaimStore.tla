----------------------------- MODULE MCClaimStore -----------------------------
(* Small instances of ClaimStore. *)
EXTENDS ClaimStore, TLC

CONSTANTS a1, a2, a3, b1, ka, kb, v1, v2, v3, v4, j1

MCResults == {"SUPPORTED", "CONTRADICTED", "FALSIFIED", "INCONCLUSIVE"}

\* Records: a's make the same claim key, b1 another.
MCClaimKey == [c \in Claims |-> IF c = b1 THEN kb ELSE ka]

\* v1: a1 supported by a2.  v2: a1 contradicted by a3.  v3 is v1's checker
\* changing its mind: it retires v1.  v4 is external, on a1.
MCVerdictOf ==
    [v \in Verdicts |->
        CASE v = v1 -> [claim |-> a1, evidence |-> {a2}, result |-> "SUPPORTED",
                        retires |-> None, external |-> FALSE, job |-> None]
          [] v = v2 -> [claim |-> a1, evidence |-> {a2}, result |-> "CONTRADICTED",
                        retires |-> None, external |-> FALSE, job |-> None]
          [] v = v3 -> [claim |-> a1, evidence |-> {}, result |-> "INCONCLUSIVE",
                        retires |-> v1, external |-> FALSE, job |-> j1]
          [] v = v4 -> [claim |-> a2, evidence |-> {}, result |-> "FALSIFIED",
                        retires |-> None, external |-> TRUE, job |-> j1]]

=============================================================================
