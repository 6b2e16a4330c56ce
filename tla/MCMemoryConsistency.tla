------------------------- MODULE MCMemoryConsistency -------------------------
(* Small instances of MemoryConsistency: claims a1, a2 give entity e the value *)
(* x, claims b1, b2 the value y; n1 and n2 say, in two records, that f is an   *)
(* alias of e, and f1 gives f the value y.                                     *)
EXTENDS MemoryConsistency

CONSTANTS a1, a2, b1, b2, n1, n2, f1

MCEntity == [c \in Claims |-> IF c \in {f1, n1, n2} THEN "f" ELSE "e"]
MCRelation == [c \in Claims |-> IF c \in {n1, n2} THEN "alias_of" ELSE "r"]
MCClaimKey == [c \in Claims |-> <<MCEntity[c], MCRelation[c]>>]
MCValue == [c \in Claims |-> CASE c \in {a1, a2} -> "x"
                               [] c \in {b1, b2, f1} -> "y"
                               [] c \in {n1, n2} -> "e"]
MCContent == [c \in Claims |-> <<MCEntity[c], MCRelation[c], MCValue[c]>>]
MCSource == [c \in Claims |-> CASE c \in {a1, n1} -> "s1" [] c \in {a2, f1} -> "s2"
                                [] c = b1 -> "s3" [] c \in {b2, n2} -> "s4"]
MCResults == {"SUPPORTED", "CONTRADICTED", "INCONCLUSIVE"}

\* An id is the content it addresses: a result and evidence that bears it out.
MCVerdicts ==
    {v \in [claim : Claims, evidence : SUBSET Claims, result : MCResults,
            retires : {None}, external : {FALSE}, job : {None}] :
        /\ v.evidence = {} <=> v.result = "INCONCLUSIVE"
        /\ \A d \in v.evidence : /\ MCClaimKey[d] = MCClaimKey[v.claim]
                                 /\ MCSource[d] # MCSource[v.claim]
                                 /\ MCValue[d] = MCValue[v.claim] <=> v.result = "SUPPORTED"}
MCVerdictOf == [v \in MCVerdicts |-> v]

=============================================================================
