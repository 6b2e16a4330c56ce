----------------------------- MODULE PolicyGate -----------------------------
(****************************************************************************)
(* The gate around an executive proposal: PolicyGate of                     *)
(* src/hrm_adaptive_memory/cognitive_control/core.py over the Datalog       *)
(* engine of datalog.py.  One task is in hand, so atoms are ground: <<p>>   *)
(* for a fact about it, <<p, action>> for proposed, deny and require.  The  *)
(* reasons of a rule are wording and left out.                              *)
(****************************************************************************)
EXTENDS Naturals, FiniteSets

CONSTANTS
    Policies,  \* each a set of rules [head, body]
    None

Terminal == {"ANSWER", "DEFER", "STOP"}
Actions == {"RETRIEVE", "VERIFY", "SEARCH_MORE", "REASON_MORE"} \cup Terminal

\* What the constructor refuses: another head, an unknown action, no body.
WellFormed(rules) ==
    \A r \in rules : r.head \in {"deny", "require"} \X Actions /\ r.body # {}

ASSUME PolicyConstants ==
    /\ None \notin Actions
    /\ \A rules \in Policies : IsFiniteSet(rules) /\ WellFormed(rules)

Consequences(rules, known) == {r.head : r \in {q \in rules : q.body \subseteq known}}

\* Mutant: a rule does not see what another concludes.
DeriveOnce(rules, facts) == facts \cup Consequences(rules, facts)

\* derive goes on while a round adds something: no longer than there are rules.
Derive(rules, facts) ==
    LET known[n \in 0 .. Cardinality(rules)] ==
            IF n = 0 THEN facts
            ELSE UNION {before \cup Consequences(rules, before) : before \in {known[n - 1]}}
    IN  known[Cardinality(rules)]

Required(derived) == {a \in Actions : <<"require", a>> \in derived}

\* A denial wins; requirements that disagree deny; one that is not what was
\* proposed replaces it, and is not itself held against the denials.
Evaluate(rules, facts, proposed) ==
    LET derived == Derive(rules, facts \cup {<<"proposed", proposed>>})
        required == Required(derived)
    IN  IF <<"deny", proposed>> \in derived \/ Cardinality(required) > 1
        THEN [effect |-> "DENY", action |-> None]
        ELSE IF required \subseteq {proposed}
        THEN [effect |-> "ALLOW", action |-> proposed]
        ELSE [effect |-> "REQUIRE", action |-> CHOOSE a \in required : TRUE]

\* The same without a procedure: atom is in every set of conclusions the rules
\* can add nothing to.
Concludes(rules, facts, atom) ==
    \A heads \in SUBSET {r.head : r \in rules} :
        Consequences(rules, facts \cup heads) \subseteq heads => atom \in facts \cup heads

=============================================================================
