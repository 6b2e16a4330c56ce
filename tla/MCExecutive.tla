----------------------------- MODULE MCExecutive -----------------------------
(* Small instances of Executive. *)
EXTENDS Executive, TLC

Rule(effect, action, facts) == [head |-> <<effect, action>>, body |-> {<<f>> : f \in facts}]

Common ==
    {Rule("require", "VERIFY", {"high_stakes", "unverified"}),
     Rule("deny", "ANSWER", {"falsified"}),
     Rule("deny", "SEARCH_MORE", {"evidence_sufficient"}),
     Rule("deny", "RETRIEVE", {"retrieval_exhausted"}),
     Rule("deny", "VERIFY", {"verification_exhausted"})}

\* configs/v2b_i3_policy_v1.json, configs/v2b_i2_policy_v1.json, and a policy
\* whose second rule builds on the first and whose third on the proposal.
I3Policy == Common \cup {Rule("deny", "ANSWER", {"stale"}),
                         Rule("deny", "ANSWER", {"unresolved_conflict"}),
                         Rule("deny", "SEARCH_MORE", {"search_exhausted"})}
I2Policy == Common \cup {Rule("require", "VERIFY", {"stale"}),
                         Rule("require", "DEFER", {"unresolved_conflict"})}
Chained == {Rule("deny", "ANSWER", {"unverified"}),
            [head |-> <<"deny", "DEFER">>, body |-> {<<"deny", "ANSWER">>}],
            [head |-> <<"require", "VERIFY">>, body |-> {<<"proposed", "STOP">>, <<"unverified">>}]}
MCPolicies == {I3Policy, I2Policy, Chained}

Evidence(v, t, c, done) ==
    [verification |-> v, temporal |-> t, conflict |-> c, composition |-> done,
     provenance |-> 1, resolvable |-> FALSE, outcomes |-> <<>>,
     retrieved |-> FALSE, searched |-> FALSE]
Nothing == [a \in Actions |-> <<>>]
Always(set) == <<[when |-> <<>>, contains |-> {}, lacks |-> {}, set |-> set, append |-> <<>>,
                  once |-> FALSE]>>
Budget(s, r, v, m, u, ms) ==
    [steps |-> s, retrieval |-> r, verification |-> v, search |-> m, reasoning |-> u,
     elapsed |-> ms]

\* i3_verification_required, i3_stale with a conflict, i3_composition after a
\* retrieval that fails once, and one whose verification decides nothing.
MCTasks ==
    {[stakes |-> TRUE, expected |-> "ANSWER", required |-> 0,
      evidence |-> Evidence("UNVERIFIED", "CURRENT", FALSE, TRUE),
      effects |-> [Nothing EXCEPT !["VERIFY"] = Always([verification |-> "SUFFICIENT"])],
      budget |-> Budget(3, 1, 1, 1, 0, 30)],
     [stakes |-> FALSE, expected |-> "DEFER", required |-> 2,
      evidence |-> Evidence("STALE", "STALE", TRUE, TRUE),
      effects |-> [Nothing EXCEPT
                     !["VERIFY"] = Always([verification |-> "SUFFICIENT", temporal |-> "CURRENT"]),
                     !["SEARCH_MORE"] = Always([resolvable |-> "True", provenance |-> 2])],
      budget |-> Budget(4, 0, 1, 1, 2, 17)],
     [stakes |-> FALSE, expected |-> "ANSWER", required |-> 1,
      evidence |-> Evidence("MISSING", "CURRENT", FALSE, FALSE),
      effects |-> [Nothing EXCEPT
                     !["RETRIEVE"] =
                        <<[when |-> <<>>, contains |-> {"FAILED"}, lacks |-> {},
                           set |-> [verification |-> "SUFFICIENT"], append |-> <<>>, once |-> FALSE],
                          [when |-> [retrieved |-> TRUE], contains |-> {}, lacks |-> {"FAILED"},
                           set |-> [verification |-> "FALSIFIED"], append |-> <<"FAILED">>,
                           once |-> FALSE]>>,
                     !["REASON_MORE"] =
                        <<[when |-> <<>>, contains |-> {}, lacks |-> {},
                           set |-> [composition |-> "true"], append |-> <<"FAILED">>,
                           once |-> TRUE]>>],
      budget |-> Budget(4, 2, 0, 0, 1, 40)],
     [stakes |-> TRUE, expected |-> "DEFER", required |-> 0,
      evidence |-> Evidence("UNVERIFIED", "CURRENT", FALSE, TRUE),
      effects |-> Nothing,
      budget |-> Budget(3, 0, 1, 0, 1, 30)]}

\* configs/v2b_i3_1_utility_v1.json
MCUtility ==
    [correct_answer |-> 10000, incorrect_answer |-> -12000,
     correct_defer |-> 7000, incorrect_defer |-> -3000,
     correct_stop |-> 0, incorrect_stop |-> -3000,
     step |-> 10, retrieval |-> 200, verification |-> 300, search |-> 200,
     reasoning |-> 200, ms |-> 1]

=============================================================================
