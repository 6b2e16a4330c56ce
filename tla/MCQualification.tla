--------------------------- MODULE MCQualification ---------------------------
(* Small instances of Qualification. *)
EXTENDS Qualification, TLC

\* 1 is followed by 2, whose pipeline is another, and on another branch by 3,
\* whose protocol is another.
MCCommits == 1 .. 3
MCAncestors == {<<1, 2>>, <<1, 3>>}
MCKey == <<1, 2, 1>>
MCProtocol == <<1, 1, 2>>

MCPrimary == <<"C4_0", "C4_4">>
MCDiagnostic == <<"C4_4m">>
MCTasks == 1 .. 2

=============================================================================
