---------------------------- MODULE MCWorkspaces ----------------------------
(* Model-checking instances of Workspaces.                                 *)
EXTENDS Workspaces

\* A parallel root with two branches, a stage of two below one of them.
Nested == <<<<2, 3>>, <<4, 5>>, <<>>, <<>>, <<>>>>

\* A change within the scope or outside of it; a change or none.
InOrOut == {{"in"}, {"out"}}
InOrNothing == {{}, {"in"}}

\* Two tasks of one node each in one repository.
TwoTasks == <<<<>>, <<>>>>
=============================================================================
