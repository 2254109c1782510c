----------------------------- MODULE MCPlanner -----------------------------
EXTENDS Planner, TLC

CONSTANTS n1, n2, n3

Tasks == {n1, n2, n3}

(* All graphs over the tasks; a task may also depend on itself, and on an   *)
(* id no task has.                                                          *)
AllGraphs == [Tasks -> SUBSET (Tasks \cup {Unknown})]

SomeScopes == {{}, {<<"a", "*">>}, {<<"a", "b">>, <<"b", "**">>}}
Symmetry == Permutations(Tasks)
=============================================================================
