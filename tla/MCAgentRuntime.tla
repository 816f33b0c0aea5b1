--------------------------- MODULE MCAgentRuntime ---------------------------
(***************************************************************************)
(* Instances of AgentRuntime.  Run r1 may propose a write to every         *)
(* resource or a risky action, run r2 of the same session a write that the *)
(* first one's grant covers.                                               *)
(***************************************************************************)
EXTENDS AgentRuntime, TLC

MCRunOf == [a \in Actions |-> IF a = "note" THEN "r2" ELSE "r1"]

MCRunSession == [r \in Runs |-> "s1"]

MCSessionOf == [a \in Actions |-> "s1"]

MCRisk == [a \in Actions |-> IF a = "risky" THEN "risky" ELSE "write"]

MCOperation == [a \in Actions |-> "write_file"]

MCResource == [a \in Actions |-> IF a = "glob" THEN "*" ELSE "note"]

MCGlobMatch == {<<"*", "*">>, <<"note", "*">>, <<"note", "note">>}

MCActionId == [a \in Actions |-> a]

ProcessSymmetry == Permutations(Callers)
=============================================================================
