-------------------------- MODULE MCPolicyService --------------------------
(***************************************************************************)
(* The instance of PolicyService: one session in which a write to every    *)
(* resource, a risky action on one of them and a read are proposed.        *)
(***************************************************************************)
EXTENDS PolicyService, TLC

MCSessionOf == [a \in Actions |-> "s1"]

MCRisk == [a \in Actions |->
  IF a = "glob" THEN "write" ELSE IF a = "risky" THEN "risky" ELSE "read"]

MCOperation == [a \in Actions |-> "write_file"]

MCResource == [a \in Actions |-> IF a = "glob" THEN "*" ELSE "note"]

MCActionId == [a \in Actions |-> a]

\* fnmatchcase(resource, pattern): "*" covers both, a name only itself.
MCGlobMatch == {<<"*", "*">>, <<"note", "*">>, <<"note", "note">>}

\* Callers are interchangeable: no definition names one.
CallerSymmetry == Permutations(Callers)
=============================================================================
