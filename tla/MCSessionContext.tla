-------------------------- MODULE MCSessionContext --------------------------
(***************************************************************************)
(* Instance of SessionContext: a short and a long prompt, blank and short  *)
(* replies.  Under the first limits the long turn never fits, though an    *)
(* older one would; under the second both fit, and one may be chosen.      *)
(***************************************************************************)
EXTENDS SessionContext, TLC

MCPromptSize == [r \in Runs |-> IF r = "r2" THEN 6 ELSE 1]

MCLimits == {[turns |-> 2, chars |-> 6], [turns |-> 1, chars |-> 9]}

\* The conversation and the workspace of a session are large side by side.  Both are
\* explored in full as long as no run has replied or the session has no workspace, and
\* with one process at a time in any session.
SessionBound ==
  \/ replied = {}
  \/ active = NoWorkspace /\ directories = Repositories
  \/ \A p, q \in Processes : p = q \/ At(p, "idle") \/ At(q, "idle")

SessionSymmetry == Permutations(Processes)
=============================================================================
