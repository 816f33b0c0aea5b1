--------------------------------- MODULE Turn ---------------------------------
(***************************************************************************)
(* One turn of the conversation from the prompt to the reply: the          *)
(* coordinator proposes an action over its route (CoordinatorRoute), the   *)
(* authorised action runs (ToolExecution), its result is verified, and     *)
(* research is composed into an answer over the route once more            *)
(* (graph/workflow.py and tools/verification.py).                          *)
(*                                                                         *)
(* Policy and approval stand between the two in AgentRuntime; here an      *)
(* action that is not allowed ends the turn.                               *)
(***************************************************************************)
EXTENDS CoordinatorRoute, ToolExecution

CONSTANT Foreign  \* a citation that names no source

\* The process of a turn has a coordinator of its own.
ASSUME TurnAssumption == Turns \subseteq Callers

VARIABLE reply  \* per turn: how it ended, and what it cites

turnVars == <<routeVars, toolVars, reply>>

Reply ==
  [status : {"none", "answered", "completed", "failed", "raised", "cancelled"},
   cited : SUBSET (Sources \cup {Foreign})]

NoReply == [status |-> "none", cited |-> {}]

\* The parts keep their shape, and a turn whose tool works or whose call is open has no
\* reply yet.
TurnTypeOK ==
  /\ RouteTypeOK
  /\ ToolTypeOK
  /\ reply \in [Turns -> Reply]
  /\ \A t \in Turns :
       (Asking(t) \/ work[t].step \notin {"idle", "done", "cancelled"}) =>
         reply[t].status = "none"

TurnInit == RouteInit /\ ToolInit /\ reply = [t \in Turns |-> NoReply]

Pending(t) == reply[t].status = "none"

Replies(t, status, cited) ==
  reply' = [reply EXCEPT ![t] = [status |-> status, cited |-> cited]]

Holds(t, op, outcome) == call[t].op = op /\ call[t].outcome = outcome

---------------------------------------------------------------------------
\* coordinate: decide() is called with the prompt, history and workspace of the run.
Decide(t) ==
  /\ Pending(t)
  /\ Holds(t, "none", "none")
  /\ \E prompt \in Prompts : Ask(t, "decide", prompt)
  /\ UNCHANGED <<toolVars, reply>>

\* The decision holds no action, or one without a workspace to work in, or the policy or
\* a human refuses it: the message alone is the reply.
Respond(t) ==
  /\ Pending(t)
  /\ Holds(t, "decide", "answer")
  /\ At(t, "idle")
  /\ Replies(t, "answered", {})
  /\ UNCHANGED <<routeVars, toolVars>>

\* execute_tool: the action is authorised and handed to the gateway.
Execute(t) ==
  /\ Pending(t)
  /\ Holds(t, "decide", "answer")
  /\ \E action \in Actions : Take(t, action)
  /\ UNCHANGED <<routeVars, reply>>

\* Faulty variant: the reply to every successful action is composed.
VerifyByComposing(t) ==
  /\ Pending(t)
  /\ Holds(t, "decide", "answer")
  /\ At(t, "done")
  /\ IF receipts[t].outcome = "succeeded"
     THEN Ask(t, "compose", call[t].prompt) /\ UNCHANGED reply
     ELSE Replies(t, "failed", {}) /\ UNCHANGED routeVars
  /\ UNCHANGED toolVars

\* verify_tool_result: a failed result is reported as failed, a successful one by what the
\* adapter returned; only research goes back to the coordinator.
Verify(t) ==
  /\ Pending(t)
  /\ Holds(t, "decide", "answer")
  /\ At(t, "done")
  /\ IF receipts[t].outcome = "succeeded" /\ Does(t, "search")
     THEN (\E prompt \in Prompts : Ask(t, "compose", prompt)) /\ UNCHANGED reply
     ELSE /\ Replies(t, IF receipts[t].outcome = "succeeded" THEN "completed" ELSE "failed", {})
          /\ UNCHANGED routeVars
  /\ UNCHANGED toolVars

\* Faulty variant: no citation is a valid citation.
CiteUnchecked(t) ==
  /\ Pending(t)
  /\ Holds(t, "compose", "answer")
  /\ \E cited \in SUBSET (receipts[t].ids \cup {Foreign}) :
       Replies(t, IF cited \subseteq receipts[t].ids THEN "completed" ELSE "failed", cited)
  /\ UNCHANGED <<routeVars, toolVars>>

\* _verify_research: the grounded answer must cite sources, and only ones retrieved.
Cite(t) ==
  /\ Pending(t)
  /\ Holds(t, "compose", "answer")
  /\ \E cited \in SUBSET (receipts[t].ids \cup {Foreign}) :
       Replies(t,
         IF cited # {} /\ cited \subseteq receipts[t].ids THEN "completed" ELSE "failed",
         cited)
  /\ UNCHANGED <<routeVars, toolVars>>

\* The coordinator's error leaves the graph and ends the turn.
Raise(t) ==
  /\ Pending(t)
  /\ Failed(t)
  /\ Replies(t, "raised", {})
  /\ UNCHANGED <<routeVars, toolVars>>

\* The invocation is cancelled, in the coordinator or in the tool.
Cancel(t) ==
  /\ Pending(t)
  /\ \/ Abandon(t) /\ UNCHANGED toolVars
     \/ CancelTool(t) /\ UNCHANGED routeVars
  /\ Replies(t, "cancelled", {})

---------------------------------------------------------------------------
Turning(t) ==
  \/ Decide(t) \/ Respond(t) \/ Execute(t) \/ Verify(t) \/ Cite(t) \/ Raise(t)
  \/ RouteStep(t) /\ UNCHANGED <<toolVars, reply>>
  \/ Adapter(t) /\ UNCHANGED <<routeVars, reply>>

TurnNext ==
  \/ \E t \in Turns :
       \/ Turning(t)
       \/ Cancel(t)
       \/ Start(t) /\ UNCHANGED <<toolVars, reply>>
  \/ Environment /\ UNCHANGED <<routeVars, reply>>

TurnSpec == TurnInit /\ [][TurnNext]_turnVars

---------------------------------------------------------------------------
\* A turn the user sees fail with an error of the coordinator has had no effect: nothing
\* is written, made, started or sent for it, though the coordinator is called again after
\* a tool has run.
RaisedTurnsHadNoEffect ==
  \A t \in Turns : reply[t].status = "raised" => ~Affected(t)

\* A turn reported as completed has a successful receipt, and an answer from research
\* cites at least one source and none that was not retrieved.
CompletedIsVerified ==
  \A t \in Turns : reply[t].status = "completed" =>
    /\ receipts[t].outcome = "succeeded"
    /\ Does(t, "search") => reply[t].cited # {} /\ reply[t].cited \subseteq receipts[t].ids
=============================================================================
