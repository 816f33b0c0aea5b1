---------------------------- MODULE AgentRuntime ----------------------------
(***************************************************************************)
(* A workflow run from submit() to its recorded result: the graph of       *)
(* graph/workflow.py, the tool gateway's receipt, LangGraph's durable      *)
(* checkpoint, and the runtime that starts, resumes and records runs       *)
(* (application/runtime.py).                                               *)
(*                                                                         *)
(* The callers of PolicyService are here the processes that run the graph: *)
(* the Telegram bot and one process per CLI command, all over the same     *)
(* database.  proc[p] is the graph state in the memory of process p; it is *)
(* lost when p stops.  ckpt[r] is the last checkpoint of run r that is on  *)
(* disk: LangGraph writes checkpoints behind the running graph and waits   *)
(* for them only before ainvoke() returns, so ckpt may lag behind proc.    *)
(***************************************************************************)
EXTENDS PolicyService

CONSTANTS
  Runs,        \* workflow run ids
  NoRun,       \* no run
  RunOf,       \* the run in which the coordinator proposes an action
  RunSession,  \* the session of a run
  Faults,      \* which of "crash", "cancel" and "error" may happen
  MaxEffects   \* bound on the number of effects of one run

ASSUME RuntimeAssumption ==
  /\ NoRun \notin Runs
  /\ RunOf \in [Actions -> Runs]
  /\ RunSession \in [Runs -> Sessions]
  /\ \A a \in Actions : SessionOf[a] = RunSession[RunOf[a]]
  /\ MaxEffects \in Nat

VARIABLES
  run,       \* table workflow_runs: the status of each run
  ckpt,      \* table checkpoints: the latest durable checkpoint of each run
  proc,      \* what each process is doing
  started,   \* actions with a tool.started audit event
  executed,  \* for each run, the actions whose effect an adapter brought about
  receipts,  \* table tool_operation_receipts: the outcome filed for each run
  answered   \* runs with an ASSISTANT message in conversation_messages

agentVars == <<run, ckpt, proc, started, executed, receipts, answered>>
vars == <<policyVars, agentVars>>

---------------------------------------------------------------------------
RunStatuses == {"absent", "pending", "paused", "succeeded", "failed", "cancelled"}

GraphNodes ==
  {"coordinate", "policy", "approval", "execute", "verify", "respond", "denied", "end"}

\* "adapter" and "receipt" are the later steps of ToolGateway.execute inside the
\* execute node; "interrupt" is the approval node after it has called interrupt().
ProcNodes == GraphNodes \cup {"idle", "adapter", "receipt", "interrupt"}

ToolOutcomes == {"succeeded", "partial", "failed"}

Outcomes == ToolOutcomes \cup {"none", "completed", "denied"}

Checkpoint ==
  [next : GraphNodes \cup {"none"}, action : Actions \cup {NoAction}, outcome : Outcomes]

Process ==
  [node : ProcNodes,
   run : Runs \cup {NoRun},
   action : Actions \cup {NoAction},
   resume : {"none", "yes", "no"},
   outcome : Outcomes,
   saved : BOOLEAN]

\* The tables, checkpoints and processes keep their shape, and a process works on a run
\* exactly while it is not idle.
AgentTypeOK ==
  /\ run \in [Runs -> RunStatuses]
  /\ ckpt \in [Runs -> Checkpoint]
  /\ proc \in [Callers -> Process]
  /\ \A p \in Callers : proc[p].node # "idle" => proc[p].run \in Runs
  /\ started \subseteq Actions
  /\ executed \in [Runs -> Seq(Actions)]
  /\ receipts \in [Runs -> ToolOutcomes \cup {"none"}]
  /\ answered \subseteq Runs

---------------------------------------------------------------------------
IdleProcess ==
  [node |-> "idle", run |-> NoRun, action |-> NoAction, resume |-> "none",
   outcome |-> "none", saved |-> FALSE]

AgentInit ==
  /\ PolicyInit
  /\ run = [r \in Runs |-> "absent"]
  /\ ckpt = [r \in Runs |-> [next |-> "none", action |-> NoAction, outcome |-> "none"]]
  /\ proc = [p \in Callers |-> IdleProcess]
  /\ started = {}
  /\ executed = [r \in Runs |-> <<>>]
  /\ receipts = [r \in Runs |-> "none"]
  /\ answered = {}

At(p, node) == proc[p].node = node

Busy(p) == proc[p].node # "idle"

\* Process p goes on to the next superstep, whose checkpoint is not on disk yet.
Goto(p, node) == proc' = [proc EXCEPT ![p] = [@ EXCEPT !.node = node, !.saved = FALSE]]

Conclude(p, node, outcome) ==
  proc' = [proc EXCEPT ![p] =
    [@ EXCEPT !.node = node, !.outcome = outcome, !.saved = FALSE]]

\* Process p goes on within a node.
Within(p, node, outcome) ==
  proc' = [proc EXCEPT ![p] = [@ EXCEPT !.node = node, !.outcome = outcome]]

\* The operation of process p is over: it returned, raised or died.
Stop(p) == proc' = [proc EXCEPT ![p] = IdleProcess]

---------------------------------------------------------------------------
\* submit: the session only has to exist; its expiry is the policy's business.
Submit(p, r) ==
  /\ At(p, "idle")
  /\ run[r] = "absent"
  /\ session[RunSession[r]].status # "none"
  /\ run' = [run EXCEPT ![r] = "pending"]
  /\ proc' = [proc EXCEPT ![p] = [IdleProcess EXCEPT !.node = "coordinate", !.run = r]]
  /\ UNCHANGED <<ckpt, started, executed, receipts, answered, policyVars>>

\* Faulty variant: a graph that has ended starts again with its prompt.
ResumeAfresh(p, r, answer) ==
  /\ At(p, "idle")
  /\ ckpt[r].next # "none"
  /\ proc' = [proc EXCEPT ![p] =
       IF ckpt[r].next = "end"
       THEN [IdleProcess EXCEPT !.node = "coordinate", !.run = r]
       ELSE [node |-> ckpt[r].next, run |-> r, action |-> ckpt[r].action,
             resume |-> IF ckpt[r].next = "approval" THEN answer ELSE "none",
             outcome |-> ckpt[r].outcome, saved |-> TRUE]]
  /\ UNCHANGED <<run, ckpt, started, executed, receipts, answered, policyVars>>

\* resume (personal-agent approve and deny, the chat's prompt, Telegram's buttons): the
\* run's status is not consulted.  The graph starts again at the node after the latest
\* checkpoint; the human's answer reaches only an approval node that is next.
Resume(p, r, answer) ==
  /\ At(p, "idle")
  /\ ckpt[r].next # "none"
  /\ proc' = [proc EXCEPT ![p] =
       [node |-> ckpt[r].next, run |-> r, action |-> ckpt[r].action,
        resume |-> IF ckpt[r].next = "approval" THEN answer ELSE "none",
        outcome |-> ckpt[r].outcome, saved |-> TRUE]]
  /\ UNCHANGED <<run, ckpt, started, executed, receipts, answered, policyVars>>

\* The graph node a process would have to enter again.
GraphNode(node) ==
  IF node \in {"adapter", "receipt"} THEN "execute"
  ELSE IF node = "interrupt" THEN "approval" ELSE node

\* A checkpoint reaches the disk.
SaveCheckpoint(p) ==
  /\ Busy(p)
  /\ ~proc[p].saved
  /\ ckpt' = [ckpt EXCEPT ![proc[p].run] =
       [next |-> GraphNode(proc[p].node), action |-> proc[p].action,
        outcome |-> proc[p].outcome]]
  /\ proc' = [proc EXCEPT ![p] = [@ EXCEPT !.saved = TRUE]]
  /\ UNCHANGED <<run, started, executed, receipts, answered, policyVars>>

---------------------------------------------------------------------------
\* The coordinate node: the model proposes one action of this run, or only an answer
\* (also when a workspace is required and none is active).
Coordinate(p) ==
  /\ At(p, "coordinate")
  /\ \/ \E a \in Actions :
          /\ RunOf[a] = proc[p].run
          /\ proc' = [proc EXCEPT ![p] =
               [@ EXCEPT !.node = "policy", !.action = a, !.saved = FALSE]]
     \/ Goto(p, "respond")
  /\ UNCHANGED <<run, ckpt, started, executed, receipts, answered, policyVars>>

\* The respond and denied nodes.
Conclusion(p) ==
  /\ \/ At(p, "respond") /\ Conclude(p, "end", "completed")
     \/ At(p, "denied") /\ Conclude(p, "end", "denied")
  /\ UNCHANGED <<run, ckpt, started, executed, receipts, answered, policyVars>>

\* The policy node calls authorize().
EvaluatePolicy(p) ==
  /\ At(p, "policy")
  /\ BeginAuthorize(p, proc[p].action)
  /\ UNCHANGED agentVars

\* Faulty variant: only a denial keeps an action from the tool.
RouteUnlessDenied(result) == IF result = "deny" THEN "denied" ELSE "execute"

RouteAfterPolicy(result) ==
  CASE result = "allow" -> "execute"
    [] result = "require_approval" -> "approval"
    [] OTHER -> "denied"

\* route_after_policy; an IntegrityError from the insert escapes from ainvoke().
PolicyReturn(p) ==
  /\ At(p, "policy")
  /\ Return(p)
  /\ IF call[p].result = "integrity_error"
     THEN Stop(p)
     ELSE Goto(p, RouteAfterPolicy(call[p].result))
  /\ UNCHANGED <<run, ckpt, started, executed, receipts, answered>>

\* The approval node without an answer: interrupt() ends the invocation.
Interrupt(p) ==
  /\ At(p, "approval")
  /\ proc[p].resume = "none"
  /\ Within(p, "interrupt", "none")
  /\ UNCHANGED <<run, ckpt, started, executed, receipts, answered, policyVars>>

\* The approval node with an answer calls approve() or deny().
Decide(p) ==
  /\ At(p, "approval")
  /\ \/ proc[p].resume = "yes" /\ BeginApprove(p, ActionId[proc[p].action])
     \/ proc[p].resume = "no" /\ BeginDeny(p, ActionId[proc[p].action])
  /\ UNCHANGED agentVars

\* An expired, contradicted or unknown request raises out of ainvoke().
DecisionReturn(p) ==
  /\ At(p, "approval")
  /\ Return(p)
  /\ \/ call[p].result = "approved" /\ Goto(p, "execute")
     \/ call[p].result = "denied" /\ Goto(p, "denied")
     \/ call[p].result \notin {"approved", "denied"} /\ Stop(p)
  /\ UNCHANGED <<run, ckpt, started, executed, receipts, answered>>

---------------------------------------------------------------------------
\* ToolGateway.execute: tool.started is committed before the adapter is called.
StartTool(p) ==
  /\ At(p, "execute")
  /\ started' = started \cup {proc[p].action}
  /\ Within(p, "adapter", "none")
  /\ UNCHANGED <<run, ckpt, executed, receipts, answered, policyVars>>

\* ToolGateway.execute: no adapter is registered under the tool's name.
ToolMissing(p) ==
  /\ At(p, "execute")
  /\ Within(p, "receipt", "failed")
  /\ UNCHANGED <<run, ckpt, started, executed, receipts, answered, policyVars>>

\* The adapter.  A failure it reports, or an exception it raises, says nothing of the
\* effect: "partial" is a failure whose adapter observed an effect.
RunTool(p) ==
  LET r == proc[p].run IN
  /\ At(p, "adapter")
  /\ Len(executed[r]) < MaxEffects
  /\ \/ executed' = [executed EXCEPT ![r] = Append(@, proc[p].action)]
        /\ \E outcome \in ToolOutcomes : Within(p, "receipt", outcome)
     \/ UNCHANGED executed /\ Within(p, "receipt", "failed")
  /\ UNCHANGED <<run, ckpt, started, receipts, answered, policyVars>>

\* Faulty variant: a run's receipt is overwritten.
ReplaceReceipt(p) ==
  /\ At(p, "receipt")
  /\ receipts' = [receipts EXCEPT ![proc[p].run] = proc[p].outcome]
  /\ Goto(p, "verify")
  /\ UNCHANGED <<run, ckpt, started, executed, answered, policyVars>>

\* _persist_result: one receipt per run; a second one is an IntegrityError.
PersistResult(p) ==
  LET r == proc[p].run IN
  /\ At(p, "receipt")
  /\ \/ /\ receipts[r] = "none"
        /\ receipts' = [receipts EXCEPT ![r] = proc[p].outcome]
        /\ Goto(p, "verify")
     \/ /\ receipts[r] # "none"
        /\ UNCHANGED receipts
        /\ Stop(p)
  /\ UNCHANGED <<run, ckpt, started, executed, answered, policyVars>>

\* Faulty variant: a partial effect is good enough.
LenientVerdicts(outcome) == IF outcome = "failed" THEN {"failed"} ELSE {"completed", "failed"}

\* The verifier may turn a success down, never a failure into a success.
Verdicts(outcome) == IF outcome = "succeeded" THEN {"completed", "failed"} ELSE {"failed"}

VerifyResult(p) ==
  /\ At(p, "verify")
  /\ \E verdict \in Verdicts(proc[p].outcome) : Conclude(p, "end", verdict)
  /\ UNCHANGED <<run, ckpt, started, executed, receipts, answered, policyVars>>

---------------------------------------------------------------------------
\* Faulty variant: the graph's own status word is stored.
GraphStatusVerbatim(p) == IF At(p, "interrupt") THEN "paused" ELSE proc[p].outcome

GraphStatus(p) ==
  IF At(p, "interrupt") THEN "paused"
  ELSE IF proc[p].outcome = "failed" THEN "failed" ELSE "succeeded"

\* Faulty variant: an interrupted graph counts as an answer.
AnswersAlways(p) == TRUE

GraphAnswers(p) == At(p, "end")

\* Faulty variant: only a finished graph is recorded.
RecordFinished(p) ==
  LET r == proc[p].run IN
  /\ At(p, "end")
  /\ proc[p].saved
  /\ run' = [run EXCEPT ![r] = GraphStatus(p)]
  /\ answered' = answered \cup {r}
  /\ Stop(p)
  /\ UNCHANGED <<ckpt, started, executed, receipts, policyVars>>

\* _record_graph_result, after ainvoke() has waited for the checkpoint.
RecordResult(p) ==
  LET r == proc[p].run IN
  /\ At(p, "interrupt") \/ At(p, "end")
  /\ proc[p].saved
  /\ run' = [run EXCEPT ![r] = GraphStatus(p)]
  /\ answered' = IF GraphAnswers(p) THEN answered \cup {r} ELSE answered
  /\ Stop(p)
  /\ UNCHANGED <<ckpt, started, executed, receipts, policyVars>>

\* What a stopping process does to its policy call: the transaction rolls back.
DropCall(p) == IF call[p].step = "idle" THEN UNCHANGED policyVars ELSE AbandonCall(p)

\* The model provider fails: the exception escapes, the run keeps its status.
ModelError(p) ==
  /\ "error" \in Faults
  /\ At(p, "coordinate") \/ At(p, "verify")
  /\ Stop(p)
  /\ UNCHANGED <<run, ckpt, started, executed, receipts, answered, policyVars>>

\* The invocation is cancelled (Ctrl-C, bot shutdown): _record_cancelled.
Cancel(p) ==
  /\ "cancel" \in Faults
  /\ Busy(p)
  /\ run' = [run EXCEPT ![proc[p].run] = "cancelled"]
  /\ Stop(p)
  /\ DropCall(p)
  /\ UNCHANGED <<ckpt, started, executed, receipts, answered>>

\* The process dies.
Crash(p) ==
  /\ "crash" \in Faults
  /\ Busy(p)
  /\ Stop(p)
  /\ DropCall(p)
  /\ UNCHANGED <<run, ckpt, started, executed, receipts, answered>>

---------------------------------------------------------------------------
PolicyCall(p) == CallStep(p) /\ UNCHANGED agentVars

\* One step of the operation process p is in.
AgentStep(p) ==
  \/ SaveCheckpoint(p)
  \/ Coordinate(p)
  \/ Conclusion(p)
  \/ EvaluatePolicy(p)
  \/ PolicyCall(p)
  \/ PolicyReturn(p)
  \/ Interrupt(p)
  \/ Decide(p)
  \/ DecisionReturn(p)
  \/ StartTool(p)
  \/ ToolMissing(p)
  \/ RunTool(p)
  \/ PersistResult(p)
  \/ VerifyResult(p)
  \/ RecordResult(p)

Failure(p) == ModelError(p) \/ Cancel(p) \/ Crash(p)

Command(p) ==
  \E r \in Runs : Submit(p, r) \/ \E answer \in {"yes", "no"} : Resume(p, r, answer)

AgentNext ==
  \/ Administer /\ UNCHANGED agentVars
  \/ \E p \in Callers : Command(p) \/ AgentStep(p) \/ Failure(p)

AgentSpec == AgentInit /\ [][AgentNext]_vars

\* The event loop runs a ready coroutine sooner or later; nobody has to give a command.
FairAgentSpec == AgentSpec /\ \A p \in Callers : WF_vars(AgentStep(p))

---------------------------------------------------------------------------
\* What entitles the gateway to run an action: it is a read, a human approved the
\* request filed under its id, or a human approved a write in the same session whose
\* grant covers it.
Authorized(a) ==
  \/ Risk[a] = "read"
  \/ Audited("approval.approved", ActionId[a])
  \/ \E i \in DOMAIN grants :
       /\ Audited("approval.approved", ActionId[grants[i].action])
       /\ SessionOf[grants[i].action] = SessionOf[a]
       /\ Risk[a] = "write"
       /\ GrantMatches(grants[i], a)

\* No effect without authority and an audit trail: every action an adapter carried out
\* belongs to the run, was announced in the audit log, and was authorized -- whatever
\* the processes interleave, crash, or resume from an old checkpoint.
EffectsAuthorized ==
  \A r \in Runs : \A i \in DOMAIN executed[r] :
    LET a == executed[r][i] IN
    /\ RunOf[a] = r
    /\ a \in started
    /\ Authorized(a)

\* The verifier works on the outcome that was filed, and a run that used a tool ends as
\* completed only over a receipt of success: two processes on one run cannot report an
\* outcome that lost the race for the receipt.
ClaimsHaveReceipts ==
  /\ \A p \in Callers : At(p, "verify") => receipts[proc[p].run] = proc[p].outcome
  /\ \A r \in Runs :
       /\ ckpt[r].next = "verify" => receipts[r] = ckpt[r].outcome
       /\ /\ ckpt[r].next = "end" /\ ckpt[r].outcome = "completed"
          /\ ckpt[r].action # NoAction
          => receipts[r] = "succeeded"

\* A run that waits for a human waits on a request that is on file, so its approval or
\* denial never fails as "missing".
ApprovalsAreFiled ==
  /\ \A r \in Runs : ckpt[r].next = "approval" =>
       request[ActionId[ckpt[r].action]].status # "none"
  /\ \A p \in Callers : call[p].result # "missing"

\* With one process, nothing is carried out whose own request stands denied, not even
\* after a crash between the denial and its checkpoint.
NoEffectAfterDenial ==
  [][\A r \in Runs : executed'[r] # executed[r] =>
       request[ActionId[executed'[r][Len(executed'[r])]]].status # "denied"]_vars

\* A recorded outcome is never turned into another one, nor into a pause, by a later resume;
\* only a resume that is cancelled takes it back.
OutcomeIsFinal ==
  [][\A r \in Runs :
       run[r] \in {"succeeded", "failed"} => run'[r] \in {run[r], "cancelled"}]_vars

\* A run makes a turn of the conversation only when its graph has ended, and from then on
\* its status is the one its checkpoint stands for, or "cancelled".  So a paused run never
\* has an answer, and a cancelled one only if it had already answered: it was resumed at
\* its end and cancelled there.  (architecture.md says of cancelled runs that they never
\* become turns; this is what is true of it.)
AnsweredRunsHaveEnded ==
  \A r \in answered :
    /\ ckpt[r].next = "end"
    /\ run[r] \in {IF ckpt[r].outcome = "failed" THEN "failed" ELSE "succeeded", "cancelled"}

\* "A paused run resumes from its persisted checkpoint without repeating a completed
\* effect": once a receipt says the effect is complete, no adapter runs for that run.
CompletedEffectNotRepeated ==
  [][\A r \in Runs : executed'[r] # executed[r] => receipts[r] # "succeeded"]_vars

\* Without failures a run has one effect at most, however often it is resumed.
AtMostOneEffect == \A r \in Runs : Len(executed[r]) <= 1

\* Without failures a submitted run is eventually paused or finished.
EveryRunSettles == \A r \in Runs : run[r] = "pending" ~> run[r] # "pending"
=============================================================================
