------------------------ MODULE AgentRuntime_proofs ------------------------
(***************************************************************************)
(* Proofs about AgentRuntime, for any number of processes, runs, sessions  *)
(* and actions, with crashes, cancellations and provider errors; and, in   *)
(* the second half, what holds as long as one process works alone.         *)
(***************************************************************************)
EXTENDS AgentRuntime, PolicyService_proofs

---------------------------------------------------------------------------
(***************************************************************************)
(* The inductive invariant.  A position in the graph carries its authority *)
(* with it, in a process as in a checkpoint: only so can a run that        *)
(* resumes from the disk go on to its tool without asking again.  Position *)
(* and Link are constant operators, so that one lemma about what they      *)
(* depend on serves processes and checkpoints before and after a step.     *)
(***************************************************************************)
Cleared == {a \in Actions : Authorized(a)}

Filed == {a \in Actions : request[ActionId[a]].status # "none"}

Proposed ==
  {"policy", "approval", "interrupt", "execute", "adapter", "receipt", "verify", "denied"}

Position(node, r, a, outcome, cleared, filed, begun, filings) ==
  /\ node \in {"coordinate", "respond"} => a = NoAction
  /\ node \in Proposed => a \in Actions /\ RunOf[a] = r
  /\ node \in {"approval", "interrupt"} => a \in filed
  /\ node \in {"execute", "adapter", "receipt", "verify"} => a \in cleared
  /\ node = "adapter" => a \in begun
  /\ node = "receipt" => outcome \in ToolOutcomes
  /\ node = "verify" => outcome \in ToolOutcomes /\ filings[r] = outcome
  /\ node = "end" /\ outcome = "completed" /\ a # NoAction => filings[r] = "succeeded"

ProcessSound(p) ==
  Position(proc[p].node, proc[p].run, proc[p].action, proc[p].outcome,
           Cleared, Filed, started, receipts)

CheckpointSound(r) ==
  Position(ckpt[r].next, r, ckpt[r].action, ckpt[r].outcome,
           Cleared, Filed, started, receipts)

\* The policy call y of a process belongs to the action of its graph state x.
Link(x, y, filed, log) ==
  /\ y.step = "idle" => y.result = "none"
  /\ y.step # "idle" /\ x.node = "policy" =>
       /\ y.action = x.action
       /\ y.id = ActionId[x.action]
       /\ y.step \in {"lookup", "insert", "done"}
       /\ y.result \in {"none", "allow", "deny", "require_approval", "integrity_error"}
       /\ y.result = "require_approval" => x.action \in filed
  /\ y.step # "idle" /\ x.node # "policy" =>
       /\ x.node = "approval"
       /\ x.resume # "none"
       /\ y.id = ActionId[x.action]
       /\ y.step \in {"approve", "expire", "deny", "done"}
       /\ y.result \in {"none", "approved", "denied", "expired", "conflict"}
       /\ y.result = "approved" => <<"approval.approved", y.id>> \in log

CallLinked(p) == Link(proc[p], call[p], Filed, audit)

AgentInv ==
  /\ PolicyInv
  /\ AgentTypeOK
  /\ \A p \in Callers : ProcessSound(p)
  /\ \A r \in Runs : CheckpointSound(r)
  /\ \A p \in Callers : CallLinked(p)
  /\ EffectsAuthorized

AgentGrows ==
  /\ Grows
  /\ Cleared \subseteq Cleared'
  /\ Filed \subseteq Filed'
  /\ started \subseteq started'
  /\ \A r \in Runs : receipts[r] # "none" => receipts'[r] = receipts[r]

---------------------------------------------------------------------------
\* A sound position stays sound as authority, requests and receipts accumulate.
LEMMA PositionKept ==
  ASSUME NEW node, NEW r \in Runs, NEW a, NEW outcome,
         NEW C, NEW F, NEW S, NEW R, NEW C2, NEW F2, NEW S2, NEW R2,
         C \subseteq C2, F \subseteq F2, S \subseteq S2,
         R[r] # "none" => R2[r] = R[r],
         Position(node, r, a, outcome, C, F, S, R)
  PROVE  Position(node, r, a, outcome, C2, F2, S2, R2)
BY DEF Position, ToolOutcomes

\* An idle process is nowhere in the graph.
LEMMA IdlePosition ==
  ASSUME NEW r, NEW a, NEW outcome, NEW C, NEW F, NEW S, NEW R
  PROVE  Position("idle", r, a, outcome, C, F, S, R)
BY DEF Position, Proposed

\* A call keeps its link while requests and audit events accumulate.
LEMMA LinkKept ==
  ASSUME NEW x, NEW y, NEW F, NEW L, NEW F2, NEW L2,
         F \subseteq F2, L \subseteq L2, Link(x, y, F, L)
  PROVE  Link(x, y, F2, L2)
BY DEF Link

\* Nothing loses its authority.
LEMMA ClearedGrows ==
  ASSUME PolicyTypeOK, Grows
  PROVE  Cleared \subseteq Cleared' /\ Filed \subseteq Filed'
<1>1. ASSUME NEW a \in Actions, Authorized(a)
      PROVE  a \in Cleared'
  <2>1. CASE Risk[a] = "read" \/ Audited("approval.approved", ActionId[a])
    BY <1>1, <2>1 DEF Cleared, Authorized, Audited, Grows
  <2>2. CASE ~(Risk[a] = "read" \/ Audited("approval.approved", ActionId[a]))
    <3>1. PICK i \in DOMAIN grants :
            /\ <<"approval.approved", ActionId[grants[i].action]>> \in audit
            /\ SessionOf[grants[i].action] = SessionOf[a]
            /\ Risk[a] = "write"
            /\ GrantMatches(grants[i], a)
      BY <1>1, <2>2 DEF Authorized, Audited
    <3>2. i \in DOMAIN grants' /\ grants'[i].action = grants[i].action
      BY DEF Grows
    <3>3. GrantMatches(grants'[i], a)
      BY <3>1, <3>2 DEF GrantMatches
    <3>4. <<"approval.approved", ActionId[grants'[i].action]>> \in audit'
      BY <3>1, <3>2 DEF Grows
    <3> QED
      BY <3>1, <3>2, <3>3, <3>4 DEF Cleared, Authorized, Audited
  <2> QED
    BY <2>1, <2>2
<1>2. Filed \subseteq Filed'
  BY PolicyAssumption DEF Filed, Grows
<1> QED
  BY <1>1, <1>2 DEF Cleared

---------------------------------------------------------------------------
\* What the helpers of the actions do to a process.

\* A process that goes on to another superstep keeps everything but its node.
LEMMA GotoFields ==
  ASSUME AgentTypeOK, NEW p \in Callers, NEW node \in ProcNodes, Goto(p, node)
  PROVE  /\ proc' \in [Callers -> Process]
         /\ proc'[p].node = node
         /\ proc'[p].run = proc[p].run
         /\ proc'[p].action = proc[p].action
         /\ proc'[p].resume = proc[p].resume
         /\ proc'[p].outcome = proc[p].outcome
         /\ \A q \in Callers : q # p => proc'[q] = proc[q]
<1>1. proc[p] \in Process
  BY DEF AgentTypeOK
<1>2. [proc[p] EXCEPT !.node = node, !.saved = FALSE] \in Process
  BY <1>1 DEF Process
<1> QED
  BY <1>1, <1>2 DEF AgentTypeOK, Goto, Process

\* The end of a run keeps everything but node and outcome.
LEMMA ConcludeFields ==
  ASSUME AgentTypeOK, NEW p \in Callers, NEW node \in ProcNodes, NEW outcome \in Outcomes,
         Conclude(p, node, outcome)
  PROVE  /\ proc' \in [Callers -> Process]
         /\ proc'[p].node = node
         /\ proc'[p].run = proc[p].run
         /\ proc'[p].action = proc[p].action
         /\ proc'[p].outcome = outcome
         /\ \A q \in Callers : q # p => proc'[q] = proc[q]
<1>1. proc[p] \in Process
  BY DEF AgentTypeOK
<1>2. [proc[p] EXCEPT !.node = node, !.outcome = outcome, !.saved = FALSE] \in Process
  BY <1>1 DEF Process
<1> QED
  BY <1>1, <1>2 DEF AgentTypeOK, Conclude, Process

\* A step within a node keeps everything but node and outcome.
LEMMA WithinFields ==
  ASSUME AgentTypeOK, NEW p \in Callers, NEW node \in ProcNodes, NEW outcome \in Outcomes,
         Within(p, node, outcome)
  PROVE  /\ proc' \in [Callers -> Process]
         /\ proc'[p].node = node
         /\ proc'[p].run = proc[p].run
         /\ proc'[p].action = proc[p].action
         /\ proc'[p].outcome = outcome
         /\ \A q \in Callers : q # p => proc'[q] = proc[q]
<1>1. proc[p] \in Process
  BY DEF AgentTypeOK
<1>2. [proc[p] EXCEPT !.node = node, !.outcome = outcome] \in Process
  BY <1>1 DEF Process
<1> QED
  BY <1>1, <1>2 DEF AgentTypeOK, Within, Process

\* A process that stops forgets its run.
LEMMA StopFields ==
  ASSUME AgentTypeOK, NEW p \in Callers, Stop(p)
  PROVE  /\ proc' \in [Callers -> Process]
         /\ proc'[p] = IdleProcess
         /\ proc'[p].node = "idle"
         /\ \A q \in Callers : q # p => proc'[q] = proc[q]
<1>1. IdleProcess \in Process
  BY DEF IdleProcess, Process, ProcNodes, Outcomes
<1> QED
  BY <1>1 DEF AgentTypeOK, Stop, IdleProcess

\* An idle process has no position to account for.
LEMMA IdleSound ==
  ASSUME NEW p \in Callers, proc'[p] = IdleProcess
  PROVE  ProcessSound(p)'
BY IdlePosition DEF ProcessSound, IdleProcess

\* The fields of a busy process.
LEMMA BusyFields ==
  ASSUME AgentTypeOK, NEW p \in Callers, proc[p].node # "idle"
  PROVE  /\ proc[p].run \in Runs
         /\ proc[p].node \in ProcNodes
         /\ proc[p].action \in Actions \cup {NoAction}
         /\ proc[p].outcome \in Outcomes
         /\ proc[p].resume \in {"none", "yes", "no"}
BY DEF AgentTypeOK, Process

---------------------------------------------------------------------------
\* Every step of the runtime is a step of the policy service, or leaves it alone.
LEMMA PolicyRefined ==
  ASSUME \A p \in Callers : ProcessSound(p), [AgentNext]_vars
  PROVE  [PolicyNext]_policyVars
<1>1. CASE Administer
  BY <1>1 DEF PolicyNext
<1>2. ASSUME NEW p \in Callers, Command(p)
      PROVE  [PolicyNext]_policyVars
  BY <1>2 DEF Command, Submit, Resume
<1>3. ASSUME NEW p \in Callers, SaveCheckpoint(p) \/ Coordinate(p) \/ Conclusion(p)
               \/ Interrupt(p) \/ StartTool(p) \/ ToolMissing(p) \/ RunTool(p)
               \/ PersistResult(p) \/ VerifyResult(p) \/ RecordResult(p) \/ ModelError(p)
      PROVE  [PolicyNext]_policyVars
  BY <1>3 DEF SaveCheckpoint, Coordinate, Conclusion, Interrupt, StartTool, ToolMissing,
     RunTool, PersistResult, VerifyResult, RecordResult, ModelError
<1>4. ASSUME NEW p \in Callers, EvaluatePolicy(p) \/ Decide(p)
      PROVE  [PolicyNext]_policyVars
  <2>1. proc[p].action \in Actions /\ ActionId[proc[p].action] \in Ids
    BY <1>4, PolicyAssumption DEF EvaluatePolicy, Decide, At, ProcessSound, Position, Proposed
  <2> QED
    BY <1>4, <2>1 DEF EvaluatePolicy, Decide, PolicyNext
<1>5. ASSUME NEW p \in Callers, PolicyCall(p) \/ PolicyReturn(p) \/ DecisionReturn(p)
      PROVE  [PolicyNext]_policyVars
  BY <1>5 DEF PolicyCall, PolicyReturn, DecisionReturn, PolicyNext
<1>6. ASSUME NEW p \in Callers, Cancel(p) \/ Crash(p)
      PROVE  [PolicyNext]_policyVars
  BY <1>6 DEF Cancel, Crash, DropCall, PolicyNext
<1>7. CASE UNCHANGED vars
  BY <1>7 DEF vars
<1> QED
  BY <1>1, <1>2, <1>3, <1>4, <1>5, <1>6, <1>7 DEF AgentNext, AgentStep, Failure

\* Receipts are never changed, and announcements never withdrawn.
LEMMA AgentGrowStep ==
  ASSUME PolicyTypeOK, AgentTypeOK, Grows, [AgentNext]_vars
  PROVE  AgentGrows
<1>1. ASSUME started \subseteq started',
             \A r \in Runs : receipts[r] # "none" => receipts'[r] = receipts[r]
      PROVE  AgentGrows
  BY <1>1, ClearedGrows DEF AgentGrows
<1>2. CASE UNCHANGED <<started, receipts>>
  BY <1>1, <1>2
<1>3. ASSUME NEW p \in Callers, StartTool(p)
      PROVE  AgentGrows
  BY <1>1, <1>3 DEF StartTool
<1>4. ASSUME NEW p \in Callers, PersistResult(p)
      PROVE  AgentGrows
  BY <1>1, <1>4 DEF PersistResult, AgentTypeOK
<1> QED
  BY <1>2, <1>3, <1>4 DEF AgentNext, vars, agentVars, Command, Submit, Resume, AgentStep,
     SaveCheckpoint, Coordinate, Conclusion, EvaluatePolicy, PolicyCall, PolicyReturn,
     Interrupt, Decide, DecisionReturn, ToolMissing, RunTool, VerifyResult, RecordResult,
     Failure, ModelError, Cancel, Crash

---------------------------------------------------------------------------
(***************************************************************************)
(* What one step of process p has to establish; the rest of the invariant  *)
(* follows from AgentGrows.                                                *)
(***************************************************************************)
StepSound(p) ==
  /\ AgentTypeOK'
  /\ \A q \in Callers : q # p => proc'[q] = proc[q] /\ call'[q] = call[q]
  /\ ProcessSound(p)'
  /\ CallLinked(p)'

\* A step that writes no table but workflow state keeps the tables' shape.
LEMMA TypeKept ==
  ASSUME AgentTypeOK, NEW p \in Callers, proc' \in [Callers -> Process],
         \A q \in Callers : q # p => proc'[q] = proc[q],
         proc'[p].node # "idle" => proc'[p].run \in Runs,
         UNCHANGED <<run, ckpt, started, executed, receipts, answered>>
  PROVE  AgentTypeOK'
BY DEF AgentTypeOK

\* The idle call.
LEMMA IdleCallFields ==
  IdleCall.step = "idle" /\ IdleCall.result = "none"
BY DEF IdleCall

\* Outside the policy and approval nodes a process is in no policy call.
LEMMA CallIdle ==
  ASSUME AgentInv, NEW p \in Callers, proc[p].node \notin {"policy", "approval"}
  PROVE  call[p].step = "idle" /\ call[p].result = "none"
BY DEF AgentInv, CallLinked, Link

\* An idle call is linked to any graph state.
LEMMA IdleLinked ==
  ASSUME NEW p \in Callers, call'[p].step = "idle", call'[p].result = "none"
  PROVE  CallLinked(p)'
BY DEF CallLinked, Link

\* An allow clears the action it was given for.
LEMMA AllowClears ==
  ASSUME AgentInv, NEW p \in Callers, call[p].result = "allow", call[p].action \in Actions
  PROVE  call[p].action \in Cleared
<1>1. CASE Risk[call[p].action] = "read"
  BY <1>1 DEF Cleared, Authorized
<1>2. CASE Risk[call[p].action] # "read"
  <2>1. PICK i \in DOMAIN grants :
          /\ Audited("approval.approved", ActionId[grants[i].action])
          /\ SessionOf[grants[i].action] = SessionOf[call[p].action]
          /\ Risk[call[p].action] = "write"
          /\ GrantMatches(grants[i], call[p].action)
    BY <1>2 DEF AgentInv, PolicyInv, AllowIsJustified
  <2> QED
    BY <2>1 DEF Cleared, Authorized
<1> QED
  BY <1>1, <1>2

---------------------------------------------------------------------------
\* One lemma for each kind of step of a process.

\* submit() and resume() take up a run at a sound position.
LEMMA CommandSound ==
  ASSUME AgentInv, AgentGrows, NEW p \in Callers, Command(p)
  PROVE  StepSound(p)
<1>0. AgentTypeOK /\ UNCHANGED policyVars
  BY DEF AgentInv, Command, Submit, Resume
<1>1. proc[p].node = "idle" /\ call[p].step = "idle" /\ call[p].result = "none"
  BY CallIdle DEF Command, Submit, Resume, At
<1>2. CallLinked(p)' /\ \A q \in Callers : call'[q] = call[q]
  BY <1>0, <1>1, IdleLinked DEF policyVars
<1>3. ASSUME NEW r \in Runs, Submit(p, r)
      PROVE  StepSound(p)
  <2> DEFINE x == [IdleProcess EXCEPT !.node = "coordinate", !.run = r]
  <2>1. /\ x \in Process
        /\ x.node = "coordinate" /\ x.run = r
        /\ x.action = NoAction /\ x.outcome = "none"
    BY DEF IdleProcess, Process, ProcNodes, GraphNodes, Outcomes
  <2>2. /\ proc' \in [Callers -> Process] /\ proc'[p] = x
        /\ \A q \in Callers : q # p => proc'[q] = proc[q]
    BY <1>0, <1>3, <2>1 DEF Submit, AgentTypeOK
  <2>3. AgentTypeOK'
    BY <1>0, <1>3, <2>1, <2>2 DEF Submit, AgentTypeOK, RunStatuses
  <2>4. ProcessSound(p)'
    BY <2>1, <2>2 DEF ProcessSound, Position, Proposed
  <2> QED
    BY <1>2, <2>2, <2>3, <2>4 DEF StepSound
<1>4. ASSUME NEW r \in Runs, NEW answer \in {"yes", "no"}, Resume(p, r, answer)
      PROVE  StepSound(p)
  <2> DEFINE x == [node |-> ckpt[r].next, run |-> r, action |-> ckpt[r].action,
                   resume |-> IF ckpt[r].next = "approval" THEN answer ELSE "none",
                   outcome |-> ckpt[r].outcome, saved |-> TRUE]
  <2>1. ckpt[r] \in Checkpoint /\ ckpt[r].next # "none"
    BY <1>0, <1>4 DEF AgentTypeOK, Resume
  <2>2. x \in Process
    BY <2>1 DEF Checkpoint, Process, ProcNodes
  <2>3. /\ proc' \in [Callers -> Process] /\ proc'[p] = x
        /\ \A q \in Callers : q # p => proc'[q] = proc[q]
    BY <1>0, <1>4, <2>2 DEF Resume, AgentTypeOK
  <2>4. AgentTypeOK'
    BY <1>0, <1>4, <2>3, TypeKept DEF Resume
  <2>5. Position(ckpt[r].next, r, ckpt[r].action, ckpt[r].outcome,
                 Cleared, Filed, started, receipts)
    BY DEF AgentInv, CheckpointSound
  <2>6. Position(ckpt[r].next, r, ckpt[r].action, ckpt[r].outcome,
                 Cleared', Filed', started', receipts')
    BY <2>5, PositionKept DEF AgentGrows
  <2>7. ProcessSound(p)'
    BY <2>3, <2>6 DEF ProcessSound
  <2> QED
    BY <1>2, <2>3, <2>4, <2>7 DEF StepSound
<1> QED
  BY <1>3, <1>4 DEF Command

\* A process that stops leaves nothing behind.
LEMMA StopSound ==
  ASSUME AgentInv, NEW p \in Callers, Stop(p),
         UNCHANGED <<ckpt, started, executed, receipts>>,
         run' \in [Runs -> RunStatuses], answered' \subseteq Runs,
         call'[p].step = "idle", call'[p].result = "none",
         \A q \in Callers : q # p => call'[q] = call[q]
  PROVE  StepSound(p)
<1>1. /\ proc' \in [Callers -> Process]
      /\ proc'[p] = IdleProcess
      /\ proc'[p].node = "idle"
      /\ \A q \in Callers : q # p => proc'[q] = proc[q]
  BY StopFields DEF AgentInv
<1>2. AgentTypeOK'
  BY <1>1 DEF AgentInv, AgentTypeOK
<1> QED
  BY <1>1, <1>2, IdleSound, IdleLinked DEF StepSound

\* A checkpoint that reaches the disk changes nothing in the process.
LEMMA SaveSound ==
  ASSUME AgentInv, AgentGrows, NEW p \in Callers, SaveCheckpoint(p)
  PROVE  StepSound(p)
<1>0. AgentTypeOK /\ PolicyTypeOK
  BY DEF AgentInv, PolicyInv
<1>1. UNCHANGED <<call, audit>> /\ Filed' = Filed
  BY DEF SaveCheckpoint, policyVars, Filed
<1>2. proc[p] \in Process /\ [proc[p] EXCEPT !.saved = TRUE] \in Process
  BY <1>0 DEF AgentTypeOK, Process
<1>3. /\ proc' \in [Callers -> Process]
      /\ proc'[p].node = proc[p].node
      /\ proc'[p].run = proc[p].run
      /\ proc'[p].action = proc[p].action
      /\ proc'[p].outcome = proc[p].outcome
      /\ proc'[p].resume = proc[p].resume
      /\ \A q \in Callers : q # p => proc'[q] = proc[q]
  BY <1>0, <1>2 DEF SaveCheckpoint, AgentTypeOK, Process
<1>4. proc[p].run \in Runs
  BY <1>0, BusyFields DEF SaveCheckpoint, Busy
<1>5. [next |-> GraphNode(proc[p].node), action |-> proc[p].action,
       outcome |-> proc[p].outcome] \in Checkpoint
  BY <1>0, BusyFields DEF SaveCheckpoint, Busy, Checkpoint, GraphNode, ProcNodes, GraphNodes
<1>6. AgentTypeOK'
  BY <1>0, <1>3, <1>4, <1>5 DEF SaveCheckpoint, AgentTypeOK
<1>7. Position(proc[p].node, proc[p].run, proc[p].action, proc[p].outcome,
               Cleared', Filed', started', receipts')
  BY <1>4, PositionKept DEF AgentInv, ProcessSound, AgentGrows
<1>8. ProcessSound(p)'
  BY <1>3, <1>7 DEF ProcessSound
<1>9. CallLinked(p)'
  BY <1>1, <1>3 DEF AgentInv, CallLinked, Link
<1> QED
  BY <1>1, <1>3, <1>6, <1>8, <1>9 DEF StepSound

\* The nodes of the graph that call no policy.
LEMMA NodeSound ==
  ASSUME AgentInv, AgentGrows, NEW p \in Callers,
         Coordinate(p) \/ Conclusion(p) \/ StartTool(p) \/ ToolMissing(p) \/ RunTool(p)
           \/ PersistResult(p) \/ VerifyResult(p)
  PROVE  StepSound(p)
<1>0. /\ AgentTypeOK
      /\ proc[p].node \in {"coordinate", "respond", "denied", "execute", "adapter",
                           "receipt", "verify"}
      /\ UNCHANGED policyVars
  BY DEF AgentInv, Coordinate, Conclusion, StartTool, ToolMissing, RunTool, PersistResult,
     VerifyResult, At
<1>1. call[p].step = "idle" /\ call[p].result = "none" /\ UNCHANGED call
  BY <1>0, CallIdle DEF policyVars
<1>2. CallLinked(p)' /\ \A q \in Callers : call'[q] = call[q]
  BY <1>1, IdleLinked
<1>3. /\ proc[p].run \in Runs
      /\ proc[p].action \in Actions \cup {NoAction}
      /\ proc[p].outcome \in Outcomes
      /\ proc[p] \in Process
  BY <1>0, BusyFields DEF AgentTypeOK
<1>4. Position(proc[p].node, proc[p].run, proc[p].action, proc[p].outcome,
               Cleared, Filed, started, receipts)
  BY DEF AgentInv, ProcessSound
<1>5. Cleared \subseteq Cleared' /\ Filed \subseteq Filed' /\ started \subseteq started'
  BY DEF AgentGrows
<1>6. CASE Coordinate(p)
  <2>1. CASE Goto(p, "respond")
    <3>1. AgentTypeOK'
      BY <1>0, <1>3, <1>6, <2>1, GotoFields, TypeKept DEF Coordinate, ProcNodes, GraphNodes
    <3>2. proc[p].action = NoAction
      BY <1>4, <1>6 DEF Coordinate, At, Position
    <3>3. proc'[p].node = "respond" /\ proc'[p].action = NoAction
      BY <1>0, <2>1, <3>2, GotoFields DEF ProcNodes, GraphNodes
    <3>4. ProcessSound(p)'
      BY <3>3 DEF ProcessSound, Position, Proposed
    <3> QED
      BY <1>0, <1>2, <2>1, <3>1, <3>4, GotoFields DEF StepSound, ProcNodes, GraphNodes
  <2>2. ASSUME NEW a \in Actions, RunOf[a] = proc[p].run,
               proc' = [proc EXCEPT ![p] =
                 [@ EXCEPT !.node = "policy", !.action = a, !.saved = FALSE]]
        PROVE  StepSound(p)
    <3>1. [proc[p] EXCEPT !.node = "policy", !.action = a, !.saved = FALSE] \in Process
      BY <1>3 DEF Process, ProcNodes, GraphNodes
    <3>2. /\ proc' \in [Callers -> Process]
          /\ proc'[p].node = "policy"
          /\ proc'[p].run = proc[p].run
          /\ proc'[p].action = a
          /\ \A q \in Callers : q # p => proc'[q] = proc[q]
      BY <1>0, <1>3, <2>2, <3>1 DEF AgentTypeOK, Process
    <3>3. AgentTypeOK'
      BY <1>0, <1>3, <1>6, <3>2, TypeKept DEF Coordinate
    <3>4. ProcessSound(p)'
      BY <2>2, <3>2 DEF ProcessSound, Position, Proposed
    <3> QED
      BY <1>2, <3>2, <3>3, <3>4 DEF StepSound
  <2> QED
    BY <1>6, <2>1, <2>2 DEF Coordinate
<1>7. CASE Conclusion(p)
  <2>1. PICK outcome \in {"completed", "denied"} :
          /\ Conclude(p, "end", outcome)
          /\ outcome = "completed" => proc[p].node = "respond"
    BY <1>7 DEF Conclusion, At
  <2>2. /\ proc' \in [Callers -> Process]
        /\ proc'[p].node = "end"
        /\ proc'[p].run = proc[p].run
        /\ proc'[p].action = proc[p].action
        /\ proc'[p].outcome = outcome
        /\ \A q \in Callers : q # p => proc'[q] = proc[q]
    BY <1>0, <2>1, ConcludeFields DEF ProcNodes, GraphNodes, Outcomes
  <2>3. AgentTypeOK'
    BY <1>0, <1>3, <1>7, <2>2, TypeKept DEF Conclusion
  <2>4. ProcessSound(p)'
    BY <1>4, <2>1, <2>2 DEF ProcessSound, Position, Proposed
  <2> QED
    BY <1>2, <2>2, <2>3, <2>4 DEF StepSound
<1>8. CASE StartTool(p)
  <2>1. /\ proc' \in [Callers -> Process]
        /\ proc'[p].node = "adapter"
        /\ proc'[p].run = proc[p].run
        /\ proc'[p].action = proc[p].action
        /\ \A q \in Callers : q # p => proc'[q] = proc[q]
    BY <1>0, <1>8, WithinFields DEF StartTool, ProcNodes, Outcomes
  <2>2. /\ proc[p].action \in Actions /\ RunOf[proc[p].action] = proc[p].run
        /\ proc[p].action \in Cleared
    BY <1>4, <1>8 DEF StartTool, At, Position, Proposed
  <2>3. AgentTypeOK'
    BY <1>0, <1>3, <1>8, <2>1, <2>2 DEF StartTool, AgentTypeOK
  <2>4. ProcessSound(p)'
    BY <1>5, <1>8, <2>1, <2>2 DEF StartTool, ProcessSound, Position, Proposed
  <2> QED
    BY <1>2, <2>1, <2>3, <2>4 DEF StepSound
<1>9. CASE ToolMissing(p) \/ RunTool(p)
  <2>1. PICK outcome \in ToolOutcomes : Within(p, "receipt", outcome)
    BY <1>9 DEF ToolMissing, RunTool, ToolOutcomes
  <2>2. /\ proc' \in [Callers -> Process]
        /\ proc'[p].node = "receipt"
        /\ proc'[p].run = proc[p].run
        /\ proc'[p].action = proc[p].action
        /\ proc'[p].outcome = outcome
        /\ \A q \in Callers : q # p => proc'[q] = proc[q]
    BY <1>0, <2>1, WithinFields DEF ProcNodes, Outcomes
  <2>3. /\ proc[p].action \in Actions /\ RunOf[proc[p].action] = proc[p].run
        /\ proc[p].action \in Cleared
    BY <1>4, <1>9 DEF ToolMissing, RunTool, At, Position, Proposed
  <2>4. executed' \in [Runs -> Seq(Actions)]
    <3>1. executed[proc[p].run] \in Seq(Actions)
      BY <1>0, <1>3 DEF AgentTypeOK
    <3>2. Append(executed[proc[p].run], proc[p].action) \in Seq(Actions)
      BY <2>3, <3>1
    <3>3. \/ UNCHANGED executed
          \/ executed' = [executed EXCEPT ![proc[p].run] =
                            Append(executed[proc[p].run], proc[p].action)]
      BY <1>9 DEF ToolMissing, RunTool
    <3> QED
      BY <1>0, <1>3, <3>2, <3>3 DEF AgentTypeOK
  <2>5. UNCHANGED <<run, ckpt, started, receipts, answered>>
    BY <1>9 DEF ToolMissing, RunTool
  <2>6. AgentTypeOK'
    BY <1>0, <1>3, <2>2, <2>4, <2>5 DEF AgentTypeOK
  <2>7. ProcessSound(p)'
    BY <1>5, <2>2, <2>3 DEF ProcessSound, Position, Proposed
  <2> QED
    BY <1>2, <2>2, <2>6, <2>7 DEF StepSound
<1>10. CASE PersistResult(p)
  <2>1. /\ proc[p].action \in Actions /\ RunOf[proc[p].action] = proc[p].run
        /\ proc[p].action \in Cleared /\ proc[p].outcome \in ToolOutcomes
    BY <1>4, <1>10 DEF PersistResult, At, Position, Proposed
  <2>2. CASE UNCHANGED receipts /\ Stop(p)
    <3>1. UNCHANGED <<ckpt, started, executed, receipts, run, answered>>
      BY <1>10, <2>2 DEF PersistResult
    <3> QED
      BY <1>0, <1>1, <1>2, <2>2, <3>1, StopSound DEF AgentTypeOK
  <2>3. CASE receipts' = [receipts EXCEPT ![proc[p].run] = proc[p].outcome]
               /\ Goto(p, "verify")
    <3>1. /\ proc' \in [Callers -> Process]
          /\ proc'[p].node = "verify"
          /\ proc'[p].run = proc[p].run
          /\ proc'[p].action = proc[p].action
          /\ proc'[p].outcome = proc[p].outcome
          /\ \A q \in Callers : q # p => proc'[q] = proc[q]
      BY <1>0, <2>3, GotoFields DEF ProcNodes, GraphNodes
    <3>2. AgentTypeOK'
      BY <1>0, <1>3, <1>10, <2>1, <2>3, <3>1 DEF PersistResult, AgentTypeOK
    <3>3. receipts'[proc[p].run] = proc[p].outcome
      BY <1>0, <1>3, <2>3 DEF AgentTypeOK
    <3>4. ProcessSound(p)'
      BY <1>5, <2>1, <3>1, <3>3 DEF ProcessSound, Position, Proposed
    <3> QED
      BY <1>2, <3>1, <3>2, <3>4 DEF StepSound
  <2> QED
    BY <1>10, <2>2, <2>3 DEF PersistResult
<1>11. CASE VerifyResult(p)
  <2>1. PICK verdict \in Verdicts(proc[p].outcome) : Conclude(p, "end", verdict)
    BY <1>11 DEF VerifyResult
  <2>2. verdict \in Outcomes /\ (verdict = "completed" => proc[p].outcome = "succeeded")
    BY DEF Verdicts, Outcomes, ToolOutcomes
  <2>3. /\ proc' \in [Callers -> Process]
        /\ proc'[p].node = "end"
        /\ proc'[p].run = proc[p].run
        /\ proc'[p].action = proc[p].action
        /\ proc'[p].outcome = verdict
        /\ \A q \in Callers : q # p => proc'[q] = proc[q]
    BY <1>0, <2>1, <2>2, ConcludeFields DEF ProcNodes, GraphNodes
  <2>4. receipts'[proc[p].run] = proc[p].outcome
    BY <1>4, <1>11 DEF VerifyResult, At, Position
  <2>5. AgentTypeOK'
    BY <1>0, <1>3, <1>11, <2>3, TypeKept DEF VerifyResult
  <2>6. ProcessSound(p)'
    BY <2>2, <2>3, <2>4 DEF ProcessSound, Position, Proposed
  <2> QED
    BY <1>2, <2>3, <2>5, <2>6 DEF StepSound
<1> QED
  BY <1>6, <1>7, <1>8, <1>9, <1>10, <1>11

\* The policy and approval nodes, and the policy's own steps on their behalf.
LEMMA PolicyNodeSound ==
  ASSUME AgentInv, AgentGrows, NEW p \in Callers,
         EvaluatePolicy(p) \/ PolicyCall(p) \/ PolicyReturn(p) \/ Interrupt(p)
           \/ Decide(p) \/ DecisionReturn(p)
  PROVE  StepSound(p)
<1>0. /\ AgentTypeOK /\ PolicyTypeOK /\ AllowIsJustified /\ StatusIsAudited
      /\ call \in [Callers -> CallRecord]
  BY DEF AgentInv, PolicyInv, PolicyTypeOK
<1>1. Link(proc[p], call[p], Filed, audit)
  BY DEF AgentInv, CallLinked
<1>2. Position(proc[p].node, proc[p].run, proc[p].action, proc[p].outcome,
               Cleared, Filed, started, receipts)
  BY DEF AgentInv, ProcessSound
<1>3. proc[p].node \in {"policy", "approval"}
  BY <1>1 DEF EvaluatePolicy, PolicyCall, PolicyReturn, Interrupt, Decide, DecisionReturn, At,
     CallStep, LookupRequest, InsertRequest, InsertRejected, CommitApprove, CommitExpire,
     CommitDeny, Finish, Continue, Link
<1>4. /\ proc[p].run \in Runs
      /\ proc[p].outcome \in Outcomes
      /\ proc[p].action \in Actions /\ RunOf[proc[p].action] = proc[p].run
      /\ ActionId[proc[p].action] \in Ids
  BY <1>0, <1>2, <1>3, BusyFields, PolicyAssumption DEF Position, Proposed
<1>5. /\ Cleared \subseteq Cleared' /\ Filed \subseteq Filed' /\ audit \subseteq audit'
  BY DEF AgentGrows, Grows
<1>6. Position(proc[p].node, proc[p].run, proc[p].action, proc[p].outcome,
               Cleared', Filed', started', receipts')
  BY <1>2, <1>4, PositionKept DEF AgentGrows
<1>7. ASSUME UNCHANGED agentVars, \A q \in Callers : q # p => call'[q] = call[q],
             CallLinked(p)'
      PROVE  StepSound(p)
  <2>1. AgentTypeOK' /\ \A q \in Callers : proc'[q] = proc[q]
    BY <1>0, <1>7 DEF agentVars, AgentTypeOK
  <2>2. ProcessSound(p)'
    BY <1>6, <2>1 DEF ProcessSound
  <2> QED
    BY <1>7, <2>1, <2>2 DEF StepSound
<1>8. CASE EvaluatePolicy(p)
  <2>1. PICK step \in {"done", "lookup"}, result \in {"none", "allow", "deny"} :
          Enter(p, step, ActionId[proc[p].action], proc[p].action, result)
    BY <1>8 DEF EvaluatePolicy, BeginAuthorize
  <2>2. /\ call'[p].step = step /\ call'[p].result = result
        /\ call'[p].id = ActionId[proc[p].action] /\ call'[p].action = proc[p].action
        /\ \A q \in Callers : q # p => call'[q] = call[q]
    BY <1>0, <2>1 DEF Enter
  <2>3. UNCHANGED agentVars /\ proc'[p] = proc[p] /\ proc[p].node = "policy"
    BY <1>8 DEF EvaluatePolicy, agentVars, At
  <2>4. CallLinked(p)'
    BY <2>2, <2>3 DEF CallLinked, Link
  <2> QED
    BY <1>7, <2>2, <2>3, <2>4
<1>9. CASE Decide(p)
  <2>1. /\ UNCHANGED <<agentVars, audit>> /\ proc[p].node = "approval"
        /\ proc[p].resume # "none"
    BY <1>9 DEF Decide, BeginApprove, BeginDeny, At
  <2>2. PICK step \in {"done", "approve", "expire", "deny"},
             result \in {"none", "approved", "denied", "conflict", "missing"} :
          /\ Enter(p, step, ActionId[proc[p].action],
                   request[ActionId[proc[p].action]].action, result)
          /\ result = "missing" => request[ActionId[proc[p].action]].status = "none"
          /\ result = "approved" => request[ActionId[proc[p].action]].status = "approved"
    BY <1>9 DEF Decide, BeginApprove, BeginDeny
  <2>3. request[ActionId[proc[p].action]].status # "none"
    BY <1>2, <1>4, <2>1 DEF Position, Filed
  <2>4. result = "approved" => <<"approval.approved", ActionId[proc[p].action]>> \in audit
    BY <1>0, <1>4, <2>2 DEF StatusIsAudited, Audited
  <2>5. /\ call'[p].step = step /\ call'[p].result = result
        /\ call'[p].id = ActionId[proc[p].action]
        /\ \A q \in Callers : q # p => call'[q] = call[q]
    BY <1>0, <2>2 DEF Enter
  <2>6. UNCHANGED agentVars /\ proc'[p] = proc[p] /\ audit' = audit
    BY <2>1 DEF agentVars
  <2>7. CallLinked(p)'
    BY <2>1, <2>2, <2>3, <2>4, <2>5, <2>6 DEF CallLinked, Link
  <2> QED
    BY <1>7, <2>5, <2>6, <2>7
<1>10. CASE PolicyCall(p)
  <2>0. UNCHANGED agentVars /\ proc'[p] = proc[p]
    BY <1>10 DEF PolicyCall, agentVars
  <2>1. call[p] \in CallRecord
    BY <1>0
  <2>2. CASE Continue(p, "lookup", "insert")
    <3>1. /\ call[p].step = "lookup"
          /\ call'[p].step = "insert" /\ call'[p].result = call[p].result
          /\ call'[p].id = call[p].id /\ call'[p].action = call[p].action
          /\ \A q \in Callers : q # p => call'[q] = call[q]
      BY <1>0, <2>1, <2>2 DEF Continue, CallRecord
    <3>2. CallLinked(p)'
      BY <1>1, <1>5, <2>0, <3>1 DEF CallLinked, Link
    <3> QED
      BY <1>7, <2>0, <3>1, <3>2
  <2>3. ASSUME NEW from \in {"lookup", "insert", "approve", "expire", "deny"},
               NEW result \in {"require_approval", "integrity_error", "approved", "expired",
                               "denied"},
               Finish(p, from, result),
               from \in {"lookup", "insert"} <=>
                 result \in {"require_approval", "integrity_error"},
               result = "require_approval" => request'[call[p].id].status # "none",
               result = "approved" => <<"approval.approved", call[p].id>> \in audit'
        PROVE  StepSound(p)
    <3>1. /\ call[p].step = from
          /\ call'[p].step = "done" /\ call'[p].result = result
          /\ call'[p].id = call[p].id /\ call'[p].action = call[p].action
          /\ \A q \in Callers : q # p => call'[q] = call[q]
      BY <1>0, <2>1, <2>3 DEF Finish, CallRecord
    <3>2. result = "require_approval" => proc[p].action \in Filed'
      BY <1>1, <1>4, <2>3, <3>1 DEF Link, Filed
    <3>3. CallLinked(p)'
      BY <1>1, <2>0, <2>3, <3>1, <3>2 DEF CallLinked, Link
    <3> QED
      BY <1>7, <2>0, <3>1, <3>3
  <2>4. CASE LookupRequest(p)
    BY <2>2, <2>3, <2>4 DEF LookupRequest
  <2>5. CASE InsertRequest(p)
    <3>1. request'[call[p].id].status = "pending"
      BY <1>0, <2>5, CallFields DEF InsertRequest, PolicyTypeOK
    <3> QED
      BY <2>3, <2>5, <3>1 DEF InsertRequest
  <2>6. CASE InsertRejected(p)
    BY <2>3, <2>6 DEF InsertRejected
  <2>7. CASE CommitApprove(p)
    BY <2>3, <2>7 DEF CommitApprove, Log
  <2>8. CASE CommitExpire(p) \/ CommitDeny(p)
    BY <2>3, <2>8 DEF CommitExpire, CommitDeny
  <2> QED
    BY <1>10, <2>4, <2>5, <2>6, <2>7, <2>8 DEF PolicyCall, CallStep
<1>11. CASE Interrupt(p)
  <2>1. /\ proc' \in [Callers -> Process]
        /\ proc'[p].node = "interrupt"
        /\ proc'[p].run = proc[p].run
        /\ proc'[p].action = proc[p].action
        /\ \A q \in Callers : q # p => proc'[q] = proc[q]
    BY <1>0, <1>11, WithinFields DEF Interrupt, ProcNodes, Outcomes
  <2>2. AgentTypeOK'
    BY <1>0, <1>4, <1>11, <2>1, TypeKept DEF Interrupt
  <2>3. proc[p].action \in Filed'
    BY <1>2, <1>5, <1>11 DEF Interrupt, At, Position
  <2>4. ProcessSound(p)'
    BY <1>4, <2>1, <2>3 DEF ProcessSound, Position, Proposed
  <2>5. call[p].step = "idle" /\ call[p].result = "none" /\ UNCHANGED call
    BY <1>1, <1>11 DEF Interrupt, At, Link, policyVars
  <2> QED
    BY <2>1, <2>2, <2>4, <2>5, IdleLinked DEF StepSound
<1>12. CASE PolicyReturn(p) \/ DecisionReturn(p)
  <2>1. /\ Return(p) /\ call[p].step = "done"
        /\ UNCHANGED <<run, ckpt, started, executed, receipts, answered>>
    BY <1>12 DEF PolicyReturn, DecisionReturn, Return
  <2>2. /\ call'[p].step = "idle" /\ call'[p].result = "none"
        /\ \A q \in Callers : q # p => call'[q] = call[q]
    BY <1>0, <2>1, IdleCallFields DEF Return
  <2>3. CallLinked(p)'
    BY <2>2, IdleLinked
  <2>4. CASE Stop(p)
    BY <1>0, <2>1, <2>2, <2>4, StopSound DEF AgentTypeOK
  <2>5. ASSUME NEW node \in {"execute", "approval", "denied"}, Goto(p, node),
               node = "execute" => proc[p].action \in Cleared,
               node = "approval" => proc[p].action \in Filed
        PROVE  StepSound(p)
    <3>1. /\ proc' \in [Callers -> Process]
          /\ proc'[p].node = node
          /\ proc'[p].run = proc[p].run
          /\ proc'[p].action = proc[p].action
          /\ \A q \in Callers : q # p => proc'[q] = proc[q]
      BY <1>0, <2>5, GotoFields DEF ProcNodes, GraphNodes
    <3>2. AgentTypeOK'
      BY <1>0, <1>4, <2>1, <3>1, TypeKept
    <3>3. ProcessSound(p)'
      BY <1>4, <1>5, <2>5, <3>1 DEF ProcessSound, Position, Proposed
    <3> QED
      BY <2>2, <2>3, <3>1, <3>2, <3>3 DEF StepSound
  <2>6. CASE PolicyReturn(p)
    <3>1. /\ call[p].action = proc[p].action
          /\ call[p].result = "require_approval" => proc[p].action \in Filed
      BY <1>1, <2>1, <2>6 DEF PolicyReturn, At, Link
    <3>2. call[p].result = "allow" => proc[p].action \in Cleared
      BY <1>4, <3>1, AllowClears
    <3>3. CASE Goto(p, RouteAfterPolicy(call[p].result))
      BY <2>5, <3>1, <3>2, <3>3 DEF RouteAfterPolicy
    <3> QED
      BY <2>4, <2>6, <3>3 DEF PolicyReturn
  <2>7. CASE DecisionReturn(p)
    <3>1. call[p].result = "approved" =>
            <<"approval.approved", ActionId[proc[p].action]>> \in audit
      BY <1>1, <2>1, <2>7 DEF DecisionReturn, At, Link
    <3>2. call[p].result = "approved" => proc[p].action \in Cleared
      BY <1>4, <3>1 DEF Cleared, Authorized, Audited
    <3> QED
      BY <2>4, <2>5, <2>7, <3>2 DEF DecisionReturn
  <2> QED
    BY <1>12, <2>6, <2>7
<1> QED
  BY <1>8, <1>9, <1>10, <1>11, <1>12

\* The ends of an operation: recorded, failed, cancelled or crashed.
LEMMA EndSound ==
  ASSUME AgentInv, NEW p \in Callers, RecordResult(p) \/ Failure(p)
  PROVE  StepSound(p)
<1>0. AgentTypeOK /\ PolicyTypeOK /\ call \in [Callers -> CallRecord]
  BY DEF AgentInv, PolicyInv, PolicyTypeOK
<1>1. Stop(p) /\ UNCHANGED <<ckpt, started, executed, receipts>> /\ proc[p].run \in Runs
  BY <1>0, BusyFields DEF RecordResult, Failure, ModelError, Cancel, Crash, At, Busy
<1>2. run' \in [Runs -> RunStatuses] /\ answered' \subseteq Runs
  BY <1>0, <1>1 DEF RecordResult, Failure, ModelError, Cancel, Crash, GraphStatus, AgentTypeOK,
     RunStatuses
<1>3. /\ call'[p].step = "idle" /\ call'[p].result = "none"
      /\ \A q \in Callers : q # p => call'[q] = call[q]
  <2>1. CASE UNCHANGED policyVars /\ call[p].step = "idle"
    BY <2>1 DEF AgentInv, CallLinked, Link, policyVars
  <2>2. CASE AbandonCall(p)
    BY <1>0, <2>2, IdleCallFields DEF AbandonCall
  <2>3. CASE RecordResult(p) \/ ModelError(p)
    <3>1. proc[p].node \notin {"policy", "approval"} /\ UNCHANGED policyVars
      BY <2>3 DEF RecordResult, ModelError, At
    <3> QED
      BY <2>1, <3>1, CallIdle
  <2>4. CASE Cancel(p) \/ Crash(p)
    BY <2>1, <2>2, <2>4 DEF Cancel, Crash, DropCall
  <2> QED
    BY <2>3, <2>4 DEF Failure
<1> QED
  BY <1>1, <1>2, <1>3, StopSound

\* Every step of a process is sound.
LEMMA ProcessStep ==
  ASSUME AgentInv, AgentGrows, NEW p \in Callers, Command(p) \/ AgentStep(p) \/ Failure(p)
  PROVE  StepSound(p)
BY CommandSound, SaveSound, NodeSound, PolicyNodeSound, EndSound DEF AgentStep

---------------------------------------------------------------------------
\* The remaining processes keep their positions and links.
LEMMA OthersSound ==
  ASSUME AgentInv, AgentGrows, NEW q \in Callers, proc'[q] = proc[q], call'[q] = call[q]
  PROVE  ProcessSound(q)' /\ CallLinked(q)'
<1>1. Position(proc[q].node, proc[q].run, proc[q].action, proc[q].outcome,
               Cleared, Filed, started, receipts)
  BY DEF AgentInv, ProcessSound
<1>2. ASSUME proc[q].node = "idle"
      PROVE  ProcessSound(q)'
  BY <1>2, IdlePosition DEF ProcessSound
<1>3. ASSUME proc[q].node # "idle"
      PROVE  ProcessSound(q)'
  <2>1. proc[q].run \in Runs
    BY <1>3, BusyFields DEF AgentInv
  <2>2. Position(proc[q].node, proc[q].run, proc[q].action, proc[q].outcome,
                 Cleared', Filed', started', receipts')
    BY <1>1, <2>1, PositionKept DEF AgentGrows
  <2> QED
    BY <2>2 DEF ProcessSound
<1>4. CallLinked(q)'
  BY LinkKept DEF AgentInv, CallLinked, AgentGrows, Grows
<1> QED
  BY <1>2, <1>3, <1>4

\* A checkpoint holds the position of the process that wrote it.
LEMMA CheckpointsStep ==
  ASSUME AgentInv, AgentGrows, [AgentNext]_vars, NEW r \in Runs
  PROVE  CheckpointSound(r)'
<1>0. AgentTypeOK
  BY DEF AgentInv
<1>1. CASE ckpt'[r] = ckpt[r]
  BY <1>1, PositionKept DEF AgentInv, CheckpointSound, AgentGrows
<1>2. ASSUME NEW p \in Callers, SaveCheckpoint(p), proc[p].run = r
      PROVE  CheckpointSound(r)'
  <2>1. /\ ckpt'[r].next = GraphNode(proc[p].node)
        /\ ckpt'[r].action = proc[p].action
        /\ ckpt'[r].outcome = proc[p].outcome
    BY <1>0, <1>2 DEF SaveCheckpoint, AgentTypeOK
  <2>2. Position(proc[p].node, r, proc[p].action, proc[p].outcome,
                 Cleared', Filed', started', receipts')
    BY <1>2, PositionKept DEF AgentInv, ProcessSound, AgentGrows
  <2>3. Position(GraphNode(proc[p].node), r, proc[p].action, proc[p].outcome,
                 Cleared', Filed', started', receipts')
    BY <2>2 DEF GraphNode, Position, Proposed
  <2> QED
    BY <2>1, <2>3 DEF CheckpointSound
<1>3. ASSUME NEW p \in Callers, SaveCheckpoint(p), proc[p].run # r
      PROVE  ckpt'[r] = ckpt[r]
  BY <1>0, <1>3 DEF SaveCheckpoint, AgentTypeOK
<1>4. UNCHANGED ckpt \/ \E p \in Callers : SaveCheckpoint(p)
  BY DEF AgentNext, vars, agentVars, Command, Submit, Resume, AgentStep, Coordinate,
     Conclusion, EvaluatePolicy, PolicyCall, PolicyReturn, Interrupt, Decide, DecisionReturn,
     StartTool, ToolMissing, RunTool, PersistResult, VerifyResult, RecordResult, Failure,
     ModelError, Cancel, Crash
<1> QED
  BY <1>1, <1>2, <1>3, <1>4

\* An adapter runs only for an action that is announced and cleared.
LEMMA EffectsStep ==
  ASSUME AgentInv, AgentGrows, [AgentNext]_vars
  PROVE  EffectsAuthorized'
<1>0. AgentTypeOK
  BY DEF AgentInv
<1>1. ASSUME NEW r \in Runs, NEW i \in DOMAIN executed[r]
      PROVE  /\ RunOf[executed[r][i]] = r
             /\ executed[r][i] \in started'
             /\ executed[r][i] \in Cleared'
  <2>1. executed[r][i] \in Actions
    BY <1>0 DEF AgentTypeOK
  <2> QED
    BY <2>1 DEF AgentInv, EffectsAuthorized, Cleared, AgentGrows
<1>2. ASSUME \A r \in Runs : \A i \in DOMAIN executed'[r] :
               /\ RunOf[executed'[r][i]] = r
               /\ executed'[r][i] \in started'
               /\ executed'[r][i] \in Cleared'
      PROVE  EffectsAuthorized'
  BY <1>2 DEF EffectsAuthorized, Cleared
<1>3. CASE UNCHANGED executed
  BY <1>1, <1>2, <1>3
<1>4. ASSUME NEW p \in Callers, RunTool(p)
      PROVE  EffectsAuthorized'
  <2>1. /\ proc[p].action \in started /\ proc[p].action \in Cleared
        /\ proc[p].action \in Actions /\ RunOf[proc[p].action] = proc[p].run
    BY <1>4 DEF RunTool, At, AgentInv, ProcessSound, Position, Proposed
  <2>2. proc[p].action \in started' /\ proc[p].action \in Cleared'
    BY <2>1 DEF AgentGrows
  <2>3. CASE executed' = [executed EXCEPT ![proc[p].run] =
                            Append(executed[proc[p].run], proc[p].action)]
    <3>1. proc[p].run \in Runs /\ executed[proc[p].run] \in Seq(Actions)
      BY <1>0, <1>4, BusyFields DEF RunTool, At, AgentTypeOK
    <3>2. ASSUME NEW r \in Runs, NEW i \in DOMAIN executed'[r]
          PROVE  \/ r = proc[p].run /\ executed'[r][i] = proc[p].action
                 \/ i \in DOMAIN executed[r] /\ executed'[r][i] = executed[r][i]
      <4>1. CASE r = proc[p].run
        <5>1. executed'[r] = Append(executed[r], proc[p].action)
          BY <1>0, <2>3, <3>1, <4>1 DEF AgentTypeOK
        <5> QED
          BY <3>1, <4>1, <5>1, <2>1
      <4>2. CASE r # proc[p].run
        BY <1>0, <2>3, <4>2 DEF AgentTypeOK
      <4> QED
        BY <4>1, <4>2
    <3> QED
      BY <1>1, <1>2, <2>1, <2>2, <3>2
  <2> QED
    BY <1>3, <1>4, <2>3 DEF RunTool
<1> QED
  BY <1>3, <1>4 DEF AgentNext, vars, agentVars, Command, Submit, Resume, AgentStep,
     SaveCheckpoint, Coordinate, Conclusion, EvaluatePolicy, PolicyCall, PolicyReturn,
     Interrupt, Decide, DecisionReturn, StartTool, ToolMissing, PersistResult, VerifyResult,
     RecordResult, Failure, ModelError, Cancel, Crash

---------------------------------------------------------------------------
\* Administration of the policy leaves the runtime where it is.
LEMMA AdministerStep ==
  ASSUME AgentInv, AgentGrows, UNCHANGED agentVars, UNCHANGED call
  PROVE  /\ AgentTypeOK'
         /\ \A p \in Callers : ProcessSound(p)' /\ CallLinked(p)'
<1>1. AgentTypeOK'
  BY DEF AgentInv, agentVars, AgentTypeOK
<1>2. \A p \in Callers : ProcessSound(p)' /\ CallLinked(p)'
  BY OthersSound DEF agentVars
<1> QED
  BY <1>1, <1>2

\* Empty tables satisfy the invariant.
LEMMA AgentInitInv ==
  AgentInit => AgentInv
<1> SUFFICES ASSUME AgentInit
             PROVE  AgentInv
  OBVIOUS
<1>1. PolicyInv
  BY InitInv DEF AgentInit
<1>2. IdleProcess \in Process
  BY DEF IdleProcess, Process, ProcNodes, Outcomes
<1>3. AgentTypeOK
  BY <1>2 DEF AgentInit, AgentTypeOK, RunStatuses, Checkpoint, Outcomes, IdleProcess
<1>4. \A p \in Callers : ProcessSound(p)
  BY IdlePosition DEF AgentInit, ProcessSound, IdleProcess
<1>5. \A r \in Runs : CheckpointSound(r)
  BY DEF AgentInit, CheckpointSound, Position, Proposed
<1>6. \A p \in Callers : CallLinked(p)
  BY IdleCallFields DEF AgentInit, PolicyInit, CallLinked, Link
<1>7. EffectsAuthorized
  BY DEF AgentInit, EffectsAuthorized
<1> QED
  BY <1>1, <1>3, <1>4, <1>5, <1>6, <1>7 DEF AgentInv

\* Every step keeps the invariant.
LEMMA AgentStepInv ==
  AgentInv /\ [AgentNext]_vars => AgentInv'
<1> SUFFICES ASSUME AgentInv, [AgentNext]_vars
             PROVE  AgentInv'
  OBVIOUS
<1>1. [PolicyNext]_policyVars
  BY PolicyRefined DEF AgentInv
<1>2. PolicyInv'
  BY <1>1, StepInv DEF AgentInv
<1>3. Grows
  BY <1>1, GrowStep DEF AgentInv, PolicyInv
<1>4. AgentGrows
  BY <1>3, AgentGrowStep DEF AgentInv, PolicyInv
<1>5. /\ AgentTypeOK'
      /\ \A p \in Callers : ProcessSound(p)' /\ CallLinked(p)'
  <2>1. CASE UNCHANGED agentVars /\ UNCHANGED call
    BY <1>4, <2>1, AdministerStep
  <2>2. ASSUME NEW p \in Callers, Command(p) \/ AgentStep(p) \/ Failure(p)
        PROVE  /\ AgentTypeOK'
               /\ \A q \in Callers : ProcessSound(q)' /\ CallLinked(q)'
    <3>1. StepSound(p)
      BY <1>4, <2>2, ProcessStep
    <3> QED
      BY <1>4, <3>1, OthersSound DEF StepSound
  <2>3. CASE Administer /\ UNCHANGED agentVars
    BY <2>1, <2>3 DEF Administer, Tick, CreateSession, CloseSession, RevokeGrant
  <2>4. CASE UNCHANGED vars
    BY <2>1, <2>4 DEF vars, policyVars
  <2> QED
    BY <2>2, <2>3, <2>4 DEF AgentNext
<1>6. \A r \in Runs : CheckpointSound(r)'
  BY <1>4, CheckpointsStep
<1>7. EffectsAuthorized'
  BY <1>4, EffectsStep
<1> QED
  BY <1>2, <1>5, <1>6, <1>7 DEF AgentInv

\* The inductive invariant holds in every state the runtime reaches.
THEOREM AgentInvariant == AgentSpec => []AgentInv
BY AgentInitInv, AgentStepInv, PTL DEF AgentSpec

\* The runtime uses the policy service as PolicyService describes it: what is proved of
\* the service for arbitrary callers holds for the graph's processes.
THEOREM RuntimeRefinesPolicy == AgentSpec => PolicySpec
<1>1. AgentInit => PolicyInit
  BY DEF AgentInit
<1>2. AgentInv /\ [AgentNext]_vars => [PolicyNext]_policyVars
  BY PolicyRefined DEF AgentInv
<1> QED
  BY <1>1, <1>2, AgentInvariant, PTL DEF AgentSpec, PolicySpec

\* The tables, checkpoints and processes keep their shape.
THEOREM AgentTypeCorrect == AgentSpec => []AgentTypeOK
BY AgentInvariant, PTL DEF AgentInv

\* No adapter ever carries out an action without authority and without an audit trail,
\* for any number of processes, through crashes, cancellations and resumes.
THEOREM EffectsAuthorizedTheorem == AgentSpec => []EffectsAuthorized
BY AgentInvariant, PTL DEF AgentInv

\* A tool run is reported completed only over a receipt of success.
THEOREM ClaimsHaveReceiptsTheorem == AgentSpec => []ClaimsHaveReceipts
<1>1. AgentInv => ClaimsHaveReceipts
  BY DEF AgentInv, ClaimsHaveReceipts, ProcessSound, CheckpointSound, Position, At
<1> QED
  BY <1>1, AgentInvariant, PTL

\* A waiting run waits on a request that is on file.
THEOREM ApprovalsAreFiledTheorem == AgentSpec => []ApprovalsAreFiled
<1>1. AgentInv => ApprovalsAreFiled
  BY DEF AgentInv, ApprovalsAreFiled, CheckpointSound, Position, Filed, CallLinked, Link
<1> QED
  BY <1>1, AgentInvariant, PTL

---------------------------------------------------------------------------
(***************************************************************************)
(* One process.  What holds while only one process works on the database,  *)
(* for any number of sessions, runs and actions: decisions and outcomes    *)
(* are final, denied actions stay undone, and without failures a run has   *)
(* one effect.  The run policy_race shows that two processes break the     *)
(* first of these, and runtime_repeat that a crash breaks the last.        *)
(***************************************************************************)

Alone == \A p, q \in Callers : p = q

---------------------------------------------------------------------------
(***************************************************************************)
(* The policy service.  A caller that is about to commit a decision read a *)
(* pending request, and with no other caller it still is pending.          *)
(***************************************************************************)
DecisionStands(c) ==
  /\ call[c].step \in {"approve", "expire", "deny"} =>
       request[call[c].id].status = "pending"
  /\ call[c].result = "approved" => request[call[c].id].status = "approved"
  /\ call[c].step # "done" => call[c].result = "none"

Decisive == \A c \in Callers : DecisionStands(c)

\* The fields of a call that goes on, or is over.
LEMMA CallMoves ==
  ASSUME PolicyTypeOK, NEW c \in Callers
  PROVE  /\ \A from, to : Continue(c, from, to) =>
              /\ call[c].step = from
              /\ call'[c].step = to
              /\ call'[c].id = call[c].id
              /\ call'[c].result = call[c].result
         /\ \A from, result : Finish(c, from, result) =>
              /\ call[c].step = from
              /\ call'[c].step = "done"
              /\ call'[c].id = call[c].id
              /\ call'[c].result = result
<1>1. call[c] \in CallRecord
  BY DEF PolicyTypeOK
<1>2. ASSUME NEW from, NEW to, Continue(c, from, to)
      PROVE  /\ call[c].step = from
             /\ call'[c].step = to
             /\ call'[c].id = call[c].id
             /\ call'[c].result = call[c].result
  BY <1>1, <1>2 DEF Continue, PolicyTypeOK, CallRecord
<1>3. ASSUME NEW from, NEW result, Finish(c, from, result)
      PROVE  /\ call[c].step = from
             /\ call'[c].step = "done"
             /\ call'[c].id = call[c].id
             /\ call'[c].result = result
  BY <1>1, <1>3 DEF Finish, PolicyTypeOK, CallRecord
<1> QED
  BY <1>2, <1>3

\* A caller alone finds every request as it left it.
LEMMA DecisiveStep ==
  ASSUME PolicyInv, Alone, Decisive, [PolicyNext]_policyVars
  PROVE  Decisive'
<1> USE DEF PolicyInv
<1>0. PolicyTypeOK'
  BY TypeStep
<1>1. CASE UNCHANGED <<call, request>>
  BY <1>1 DEF Decisive, DecisionStands
<1>2. ASSUME NEW c \in Callers, DecisionStands(c)'
      PROVE  Decisive'
  BY <1>2 DEF Alone, Decisive
<1>3. ASSUME NEW c \in Callers, NEW a \in Actions, BeginAuthorize(c, a)
      PROVE  Decisive'
  <2>1. call'[c].step \in {"done", "lookup"} /\ call'[c].result \in {"none", "allow", "deny"}
        /\ (call'[c].step # "done" => call'[c].result = "none")
    BY <1>3 DEF BeginAuthorize, Enter, PolicyTypeOK
  <2> QED
    BY <1>2, <2>1 DEF DecisionStands
<1>4. ASSUME NEW c \in Callers, NEW id \in Ids, BeginApprove(c, id) \/ BeginDeny(c, id)
      PROVE  Decisive'
  <2>1. UNCHANGED request
    BY <1>4 DEF BeginApprove, BeginDeny
  <2>2. DecisionStands(c)'
    BY <1>4, <2>1 DEF BeginApprove, BeginDeny, Enter, PolicyTypeOK, DecisionStands
  <2> QED
    BY <1>2, <2>2
<1>5. ASSUME NEW c \in Callers, CallStep(c)
      PROVE  Decisive'
  <2>1. CASE LookupRequest(c)
    <3>1. \/ call'[c].step = "insert" /\ call'[c].result = call[c].result
          \/ call'[c].step = "done" /\ call'[c].result = "require_approval"
      BY <2>1, CallMoves DEF LookupRequest
    <3>2. call[c].result = "none"
      BY <2>1, CallMoves DEF LookupRequest, Decisive, DecisionStands
    <3> QED
      BY <1>2, <3>1, <3>2 DEF DecisionStands
  <2>2. CASE InsertRequest(c) \/ InsertRejected(c) \/ CommitExpire(c) \/ CommitDeny(c)
    <3>1. call'[c].step = "done" /\ call'[c].result # "approved"
      BY <2>2, CallMoves DEF InsertRequest, InsertRejected, CommitExpire, CommitDeny
    <3> QED
      BY <1>2, <3>1 DEF DecisionStands
  <2>3. CASE CommitApprove(c)
    <3>1. call'[c].step = "done" /\ call'[c].id = call[c].id
      BY <2>3, CallMoves DEF CommitApprove
    <3>2. request'[call[c].id].status = "approved"
      BY <2>3, CallFields, ResolveFrame DEF CommitApprove
    <3>3. DecisionStands(c)'
      BY <3>1, <3>2 DEF DecisionStands
    <3> QED
      BY <1>2, <3>3
  <2> QED
    BY <1>5, <2>1, <2>2, <2>3 DEF CallStep
<1>6. ASSUME NEW c \in Callers, Return(c) \/ AbandonCall(c)
      PROVE  Decisive'
  <2>1. call'[c] = IdleCall
    BY <1>6 DEF Return, AbandonCall, PolicyTypeOK
  <2>2. DecisionStands(c)'
    BY <2>1 DEF IdleCall, DecisionStands
  <2> QED
    BY <1>2, <2>2
<1> QED
  BY <1>1, <1>3, <1>4, <1>5, <1>6 DEF PolicyNext, policyVars, Administer, Tick,
     CreateSession, CloseSession, RevokeGrant

\* No call is in progress at first.
LEMMA DecisiveInit ==
  PolicyInit => Decisive
BY DEF PolicyInit, Decisive, DecisionStands, IdleCall

\* What a caller alone commits resolves a pending request.
LEMMA AloneResolves ==
  ASSUME PolicyInv, Decisive, NEW c \in Callers,
         CommitApprove(c) \/ CommitExpire(c) \/ CommitDeny(c)
  PROVE  /\ call[c].id \in Ids
         /\ request[call[c].id].status = "pending"
         /\ \A id \in Ids : id # call[c].id => request'[id] = request[id]
         /\ request'[call[c].id].status = IF CommitApprove(c) THEN "approved" ELSE "denied"
<1>1. PolicyTypeOK /\ call[c].id \in Ids
  BY CallFields DEF PolicyInv
<1>2. request[call[c].id].status = "pending"
  BY DEF CommitApprove, CommitExpire, CommitDeny, Finish, Decisive, DecisionStands
<1>3. CASE CommitApprove(c)
  BY <1>1, <1>2, <1>3, ResolveFrame DEF CommitApprove
<1>4. CASE ~CommitApprove(c)
  BY <1>1, <1>2, <1>4, ResolveFrame DEF CommitExpire, CommitDeny
<1> QED
  BY <1>3, <1>4

\* Alone, no step takes a decision back.
LEMMA ResolutionStep ==
  ASSUME PolicyInv, Decisive, [PolicyNext]_policyVars, NEW id \in Ids, Resolved(id)
  PROVE  request'[id].status = request[id].status
<1>1. CASE UNCHANGED request
  BY <1>1
<1>2. ASSUME NEW c \in Callers, InsertRequest(c)
      PROVE  request'[id].status = request[id].status
  BY <1>2 DEF InsertRequest, PolicyInv, PolicyTypeOK, Resolved
<1>3. ASSUME NEW c \in Callers, CommitApprove(c) \/ CommitExpire(c) \/ CommitDeny(c)
      PROVE  request'[id].status = request[id].status
  BY <1>3, AloneResolves DEF Resolved
<1> QED
  BY <1>1, <1>2, <1>3, RequestWriters

---------------------------------------------------------------------------
\* The steps of the service as steps of ApprovalLifecycle.

Verdict == [id \in Ids |-> request[id].status]

Licensed == {ActionId[grants[i].action] : i \in DOMAIN grants}

\* A revocation leaves the license on record.
LEMMA RevocationKeepsLicenses ==
  ASSUME PolicyTypeOK, NEW i \in DOMAIN grants, RevokeGrant(i)
  PROVE  Licensed' = Licensed
<1>1. grants' = [grants EXCEPT ![i] = [grants[i] EXCEPT !.revoked = TRUE]]
  BY DEF RevokeGrant
<1>2. grants[i] \in GrantRow
  BY DEF PolicyTypeOK
<1>3. DOMAIN grants' = DOMAIN grants
  BY <1>1
<1>4. \A j \in DOMAIN grants : grants'[j].action = grants[j].action
  BY <1>1, <1>2 DEF GrantRow
<1> QED
  BY <1>3, <1>4 DEF Licensed

\* An approval licenses its own request, if that is a write, and nothing else.
LEMMA ApprovalLicenses ==
  ASSUME PolicyInv, NEW c \in Callers, CommitApprove(c)
  PROVE  Licensed' \in {Licensed, Licensed \cup
           ({call[c].id} \cap {ActionId[a] : a \in {b \in Actions : Risk[b] = "write"}})}
<1>1. /\ request[call[c].id].status # "none"
      /\ request[call[c].id].action = call[c].action
  BY DEF PolicyInv, CallsSound, CallSound, CommitApprove, Finish
<1>2. call[c].action \in Actions /\ ActionId[call[c].action] = call[c].id
  BY <1>1, CallFields DEF PolicyInv, RequestsSound
<1>3. CASE Risk[call[c].action] # "write"
  BY <1>3 DEF CommitApprove, IssuesGrant, Licensed
<1>4. CASE Risk[call[c].action] = "write"
  <2>1. PICK g : grants' = Append(grants, g) /\ g.action = call[c].action
    BY <1>4 DEF CommitApprove, IssuesGrant
  <2>2. grants \in Seq(GrantRow)
    BY DEF PolicyInv, PolicyTypeOK
  <2>3. /\ DOMAIN grants' = DOMAIN grants \cup {Len(grants) + 1}
        /\ \A i \in DOMAIN grants : grants'[i] = grants[i]
        /\ grants'[Len(grants) + 1] = g
    BY <2>1, <2>2
  <2>4. Licensed' = Licensed \cup {ActionId[g.action]}
    BY <2>3 DEF Licensed
  <2> QED
    BY <1>2, <1>4, <2>1, <2>4
<1> QED
  BY <1>3, <1>4

\* A step of the service asks, approves or denies once, or changes nothing.
LEMMA LifecycleStep ==
  ASSUME PolicyInv, Decisive, [PolicyNext]_policyVars
  PROVE  [Lifecycle!LifecycleNext]_<<Verdict, Licensed>>
<1> USE DEF PolicyInv
<1>0. Verdict \in [Ids -> {"none", "pending", "approved", "denied"}]
  BY DEF Verdict, PolicyTypeOK, RequestRow
<1>1. ASSUME UNCHANGED request, UNCHANGED grants \/ \E i \in DOMAIN grants : RevokeGrant(i)
      PROVE  UNCHANGED <<Verdict, Licensed>>
  BY <1>1, RevocationKeepsLicenses DEF Verdict, Licensed
<1>2. ASSUME NEW c \in Callers, InsertRequest(c)
      PROVE  Lifecycle!LifecycleNext
  <2>1. call[c].id \in Ids
    BY CallFields
  <2>2. Verdict[call[c].id] = "none" /\ Verdict' = [Verdict EXCEPT ![call[c].id] = "pending"]
    BY <1>2, <2>1 DEF InsertRequest, Verdict, PolicyTypeOK
  <2>3. Licensed' = Licensed
    BY <1>2 DEF InsertRequest, Licensed
  <2> QED
    BY <2>1, <2>2, <2>3 DEF Lifecycle!LifecycleNext, Lifecycle!Ask, Verdict, Licensed
<1>3. ASSUME NEW c \in Callers, CommitApprove(c)
      PROVE  Lifecycle!LifecycleNext
  <2>1. call[c].id \in Ids /\ Verdict[call[c].id] = "pending"
        /\ Verdict' = [Verdict EXCEPT ![call[c].id] = "approved"]
    BY <1>0, <1>3, AloneResolves DEF Verdict
  <2> QED
    BY <1>3, <2>1, ApprovalLicenses DEF Lifecycle!LifecycleNext, Lifecycle!Approve, Verdict,
       Licensed
<1>4. ASSUME NEW c \in Callers, CommitExpire(c) \/ CommitDeny(c)
      PROVE  Lifecycle!LifecycleNext
  <2>0. ~CommitApprove(c)
    BY <1>4 DEF CommitApprove, CommitExpire, CommitDeny, Finish
  <2>1. call[c].id \in Ids /\ Verdict[call[c].id] = "pending"
        /\ Verdict' = [Verdict EXCEPT ![call[c].id] = "denied"]
    BY <1>0, <1>4, <2>0, AloneResolves DEF Verdict
  <2>2. Licensed' = Licensed
    BY <1>4 DEF CommitExpire, CommitDeny, Licensed
  <2> QED
    BY <2>1, <2>2 DEF Lifecycle!LifecycleNext, Lifecycle!Deny, Verdict, Licensed
<1>5. \/ UNCHANGED request /\ (UNCHANGED grants \/ \E i \in DOMAIN grants : RevokeGrant(i))
      \/ \E c \in Callers :
           InsertRequest(c) \/ CommitApprove(c) \/ CommitExpire(c) \/ CommitDeny(c)
  BY RequestWriters, GrantWriters DEF RevokeGrant
<1> QED
  BY <1>1, <1>2, <1>3, <1>4, <1>5

\* With one caller the invariant and the lifecycle hold together.
LEMMA AloneInvariant ==
  ASSUME Alone
  PROVE  PolicySpec => [](PolicyInv /\ Decisive)
<1>1. PolicyInit => Decisive
  BY DecisiveInit
<1>2. PolicyInv /\ Decisive /\ [PolicyNext]_policyVars => Decisive'
  BY DecisiveStep
<1> QED
  BY <1>1, <1>2, PolicyInvariant, PTL DEF PolicySpec

\* One process at a time, a request that was decided is never decided again.
THEOREM ResolutionFinalTheorem ==
  ASSUME Alone
  PROVE  PolicySpec => ResolutionIsFinal
<1>1. PolicyInv /\ Decisive /\ [PolicyNext]_policyVars
      => [\A id \in Ids : Resolved(id) => request'[id].status = request[id].status]_policyVars
  BY ResolutionStep
<1> QED
  BY <1>1, AloneInvariant, PTL DEF PolicySpec, ResolutionIsFinal

\* One process at a time, the service implements ApprovalLifecycle: asked once, decided
\* once, and only an approved write licenses anything.
THEOREM PolicyImplementsLifecycle ==
  ASSUME Alone
  PROVE  PolicySpec => ImplementsLifecycle
<1>1. PolicyInit => Lifecycle!LifecycleInit
  BY DEF PolicyInit, Lifecycle!LifecycleInit
<1>2. PolicyInv /\ Decisive /\ [PolicyNext]_policyVars
      => [Lifecycle!LifecycleNext]_<<Verdict, Licensed>>
  BY LifecycleStep
<1> QED
  BY <1>1, <1>2, AloneInvariant, PTL DEF PolicySpec, ImplementsLifecycle,
     Lifecycle!LifecycleSpec, Verdict, Licensed
---------------------------------------------------------------------------
(***************************************************************************)
(* The graph.  Between two steps of a process its run's checkpoint can     *)
(* only be behind it, and how far behind is what decides whether a crash   *)
(* can undo something: a checkpoint at the end is final, and the answer of *)
(* a human reaches a process only over a checkpoint at the approval node.  *)
(***************************************************************************)
Edges ==
  {<<"coordinate", "policy">>, <<"coordinate", "respond">>, <<"policy", "execute">>,
   <<"policy", "approval">>, <<"policy", "denied">>, <<"approval", "interrupt">>,
   <<"approval", "execute">>, <<"approval", "denied">>, <<"execute", "adapter">>,
   <<"execute", "receipt">>, <<"adapter", "receipt">>, <<"receipt", "verify">>,
   <<"verify", "end">>, <<"respond", "end">>, <<"denied", "end">>}

\* The edges inside one node of the graph.
Inside ==
  {<<"approval", "interrupt">>, <<"execute", "adapter">>, <<"execute", "receipt">>,
   <<"adapter", "receipt">>}

\* A process x goes on to y.
Advances(x, y) ==
  /\ <<x.node, y.node>> \in Edges
  /\ y.run = x.run
  /\ y.resume = x.resume
  /\ x.node # "coordinate" => y.action = x.action
  /\ y.saved => x.saved /\ <<x.node, y.node>> \in Inside

\* A process x at work on a run whose checkpoint is k.
Follows(x, k) ==
  /\ k.next = "end" => x.node = "end" /\ x.outcome = k.outcome
  /\ x.saved => k.next = GraphNode(x.node) /\ (x.node = "end" => k.outcome = x.outcome)
  /\ x.node \in {"coordinate", "policy"} => x.resume = "none"
  /\ x.node = "approval" /\ x.resume # "none" =>
       k.next = "approval" /\ k.action = x.action

Tracks(p) ==
  Busy(p) => run[proc[p].run] # "absent" /\ Follows(proc[p], ckpt[proc[p].run])

Unsubmitted == \A r \in Runs : run[r] = "absent" => ckpt[r].next = "none"

GraphInv == Unsubmitted /\ \A p \in Callers : Tracks(p)

\* GraphNode has a place on disk for every place in a process.
LEMMA GraphNodeFacts ==
  ASSUME NEW node \in ProcNodes \ {"idle"}
  PROVE  /\ GraphNode(node) \in GraphNodes
         /\ GraphNode(node) = "end" <=> node = "end"
         /\ GraphNode(node) = "approval" <=> node \in {"approval", "interrupt"}
         /\ GraphNode(node) = "denied" <=> node = "denied"
         /\ node \in GraphNodes => GraphNode(node) = node
BY DEF GraphNode, GraphNodes, ProcNodes

\* The helpers of the actions move a process along an edge.
LEMMA GotoAdvances ==
  ASSUME AgentTypeOK, NEW p \in Callers, NEW node \in ProcNodes, Goto(p, node),
         <<proc[p].node, node>> \in Edges
  PROVE  Advances(proc[p], proc'[p])
<1>1. proc[p] \in Process
  BY DEF AgentTypeOK
<1> QED
  BY <1>1 DEF Goto, Advances, AgentTypeOK, Process

LEMMA ConcludeAdvances ==
  ASSUME AgentTypeOK, NEW p \in Callers, NEW outcome \in Outcomes,
         Conclude(p, "end", outcome), <<proc[p].node, "end">> \in Edges
  PROVE  Advances(proc[p], proc'[p])
<1>1. proc[p] \in Process
  BY DEF AgentTypeOK
<1> QED
  BY <1>1 DEF Conclude, Advances, AgentTypeOK, Process

LEMMA WithinAdvances ==
  ASSUME AgentTypeOK, NEW p \in Callers, NEW node \in ProcNodes, NEW outcome \in Outcomes,
         Within(p, node, outcome), <<proc[p].node, node>> \in Edges \cap Inside
  PROVE  Advances(proc[p], proc'[p])
<1>1. proc[p] \in Process
  BY DEF AgentTypeOK
<1> QED
  BY <1>1 DEF Within, Advances, AgentTypeOK, Process

\* What a step may make of the process and of the checkpoint.
Moves(p) ==
  \/ \E r \in Runs : Submit(p, r) \/ \E answer \in {"yes", "no"} : Resume(p, r, answer)
  \/ SaveCheckpoint(p)
  \/ UNCHANGED <<ckpt, run, proc>>
  \/ UNCHANGED <<ckpt, run>> /\ Advances(proc[p], proc'[p])
  \/ UNCHANGED ckpt /\ Stop(p) /\ \A r \in Runs : run'[r] = "absent" => run[r] = "absent"

LEMMA ProcessMoves ==
  ASSUME AgentTypeOK, NEW p \in Callers, Command(p) \/ AgentStep(p) \/ Failure(p)
  PROVE  Moves(p)
<1>1. CASE Command(p)
  BY <1>1 DEF Command, Moves
<1>2. CASE SaveCheckpoint(p)
  BY <1>2 DEF Moves
<1>3. CASE EvaluatePolicy(p) \/ PolicyCall(p) \/ Decide(p)
  BY <1>3 DEF EvaluatePolicy, PolicyCall, Decide, agentVars, Moves
<1>4. CASE Coordinate(p)
  <2>1. proc[p] \in Process
    BY DEF AgentTypeOK
  <2>2. ASSUME NEW a \in Actions,
               proc' = [proc EXCEPT ![p] =
                 [@ EXCEPT !.node = "policy", !.action = a, !.saved = FALSE]]
        PROVE  Advances(proc[p], proc'[p])
    BY <1>4, <2>1, <2>2 DEF Coordinate, At, Advances, Edges, AgentTypeOK, Process
  <2>3. Goto(p, "respond") => Advances(proc[p], proc'[p])
    BY <1>4, GotoAdvances DEF Coordinate, At, Edges, ProcNodes, GraphNodes
  <2> QED
    BY <1>4, <2>2, <2>3 DEF Coordinate, Moves
<1>5. CASE Conclusion(p)
  BY <1>5, ConcludeAdvances DEF Conclusion, At, Edges, Outcomes, Moves
<1>6. CASE PolicyReturn(p)
  <2>1. \/ Stop(p)
        \/ \E node \in {"execute", "approval", "denied"} : Goto(p, node)
    BY <1>6 DEF PolicyReturn, RouteAfterPolicy
  <2> QED
    BY <1>6, <2>1, GotoAdvances DEF PolicyReturn, At, Edges, ProcNodes, GraphNodes, Moves
<1>7. CASE Interrupt(p) \/ StartTool(p) \/ ToolMissing(p)
  BY <1>7, WithinAdvances DEF Interrupt, StartTool, ToolMissing, At, Edges, Inside,
     ProcNodes, GraphNodes, Outcomes, ToolOutcomes, Moves
<1>8. CASE DecisionReturn(p)
  <2>1. \/ Stop(p)
        \/ \E node \in {"execute", "denied"} : Goto(p, node)
    BY <1>8 DEF DecisionReturn
  <2> QED
    BY <1>8, <2>1, GotoAdvances DEF DecisionReturn, At, Edges, ProcNodes, GraphNodes, Moves
<1>9. CASE RunTool(p)
  <2>1. \E outcome \in Outcomes : Within(p, "receipt", outcome)
    BY <1>9 DEF RunTool, Outcomes, ToolOutcomes
  <2> QED
    BY <1>9, <2>1, WithinAdvances DEF RunTool, At, Edges, Inside, ProcNodes, Moves
<1>10. CASE PersistResult(p)
  BY <1>10, GotoAdvances DEF PersistResult, At, Edges, ProcNodes, GraphNodes, Moves
<1>11. CASE VerifyResult(p)
  <2>1. Verdicts(proc[p].outcome) \subseteq Outcomes
    BY DEF Verdicts, Outcomes, ToolOutcomes
  <2> QED
    BY <1>11, <2>1, ConcludeAdvances DEF VerifyResult, At, Edges, Moves
<1>12. CASE RecordResult(p)
  <2>1. GraphStatus(p) # "absent"
    BY DEF GraphStatus
  <2> QED
    BY <1>12, <2>1 DEF RecordResult, AgentTypeOK, Moves
<1>13. CASE Failure(p)
  BY <1>13 DEF Failure, ModelError, Cancel, Crash, AgentTypeOK, Moves
<1> QED
  BY <1>1, <1>2, <1>3, <1>4, <1>5, <1>6, <1>7, <1>8, <1>9, <1>10, <1>11, <1>12, <1>13
     DEF AgentStep

\* What saving a checkpoint does.
LEMMA SaveFields ==
  ASSUME AgentTypeOK, NEW p \in Callers, SaveCheckpoint(p)
  PROVE  /\ proc[p].run \in Runs /\ proc[p].node \in ProcNodes \ {"idle"}
         /\ ckpt'[proc[p].run].next = GraphNode(proc[p].node)
         /\ ckpt'[proc[p].run].action = proc[p].action
         /\ ckpt'[proc[p].run].outcome = proc[p].outcome
         /\ \A r \in Runs : r # proc[p].run => ckpt'[r] = ckpt[r]
         /\ proc'[p].node = proc[p].node
         /\ proc'[p].run = proc[p].run
         /\ proc'[p].action = proc[p].action
         /\ proc'[p].resume = proc[p].resume
         /\ proc'[p].outcome = proc[p].outcome
<1>1. proc[p] \in Process /\ proc[p].run \in Runs /\ proc[p].node \in ProcNodes \ {"idle"}
  BY BusyFields DEF AgentTypeOK, SaveCheckpoint, Busy
<1> QED
  BY <1>1 DEF SaveCheckpoint, AgentTypeOK, Process

\* What submit() makes of an idle process.
LEMMA SubmitFields ==
  ASSUME AgentTypeOK, NEW p \in Callers, NEW r \in Runs, Submit(p, r)
  PROVE  /\ proc'[p].run = r
         /\ proc'[p].node = "coordinate"
         /\ proc'[p].resume = "none"
         /\ ~proc'[p].saved
<1>1. proc'[p] = [IdleProcess EXCEPT !.node = "coordinate", !.run = r]
  BY DEF Submit, AgentTypeOK
<1> QED
  BY <1>1 DEF IdleProcess

\* What resume() makes of an idle process.
LEMMA ResumeFields ==
  ASSUME AgentTypeOK, NEW p \in Callers, NEW r \in Runs, NEW answer \in {"yes", "no"},
         Resume(p, r, answer)
  PROVE  /\ ckpt[r].next \in GraphNodes
         /\ proc'[p].run = r
         /\ proc'[p].node = ckpt[r].next
         /\ proc'[p].action = ckpt[r].action
         /\ proc'[p].outcome = ckpt[r].outcome
         /\ proc'[p].resume = IF ckpt[r].next = "approval" THEN answer ELSE "none"
<1>1. ckpt[r].next \in GraphNodes \cup {"none"}
  BY DEF AgentTypeOK, Checkpoint
<1> QED
  BY <1>1 DEF Resume, AgentTypeOK

\* Alone, a process finds its checkpoint where it left it.
LEMMA GraphStep ==
  ASSUME AgentInv, Alone, GraphInv, [AgentNext]_vars
  PROVE  GraphInv'
<1>0. AgentTypeOK
  BY DEF AgentInv
<1>1. CASE UNCHANGED <<run, ckpt, proc>>
  BY <1>1 DEF GraphInv, Unsubmitted, Tracks, Busy
<1>2. ASSUME NEW p \in Callers, Unsubmitted', Tracks(p)'
      PROVE  GraphInv'
  BY <1>2 DEF Alone, GraphInv
<1>3. ASSUME NEW p \in Callers, NEW r \in Runs, Submit(p, r)
      PROVE  GraphInv'
  <2>1. run[r] = "absent" /\ run' = [run EXCEPT ![r] = "pending"] /\ ckpt' = ckpt
    BY <1>3 DEF Submit
  <2>2. run'[r] = "pending" /\ Unsubmitted'
    BY <1>0, <2>1 DEF GraphInv, Unsubmitted, AgentTypeOK
  <2>3. ckpt[r].next = "none"
    BY <2>1 DEF GraphInv, Unsubmitted
  <2>4. Follows(proc'[p], ckpt[r])
    BY <1>0, <1>3, <2>3, SubmitFields DEF Follows
  <2> QED
    BY <1>0, <1>2, <1>3, <2>1, <2>2, <2>4, SubmitFields DEF Tracks
<1>4. ASSUME NEW p \in Callers, NEW r \in Runs, NEW answer \in {"yes", "no"},
             Resume(p, r, answer)
      PROVE  GraphInv'
  <2>1. UNCHANGED <<run, ckpt>> /\ ckpt[r].next # "none"
    BY <1>4 DEF Resume
  <2>2. run[r] # "absent" /\ Unsubmitted'
    BY <2>1 DEF GraphInv, Unsubmitted
  <2>3. GraphNode(ckpt[r].next) = ckpt[r].next
    BY <1>0, <1>4, ResumeFields DEF GraphNode, GraphNodes
  <2>4. Follows(proc'[p], ckpt[r])
    BY <1>0, <1>4, <2>3, ResumeFields DEF Follows
  <2> QED
    BY <1>0, <1>2, <1>4, <2>1, <2>2, <2>4, ResumeFields DEF Tracks
<1>5. ASSUME NEW p \in Callers, SaveCheckpoint(p)
      PROVE  GraphInv'
  <2>1. run' = run /\ run[proc[p].run] # "absent" /\ Follows(proc[p], ckpt[proc[p].run])
    BY <1>5 DEF SaveCheckpoint, GraphInv, Tracks
  <2>2. Unsubmitted'
    BY <1>0, <1>5, <2>1, SaveFields DEF GraphInv, Unsubmitted
  <2>3. Follows(proc'[p], ckpt'[proc[p].run])
    BY <1>0, <1>5, <2>1, SaveFields, GraphNodeFacts DEF Follows
  <2> QED
    BY <1>0, <1>2, <1>5, <2>1, <2>2, <2>3, SaveFields DEF Tracks
<1>6. ASSUME NEW p \in Callers, UNCHANGED <<ckpt, run>>, Advances(proc[p], proc'[p])
      PROVE  GraphInv'
  <2>1. proc[p].node # "idle" /\ proc[p].node # "end"
    BY <1>6 DEF Advances, Edges
  <2>2. run[proc[p].run] # "absent" /\ Follows(proc[p], ckpt[proc[p].run])
    BY <2>1 DEF GraphInv, Tracks, Busy
  <2>3. Follows(proc'[p], ckpt[proc[p].run])
    BY <1>6, <2>1, <2>2 DEF Follows, Advances, Edges, Inside, GraphNode
  <2>4. Unsubmitted'
    BY <1>6 DEF GraphInv, Unsubmitted
  <2> QED
    BY <1>2, <1>6, <2>2, <2>3, <2>4 DEF Tracks, Advances
<1>7. ASSUME NEW p \in Callers, UNCHANGED ckpt, Stop(p),
             \A r \in Runs : run'[r] = "absent" => run[r] = "absent"
      PROVE  GraphInv'
  <2>1. proc'[p].node = "idle"
    BY <1>0, <1>7, StopFields
  <2>2. Unsubmitted'
    BY <1>7 DEF GraphInv, Unsubmitted
  <2> QED
    BY <1>2, <2>1, <2>2 DEF Tracks, Busy
<1>8. CASE Administer /\ UNCHANGED agentVars
  BY <1>1, <1>8 DEF agentVars
<1>9. CASE UNCHANGED vars
  BY <1>1, <1>9 DEF vars, agentVars
<1>10. ASSUME NEW p \in Callers, Command(p) \/ AgentStep(p) \/ Failure(p)
       PROVE  GraphInv'
  <2>1. Moves(p)
    BY <1>0, <1>10, ProcessMoves
  <2> QED
    BY <1>1, <1>3, <1>4, <1>5, <1>6, <1>7, <2>1 DEF Moves
<1> QED
  BY <1>8, <1>9, <1>10 DEF AgentNext

\* Nothing is submitted at first.
LEMMA GraphInit ==
  AgentInit => GraphInv
BY DEF AgentInit, GraphInv, Unsubmitted, Tracks, Busy, IdleProcess

---------------------------------------------------------------------------
\* Once the request of an action is denied, its run has only the denial left.
DeniedAction(a) == request[ActionId[a]].status = "denied"

DeadEnd(a) ==
  /\ ckpt[RunOf[a]].next \in {"approval", "denied", "end"}
  /\ ckpt[RunOf[a]].next = "approval" => ckpt[RunOf[a]].action = a
  /\ \A p \in Callers : Busy(p) /\ proc[p].run = RunOf[a] =>
       /\ proc[p].node \in {"approval", "interrupt", "denied", "end"}
       /\ proc[p].node \in {"approval", "interrupt"} => proc[p].action = a

DenialsStick == \A a \in Actions : DeniedAction(a) => DeadEnd(a)

\* Different actions have different ids.
Distinct == \A a, b \in Actions : ActionId[a] = ActionId[b] => a = b

\* A step that writes a request leaves processes and checkpoints alone.
LEMMA RequestOrAgent ==
  [AgentNext]_vars => UNCHANGED request \/ UNCHANGED agentVars
BY DEF AgentNext, vars, policyVars, Command, Submit, Resume, AgentStep, SaveCheckpoint,
   Coordinate, Conclusion, EvaluatePolicy, BeginAuthorize, PolicyCall, PolicyReturn, Return,
   Interrupt, Decide, BeginApprove, BeginDeny, DecisionReturn, StartTool, ToolMissing,
   RunTool, PersistResult, VerifyResult, RecordResult, Failure, ModelError, Cancel, Crash,
   DropCall, AbandonCall

\* A denial is committed by a process that its own run's checkpoint waits for.
LEMMA DenialStops ==
  ASSUME AgentInv, Alone, Distinct, Decisive, GraphInv, [AgentNext]_vars,
         NEW a \in Actions, DeniedAction(a)', ~DeniedAction(a)
  PROVE  DeadEnd(a)'
<1> USE DEF DeniedAction
<1>0. PolicyTypeOK /\ AgentTypeOK /\ PolicyInv /\ ActionId[a] \in Ids
  BY PolicyAssumption DEF AgentInv, PolicyInv
<1>1. [PolicyNext]_policyVars
  BY PolicyRefined DEF AgentInv
<1>2. PICK c \in Callers : CommitApprove(c) \/ CommitExpire(c) \/ CommitDeny(c)
  <2>1. ASSUME NEW c \in Callers, InsertRequest(c)
        PROVE  FALSE
    BY <1>0, <2>1, CallFields DEF InsertRequest, PolicyTypeOK
  <2> QED
    BY <1>1, <2>1, RequestWriters
<1>3. /\ ~CommitApprove(c)
      /\ call[c].id = ActionId[a]
      /\ call[c].step \in {"expire", "deny"}
  <2>1. call[c].id = ActionId[a] /\ ~CommitApprove(c)
    BY <1>0, <1>2, AloneResolves
  <2> QED
    BY <1>2, <2>1 DEF CommitExpire, CommitDeny, Finish
<1>4. /\ proc[c].node = "approval"
      /\ proc[c].resume # "none"
      /\ ActionId[proc[c].action] = ActionId[a]
  BY <1>3 DEF AgentInv, CallLinked, Link
<1>5. proc[c].action = a /\ proc[c].run = RunOf[a] /\ proc[c].run \in Runs
  BY <1>0, <1>4, BusyFields DEF AgentInv, ProcessSound, Position, Proposed, Distinct
<1>6. ckpt[proc[c].run].next = "approval" /\ ckpt[proc[c].run].action = a
  BY <1>4, <1>5 DEF GraphInv, Tracks, Busy, Follows
<1>7. UNCHANGED <<proc, ckpt>>
  BY RequestOrAgent DEF agentVars
<1> QED
  BY <1>4, <1>5, <1>6, <1>7 DEF DeadEnd, Alone

\* The only way from the approval node to the tool is an approval.
LEMMA OnlyApprovalExecutes ==
  ASSUME AgentTypeOK, NEW p \in Callers, Command(p) \/ AgentStep(p) \/ Failure(p),
         At(p, "approval"), proc'[p].node = "execute"
  PROVE  DecisionReturn(p) /\ call[p].result = "approved"
<1>1. ~Command(p) /\ ~Failure(p)
  BY StopFields DEF Command, Submit, Resume, At, Failure, ModelError, Cancel, Crash
<1>2. ~SaveCheckpoint(p)
  BY SaveFields DEF At
<1>3. ~EvaluatePolicy(p) /\ ~PolicyCall(p) /\ ~Decide(p)
  BY DEF EvaluatePolicy, PolicyCall, Decide, agentVars, At
<1>4. ~Interrupt(p)
  BY WithinFields DEF Interrupt, ProcNodes, Outcomes
<1>5. DecisionReturn(p)
  BY <1>1, <1>2, <1>3, <1>4 DEF AgentStep, Coordinate, Conclusion, PolicyReturn, StartTool,
     ToolMissing, RunTool, PersistResult, VerifyResult, RecordResult, At
<1>6. ~Stop(p) /\ ~Goto(p, "denied")
  BY StopFields, GotoFields DEF ProcNodes, GraphNodes
<1> QED
  BY <1>5, <1>6 DEF DecisionReturn

\* A denied action's run finds no way back to its tool.
LEMMA DenialsStep ==
  ASSUME AgentInv, Alone, Distinct, Decisive, GraphInv, DenialsStick, [AgentNext]_vars
  PROVE  DenialsStick'
<1> SUFFICES ASSUME NEW a \in Actions, DeniedAction(a)'
             PROVE  DeadEnd(a)'
  BY DEF DenialsStick
<1>0. AgentTypeOK /\ RunOf[a] \in Runs
  BY RuntimeAssumption DEF AgentInv
<1>1. CASE ~DeniedAction(a)
  BY <1>1, DenialStops
<1>2. CASE DeniedAction(a)
  <2> DEFINE r == RunOf[a]
  <2>1. DeadEnd(a)
    BY <1>2 DEF DenialsStick
  <2>2. CASE UNCHANGED <<ckpt, proc>>
    BY <2>1, <2>2 DEF DeadEnd, Busy
  <2>3. ASSUME NEW p \in Callers, NEW s \in Runs, Submit(p, s)
        PROVE  DeadEnd(a)'
    <3>1. ckpt[s].next = "none" /\ ckpt' = ckpt
      BY <2>3 DEF Submit, GraphInv, Unsubmitted
    <3>2. s # r
      BY <2>1, <3>1 DEF DeadEnd
    <3>3. proc'[p].run = s
      BY <1>0, <2>3, SubmitFields
    <3> QED
      BY <2>1, <3>1, <3>2, <3>3 DEF DeadEnd, Alone
  <2>4. ASSUME NEW p \in Callers, NEW s \in Runs, NEW answer \in {"yes", "no"},
               Resume(p, s, answer)
        PROVE  DeadEnd(a)'
    <3>1. ckpt' = ckpt
      BY <2>4 DEF Resume
    <3> QED
      BY <1>0, <2>1, <2>4, <3>1, ResumeFields DEF DeadEnd, Alone
  <2>5. ASSUME NEW p \in Callers, SaveCheckpoint(p)
        PROVE  DeadEnd(a)'
    <3>1. Busy(p)
      BY <2>5 DEF SaveCheckpoint
    <3>2. CASE proc[p].run # r
      BY <1>0, <2>1, <2>5, <3>2, SaveFields DEF DeadEnd, Alone
    <3>3. CASE proc[p].run = r
      <4>1. /\ proc[p].node \in {"approval", "interrupt", "denied", "end"}
            /\ proc[p].node \in {"approval", "interrupt"} => proc[p].action = a
        BY <2>1, <3>1, <3>3 DEF DeadEnd
      <4>2. /\ ckpt'[r].next \in {"approval", "denied", "end"}
            /\ ckpt'[r].next = "approval" => ckpt'[r].action = a
        BY <1>0, <2>5, <3>3, <4>1, SaveFields DEF GraphNode
      <4> QED
        BY <1>0, <2>5, <4>1, <4>2, SaveFields DEF DeadEnd, Alone
    <3> QED
      BY <3>2, <3>3
  <2>6. ASSUME NEW p \in Callers, UNCHANGED ckpt, Stop(p)
        PROVE  DeadEnd(a)'
    BY <1>0, <2>1, <2>6, StopFields DEF DeadEnd, Alone, Busy
  <2>7. ASSUME NEW p \in Callers, UNCHANGED ckpt, Advances(proc[p], proc'[p]),
               ~(At(p, "approval") /\ proc'[p].node = "execute")
        PROVE  DeadEnd(a)'
    <3>1. Busy(p) /\ proc'[p].run = proc[p].run
      BY <2>7 DEF Advances, Edges, Busy
    <3>2. CASE proc[p].run # r
      BY <2>1, <2>7, <3>1, <3>2 DEF DeadEnd, Alone
    <3>3. CASE proc[p].run = r
      <4>1. /\ proc[p].node \in {"approval", "interrupt", "denied", "end"}
            /\ proc[p].node \in {"approval", "interrupt"} => proc[p].action = a
        BY <2>1, <3>1, <3>3 DEF DeadEnd
      <4>2. /\ proc'[p].node \in {"approval", "interrupt", "denied", "end"}
            /\ proc'[p].node \in {"approval", "interrupt"} => proc'[p].action = a
        BY <2>7, <4>1 DEF Advances, Edges, At
      <4> QED
        BY <2>1, <2>7, <4>2 DEF DeadEnd, Alone
    <3> QED
      BY <3>2, <3>3
  <2>8. ASSUME NEW p \in Callers, DecisionReturn(p), call[p].result = "approved"
        PROVE  DeadEnd(a)'
    <3>1. /\ proc[p].node = "approval"
          /\ call[p].id = ActionId[proc[p].action]
          /\ request[call[p].id].status = "approved"
      BY <2>8 DEF DecisionReturn, Return, At, AgentInv, CallLinked, Link, Decisive,
         DecisionStands
    <3>2. proc[p].run # r
      BY <1>2, <2>1, <3>1 DEF DeadEnd, DeniedAction, Busy
    <3>3. UNCHANGED ckpt /\ proc'[p].run = proc[p].run
      BY <1>0, <2>8, GotoFields DEF DecisionReturn, ProcNodes, GraphNodes
    <3> QED
      BY <2>1, <3>2, <3>3 DEF DeadEnd, Alone
  <2>9. ASSUME NEW p \in Callers, Command(p) \/ AgentStep(p) \/ Failure(p)
        PROVE  DeadEnd(a)'
    <3>1. Moves(p)
      BY <1>0, <2>9, ProcessMoves
    <3>2. CASE At(p, "approval") /\ proc'[p].node = "execute"
      <4>1. DecisionReturn(p) /\ call[p].result = "approved"
        BY <1>0, <2>9, <3>2, OnlyApprovalExecutes
      <4> QED
        BY <2>8, <4>1
    <3>3. CASE ~(At(p, "approval") /\ proc'[p].node = "execute")
      BY <2>2, <2>3, <2>4, <2>5, <2>6, <2>7, <3>1, <3>3 DEF Moves
    <3> QED
      BY <3>2, <3>3
  <2> QED
    BY <2>2, <2>9 DEF AgentNext, vars, agentVars
<1> QED
  BY <1>1, <1>2

---------------------------------------------------------------------------
Final(status) == status \in {"succeeded", "failed"}

Recorded(outcome) == IF outcome = "failed" THEN "failed" ELSE "succeeded"

\* A run with an answer or an outcome on record has ended in its checkpoint, and the record
\* agrees with the checkpoint as long as no cancellation has taken it back.
Settled ==
  \A r \in Runs :
    /\ r \in answered =>
         ckpt[r].next = "end" /\ run[r] \in {Recorded(ckpt[r].outcome), "cancelled"}
    /\ Final(run[r]) => ckpt[r].next = "end" /\ run[r] = Recorded(ckpt[r].outcome)

\* Only submit(), the record and a cancellation write a run's status or its answer.
LEMMA StatusWriters ==
  [AgentNext]_vars =>
    \/ UNCHANGED <<run, answered>>
    \/ \E p \in Callers, r \in Runs : Submit(p, r)
    \/ \E p \in Callers : RecordResult(p) \/ Cancel(p)
BY DEF AgentNext, vars, agentVars, Command, Resume, AgentStep, SaveCheckpoint, Coordinate,
   Conclusion, EvaluatePolicy, PolicyCall, PolicyReturn, Interrupt, Decide, DecisionReturn,
   StartTool, ToolMissing, RunTool, PersistResult, VerifyResult, Failure, ModelError, Crash

\* Only a checkpoint being saved changes one.
LEMMA CheckpointWriters ==
  [AgentNext]_vars => UNCHANGED ckpt \/ \E p \in Callers : SaveCheckpoint(p)
BY DEF AgentNext, vars, agentVars, Command, Submit, Resume, AgentStep, Coordinate,
   Conclusion, EvaluatePolicy, PolicyCall, PolicyReturn, Interrupt, Decide, DecisionReturn,
   StartTool, ToolMissing, RunTool, PersistResult, VerifyResult, RecordResult, Failure,
   ModelError, Cancel, Crash

\* A checkpoint at the end stays as it is.
LEMMA EndStays ==
  ASSUME AgentInv, Alone, GraphInv, [AgentNext]_vars, NEW r \in Runs, ckpt[r].next = "end"
  PROVE  ckpt'[r].next = "end" /\ ckpt'[r].outcome = ckpt[r].outcome
<1>1. ASSUME NEW p \in Callers, SaveCheckpoint(p)
      PROVE  ckpt'[r].next = "end" /\ ckpt'[r].outcome = ckpt[r].outcome
  <2>0. AgentTypeOK
    BY DEF AgentInv
  <2>1. CASE proc[p].run # r
    BY <1>1, <2>0, <2>1, SaveFields
  <2>2. CASE proc[p].run = r
    <3>1. proc[p].node = "end" /\ proc[p].outcome = ckpt[r].outcome
      BY <1>1, <2>2 DEF SaveCheckpoint, GraphInv, Tracks, Follows
    <3> QED
      BY <1>1, <2>0, <2>2, <3>1, SaveFields DEF GraphNode
  <2> QED
    BY <2>1, <2>2
<1> QED
  BY <1>1, CheckpointWriters

\* What a process that records its run knows of the run's checkpoint.
LEMMA RecordFields ==
  ASSUME AgentInv, GraphInv, NEW p \in Callers, RecordResult(p)
  PROVE  LET r == proc[p].run IN
         /\ r \in Runs
         /\ ckpt' = ckpt
         /\ \A s \in Runs : s # r => run'[s] = run[s] /\ (s \in answered' <=> s \in answered)
         /\ \/ /\ ckpt[r].next = "end"
               /\ run'[r] = Recorded(ckpt[r].outcome)
               /\ r \in answered'
            \/ /\ ckpt[r].next = "approval"
               /\ run'[r] = "paused"
               /\ answered' = answered
<1> DEFINE r == proc[p].run
<1>1. AgentTypeOK /\ r \in Runs /\ Follows(proc[p], ckpt[r]) /\ proc[p].saved
  BY BusyFields DEF AgentInv, RecordResult, At, GraphInv, Tracks, Busy
<1>2. run'[r] = GraphStatus(p) /\ \A s \in Runs : s # r => run'[s] = run[s]
  BY <1>1 DEF RecordResult, AgentTypeOK
<1>3. CASE At(p, "interrupt")
  BY <1>1, <1>2, <1>3 DEF RecordResult, GraphAnswers, GraphStatus, At, Follows, GraphNode
<1>4. CASE At(p, "end")
  BY <1>1, <1>2, <1>4 DEF RecordResult, GraphAnswers, GraphStatus, At, Follows, GraphNode,
     Recorded
<1> QED
  BY <1>3, <1>4 DEF RecordResult

\* An outcome on record stays there unless a cancellation takes it back.
LEMMA SettledStep ==
  ASSUME AgentInv, Alone, GraphInv, Settled, [AgentNext]_vars
  PROVE  /\ Settled'
         /\ \A r \in Runs : Final(run[r]) => run'[r] \in {run[r], "cancelled"}
<1>0. AgentTypeOK
  BY DEF AgentInv
<1>1. CASE UNCHANGED <<run, answered>>
  BY <1>1, EndStays DEF Settled
<1>2. ASSUME NEW p \in Callers, NEW r \in Runs, Submit(p, r)
      PROVE  Settled' /\ \A s \in Runs : Final(run[s]) => run'[s] \in {run[s], "cancelled"}
  <2>1. /\ run[r] = "absent" /\ run'[r] = "pending"
        /\ \A s \in Runs : s # r => run'[s] = run[s]
        /\ UNCHANGED <<ckpt, answered>>
    BY <1>0, <1>2 DEF Submit, AgentTypeOK
  <2> QED
    BY <2>1 DEF Settled, Final, Recorded
<1>3. ASSUME NEW p \in Callers, RecordResult(p)
      PROVE  Settled' /\ \A s \in Runs : Final(run[s]) => run'[s] \in {run[s], "cancelled"}
  <2> DEFINE r == proc[p].run
  <2>1. /\ r \in Runs
        /\ ckpt' = ckpt
        /\ \A s \in Runs : s # r => run'[s] = run[s] /\ (s \in answered' <=> s \in answered)
    BY <1>3, RecordFields
  <2>2. CASE ckpt[r].next = "end" /\ run'[r] = Recorded(ckpt[r].outcome)
    BY <2>1, <2>2 DEF Settled, Final, Recorded
  <2>3. CASE ckpt[r].next = "approval" /\ run'[r] = "paused" /\ answered' = answered
    BY <2>1, <2>3 DEF Settled, Final
  <2> QED
    BY <1>3, <2>2, <2>3, RecordFields
<1>4. ASSUME NEW p \in Callers, Cancel(p)
      PROVE  Settled' /\ \A s \in Runs : Final(run[s]) => run'[s] \in {run[s], "cancelled"}
  <2> DEFINE r == proc[p].run
  <2>0. proc[p].node # "idle"
    BY <1>4 DEF Cancel, Busy
  <2>1. /\ run'[r] = "cancelled"
        /\ \A s \in Runs : s # r => run'[s] = run[s]
        /\ UNCHANGED <<ckpt, answered>>
    BY <1>0, <1>4, <2>0, BusyFields DEF Cancel, AgentTypeOK
  <2> QED
    BY <2>1 DEF Settled, Final
<1> QED
  BY <1>1, <1>2, <1>3, <1>4, StatusWriters

---------------------------------------------------------------------------
\* The run has ended, or a process is past the adapter with it.
Beyond(r, nodes) ==
  \/ ckpt[r].next = "end"
  \/ \E p \in Callers : proc[p].run = r /\ proc[p].node \in nodes

\* A run with an effect or a receipt never meets its adapter again.
Spent ==
  \A r \in Runs :
    /\ Len(executed[r]) <= 1
    /\ executed[r] # <<>> => Beyond(r, {"receipt", "verify", "end"})
    /\ receipts[r] # "none" => Beyond(r, {"verify", "end"})

\* Without failures a process past the adapter leaves only over a checkpoint at the end.
LEMMA BeyondStep ==
  ASSUME AgentInv, Alone, GraphInv, Spent, [AgentNext]_vars, Faults = {},
         NEW r \in Runs, NEW nodes \in {{"receipt", "verify", "end"}, {"verify", "end"}},
         Beyond(r, nodes)
  PROVE  Beyond(r, nodes)'
<1>0. AgentTypeOK
  BY DEF AgentInv
<1>1. CASE ckpt[r].next = "end"
  BY <1>1, EndStays DEF Beyond
<1>2. ASSUME ckpt[r].next # "end", NEW p \in Callers, proc[p].run = r, proc[p].node \in nodes
      PROVE  Beyond(r, nodes)'
  <2>0. /\ proc[p].node \in {"receipt", "verify", "end"}
        /\ Follows(proc[p], ckpt[r])
    BY <1>2 DEF GraphInv, Tracks, Busy
  <2>1. CASE UNCHANGED proc
    BY <1>2, <2>1 DEF Beyond
  <2>2. CASE SaveCheckpoint(p)
    <3>1. proc'[p].node = proc[p].node /\ proc'[p].run = r
      BY <1>0, <1>2, <2>2, SaveFields
    <3> QED
      BY <1>2, <3>1 DEF Beyond
  <2>3. CASE Advances(proc[p], proc'[p])
    <3>1. proc'[p].run = r /\ proc'[p].node \in nodes
      BY <1>2, <2>0, <2>3 DEF Advances, Edges
    <3> QED
      BY <3>1 DEF Beyond
  <2>4. ~(AgentStep(p) /\ Stop(p))
    <3>1. SUFFICES ASSUME AgentStep(p), Stop(p)
                   PROVE  FALSE
      OBVIOUS
    <3>2. proc'[p].node = "idle"
      BY <1>0, <3>1, StopFields
    <3>3. RecordResult(p) \/ PersistResult(p)
      BY <1>0, <2>0, <3>1, <3>2, SaveFields, ConcludeFields DEF AgentStep, Coordinate,
         Conclusion, EvaluatePolicy, PolicyCall, PolicyReturn, Interrupt, Decide,
         DecisionReturn, StartTool, ToolMissing, RunTool, agentVars, At, VerifyResult,
         Verdicts, Outcomes, ToolOutcomes, ProcNodes, GraphNodes
    <3>4. ~RecordResult(p)
      BY <1>2, <2>0 DEF RecordResult, At, Follows, GraphNode
    <3>5. PersistResult(p) /\ At(p, "receipt") /\ receipts[r] # "none"
      BY <1>0, <1>2, <3>2, <3>3, <3>4, GotoFields DEF PersistResult, ProcNodes, GraphNodes
    <3>6. Beyond(r, {"verify", "end"})
      BY <3>5 DEF Spent
    <3> QED
      BY <1>2, <3>5, <3>6 DEF Beyond, At, Alone
  <2>5. ~Failure(p) /\ ~Command(p)
    BY <2>0 DEF Failure, ModelError, Cancel, Crash, Command, Submit, Resume, At
  <2>6. CASE AgentStep(p)
    <3>1. Moves(p)
      BY <1>0, <2>6, ProcessMoves
    <3> QED
      BY <2>0, <2>1, <2>2, <2>3, <2>4, <2>6, <3>1 DEF Moves, Submit, Resume, At
  <2> QED
    BY <2>1, <2>5, <2>6 DEF AgentNext, vars, agentVars, Alone
<1> QED
  BY <1>1, <1>2 DEF Beyond

\* Only the adapter has an effect, and only the gateway files a receipt.
LEMMA EffectWriters ==
  [AgentNext]_vars =>
    \/ UNCHANGED <<executed, receipts>>
    \/ \E p \in Callers : RunTool(p) /\ UNCHANGED receipts
    \/ \E p \in Callers : PersistResult(p) /\ UNCHANGED executed
BY DEF AgentNext, vars, agentVars, Command, Submit, Resume, AgentStep, SaveCheckpoint,
   Coordinate, Conclusion, EvaluatePolicy, PolicyCall, PolicyReturn, Interrupt, Decide,
   DecisionReturn, StartTool, ToolMissing, RunTool, PersistResult, VerifyResult,
   RecordResult, Failure, ModelError, Cancel, Crash

\* Without failures an adapter runs only for a run that has no effect yet.
LEMMA SpentStep ==
  ASSUME AgentInv, Alone, GraphInv, Spent, [AgentNext]_vars, Faults = {}
  PROVE  Spent'
<1>0. AgentTypeOK
  BY DEF AgentInv
<1>1. \A r \in Runs : \A nodes \in {{"receipt", "verify", "end"}, {"verify", "end"}} :
        Beyond(r, nodes) => Beyond(r, nodes)'
  BY BeyondStep
<1>2. CASE UNCHANGED <<executed, receipts>>
  BY <1>1, <1>2 DEF Spent
<1>3. ASSUME NEW p \in Callers, RunTool(p), UNCHANGED receipts
      PROVE  Spent'
  <2>0. PICK r \in Runs : r = proc[p].run
    BY <1>0, <1>3, BusyFields DEF RunTool, At
  <2>1. At(p, "adapter") /\ Follows(proc[p], ckpt[r])
    BY <1>3, <2>0 DEF RunTool, At, GraphInv, Tracks, Busy
  <2>2. executed[r] = <<>>
    BY <2>0, <2>1 DEF Spent, Beyond, At, Follows, Alone
  <2>3. proc'[p].run = r /\ proc'[p].node = "receipt"
    BY <1>0, <1>3, <2>0, WithinFields DEF RunTool, Outcomes, ToolOutcomes, ProcNodes
  <2>4. Beyond(r, {"receipt", "verify", "end"})'
    BY <2>3 DEF Beyond
  <2>5. Len(executed'[r]) <= 1 /\ \A s \in Runs : s # r => executed'[s] = executed[s]
    <3>1. executed \in [Runs -> Seq(Actions)]
      BY <1>0 DEF AgentTypeOK
    <3>2. \/ executed' = executed
          \/ executed' = [executed EXCEPT ![r] = Append(@, proc[p].action)]
      BY <1>3, <2>0 DEF RunTool
    <3>3. Len(executed[r]) = 0
      BY <2>2
    <3>4. proc[p].action \in Actions
      BY <2>1 DEF AgentInv, ProcessSound, Position, Proposed, At
    <3>5. Len(Append(executed[r], proc[p].action)) = 1
      BY <3>1, <3>3, <3>4
    <3>6. CASE executed' = executed
      BY <3>3, <3>6
    <3>7. CASE executed' = [executed EXCEPT ![r] = Append(executed[r], proc[p].action)]
      <4>1. executed'[r] = Append(executed[r], proc[p].action)
        BY <3>1, <3>7
      <4>2. \A s \in Runs : s # r => executed'[s] = executed[s]
        BY <3>1, <3>7
      <4>3. Len(executed'[r]) <= 1
        BY <3>5, <4>1
      <4> QED
        BY <4>2, <4>3
    <3> QED
      BY <3>2, <3>6, <3>7
  <2> QED
    BY <1>1, <1>3, <2>4, <2>5 DEF Spent
<1>4. ASSUME NEW p \in Callers, PersistResult(p), UNCHANGED executed
      PROVE  Spent'
  <2>1. PICK r \in Runs : r = proc[p].run
    BY <1>0, <1>4, BusyFields DEF PersistResult, At
  <2>2. CASE UNCHANGED receipts
    BY <1>1, <1>4, <2>2 DEF Spent
  <2>3. CASE Goto(p, "verify")
    <3>1. proc'[p].run = r /\ proc'[p].node = "verify"
      BY <1>0, <2>1, <2>3, GotoFields DEF ProcNodes, GraphNodes
    <3>2. Beyond(r, {"verify", "end"})'
      BY <3>1 DEF Beyond
    <3>3. \A s \in Runs : s # r => receipts'[s] = receipts[s]
      BY <1>0, <1>4, <2>1 DEF PersistResult, AgentTypeOK
    <3> QED
      BY <1>1, <1>4, <3>2, <3>3 DEF Spent
  <2> QED
    BY <1>4, <2>2, <2>3 DEF PersistResult
<1> QED
  BY <1>2, <1>3, <1>4, EffectWriters

---------------------------------------------------------------------------
\* Nothing is decided, denied, recorded or spent at first.
LEMMA AloneInit ==
  AgentInit => Decisive /\ GraphInv /\ DenialsStick /\ Settled /\ Spent
<1> SUFFICES ASSUME AgentInit
             PROVE  Decisive /\ GraphInv /\ DenialsStick /\ Settled /\ Spent
  OBVIOUS
<1>1. Decisive
  BY DecisiveInit DEF AgentInit
<1>2. GraphInv
  BY GraphInit
<1>3. DenialsStick
  BY PolicyAssumption DEF AgentInit, PolicyInit, DenialsStick, DeniedAction
<1>4. Settled
  BY DEF AgentInit, Settled, Final
<1>5. Spent
  BY DEF AgentInit, Spent
<1> QED
  BY <1>1, <1>2, <1>3, <1>4, <1>5

\* What one process keeps, whatever fails.
LEMMA OneProcessInvariant ==
  ASSUME Alone
  PROVE  AgentSpec => [](AgentInv /\ Decisive /\ GraphInv)
<1>1. AgentInit => Decisive /\ GraphInv
  BY AloneInit
<1>2. AgentInv /\ Decisive /\ GraphInv /\ [AgentNext]_vars => Decisive' /\ GraphInv'
  <2> SUFFICES ASSUME AgentInv, Decisive, GraphInv, [AgentNext]_vars
               PROVE  Decisive' /\ GraphInv'
    OBVIOUS
  <2>1. [PolicyNext]_policyVars
    BY PolicyRefined DEF AgentInv
  <2> QED
    BY <2>1, DecisiveStep, GraphStep DEF AgentInv
<1> QED
  BY <1>1, <1>2, AgentInvariant, PTL DEF AgentSpec

\* The runtime inherits the lifecycle of its approvals: with one process, crashes and
\* resumes included, every request is asked once and decided once.
THEOREM RuntimeImplementsLifecycle ==
  ASSUME Alone
  PROVE  AgentSpec => ImplementsLifecycle /\ ResolutionIsFinal
BY RuntimeRefinesPolicy, ResolutionFinalTheorem, PolicyImplementsLifecycle, PTL

\* With one process and distinct action ids, no adapter carries out an action whose
\* request stands denied: a crash between the denial and its checkpoint resumes at the
\* approval node, where the denial is found again.
THEOREM NoEffectAfterDenialTheorem ==
  ASSUME Alone, Distinct
  PROVE  AgentSpec => NoEffectAfterDenial
<1>1. AgentInv /\ Decisive /\ GraphInv /\ DenialsStick /\ [AgentNext]_vars => DenialsStick'
  BY DenialsStep
<1>2. AgentInv /\ DenialsStick /\ [AgentNext]_vars =>
        [\A r \in Runs : executed'[r] # executed[r] =>
           request[ActionId[executed'[r][Len(executed'[r])]]].status # "denied"]_vars
  <2> SUFFICES ASSUME AgentInv, DenialsStick, [AgentNext]_vars,
                      NEW r \in Runs, executed'[r] # executed[r]
               PROVE  request[ActionId[executed'[r][Len(executed'[r])]]].status # "denied"
    OBVIOUS
  <2>1. PICK p \in Callers : RunTool(p)
    BY EffectWriters
  <2>2. executed \in [Runs -> Seq(Actions)] /\ AgentTypeOK
    BY DEF AgentInv, AgentTypeOK
  <2>3. /\ proc[p].node = "adapter"
        /\ proc[p].action \in Actions
        /\ RunOf[proc[p].action] = proc[p].run
    BY <2>1 DEF RunTool, At, AgentInv, ProcessSound, Position, Proposed
  <2>4. executed' = [executed EXCEPT ![proc[p].run] = Append(@, proc[p].action)]
    BY <2>1 DEF RunTool
  <2>5. executed'[r][Len(executed'[r])] = proc[p].action
    BY <2>2, <2>3, <2>4
  <2>6. ~DeniedAction(proc[p].action)
    BY <2>3 DEF DenialsStick, DeadEnd, Busy
  <2> QED
    BY <2>5, <2>6 DEF DeniedAction
<1>3. AgentInit => DenialsStick
  BY AloneInit
<1> QED
  BY <1>1, <1>2, <1>3, OneProcessInvariant, PTL DEF AgentSpec, NoEffectAfterDenial

\* What is on record or has been answered has ended, for good.
LEMMA SettledInvariant ==
  ASSUME Alone
  PROVE  AgentSpec => [](AgentInv /\ GraphInv /\ Settled)
<1>1. AgentInv /\ GraphInv /\ Settled /\ [AgentNext]_vars => Settled'
  BY SettledStep
<1>2. AgentInit => Settled
  BY AloneInit
<1> QED
  BY <1>1, <1>2, OneProcessInvariant, PTL DEF AgentSpec

\* With one process, a recorded outcome survives every crash and every later resume; a
\* cancelled resume replaces it by "cancelled", and nothing by another outcome.
THEOREM OutcomeFinalTheorem ==
  ASSUME Alone
  PROVE  AgentSpec => OutcomeIsFinal
<1>1. AgentInv /\ GraphInv /\ Settled /\ [AgentNext]_vars =>
        [\A r \in Runs :
           run[r] \in {"succeeded", "failed"} => run'[r] \in {run[r], "cancelled"}]_vars
  BY SettledStep DEF Final
<1> QED
  BY <1>1, SettledInvariant, PTL DEF AgentSpec, OutcomeIsFinal

\* With one process, a run has an answer in the conversation only if its graph has ended,
\* whatever is cancelled, crashes or is resumed; its status is then the outcome of its
\* checkpoint, or "cancelled".
THEOREM AnsweredEndedTheorem ==
  ASSUME Alone
  PROVE  AgentSpec => []AnsweredRunsHaveEnded
<1>1. AgentInv /\ Settled => AnsweredRunsHaveEnded
  BY DEF Settled, Recorded, AnsweredRunsHaveEnded, AgentInv, AgentTypeOK
<1> QED
  BY <1>1, SettledInvariant, PTL

\* With one process and no failures, a run has one effect at most, however often it is
\* resumed.
THEOREM OneEffectTheorem ==
  ASSUME Alone, Faults = {}
  PROVE  AgentSpec => []AtMostOneEffect
<1>1. AgentInv /\ GraphInv /\ Spent /\ [AgentNext]_vars => Spent'
  BY SpentStep
<1>2. Spent => AtMostOneEffect
  BY DEF Spent, AtMostOneEffect
<1>3. AgentInit => Spent
  BY AloneInit
<1> QED
  BY <1>1, <1>2, <1>3, OneProcessInvariant, PTL DEF AgentSpec

\* "A paused run resumes from its persisted checkpoint without repeating a completed
\* effect" (docs): true of one process that never fails.  runtime_repeat shows the crash
\* between the receipt and its checkpoint that makes it false.
THEOREM CompletedEffectNotRepeatedTheorem ==
  ASSUME Alone, Faults = {}
  PROVE  AgentSpec => CompletedEffectNotRepeated
<1>1. AgentInv /\ GraphInv /\ Spent /\ [AgentNext]_vars => Spent'
  BY SpentStep
<1>2. AgentInv /\ GraphInv /\ Spent /\ [AgentNext]_vars =>
        [\A r \in Runs : executed'[r] # executed[r] => receipts[r] # "succeeded"]_vars
  <2> SUFFICES ASSUME AgentInv, GraphInv, Spent, [AgentNext]_vars,
                      NEW r \in Runs, executed'[r] # executed[r]
               PROVE  receipts[r] # "succeeded"
    OBVIOUS
  <2>1. PICK p \in Callers : RunTool(p)
    BY EffectWriters
  <2>2. proc[p].run = r
    BY <2>1 DEF RunTool, AgentInv, AgentTypeOK
  <2>3. At(p, "adapter") /\ Follows(proc[p], ckpt[r])
    BY <2>1, <2>2 DEF RunTool, At, GraphInv, Tracks, Busy
  <2>4. ~Beyond(r, {"verify", "end"})
    BY <2>2, <2>3 DEF Beyond, At, Follows, Alone
  <2> QED
    BY <2>4 DEF Spent
<1>3. AgentInit => Spent
  BY AloneInit
<1> QED
  BY <1>1, <1>2, <1>3, OneProcessInvariant, PTL DEF AgentSpec, CompletedEffectNotRepeated
=============================================================================
