------------------------------- MODULE Turn_proofs -------------------------------
(***************************************************************************)
(* Proofs about Turn, for any number of turns, any route, any actions and  *)
(* any files: a turn is a run of CoordinatorRoute beside a run of          *)
(* ToolExecution, and what the user is told of it is true.                 *)
(***************************************************************************)
EXTENDS Turn, CoordinatorRoute_proofs, ToolExecution_proofs

---------------------------------------------------------------------------
(***************************************************************************)
(* The inductive invariant ties the coordinator's call to the tool: until  *)
(* decide() has answered the tool is idle, and compose() is called for a   *)
(* search that has succeeded only.  Both halves are needed to know that an *)
(* error of the coordinator leaves no effect behind.                       *)
(***************************************************************************)
Working(t) == work[t].step \notin {"idle", "done", "cancelled"}

\* The ids of a successful receipt are sources.
Found(t) == receipts[t].outcome = "succeeded" => receipts[t].ids \subseteq Sources

ReplySound(t) ==
  /\ Asking(t) \/ Working(t) => Pending(t)
  /\ call[t].op = "none" => call[t].outcome = "none" /\ At(t, "idle")
  /\ call[t].op = "decide" /\ call[t].outcome # "answer" => At(t, "idle")
  /\ call[t].op = "compose" =>
       At(t, "done") /\ Does(t, "search") /\ receipts[t].outcome = "succeeded"
  /\ Does(t, "search") => Found(t)
  /\ reply[t].status = "raised" => Failed(t)
  /\ reply[t].status = "completed" =>
       /\ receipts[t].outcome = "succeeded"
       /\ Does(t, "search") => reply[t].cited # {} /\ reply[t].cited \subseteq receipts[t].ids

TurnInv ==
  /\ RouteInv
  /\ ToolInv
  /\ reply \in [Turns -> Reply]
  /\ \A t \in Turns : ReplySound(t)

---------------------------------------------------------------------------
\* A step of a turn is a step of its coordinator, of its tool, of both or of neither.
LEMMA TurnSteps ==
  ASSUME [TurnNext]_turnVars
  PROVE  [RouteNext]_routeVars /\ [ToolNext]_toolVars
<1>1. CASE UNCHANGED turnVars
  BY <1>1 DEF turnVars
<1>2. CASE Environment /\ UNCHANGED <<routeVars, reply>>
  BY <1>2 DEF ToolNext
<1>3. ASSUME NEW t \in Turns, Turning(t) \/ Cancel(t) \/ (Start(t) /\ UNCHANGED <<toolVars, reply>>)
      PROVE  [RouteNext]_routeVars /\ [ToolNext]_toolVars
  <2>1. t \in Callers
    BY TurnAssumption
  <2>2. CASE Decide(t)
    BY <2>1, <2>2 DEF Decide, RouteNext
  <2>3. CASE Respond(t) \/ Raise(t) \/ Cite(t)
    BY <2>3 DEF Respond, Raise, Cite
  <2>4. CASE Execute(t)
    BY <2>4 DEF Execute, ToolNext
  <2>5. CASE Verify(t)
    BY <2>1, <2>5 DEF Verify, RouteNext
  <2>6. CASE RouteStep(t) /\ UNCHANGED <<toolVars, reply>>
    BY <2>1, <2>6 DEF RouteNext
  <2>7. CASE Adapter(t) /\ UNCHANGED <<routeVars, reply>>
    BY <2>7 DEF ToolNext
  <2>8. CASE Cancel(t)
    BY <2>1, <2>8 DEF Cancel, RouteNext, ToolNext
  <2>9. CASE Start(t) /\ UNCHANGED <<toolVars, reply>>
    BY <2>1, <2>9 DEF RouteNext
  <2> QED
    BY <1>3, <2>2, <2>3, <2>4, <2>5, <2>6, <2>7, <2>8, <2>9 DEF Turning
<1> QED
  BY <1>1, <1>2, <1>3 DEF TurnNext

\* A step along the route keeps the kind of call and touches no other caller's.
LEMMA RouteStepFrame ==
  ASSUME RouteInv, NEW c \in Callers, RouteStep(c) \/ Abandon(c)
  PROVE  /\ Asking(c) /\ call'[c].op = call[c].op
         /\ \A d \in Callers \ {c} : call'[d] = call[d]
<1>1. call \in [Callers -> Call] /\ call[c] \in Call
  BY DEF RouteInv, RouteTypeOK
<1>2. \A cause : Stopped(c, cause).op = call[c].op /\ FailOver(c, cause).op = call[c].op
  BY <1>1 DEF Stopped, FailOver, Call
<1>3. \A outcome : Over(c, outcome).op = call[c].op
  BY DEF Over, NoCall
<1>4. Corrected(c).op = call[c].op
  BY <1>1, <1>2 DEF Corrected, Call
<1>5. \A cause : ModelError(c, cause).op = call[c].op
  BY <1>1, <1>2 DEF ModelError, Call
<1>6. ASSUME NEW y, y.op = call[c].op, Becomes(c, y)
      PROVE  call'[c].op = call[c].op /\ \A d \in Callers \ {c} : call'[d] = call[d]
  BY <1>1, <1>6 DEF Becomes
<1>7. CASE RefusePrompt(c)
  BY <1>2, <1>6, <1>7 DEF RefusePrompt, Codex
<1>8. CASE Probe(c)
  <2>1. CASE UNCHANGED call
    BY <1>8, <2>1 DEF Probe, Codex
  <2>2. CASE Becomes(c, Stopped(c, "application")) \/ Becomes(c, FailOver(c, "provider"))
    BY <1>2, <1>6, <1>8, <2>2 DEF Probe, Codex
  <2> QED
    BY <1>8, <2>1, <2>2 DEF Probe
<1>9. CASE Invoke(c)
  <2>1. \/ Becomes(c, Stopped(c, "application")) \/ Becomes(c, FailOver(c, "provider"))
        \/ Becomes(c, Over(c, "answer")) \/ Becomes(c, Corrected(c))
    BY <1>9 DEF Invoke, Payloads
  <2> QED
    BY <1>2, <1>3, <1>4, <1>6, <1>9, <2>1 DEF Invoke, Codex
<1>10. CASE AskModel(c)
  <2>1. \/ Becomes(c, Stopped(c, "application")) \/ Becomes(c, Over(c, "answer"))
        \/ \E cause : Becomes(c, ModelError(c, cause))
    BY <1>10 DEF AskModel
  <2> QED
    BY <1>2, <1>3, <1>5, <1>6, <1>10, <2>1 DEF AskModel
<1>11. CASE Abandon(c)
  BY <1>3, <1>6, <1>11 DEF Abandon
<1> QED
  BY <1>7, <1>8, <1>9, <1>10, <1>11 DEF RouteStep

\* A step of an adapter moves its own turn only, which is at work; research files only
\* sources it has found.
LEMMA AdapterFrame ==
  ASSUME ToolInv, NEW t \in Turns, Adapter(t)
  PROVE  /\ Working(t) /\ work'[t].action = work[t].action
         /\ Does(t, "search") /\ Found(t) => Found(t)'
         /\ \A u \in Turns \ {t} : work'[u] = work[u] /\ receipts'[u] = receipts[u]
<1> DEFINE Frame ==
      /\ work'[t].action = work[t].action
      /\ Does(t, "search") /\ Found(t) => Found(t)'
      /\ \A u \in Turns \ {t} : work'[u] = work[u] /\ receipts'[u] = receipts[u]
<1>1. /\ work \in [Turns -> Work] /\ work[t] \in Work /\ receipts \in [Turns -> Receipt]
      /\ TurnSound(t)
  BY DEF ToolInv, ToolTypeOK
<1>2. work[t].step \in Busy => ~Does(t, "search")
  BY <1>1 DEF TurnSound, Writes, Does, Reads
<1>3. ASSUME NEW outcome, NEW ids, File(t, outcome, ids), Does(t, "search") => ids \subseteq Sources
      PROVE  Frame
  BY <1>1, <1>3 DEF File, Stops, NoWork, Found
<1>4. ASSUME NEW kind, NEW network, NEW Undone, Launch(t, kind, network, Undone)
      PROVE  Frame
  <2>1. CASE Starts(t, kind, network)
    BY <1>1, <2>1 DEF Starts, Work, Found
  <2>2. CASE /\ work' = [work EXCEPT ![t].step = "exited", ![t].kind = kind,
                     ![t].exit = IF kind = "test" THEN @ ELSE 1,
                     ![t].tested = IF kind = "test" THEN 1 ELSE @]
             /\ UNCHANGED <<world, docker, receipts>>
    BY <1>1, <2>2 DEF Work, Found
  <2>3. CASE File(t, "failed", {})
    BY <1>3, <2>3
  <2> QED
    BY <1>4, <2>1, <2>2, <2>3 DEF Launch, Starts
<1>5. CASE Reject(t)
  BY <1>3, <1>5 DEF Reject, Working, At
<1>6. CASE Inspect(t)
  BY <1>3, <1>6 DEF Inspect, Executes, Working, At
<1>7. CASE Baseline(t)
  BY <1>1, <1>7 DEF Baseline, Executes, Working, At, Work, Found
<1>8. CASE LaunchWorker(t)
  BY <1>4, <1>8 DEF LaunchWorker, Working, At
<1>9. CASE Evidence(t)
  <2>1. Working(t)
    BY <1>9 DEF Evidence, Working, At
  <2>2. CASE File(t, "failed", {})
    BY <1>3, <2>1, <2>2
  <2>3. CASE ~File(t, "failed", {})
    <3> DEFINE found == {f \in Files : files[f] # work[t].before[f]}
               next == IF work[t].exit = 0 /\ work[t].action.tests THEN "tests" ELSE "report"
    <3>1. /\ work' = [work EXCEPT ![t].listed = found, ![t].before = NoWork.before,
                        ![t].step = next]
          /\ UNCHANGED receipts
      BY <1>9, <2>3 DEF Evidence
    <3> HIDE DEF found, next
    <3> QED
      BY <1>1, <2>1, <3>1 DEF Work, Found
  <2> QED
    BY <2>2, <2>3
<1>10. CASE LaunchTests(t)
  BY <1>4, <1>10 DEF LaunchTests, Working, At
<1>11. CASE TestsEnd(t)
  BY <1>1, <1>11 DEF TestsEnd, Goes, Working, At, Work, Found
<1>12. CASE Report(t)
  BY <1>2, <1>3, <1>12 DEF Report, Working, At, Busy
<1>13. CASE LaunchCommand(t)
  BY <1>4, <1>13 DEF LaunchCommand, Executes, Working, At
<1>14. CASE CommandEnds(t)
  BY <1>3, <1>14 DEF CommandEnds, Working, At
<1>15. CASE MakeDirectory(t)
  BY <1>1, <1>15 DEF MakeDirectory, Executes, Goes, Working, At, Work, Found
<1>16. CASE LaunchInit(t)
  BY <1>4, <1>16 DEF LaunchInit, Working, At
<1>17. CASE InitEnds(t)
  BY <1>2, <1>3, <1>17 DEF InitEnds, Working, At, Busy
<1>18. CASE SendChange(t)
  BY <1>1, <1>18 DEF SendChange, Executes, Goes, Working, At, Work, Found
<1>19. CASE ChangeEnds(t)
  BY <1>2, <1>3, <1>19 DEF ChangeEnds, Working, At, Busy
<1>20. CASE ListTasks(t)
  BY <1>3, <1>20 DEF ListTasks, Executes, Working, At
<1>21. CASE Search(t)
  BY <1>3, <1>21 DEF Search, Executes, Working, At
<1>22. CASE TimeOut(t)
  BY <1>3, <1>22 DEF TimeOut, Working, At
<1> QED
  BY <1>5, <1>6, <1>7, <1>8, <1>9, <1>10, <1>11, <1>12, <1>13, <1>14, <1>15, <1>16, <1>17,
     <1>18, <1>19, <1>20, <1>21, <1>22 DEF Adapter

\* The environment ends commands of turns at work, and changes no action and no receipt.
LEMMA EnvironmentFrame ==
  ASSUME ToolInv, Environment
  PROVE  /\ UNCHANGED receipts
         /\ \A u \in Turns : work'[u].action = work[u].action
         /\ \A u \in Turns : work'[u] = work[u] \/ (Working(u) /\ work'[u].step = "exited")
<1>1. \A u \in Turns : work[u].step = "running" <=> \E k \in containers : k.turn = u /\ k.attached
  BY DEF ToolInv, ToolTypeOK
<1>2. CASE \E k \in containers : ContainerWrites(k)
  BY <1>2 DEF ContainerWrites
<1>3. ASSUME NEW k \in containers, ContainerEnds(k)
      PROVE  /\ UNCHANGED receipts
             /\ \A u \in Turns : work'[u].action = work[u].action
             /\ \A u \in Turns : work'[u] = work[u] \/ (Working(u) /\ work'[u].step = "exited")
  <2> DEFINE ended == IF k.attached THEN {k.turn} ELSE {}
  <2>1. UNCHANGED receipts /\ \E exit \in {0, 1} : Exited(ended, exit)
    BY <1>3 DEF ContainerEnds
  <2>2. \A u \in Turns : u \in ended => work[u].step = "running"
    BY <1>1
  <2> HIDE DEF ended
  <2> QED
    BY <2>1, <2>2, ExitedFacts DEF Working
<1>4. CASE \E t \in Turns : ChangeApplied(t)
  BY <1>4 DEF ChangeApplied
<1>5. CASE DaemonStops
  <2> DEFINE ended == {t \in Turns : At(t, "running")}
  <2>1. UNCHANGED receipts /\ Exited(ended, 1)
    BY <1>5 DEF DaemonStops
  <2>2. \A u \in Turns : u \in ended => work[u].step = "running"
    BY DEF At
  <2> HIDE DEF ended
  <2> QED
    BY <2>1, <2>2, ExitedFacts DEF Working
<1>6. CASE DaemonStarts
  BY <1>6 DEF DaemonStarts
<1> QED
  BY <1>2, <1>3, <1>4, <1>5, <1>6 DEF Environment

---------------------------------------------------------------------------
\* A turn whose call, tool, receipt and reply are untouched stays sound.
LEMMA SameSound ==
  ASSUME TurnInv, NEW u \in Turns, call'[u] = call[u], work'[u] = work[u],
         receipts'[u] = receipts[u], reply'[u] = reply[u]
  PROVE  ReplySound(u)'
BY DEF TurnInv, ReplySound, Asking, Working, Pending, At, Does, Failed, Found

\* A step of turn t leaves the other turns sound.
LEMMA OthersSound ==
  ASSUME TurnInv, NEW t \in Turns, ReplySound(t)', reply' \in [Turns -> Reply],
         \A u \in Turns \ {t} :
           /\ call'[u] = call[u] /\ work'[u] = work[u]
           /\ receipts'[u] = receipts[u] /\ reply'[u] = reply[u]
  PROVE  reply' \in [Turns -> Reply] /\ \A u \in Turns : ReplySound(u)'
BY SameSound

\* A reply is given to one turn and keeps the type of the replies.
LEMMA RepliesFacts ==
  ASSUME TurnInv, NEW t \in Turns, NEW status \in {"answered", "completed", "failed", "raised",
         "cancelled"}, NEW cited \in SUBSET (Sources \cup {Foreign}), Replies(t, status, cited)
  PROVE  /\ reply' \in [Turns -> Reply]
         /\ reply'[t].status = status /\ reply'[t].cited = cited
         /\ \A u \in Turns \ {t} : reply'[u] = reply[u]
<1>1. [status |-> status, cited |-> cited] \in Reply
  BY DEF Reply
<1> QED
  BY <1>1 DEF TurnInv, Replies

\* The actions of a turn that answer it: what they need of the turn before.
LEMMA AnswersSound ==
  ASSUME TurnInv, NEW t \in Turns, NEW status \in {"answered", "completed", "failed", "raised"},
         NEW cited \in SUBSET (Sources \cup {Foreign}), Replies(t, status, cited),
         UNCHANGED <<routeVars, toolVars>>, ~Asking(t), ~Working(t),
         status = "raised" => Failed(t),
         status = "completed" =>
           /\ receipts[t].outcome = "succeeded"
           /\ Does(t, "search") => cited # {} /\ cited \subseteq receipts[t].ids
  PROVE  reply' \in [Turns -> Reply] /\ \A u \in Turns : ReplySound(u)'
<1>1. UNCHANGED <<call, work, receipts>>
  BY DEF routeVars, toolVars
<1>2. /\ reply' \in [Turns -> Reply]
      /\ reply'[t].status = status /\ reply'[t].cited = cited
      /\ \A u \in Turns \ {t} : reply'[u] = reply[u]
  BY RepliesFacts
<1>3. ReplySound(t)
  BY DEF TurnInv
<1>4. ReplySound(t)'
  BY <1>1, <1>2, <1>3 DEF ReplySound, Asking, Working, Pending, At, Does, Failed, Found
<1> QED
  BY <1>1, <1>2, <1>4, OthersSound

\* A call that is begun: for an idle tool decide(), for a successful search compose().
LEMMA AskSound ==
  ASSUME TurnInv, NEW t \in Turns, NEW op \in {"decide", "compose"}, NEW prompt \in Prompts,
         Ask(t, op, prompt), UNCHANGED <<toolVars, reply>>, Pending(t),
         op = "decide" => At(t, "idle"),
         op = "compose" => At(t, "done") /\ Does(t, "search") /\ receipts[t].outcome = "succeeded"
  PROVE  reply' \in [Turns -> Reply] /\ \A u \in Turns : ReplySound(u)'
<1>1. UNCHANGED <<work, receipts, reply>> /\ reply \in [Turns -> Reply] /\ ReplySound(t)
  BY DEF toolVars, TurnInv
<1>2. call \in [Callers -> Call] /\ t \in Callers
  BY TurnAssumption DEF TurnInv, RouteInv, RouteTypeOK
<1>3. /\ call'[t].op = op /\ call'[t].outcome = "open"
      /\ \A u \in Callers \ {t} : call'[u] = call[u]
  BY <1>2 DEF Ask, NoCall
<1>4. ReplySound(t)'
  BY <1>1, <1>3 DEF ReplySound, Asking, Working, Pending, At, Does, Failed, Found
<1> QED
  BY <1>1, <1>3, <1>4, OthersSound, TurnAssumption

\* One step of one turn.
LEMMA TurningSound ==
  ASSUME TurnInv, NEW t \in Turns, Turning(t)
  PROVE  reply' \in [Turns -> Reply] /\ \A u \in Turns : ReplySound(u)'
<1>1. /\ t \in Callers /\ call \in [Callers -> Call] /\ call[t] \in Call
      /\ work \in [Turns -> Work] /\ receipts[t] \in Receipt
      /\ reply \in [Turns -> Reply] /\ ReplySound(t)
  BY TurnAssumption DEF TurnInv, RouteInv, RouteTypeOK, ToolInv, ToolTypeOK
<1>2. CASE Decide(t)
  <2>1. PICK prompt \in Prompts : Ask(t, "decide", prompt)
    BY <1>2 DEF Decide
  <2>2. At(t, "idle")
    BY <1>1, <1>2 DEF Decide, Holds, ReplySound
  <2> QED
    BY <1>2, <2>1, <2>2, AskSound DEF Decide
<1>3. CASE Respond(t)
  <2>1. ~Asking(t) /\ ~Working(t)
    BY <1>3 DEF Respond, Holds, Asking, Working, At
  <2> QED
    BY <1>3, <2>1, AnswersSound DEF Respond
<1>4. CASE Execute(t)
  <2>1. PICK action \in Actions : Take(t, action)
    BY <1>4 DEF Execute
  <2>2. /\ UNCHANGED <<call, reply, receipts>>
        /\ call[t].op = "decide" /\ call[t].outcome = "answer" /\ Pending(t)
    BY <1>4, <2>1 DEF Execute, Holds, routeVars, Take
  <2>3. work'[t].step = "execute" /\ \A u \in Turns \ {t} : work'[u] = work[u]
    BY <1>1, <2>1 DEF Take, Work
  <2>4. receipts[t].outcome = "none"
    BY <1>1, <2>1 DEF TurnInv, ToolInv, TurnSound, Take, At, Receipt
  <2>5. ReplySound(t)'
    BY <2>2, <2>3, <2>4 DEF ReplySound, Asking, Working, Pending, At, Does, Failed, Found
  <2> QED
    BY <1>1, <2>2, <2>3, <2>5, OthersSound
<1>5. CASE Verify(t)
  <2>1. ~Asking(t) /\ ~Working(t)
    BY <1>5 DEF Verify, Holds, Asking, Working, At
  <2>2. CASE receipts[t].outcome = "succeeded" /\ Does(t, "search")
    BY <1>5, <2>2, AskSound DEF Verify
  <2>3. CASE ~(receipts[t].outcome = "succeeded" /\ Does(t, "search"))
    BY <1>5, <2>1, <2>3, AnswersSound DEF Verify
  <2> QED
    BY <2>2, <2>3
<1>6. CASE Cite(t)
  <2>1. ~Asking(t) /\ ~Working(t) /\ receipts[t].outcome = "succeeded"
        /\ receipts[t].ids \subseteq Sources
    BY <1>1, <1>6 DEF Cite, Holds, Asking, Working, At, ReplySound, Found
  <2>2. PICK cited \in SUBSET (receipts[t].ids \cup {Foreign}) :
          Replies(t, IF cited # {} /\ cited \subseteq receipts[t].ids THEN "completed" ELSE "failed",
                  cited)
    BY <1>6 DEF Cite
  <2>3. cited \in SUBSET (Sources \cup {Foreign})
    BY <2>1
  <2> QED
    BY <1>6, <2>1, <2>2, <2>3, AnswersSound DEF Cite
<1>7. CASE Raise(t)
  <2>1. ~Asking(t) /\ ~Working(t)
    BY <1>1, <1>7 DEF Raise, Failed, Asking, Working, At, ReplySound, Call
  <2> QED
    BY <1>7, <2>1, AnswersSound DEF Raise
<1>8. CASE RouteStep(t) /\ UNCHANGED <<toolVars, reply>>
  <2>1. UNCHANGED <<work, receipts, reply>>
    BY <1>8 DEF toolVars
  <2>2. /\ Asking(t) /\ call'[t].op = call[t].op
        /\ \A d \in Callers \ {t} : call'[d] = call[d]
    BY <1>1, <1>8, RouteStepFrame DEF TurnInv
  <2>3. ReplySound(t)'
    BY <1>1, <2>1, <2>2 DEF ReplySound, Asking, Working, Pending, At, Does, Failed, Found
  <2> QED
    BY <1>1, <2>1, <2>2, <2>3, OthersSound, TurnAssumption
<1>9. CASE Adapter(t) /\ UNCHANGED <<routeVars, reply>>
  <2>1. UNCHANGED <<call, reply>>
    BY <1>9 DEF routeVars
  <2>2. /\ Working(t) /\ work'[t].action = work[t].action
        /\ Does(t, "search") /\ Found(t) => Found(t)'
        /\ \A u \in Turns \ {t} : work'[u] = work[u] /\ receipts'[u] = receipts[u]
    BY <1>9, AdapterFrame DEF TurnInv
  <2>3. Pending(t) /\ call[t].op = "decide" /\ call[t].outcome = "answer"
    BY <1>1, <2>2 DEF ReplySound, Working, At, Call
  <2>4. ReplySound(t)'
    BY <1>1, <2>1, <2>2, <2>3 DEF ReplySound, Asking, Working, Pending, At, Does, Failed, Found
  <2> QED
    BY <1>1, <2>1, <2>2, <2>4, OthersSound
<1> QED
  BY <1>2, <1>3, <1>4, <1>5, <1>6, <1>7, <1>8, <1>9 DEF Turning

\* A cancelled turn: its open call is abandoned, or its tool at work.
LEMMA CancelSound ==
  ASSUME TurnInv, NEW t \in Turns, Cancel(t)
  PROVE  reply' \in [Turns -> Reply] /\ \A u \in Turns : ReplySound(u)'
<1>1. /\ t \in Callers /\ call[t] \in Call /\ work \in [Turns -> Work] /\ ReplySound(t)
  BY TurnAssumption DEF TurnInv, RouteInv, RouteTypeOK, ToolInv, ToolTypeOK
<1>2. /\ reply' \in [Turns -> Reply] /\ reply'[t].status = "cancelled"
      /\ \A u \in Turns \ {t} : reply'[u] = reply[u]
  BY RepliesFacts DEF Cancel
<1>3. CASE Abandon(t) /\ UNCHANGED toolVars
  <2>1. UNCHANGED <<work, receipts>>
    BY <1>3 DEF toolVars
  <2>2. /\ Asking(t) /\ call'[t].op = call[t].op
        /\ \A d \in Callers \ {t} : call'[d] = call[d]
    BY <1>1, <1>3, RouteStepFrame DEF TurnInv
  <2>3. call'[t].outcome = "cancelled"
    BY <1>1, <1>3 DEF Abandon, Becomes, Over, NoCall, TurnInv, RouteInv, RouteTypeOK
  <2>4. ~Working(t)
    BY <1>1, <2>2 DEF ReplySound, Asking, Working, At, Call
  <2>5. ReplySound(t)'
    BY <1>1, <1>2, <2>1, <2>2, <2>3, <2>4
       DEF ReplySound, Asking, Working, Pending, At, Does, Failed, Found
  <2> QED
    BY <1>2, <2>1, <2>2, <2>5, OthersSound, TurnAssumption
<1>4. CASE CancelTool(t) /\ UNCHANGED routeVars
  <2>1. UNCHANGED <<call, receipts>> /\ Working(t)
    BY <1>4 DEF CancelTool, Working, routeVars
  <2>2. /\ work'[t].step = "cancelled" /\ work'[t].action = work[t].action
        /\ \A u \in Turns \ {t} : work'[u] = work[u]
    BY <1>1, <1>4 DEF CancelTool, Stops, NoWork
  <2>3. call[t].op = "decide" /\ call[t].outcome = "answer"
    BY <1>1, <2>1 DEF ReplySound, Working, At, Call
  <2>4. ReplySound(t)'
    BY <1>1, <1>2, <2>1, <2>2, <2>3
       DEF ReplySound, Asking, Working, Pending, At, Does, Failed, Found
  <2> QED
    BY <1>2, <2>1, <2>2, <2>4, OthersSound
<1> QED
  BY <1>3, <1>4 DEF Cancel

LEMMA EnvironmentSound ==
  ASSUME TurnInv, Environment, UNCHANGED <<routeVars, reply>>
  PROVE  reply' \in [Turns -> Reply] /\ \A u \in Turns : ReplySound(u)'
<1>1. UNCHANGED <<call, reply>> /\ reply \in [Turns -> Reply]
  BY DEF routeVars, TurnInv
<1>2. ASSUME NEW u \in Turns PROVE ReplySound(u)'
  <2>1. /\ ReplySound(u) /\ UNCHANGED receipts /\ work'[u].action = work[u].action
        /\ work'[u] = work[u] \/ (Working(u) /\ work'[u].step = "exited")
    BY EnvironmentFrame DEF TurnInv
  <2>2. CASE work'[u] = work[u]
    BY <1>1, <2>1, <2>2, SameSound
  <2>3. CASE Working(u) /\ work'[u].step = "exited"
    <3>1. call[u].op = "decide" /\ call[u].outcome = "answer"
      <4>1. call[u] \in Call
        BY TurnAssumption DEF TurnInv, RouteInv, RouteTypeOK
      <4> QED
        BY <2>1, <2>3, <4>1 DEF ReplySound, Working, At, Call
    <3> QED
      BY <1>1, <2>1, <2>3, <3>1 DEF ReplySound, Asking, Working, Pending, At, Does, Failed, Found
  <2> QED
    BY <2>1, <2>2, <2>3
<1> QED
  BY <1>1, <1>2

LEMMA TurnInitInv == TurnInit => TurnInv
<1> SUFFICES ASSUME TurnInit PROVE TurnInv
  OBVIOUS
<1>1. NoReply \in Reply
  BY DEF NoReply, Reply
<1>2. \A t \in Turns : call[t] = NoCall /\ work[t] = NoWork /\ receipts[t] = NoReceipt /\ reply[t] = NoReply
  BY TurnAssumption DEF TurnInit, RouteInit, ToolInit
<1>3. \A t \in Turns : ReplySound(t)
  BY <1>2 DEF ReplySound, NoCall, NoWork, NoReceipt, NoReply, NoAction, Asking, Working, Pending,
       At, Does, Found
<1> QED
  BY <1>1, <1>3, RouteInitInv, ToolInitInv DEF TurnInit, TurnInv

LEMMA TurnNextInv == TurnInv /\ [TurnNext]_turnVars => TurnInv'
<1> SUFFICES ASSUME TurnInv, [TurnNext]_turnVars PROVE TurnInv'
  OBVIOUS
<1>1. RouteInv' /\ ToolInv'
  BY TurnSteps, RouteStepInv, ToolNextInv DEF TurnInv
<1>2. CASE UNCHANGED <<call, work, receipts, reply>>
  BY <1>1, <1>2, SameSound DEF TurnInv
<1>3. ASSUME NEW t \in Turns, Turning(t) \/ Cancel(t) PROVE TurnInv'
  BY <1>1, <1>3, TurningSound, CancelSound DEF TurnInv
<1>4. CASE Environment /\ UNCHANGED <<routeVars, reply>>
  BY <1>1, <1>4, EnvironmentSound DEF TurnInv
<1>5. CASE UNCHANGED turnVars
  BY <1>2, <1>5 DEF turnVars, routeVars, toolVars
<1>6. ASSUME NEW t \in Turns, Start(t), UNCHANGED <<toolVars, reply>> PROVE TurnInv'
  BY <1>2, <1>6 DEF Start, toolVars
<1> QED
  BY <1>3, <1>4, <1>5, <1>6 DEF TurnNext

---------------------------------------------------------------------------
\* The invariant holds throughout every turn.
THEOREM TurnInvariant == TurnSpec => []TurnInv
BY TurnInitInv, TurnNextInv, PTL DEF TurnSpec

LEMMA InvGivesTypes == TurnInv => TurnTypeOK
BY DEF TurnInv, RouteInv, ToolInv, ReplySound, TurnTypeOK, Working, Pending

\* Type correctness of the composition; a turn at work has not been answered.
THEOREM TurnTypeCorrect == TurnSpec => []TurnTypeOK
BY TurnInvariant, InvGivesTypes, PTL

LEMMA InvGivesNoEffect == TurnInv => RaisedTurnsHadNoEffect
<1> SUFFICES ASSUME TurnInv, NEW t \in Turns, reply[t].status = "raised" PROVE ~Affected(t)
  BY DEF RaisedTurnsHadNoEffect
<1>1. Failed(t) /\ ReplySound(t) /\ TurnSound(t) /\ call[t] \in Call
  BY TurnAssumption DEF TurnInv, ReplySound, ToolInv, RouteInv, RouteTypeOK
<1>2. At(t, "idle") \/ Does(t, "search")
  BY <1>1 DEF ReplySound, Failed, Call
<1>3. Does(t, "search") => ~Writes(work[t].action)
  BY DEF Does, Writes, Reads
<1> QED
  BY <1>1, <1>2, <1>3 DEF TurnSound

\* A turn that ends with the coordinator's error has changed, started and sent nothing.
THEOREM RaisedTurns == TurnSpec => []RaisedTurnsHadNoEffect
BY TurnInvariant, InvGivesNoEffect, PTL

LEMMA InvGivesVerified == TurnInv => CompletedIsVerified
BY DEF TurnInv, ReplySound, CompletedIsVerified

\* A reply that says completed has a successful receipt, and its citations are sources
\* that the search has retrieved.
THEOREM CompletedTurns == TurnSpec => []CompletedIsVerified
BY TurnInvariant, InvGivesVerified, PTL

\* In a turn, too, what is changed, started or sent was declared and authorised.
THEOREM TurnEffectsAreAuthorised == TurnSpec => []EffectsMatchRisk
BY TurnInvariant, InvGivesEffects, PTL DEF TurnInv

\* In a turn, too, what goes on after the answer has a failed receipt or none.
THEOREM TurnLateEffects == TurnSpec => []LateEffectsAreOfFailures
BY TurnInvariant, InvGivesLate, PTL DEF TurnInv

\* The tools of a turn work as ToolExecution describes them.
LEMMA TurnRefinesTools == TurnSpec => ToolSpec
<1>1. TurnInit => ToolInit
  BY DEF TurnInit
<1>2. [TurnNext]_turnVars => [ToolNext]_toolVars
  BY TurnSteps
<1> QED
  BY <1>1, <1>2, PTL DEF TurnSpec, ToolSpec

\* In a turn, too, the receipt of a coding task lists what its worker has left changed.
THEOREM TurnWorkerChanges == TurnSpec => []WorkerChangesAreListed
BY TurnRefinesTools, WorkerChangesListed, PTL

\* In a turn, too, a receipt of success is backed by what stands in the world.
THEOREM TurnSuccessBacked == TurnSpec => []SuccessIsBacked
BY TurnRefinesTools, SuccessBacked, PTL

\* The coordinator of a turn implements the ordered route.
THEOREM TurnImplementsContract == TurnSpec => ImplementsRouteContract
<1>1. TurnInit => RouteInit
  BY DEF TurnInit
<1>2. [TurnNext]_turnVars => [RouteNext]_routeVars
  BY TurnSteps
<1> QED
  BY <1>1, <1>2, RouteImplementsContract, PTL DEF TurnSpec, RouteSpec
=============================================================================
