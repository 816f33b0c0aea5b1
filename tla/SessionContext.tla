---------------------------- MODULE SessionContext ----------------------------
(***************************************************************************)
(* What one session carries from run to run: the conversation a new run is *)
(* shown and the workspace it works in (application/runtime.py over the    *)
(* tables conversation_messages and session_workspaces).                   *)
(*                                                                         *)
(* submit() reads the history, reads the workspace and creates the run in  *)
(* three transactions of their own; both values then stay in the run's     *)
(* graph state, whatever the session does next.  Other processes over the  *)
(* same database submit, resume, clear and select in between.  The graph   *)
(* is only what the session can tell of it (AgentRuntime has its nodes):   *)
(* it may use one tool, and it is interrupted, ends with a reply, or       *)
(* raises.  Nothing keeps two processes from resuming the same run.        *)
(***************************************************************************)
EXTENDS Integers, Sequences, FiniteSets, SequencesExt, FiniteSetsExt

CONSTANTS
  Processes,    \* the Telegram bot and one process per CLI command
  Runs,         \* workflow run ids of the session
  NoRun,        \* no run
  Workspaces,   \* directories below the workspace root
  Repositories, \* the ones that exist when the behaviour begins
  NoWorkspace,  \* no row in session_workspaces
  PromptSize,   \* length of the prompt of a run
  ReplySizes,   \* possible lengths of a reply; 0 is a blank one
  Earlier,      \* runs of the session that are complete when the behaviour begins
  Limits,       \* settings.conversation (max_turns, max_context_chars), which every process
                \* reads for itself
  MaxMessages   \* bound on the length of the conversation

ASSUME SessionAssumption ==
  /\ NoRun \notin Runs
  /\ NoWorkspace \notin Workspaces
  /\ Repositories \subseteq Workspaces
  /\ PromptSize \in [Runs -> Nat \ {0}]
  /\ ReplySizes \subseteq Nat
  /\ Earlier \subseteq Runs /\ IsFiniteSet(Earlier)
  /\ Limits \subseteq [turns : Nat, chars : Nat]
  /\ MaxMessages \in Nat

VARIABLES
  messages,    \* table conversation_messages, in the order of its sequence
  active,      \* table session_workspaces: the row's workspace
  directories, \* the workspaces that exist on disk
  created,     \* table workflow_runs: the runs that exist (AgentRuntime has their status)
  graph,       \* what the run's checkpoint holds: its progress and its AgentState
  receipts,    \* runs with a row in tool_operation_receipts
  proc,        \* what each process is doing
  cleared,     \* history variable: runs whose prompt /clear has deleted
  replied,     \* history variable: the replies with which the graph of a run has ended
  maker        \* history variable: the run that has made a repository of a directory

tables == <<messages, active, created, receipts>>
historyVars == <<cleared, replied, maker>>
vars == <<tables, directories, graph, proc, historyVars>>

---------------------------------------------------------------------------
Message == [run : Runs, role : {"user", "assistant"}, size : Nat]

Turn == [run : Runs, size : Nat]

\* A graph is open until it ends: it is running, or interrupted to wait for a human.
GraphResult == [at : {"open", "ended"}, reply : Nat]

GraphState ==
  [result : GraphResult,
   history : Seq(Turn),
   workspace : Workspaces \cup {NoWorkspace}]

Open == [at |-> "open", reply |-> 0]

\* The steps inside ainvoke(): the graph before its tool, while a repository is being
\* made, with a result to file, after the tool, and with the final state.
Invocation == {"graph", "init", "persist", "answer", "record"}

Steps == {"idle", "workspace", "create", "select"} \cup Invocation

Reply == [run : Runs, size : Nat \ {0}]

Process ==
  [step : Steps,
   run : Runs \cup {NoRun},
   history : Seq(Turn),
   workspace : Workspaces \cup {NoWorkspace},
   row : Workspaces \cup {NoWorkspace},
   result : GraphResult]

\* The tables, checkpoints and processes keep their shape; a process that runs a graph
\* has a run whose checkpoint exists.
SessionTypeOK ==
  /\ messages \in Seq(Message)
  /\ active \in Workspaces \cup {NoWorkspace}
  /\ directories \subseteq Workspaces
  /\ created \subseteq Runs
  /\ graph \in [Runs -> GraphState]
  /\ receipts \subseteq Runs
  /\ proc \in [Processes -> Process]
  /\ \A p \in Processes : proc[p].step \in Invocation =>
       proc[p].run \in created
  /\ cleared \subseteq Runs
  /\ replied \subseteq Reply
  /\ maker \in [Workspaces -> Runs \cup {NoRun}]

Idle ==
  [step |-> "idle", run |-> NoRun, history |-> <<>>, workspace |-> NoWorkspace,
   row |-> NoWorkspace, result |-> Open]

\* A run of an earlier day: its exchange is complete.
Exchange(r) ==
  <<[run |-> r, role |-> "user", size |-> PromptSize[r]],
    [run |-> r, role |-> "assistant", size |-> 1]>>

SessionInit ==
  /\ messages = FlattenSeq([i \in 1..Cardinality(Earlier) |-> Exchange(SetToSeq(Earlier)[i])])
  /\ active = NoWorkspace
  /\ directories = Repositories
  /\ created = Earlier
  /\ graph = [r \in Runs |->
       [result |-> IF r \in Earlier THEN [at |-> "ended", reply |-> 1] ELSE Open,
        history |-> <<>>, workspace |-> NoWorkspace]]
  /\ receipts = {}
  /\ proc = [p \in Processes |-> Idle]
  /\ cleared = {}
  /\ replied = [run : Earlier, size : {1}]
  /\ maker = [w \in Workspaces |-> NoRun]

At(p, step) == proc[p].step = step

Stop(p) == proc' = [proc EXCEPT ![p] = Idle]

---------------------------------------------------------------------------
\* Faulty variant: any answer makes a turn.
CompleteTurnsOfAnswers(table) ==
  FoldLeft(
    LAMBDA turns, m :
      IF m.role = "user" THEN turns
      ELSE Append(turns, [run |-> m.run, size |-> PromptSize[m.run] + m.size]),
    <<>>, table)

\* What the first loop has found: prompts without an answer yet, and complete turns.
Found == [pending : SUBSET Message, turns : Seq(Turn)]

NothingFound == [pending |-> {}, turns |-> <<>>]

\* A prompt is completed by the first answer of its own run.  Answers without a pending
\* prompt are passed over.
FindTurn(found, m) ==
  IF m.role = "user"
  THEN [found EXCEPT !.pending = @ \cup {m}]
  ELSE IF \E u \in found.pending : u.run = m.run
  THEN LET prompt == CHOOSE u \in found.pending : u.run = m.run IN
       [pending |-> found.pending \ {prompt},
        turns |-> Append(found.turns, [run |-> m.run, size |-> prompt.size + m.size])]
  ELSE found

\* First loop of _load_conversation_context.
CompleteTurns(table) == FoldLeft(FindTurn, NothingFound, table).turns

\* Faulty variant: a turn that does not fit is skipped, and an older one may be chosen.
SelectSkipping(table, limit) ==
  FoldLeft(
    LAMBDA found, turn :
      IF Len(found.chosen) >= limit.turns \/ found.size + turn.size > limit.chars
      THEN found
      ELSE [found EXCEPT !.chosen = <<turn>> \o @, !.size = @ + turn.size],
    [open |-> TRUE, chosen |-> <<>>, size |-> 0],
    Reverse(CompleteTurns(table))).chosen

\* What the second loop has chosen; it is open until a turn does not fit.
Chosen == [open : BOOLEAN, chosen : Seq(Turn), size : Nat]

NothingChosen == [open |-> TRUE, chosen |-> <<>>, size |-> 0]

ChooseTurn(found, turn, limit) ==
  IF \/ ~found.open
     \/ Len(found.chosen) >= limit.turns
     \/ found.size + turn.size > limit.chars
  THEN [found EXCEPT !.open = FALSE]
  ELSE [found EXCEPT !.chosen = <<turn>> \o @, !.size = @ + turn.size]

\* Second loop of _load_conversation_context: newest first, until one does not fit.
Select(table, limit) ==
  FoldLeft(LAMBDA found, turn : ChooseTurn(found, turn, limit), NothingChosen,
           Reverse(CompleteTurns(table))).chosen

---------------------------------------------------------------------------
\* submit, first transaction: the history.  (The CLI and the bot create the session first.)
BeginSubmit(p, r) ==
  /\ At(p, "idle")
  /\ r \notin created
  /\ \A q \in Processes : proc[q].run # r
  /\ \E limit \in Limits :
       proc' = [proc EXCEPT ![p] =
         [Idle EXCEPT !.step = "workspace", !.run = r, !.history = Select(messages, limit)]]
  /\ UNCHANGED <<tables, directories, graph, historyVars>>

\* submit, second transaction: active_workspace.
ReadWorkspace(p) ==
  /\ At(p, "workspace")
  /\ proc' = [proc EXCEPT ![p] = [@ EXCEPT !.step = "create", !.workspace = active]]
  /\ UNCHANGED <<tables, directories, graph, historyVars>>

\* Faulty variant: the prompt is stored without the run.
CreatePromptOnly(p) ==
  LET r == proc[p].run IN
  /\ At(p, "create")
  /\ Len(messages) < MaxMessages
  /\ messages' = Append(messages, [run |-> r, role |-> "user", size |-> PromptSize[r]])
  /\ proc' = [proc EXCEPT ![p] = [Idle EXCEPT !.step = "graph", !.run = r]]
  /\ UNCHANGED <<active, created, graph, directories, receipts, historyVars>>

\* submit, third transaction (_create_workflow_run): the run and its prompt.  The graph
\* then starts from a state that holds what was read.
CreateRun(p) ==
  LET r == proc[p].run IN
  /\ At(p, "create")
  /\ Len(messages) < MaxMessages
  /\ created' = created \cup {r}
  /\ messages' = Append(messages, [run |-> r, role |-> "user", size |-> PromptSize[r]])
  /\ graph' = [graph EXCEPT ![r] =
       [result |-> Open, history |-> proc[p].history,
        workspace |-> proc[p].workspace]]
  /\ proc' = [proc EXCEPT ![p] = [Idle EXCEPT !.step = "graph", !.run = r]]
  /\ UNCHANGED <<active, directories, receipts, historyVars>>

\* resume: from what the run's latest checkpoint says now, whoever else works on the run.
Resume(p, r) ==
  /\ At(p, "idle")
  /\ r \in created
  /\ proc' = [proc EXCEPT ![p] =
       [Idle EXCEPT !.step = "graph", !.run = r, !.result = graph[r].result]]
  /\ UNCHANGED <<tables, directories, graph, historyVars>>

---------------------------------------------------------------------------
\* Process p goes on inside its invocation, with w as the workspace of its result.
Within(p, step, w) ==
  proc' = [proc EXCEPT ![p] = [@ EXCEPT !.step = step, !.workspace = w]]

\* The graph of process p is before its tool; one that was loaded at its end is not.
BeforeTool(p) == At(p, "graph") /\ proc[p].result.at # "ended"

\* Where a tool of run r may say it worked: workspace tools run in the workspace of the
\* AgentState (graph/workflow.py), if that resolves.
ToolPlaces(r) == {graph[r].workspace} \cap directories

\* A tool that makes no repository, or fails to make one of an existing name: its result
\* names the workspace it worked in, or none.
UseTool(p) ==
  /\ BeforeTool(p)
  /\ \E w \in ToolPlaces(proc[p].run) \cup {NoWorkspace} : Within(p, "persist", w)
  /\ UNCHANGED <<tables, directories, graph, historyVars>>

\* Faulty variant: mkdir() with exist_ok.
MakeDirectoryAnyway(p) ==
  /\ BeforeTool(p)
  /\ \E w \in Workspaces :
       directories' = directories \cup {w} /\ Within(p, "init", w)
  /\ UNCHANGED <<tables, graph, historyVars>>

\* create_repository: mkdir() takes the name; the directory is there for every process.
MakeDirectory(p) ==
  /\ BeforeTool(p)
  /\ \E w \in Workspaces \ directories :
       directories' = directories \cup {w} /\ Within(p, "init", w)
  /\ UNCHANGED <<tables, graph, historyVars>>

\* The directories once process p has given up what it was making (rmtree).
CleanedUp(p) ==
  IF At(p, "init") THEN directories \ {proc[p].workspace} ELSE directories

\* create_repository: git init in a container has succeeded, or failed.
InitEnds(p) ==
  LET w == proc[p].workspace IN
  /\ At(p, "init")
  /\ \/ /\ maker' = [maker EXCEPT ![w] = proc[p].run]
        /\ Within(p, "persist", w)
        /\ UNCHANGED directories
     \/ /\ directories' = CleanedUp(p)
        /\ Within(p, "persist", NoWorkspace)
        /\ UNCHANGED maker
  /\ UNCHANGED <<tables, graph, cleared, replied>>

\* The session's workspace once result workspace w is filed.
ActiveAfter(w) == IF w = NoWorkspace THEN active ELSE w

\* Faulty variant: a second result of the run is taken as well.
PersistAgain(p) ==
  /\ At(p, "persist")
  /\ receipts' = receipts \cup {proc[p].run}
  /\ active' = ActiveAfter(proc[p].workspace)
  /\ Within(p, "answer", NoWorkspace)
  /\ UNCHANGED <<messages, created, directories, graph, historyVars>>

\* _persist_result: receipt and workspace in one transaction.  The receipt of a run is
\* unique: a second one raises out of the graph.
PersistResult(p) ==
  LET r == proc[p].run IN
  /\ At(p, "persist")
  /\ \/ r \in receipts /\ Stop(p) /\ UNCHANGED <<active, receipts>>
     \/ /\ r \notin receipts
        /\ receipts' = receipts \cup {r}
        /\ active' = ActiveAfter(proc[p].workspace)
        /\ Within(p, "answer", NoWorkspace)
  /\ UNCHANGED <<messages, created, directories, graph, historyVars>>

EndedWith(size) == [at |-> "ended", reply |-> size]

\* How the graph of process p can come out of ainvoke(): a graph that was loaded at its
\* end returns its final state once more.
Results(p) ==
  IF At(p, "graph") /\ ~BeforeTool(p) THEN {proc[p].result}
  ELSE {EndedWith(size) : size \in ReplySizes}
         \cup (IF At(p, "graph") THEN {Open} ELSE {})

\* ainvoke() returns, its last checkpoint being the run's latest: interrupted before a
\* tool ran, or at the graph's end.
GraphReturns(p) ==
  LET r == proc[p].run IN
  /\ proc[p].step \in {"graph", "answer"}
  /\ \E result \in Results(p) :
       /\ graph' = [graph EXCEPT ![r].result = result]
       /\ proc' = [proc EXCEPT ![p] = [@ EXCEPT !.step = "record", !.result = result]]
       /\ replied' = IF result.reply > 0
                     THEN replied \cup {[run |-> r, size |-> result.reply]} ELSE replied
  /\ UNCHANGED <<tables, directories, cleared, maker>>

\* Faulty variant: an interrupted graph leaves an answer too.
RecordAlways(p) ==
  LET r == proc[p].run IN
  /\ At(p, "record")
  /\ Len(messages) < MaxMessages
  /\ messages' =
       Append(messages, [run |-> r, role |-> "assistant", size |-> proc[p].result.reply])
  /\ Stop(p)
  /\ UNCHANGED <<active, created, directories, graph, receipts, historyVars>>

\* _record_graph_result: the answer is filed when the graph ended with one.
Record(p) ==
  LET r == proc[p].run
      result == proc[p].result
  IN
  /\ At(p, "record")
  /\ Len(messages) < MaxMessages
  /\ messages' =
       IF result.at = "ended" /\ result.reply > 0
       THEN Append(messages, [run |-> r, role |-> "assistant", size |-> result.reply])
       ELSE messages
  /\ Stop(p)
  /\ UNCHANGED <<active, created, directories, graph, receipts, historyVars>>

\* A process dies, is cancelled, or its graph raises.  A cancelled one first removes the
\* repository it is making; one that dies leaves it half made.
Interruption(p) ==
  /\ ~At(p, "idle")
  /\ Stop(p)
  /\ directories' \in {directories, CleanedUp(p)}
  /\ UNCHANGED <<tables, graph, historyVars>>

---------------------------------------------------------------------------
Prompts(table) == {table[i].run : i \in {j \in DOMAIN table : table[j].role = "user"}}

\* clear_conversation_history: one transaction deletes every message of the session.
\* Runs, receipts and checkpoints stay.
Clear(p) ==
  /\ At(p, "idle")
  /\ messages' = <<>>
  /\ cleared' = cleared \cup Prompts(messages)
  /\ UNCHANGED <<active, created, receipts, directories, graph, proc, replied, maker>>

\* select_workspace resolves the directory and loads the session's row ...
BeginSelect(p, w) ==
  /\ At(p, "idle")
  /\ w \in directories
  /\ proc' = [proc EXCEPT ![p] =
       [Idle EXCEPT !.step = "select", !.workspace = w, !.row = active]]
  /\ UNCHANGED <<tables, directories, graph, historyVars>>

\* ... and writes it: an insert fails over a row that has appeared since, and a value
\* equal to the one loaded is not written.
FinishSelect(p) ==
  LET w == proc[p].workspace IN
  /\ At(p, "select")
  /\ active' = IF IF proc[p].row = NoWorkspace THEN active = NoWorkspace ELSE proc[p].row # w
               THEN w ELSE active
  /\ Stop(p)
  /\ UNCHANGED <<messages, created, receipts, directories, graph, historyVars>>

---------------------------------------------------------------------------
Operation(p) ==
  \/ \E r \in Runs : BeginSubmit(p, r) \/ Resume(p, r)
  \/ ReadWorkspace(p)
  \/ CreateRun(p)
  \/ UseTool(p)
  \/ MakeDirectory(p)
  \/ InitEnds(p)
  \/ PersistResult(p)
  \/ GraphReturns(p)
  \/ Record(p)
  \/ Interruption(p)
  \/ Clear(p)
  \/ \E w \in Workspaces : BeginSelect(p, w)
  \/ FinishSelect(p)

SessionNext == \E p \in Processes : Operation(p)

SessionSpec == SessionInit /\ [][SessionNext]_vars

---------------------------------------------------------------------------
\* The positions at which a turn is completed: an answer whose prompt stands before it,
\* with no answer of the same run in between.
Completions(table) ==
  {j \in DOMAIN table :
    /\ table[j].role = "assistant"
    /\ \E i \in 1..(j - 1) :
         /\ table[i].role = "user" /\ table[i].run = table[j].run
         /\ \A k \in (i + 1)..(j - 1) : table[k].run # table[j].run}

\* The turn that is completed at position j.
TurnAt(table, j) ==
  [run |-> table[j].run, size |-> PromptSize[table[j].run] + table[j].size]

SizeOf(table, positions) ==
  MapThenSumSet(LAMBDA j : TurnAt(table, j).size, positions)

\* The turns within both limits that leave out no newer one.
Fitting(table, limit) ==
  {j \in Completions(table) :
    LET newer == {k \in Completions(table) : k >= j} IN
    /\ Cardinality(newer) <= limit.turns
    /\ SizeOf(table, newer) <= limit.chars}

\* The turns completed at the given positions, oldest first.
InOrder(table, positions) ==
  LET order == CHOOSE f \in [1..Cardinality(positions) -> positions] :
                 \A i, j \in DOMAIN f : i < j => f[i] < f[j]
  IN [i \in DOMAIN order |-> TurnAt(table, order[i])]

\* The history selected from the table is its newest complete turns within the turn and
\* character limits, each run once and oldest first -- with runs answered out of order,
\* answered again by a repeated resume, or answered after their prompt was cleared.
HistoryIsNewestSuffix ==
  \A limit \in Limits : Select(messages, limit) = InOrder(messages, Fitting(messages, limit))

\* A cleared prompt never takes part in a later history: an answer that a running or
\* resumed graph files after /clear makes no turn.
ClearedIsForgotten ==
  [][\A p \in Processes :
       (At(p, "idle") /\ proc'[p].step = "workspace") =>
         \A i \in DOMAIN proc'[p].history : proc'[p].history[i].run \notin cleared]_vars

\* What a run is shown are finished exchanges of other runs: a prompt with a reply that is
\* not blank and with which the graph of its run has ended -- whichever of several
\* processes on that run was interrupted, cancelled, or recorded first.
ShownTurnsWereAnswered ==
  \A r \in Runs : \A i \in DOMAIN graph[r].history :
    LET turn == graph[r].history[i] IN
    /\ turn.run # r
    /\ \E answer \in replied :
         answer.run = turn.run /\ turn.size = PromptSize[turn.run] + answer.size

\* A finished repository is never removed again: neither one of an earlier day nor one
\* that a run has made falls to another run that tries for its name and fails or is
\* cancelled.
RepositoriesStay ==
  \A w \in Workspaces : w \in Repositories \/ maker[w] # NoRun => w \in directories

\* Only a selection, or the one result a run files, moves the session to another
\* workspace; a result moves it to the workspace the run was given at submission or to
\* the repository it has made, never to one it was not shown.
ResultsStayWhereTheyRan ==
  [][active' # active =>
       \/ \E p \in Processes : At(p, "select") /\ active' = proc[p].workspace
       \/ \E r \in Runs :
            /\ receipts' = receipts \cup {r} /\ r \notin receipts
            /\ active' = graph[r].workspace \/ maker[active'] = r]_vars
=============================================================================
