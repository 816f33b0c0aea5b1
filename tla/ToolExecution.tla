---------------------------- MODULE ToolExecution ----------------------------
(***************************************************************************)
(* What an authorised action does outside the database: the adapters       *)
(* behind the tool gateway (execution/, tools/), the Docker containers     *)
(* they start and the Todoist requests they send.                          *)
(*                                                                         *)
(* The turns run side by side, in the bot and in CLI processes, and work   *)
(* in one workspace: nothing locks it.  A container outlives its client    *)
(* when the client is killed at a timeout or its task is cancelled, and a  *)
(* request may be carried out after its caller has given up.  A file is    *)
(* modelled by who wrote it last; what a command, a worker or a server     *)
(* does is the environment's choice.                                       *)
(***************************************************************************)
EXTENDS Integers, FiniteSets

CONSTANTS
  Turns,    \* one action each, in a process of its own
  Nobody,   \* no turn
  Files,    \* files of the workspace the turns share
  Actions,  \* the actions the coordinator may propose
  Sources   \* identifiers of research sources

Reads == {"health_check", "list_files", "read_file", "list_tasks", "search"}

Operations ==
  Reads \cup {"create_workspace", "write_file", "run_command", "code_task", "change_task"}

\* An ActionRequest.  files: the expected files of a coding task, or the file to write;
\* tests: whether test commands are given; network: the argument of run_command.
Action ==
  [op : Operations, risk : {"read", "write", "risky"}, files : SUBSET Files,
   tests : BOOLEAN, network : BOOLEAN]

\* write_file names the one file it writes.
ASSUME ToolAssumption ==
  /\ Nobody \notin Turns
  /\ Actions \subseteq Action
  /\ \A a \in Actions : a.op = "write_file" => \E f \in Files : a.files = {f}

VARIABLES
  files,       \* who wrote each file last
  repository,  \* the directory of the one new workspace name: who made it, whether Git is set up
  tasks,       \* turns whose change Todoist has carried out
  requests,    \* turns whose change is on its way to Todoist
  daemon,      \* whether the Docker daemon runs
  healthy,     \* turns whose sandbox remembers a passed health check
  containers,  \* the containers that run
  work,        \* what each turn's tool is doing
  receipts     \* table tool_operation_receipts

world == <<files, repository, tasks, requests>>
docker == <<daemon, healthy, containers>>
toolVars == <<world, docker, work, receipts>>

---------------------------------------------------------------------------
Writer == [turn : Turns \cup {Nobody}, kind : {"user", "worker", "test", "write", "command"}]

Untouched == [turn |-> Nobody, kind |-> "user"]

Kinds == {"worker", "test", "write", "command", "init"}

Container ==
  [turn : Turns, kind : Kinds, network : BOOLEAN,
   attached : BOOLEAN,  \* its client still waits for it
   wrote : BOOLEAN]     \* it has done something

NoAction == [op |-> "read_file", risk |-> "read", files |-> {}, tests |-> FALSE, network |-> FALSE]

Work ==
  [step : {"idle", "execute", "worker", "made", "running", "exited", "tests", "report",
           "waiting", "done", "cancelled"},
   action : Actions \cup {NoAction},
   kind : Kinds \cup {"none"},   \* the container waited for, or the last one
   before : [Files -> Writer],   \* the manifest taken first
   listed : SUBSET Files,        \* changed_files
   exit : {0, 1},                \* of the worker, or of the only command
   tested : {0, 1}]              \* of the test commands

Receipt ==
  [outcome : {"none", "succeeded", "partial", "failed"},
   ids : SUBSET (Files \cup Sources \cup {"path", "task"})]  \* external_ids

\* The workspace, the containers, the tools' progress and the receipts keep their shape; a
\* client waits exactly while a container of its turn is attached.
ToolTypeOK ==
  /\ files \in [Files -> Writer]
  /\ repository \in [made : Turns \cup {Nobody}, git : BOOLEAN]
  /\ tasks \subseteq Turns /\ requests \subseteq Turns
  /\ daemon \in BOOLEAN /\ healthy \subseteq Turns
  /\ containers \subseteq Container
  /\ work \in [Turns -> Work]
  /\ receipts \in [Turns -> Receipt]
  /\ \A t \in Turns :
       work[t].step = "running" <=> \E k \in containers : k.turn = t /\ k.attached

NoReceipt == [outcome |-> "none", ids |-> {}]

NoWork ==
  [step |-> "idle", action |-> NoAction, kind |-> "none",
   before |-> [f \in Files |-> Untouched], listed |-> {}, exit |-> 0, tested |-> 0]

ToolInit ==
  /\ files = [f \in Files |-> Untouched]
  /\ repository = [made |-> Nobody, git |-> FALSE]
  /\ tasks = {} /\ requests = {}
  /\ daemon = TRUE
  /\ healthy \in SUBSET Turns
  /\ containers = {}
  /\ work = [t \in Turns |-> NoWork]
  /\ receipts = [t \in Turns |-> NoReceipt]

---------------------------------------------------------------------------
At(t, step) == work[t].step = step

Does(t, op) == work[t].action.op = op

\* Of a tool that has stopped only the action is kept.
Stops(t, step) ==
  work' = [work EXCEPT ![t] = [NoWork EXCEPT !.step = step, !.action = work[t].action]]

\* Gateway _persist_result: the outcome and the external ids of the result.
File(t, outcome, ids) ==
  /\ Stops(t, "done")
  /\ receipts' = [receipts EXCEPT ![t] = [outcome |-> outcome, ids |-> ids]]

Goes(t, step) == work' = [work EXCEPT ![t].step = step] /\ UNCHANGED receipts

\* Faulty variant: writing operations are taken at any risk.
PermittedToWrite(action) ==
  CASE action.op \in {"code_task", "run_command"} -> action.risk = "risky"
    [] OTHER -> TRUE

\* The risk level each adapter requires of an operation.
Permitted(action) ==
  CASE action.op \in Reads -> action.risk = "read"
    [] action.op \in {"code_task", "run_command"} -> action.risk = "risky"
    [] OTHER -> action.risk # "read"

\* ToolGateway.execute hands the action to its adapter.
Take(t, action) ==
  /\ At(t, "idle")
  /\ work' = [work EXCEPT ![t].step = "execute", ![t].action = action]
  /\ UNCHANGED <<world, docker, receipts>>

Executes(t, op) == At(t, "execute") /\ Does(t, op) /\ Permitted(work[t].action)

\* The adapter refuses the risk level, or fails before it has done anything: no such
\* workspace, no Git repository, arguments, expected files or test commands that are not
\* valid, a manifest over its limits, no Docker.
Reject(t) ==
  /\ At(t, "execute")
  /\ File(t, "failed", {})
  /\ UNCHANGED <<world, docker>>

---------------------------------------------------------------------------
\* DockerSandbox.run for a command that changes something, up to the container's start.
\* A health check that has passed once is not repeated: with the daemon gone since,
\* docker run exits 125.  Without it the operation fails; "Undone" is what failing leaves.
Launch(t, kind, network, Undone) ==
  \/ /\ daemon
     /\ containers' = containers \cup
          {[turn |-> t, kind |-> kind, network |-> network, attached |-> TRUE, wrote |-> FALSE]}
     /\ healthy' = healthy \cup {t}
     /\ work' = [work EXCEPT ![t].step = "running", ![t].kind = kind]
     /\ UNCHANGED <<world, daemon, receipts>>
  \/ /\ ~daemon /\ t \in healthy
     /\ work' = [work EXCEPT ![t].step = "exited", ![t].kind = kind,
                   ![t].exit = IF kind = "test" THEN @ ELSE 1,
                   ![t].tested = IF kind = "test" THEN 1 ELSE @]
     /\ UNCHANGED <<world, docker, receipts>>
  \/ /\ t \notin healthy
     /\ File(t, "failed", {})
     /\ repository' = Undone
     /\ UNCHANGED <<files, tasks, requests, docker>>

\* The turns whose command ends, and how.
Exited(ended, exit) ==
  work' = [t \in Turns |->
    IF t \notin ended THEN work[t]
    ELSE IF work[t].kind = "test" THEN [work[t] EXCEPT !.step = "exited", !.tested = exit]
    ELSE [work[t] EXCEPT !.step = "exited", !.exit = exit]]

\* A container changes what it can reach: a worker, a test or a command any file, the
\* write_file script its target, git init the directory it was started in.
ContainerWrites(k) ==
  /\ containers' = (containers \ {k}) \cup {[k EXCEPT !.wrote = TRUE]}
  /\ \/ /\ k.kind # "init"
        /\ \E f \in IF k.kind = "write" THEN work[k.turn].action.files ELSE Files :
             files' = [files EXCEPT ![f] = [turn |-> k.turn, kind |-> k.kind]]
        /\ UNCHANGED repository
     \/ /\ k.kind = "init" /\ repository.made = k.turn
        /\ repository' = [repository EXCEPT !.git = TRUE]
        /\ UNCHANGED files
  /\ UNCHANGED <<tasks, requests, daemon, healthy, work, receipts>>

\* A container ends; its client, if it still waits, returns the exit code.
ContainerEnds(k) ==
  /\ containers' = containers \ {k}
  /\ \E exit \in {0, 1} :
       /\ (exit = 0 /\ k.kind \in {"write", "init"}) => k.wrote
       /\ Exited(IF k.attached THEN {k.turn} ELSE {}, exit)
  /\ UNCHANGED <<world, daemon, healthy, receipts>>

Detach(t) ==
  containers' = {IF k.turn = t THEN [k EXCEPT !.attached = FALSE] ELSE k : k \in containers}

\* create_repository removes the directory it has made when anything fails, or is
\* cancelled.
WithoutDirectory(t) ==
  IF Does(t, "create_workspace") /\ work[t].step \notin {"execute", "done"}
  THEN [made |-> Nobody, git |-> FALSE] ELSE repository

\* Faulty variant: a timeout is taken for an exit code.
TimeOutAsExit(t) ==
  /\ At(t, "running")
  /\ Detach(t)
  /\ Exited({t}, 1)
  /\ UNCHANGED <<world, daemon, healthy, receipts>>

\* AsyncioCommandExecutor: the docker client is killed at the timeout, the container it
\* started is not.  The operation has failed and reports nothing of what it did.  A
\* directory the container still writes to may outlive its removal.
TimeOut(t) ==
  /\ At(t, "running")
  /\ Detach(t)
  /\ File(t, "failed", {})
  /\ repository' \in {repository, WithoutDirectory(t)}
  /\ UNCHANGED <<files, tasks, requests, daemon, healthy>>

\* The daemon stops, and its containers with it; later it may run again.
DaemonStops ==
  /\ daemon
  /\ daemon' = FALSE
  /\ containers' = {}
  /\ Exited({t \in Turns : At(t, "running")}, 1)
  /\ UNCHANGED <<world, healthy, receipts>>

DaemonStarts ==
  /\ ~daemon
  /\ daemon' = TRUE
  /\ UNCHANGED <<world, healthy, containers, work, receipts>>

---------------------------------------------------------------------------
\* OpenCodeTool._execute up to the worker: the manifest, then git status and git diff.
Baseline(t) ==
  /\ Executes(t, "code_task")
  /\ daemon
  /\ healthy' = healthy \cup {t}
  /\ work' = [work EXCEPT ![t].step = "worker", ![t].before = files]
  /\ UNCHANGED <<world, daemon, containers, receipts>>

\* The worker, with network access.
LaunchWorker(t) ==
  /\ At(t, "worker")
  /\ Launch(t, "worker", TRUE, repository)

\* The worker has exited: the second manifest is compared with the first, whoever has
\* changed a file; then git, which raises unless it exits 0 or 128.
Evidence(t) ==
  /\ At(t, "exited") /\ work[t].kind = "worker"
  /\ \/ File(t, "failed", {})
     \/ /\ daemon
        /\ work' = [work EXCEPT
             ![t].listed = {f \in Files : files[f] # work[t].before[f]},
             ![t].before = NoWork.before,
             ![t].step = IF work[t].exit = 0 /\ work[t].action.tests THEN "tests" ELSE "report"]
        /\ UNCHANGED receipts
  /\ UNCHANGED <<world, docker>>

\* The test commands, in a writable workspace without network.
LaunchTests(t) ==
  /\ At(t, "tests")
  /\ Launch(t, "test", FALSE, repository)

TestsEnd(t) ==
  /\ At(t, "exited") /\ work[t].kind = "test"
  /\ Goes(t, "report")
  /\ UNCHANGED <<world, docker>>

\* The result: verified when the worker and the tests exited 0, something changed and
\* every expected file is among the changes; partial when something changed.
Report(t) ==
  LET verified == work[t].listed # {} /\ work[t].action.files \subseteq work[t].listed IN
  /\ At(t, "report")
  /\ File(t,
       IF work[t].exit = 0 /\ verified /\ work[t].tested = 0 THEN "succeeded"
       ELSE IF work[t].listed # {} THEN "partial" ELSE "failed",
       work[t].listed)
  /\ UNCHANGED <<world, docker>>

---------------------------------------------------------------------------
\* LocalExecutionTool: write_file and run_command are one container each, and its exit
\* code is the result.
LaunchCommand(t) ==
  \/ Executes(t, "write_file") /\ Launch(t, "write", FALSE, repository)
  \/ Executes(t, "run_command") /\ Launch(t, "command", work[t].action.network, repository)

CommandEnds(t) ==
  /\ At(t, "exited") /\ work[t].kind \in {"write", "command"}
  /\ File(t, IF work[t].exit = 0 THEN "succeeded" ELSE "failed", {})
  /\ UNCHANGED <<world, docker>>

\* Faulty variant: a directory that exists is taken over.
MakeDirectoryAnyway(t) ==
  /\ Executes(t, "create_workspace")
  /\ repository' = [made |-> t, git |-> FALSE]
  /\ Goes(t, "made")
  /\ UNCHANGED <<files, tasks, requests, docker>>

\* WorkspaceService.create_repository: mkdir fails when the directory exists ...
MakeDirectory(t) ==
  /\ Executes(t, "create_workspace")
  /\ repository.made = Nobody
  /\ repository' = [made |-> t, git |-> FALSE]
  /\ Goes(t, "made")
  /\ UNCHANGED <<files, tasks, requests, docker>>

\* ... then git init runs in it ...
LaunchInit(t) ==
  /\ At(t, "made")
  /\ Launch(t, "init", FALSE, WithoutDirectory(t))

\* ... and the directory is kept when it exits 0.
InitEnds(t) ==
  /\ At(t, "exited") /\ work[t].kind = "init"
  /\ IF work[t].exit = 0
     THEN File(t, "succeeded", {"path"}) /\ UNCHANGED repository
     ELSE File(t, "failed", {}) /\ repository' = WithoutDirectory(t)
  /\ UNCHANGED <<files, tasks, requests, docker>>

\* health_check, list_files and read_file change nothing.
Inspect(t) ==
  /\ \E op \in {"health_check", "list_files", "read_file"} : Executes(t, op)
  /\ daemon
  /\ healthy' = healthy \cup {t}
  /\ \E outcome \in {"succeeded", "failed"} : File(t, outcome, {})
  /\ UNCHANGED <<world, daemon, containers>>

---------------------------------------------------------------------------
\* TodoistTaskProvider._request for a mutation: one request with an id of its own.
SendChange(t) ==
  /\ Executes(t, "change_task")
  /\ requests' = requests \cup {t}
  /\ Goes(t, "waiting")
  /\ UNCHANGED <<files, repository, tasks, docker>>

\* Todoist carries a request out, whether or not somebody still waits for it.
ChangeApplied(t) ==
  /\ t \in requests
  /\ requests' = requests \ {t}
  /\ tasks' = tasks \cup {t}
  /\ UNCHANGED <<files, repository, docker, work, receipts>>

\* Faulty variant: no answer is taken for success.
ChangeEndsHopeful(t) ==
  /\ At(t, "waiting")
  /\ File(t, "succeeded", {"task"})
  /\ UNCHANGED <<world, docker>>

\* The answer is a task record, which only a change carried out returns; a status, a
\* timeout, a broken connection or a record that does not validate is a failure, whatever
\* has become of the request.
ChangeEnds(t) ==
  /\ At(t, "waiting")
  /\ \/ t \in tasks /\ File(t, "succeeded", {"task"})
     \/ File(t, "failed", {})
  /\ UNCHANGED <<world, docker>>

\* list_tasks, list_projects and find_project: every page, then the record asked for.
ListTasks(t) ==
  /\ Executes(t, "list_tasks")
  /\ \E outcome \in {"succeeded", "failed"} : File(t, outcome, {})
  /\ UNCHANGED <<world, docker>>

\* ResearchService.research: the first provider with results, then every page; a page
\* that cannot be fetched leaves its snippet.
Search(t) ==
  /\ Executes(t, "search")
  /\ \/ \E found \in SUBSET Sources \ {{}} : File(t, "succeeded", found)
     \/ File(t, "failed", {})
  /\ UNCHANGED <<world, docker>>

\* The task is cancelled while the tool works: the client goes, its container and its
\* request stay, and no receipt is written.
CancelTool(t) ==
  /\ work[t].step \notin {"idle", "done", "cancelled"}
  /\ Detach(t)
  /\ repository' \in {WithoutDirectory(t)} \cup (IF At(t, "running") THEN {repository} ELSE {})
  /\ Stops(t, "cancelled")
  /\ UNCHANGED <<files, tasks, requests, daemon, healthy, receipts>>

---------------------------------------------------------------------------
Adapter(t) ==
  \/ Reject(t) \/ Inspect(t)
  \/ Baseline(t) \/ LaunchWorker(t) \/ Evidence(t) \/ LaunchTests(t) \/ TestsEnd(t) \/ Report(t)
  \/ LaunchCommand(t) \/ CommandEnds(t)
  \/ MakeDirectory(t) \/ LaunchInit(t) \/ InitEnds(t)
  \/ SendChange(t) \/ ChangeEnds(t) \/ ListTasks(t) \/ Search(t)
  \/ TimeOut(t)

Environment ==
  \/ \E k \in containers : ContainerWrites(k) \/ ContainerEnds(k)
  \/ \E t \in Turns : ChangeApplied(t)
  \/ DaemonStops \/ DaemonStarts

ToolNext ==
  \/ \E t \in Turns :
       (\E action \in Actions : Take(t, action)) \/ Adapter(t) \/ CancelTool(t)
  \/ Environment

ToolSpec == ToolInit /\ [][ToolNext]_toolVars

---------------------------------------------------------------------------
Affected(t) ==
  \/ \E f \in Files : files[f].turn = t
  \/ repository.made = t
  \/ t \in tasks \cup requests
  \/ \E k \in containers : k.turn = t

\* Whatever a turn has changed, started or sent, its action was declared, and so
\* authorised, as a write or a risky one; a container with network access belongs to an
\* action approved on its own.
EffectsMatchRisk ==
  /\ \A t \in Turns : Affected(t) => work[t].action.risk # "read"
  /\ \A k \in containers : k.network => work[k.turn].action.risk = "risky"

\* A receipt that says a coding task changed files lists every file that stands as the
\* task's worker left it, with another turn at work in the same workspace and containers
\* that outlive their client.
WorkerChangesAreListed ==
  \A t \in Turns :
    (Does(t, "code_task") /\ receipts[t].outcome \in {"succeeded", "partial"}) =>
      \A f \in Files : files[f] = [turn |-> t, kind |-> "worker"] => f \in receipts[t].ids

\* What goes on after the answer is reported as a failure: a turn whose container still
\* runs, or whose request may still be carried out, has a failed receipt or none.
LateEffectsAreOfFailures ==
  \A t \in Turns :
    (t \in requests \/ \E k \in containers : k.turn = t) =>
      receipts[t].outcome \in {"none", "failed"}

\* Success is backed by the world: a coding task has changed what it was asked to change,
\* a file written has a writer, a repository stands with Git set up, even though another
\* turn fails to create the same one, and a task change was carried out.
SuccessIsBacked ==
  \A t \in Turns : receipts[t].outcome = "succeeded" =>
    /\ Does(t, "code_task") =>
         receipts[t].ids # {} /\ work[t].action.files \subseteq receipts[t].ids
    /\ Does(t, "write_file") => \A f \in work[t].action.files : files[f] # Untouched
    /\ Does(t, "create_workspace") => repository = [made |-> t, git |-> TRUE]
    /\ Does(t, "change_task") => t \in tasks
=============================================================================
