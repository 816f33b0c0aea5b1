# A verification development for the personal agent

The personal agent takes a prompt from the command line or from Telegram, lets a
coordinator model propose one typed action, asks a policy whether the action may run,
asks a human when the policy says so, runs the action through a tool gateway, verifies the
result and reports it. Everything it must remember is in one SQLite database, which the
Telegram service and every `personal-agent` command open as processes of their own.

This directory models the part of the program that decides *whether an effect happens, how
often, and what is said about it afterwards*: the approval policy, the workflow graph with
its durable checkpoints, the gateway's receipts and the adapters behind it, the
coordinator's route, the runtime's run records, the context a session carries from run to
run, and the Telegram transport. TLC checks the models on small instances; TLAPS proves
most of their safety properties for every value of the constants.

Paths below are relative to `src/src/personal_agent/` unless they start with `src/`.

## 1. The system

### 1.1 Components

| Component | State it keeps | Operations | Modelled in |
|---|---|---|---|
| Approval policy (`policy/service.py`) | tables `sessions`, `approval_requests`, `approval_grants`, `audit_events` | `authorize`, `approve`, `deny`, `revoke`, session creation and closing | `PolicyService` |
| Workflow graph (`graph/workflow.py`, `graph/state.py`, `graph/runtime.py`) | the graph state in memory, the LangGraph checkpoint on disk | nodes coordinate, policy, approval, execute, verify, respond, denied; interrupt and resume | `AgentRuntime`; what the nodes call, in `Turn` |
| Tool gateway (`tools/gateway.py`, `tools/contracts.py`) | `tool_operation_receipts`, audit events, the session's workspace | `execute`, `_persist_result` | `AgentRuntime`; the workspace in `SessionContext` |
| Agent runtime (`application/runtime.py`) | `workflow_runs`, `conversation_messages` | `submit`, `resume`, recording and cancelling | `AgentRuntime` |
| Conversation context and workspaces (`application/runtime.py`, `persistence/repositories.py`) | `conversation_messages`, `session_workspaces` | selecting the history of a run, `/clear`, selecting and remembering a workspace | `SessionContext` |
| Coordinator route (`models/`) | each process's cached CLI probes | fallback over providers, corrective retries, health check at startup | `CoordinatorRoute`, `RouteContract` |
| Tools (`execution/`, `tools/todoist.py`, `tools/research.py`) | files, containers, remote services | coding worker, local commands, new workspaces, Todoist changes, research | `ToolExecution` |
| Response verification (`tools/verification.py`, graph node verify) | none | what a result is answered with | `Turn` |
| Transactions (`persistence/`) | one SQLite file, one transaction per repository block, audit rule | commit, rollback, unique constraints | inside the modules that use them |
| Telegram transport (`telegram/bot.py`, `telegram/client.py`, `application/telegram.py`) | `telegram_updates`, `telegram_conversations`, `telegram_action_tokens`; the polling offset in memory | poll, claim, prompt, new session, approval card, button press, failure notice | `TelegramBot` |
| Migrations (`persistence/migrations.py`) | `schema_migrations` | apply pending versions | not modelled (section 5) |
| Deployment scripts (`src/deploy/`) | the state and config directories | install, upgrade, backup, restore | not modelled (section 5) |
| CLI and chat (`cli/`) | none | call the runtime, prompt, render | through the runtime's operations |
| Configuration, logging, evaluation cases | none | validate, redact | not modelled: no state, no order |

### 1.2 How they interact

                                          ┌── coordinator route ── Codex CLI, model APIs
    CLI command ──┐                       ├── PolicyService ──┐
                  ├─ AgentRuntime ─ graph ┤                   ├─ SQLite
    Telegram bot ─┘                       └── ToolGateway ────┘
         │                                        │
      Bot API                  adapter: Docker containers, Todoist, web search

* The runtime commits the run as *pending*, invokes the graph, and after the invocation
  commits its status and, when the graph ended, the assistant's message.
* The graph calls the policy service at the policy node and again at the approval node, and
  the gateway at the execute node. Each of these commits on its own. The checkpoint that
  says the node is over is written by LangGraph behind the running graph and is awaited
  only before the invocation returns. After a crash the graph resumes from the checkpoint,
  which may lie several commits behind.
* Rows are read outside the write transaction: the SQLite driver begins one at the first
  INSERT or UPDATE. What a call decides on may be stale when it commits.
* Before the graph runs, `submit` reads the session's history and its workspace in
  transactions of their own. The values stay with the run in its checkpoint; the gateway
  writes the session's workspace again when a result names one.
* The processes share the workspace directories. A container outlives the client that is
  killed at a timeout or a cancellation.
* The bot handles one update after another; the Bot API redelivers what the offset has not
  confirmed. An approval button carries a one-time token, consumed before `resume` is
  called.

### 1.3 What is hard, and what makes each part correct

The hazards with their source lines are in `PROJECT.json`. In short:

* **Policy.** Two callers interleave read and commit; the clock, the session and the request
  are read at different moments; callers die between read and commit. Correct means: a
  grant exists only for a write a human approved, never outlives its session; an answer
  *allow* is backed by such a grant or is for a read; a decided request stays decided; the
  audit log explains every status.
* **Graph, gateway, runtime.** A crash at any point, a checkpoint that lags, two processes
  on one run, resumes of runs that are not paused. Correct means: no effect without
  authority and an audit event; no claim of success without a receipt of success; a denial
  stops the action for good; a recorded outcome stays, unless a cancelled resume takes it
  back; every run settles while nothing fails.
* **Conversation and workspaces.** Turns that end out of order, twice or after `/clear`, two
  processes on one run, limits that differ between processes, a selection that races a
  result, a repository that is removed while it is being made. Correct means: the history
  selected for a run is the newest complete exchanges within both limits, each with a reply
  its run's graph ended with, and a cleared prompt is never selected again; a finished
  repository is never removed; the session's workspace is one that was selected, or that a
  run was given or made.
* **Route.** Failures that fall back and failures that end the call, a probe that is
  remembered, retries within a candidate. Correct means: candidates in order, each one only
  after a provider failure of the one before, and the first failure at the end.
* **Tools.** Timeouts that leave a container or a request behind, two turns in one
  workspace, a daemon that stops, a step of several that fails. Correct means: what a
  receipt and a reply claim has happened, and what goes on after an answer was reported as
  failed.
* **Telegram.** Redelivery, two pollers, crashes in the middle of a batch, Bot API requests
  that fail before or after taking effect, starts that fail until systemd gives up, buttons
  pressed twice or by someone else. Correct
  means: a prompt is run once at most, a resume was asked for by the identity that owns the
  run, a token works once, identities stay separate, and no update is lost unseen.

## 2. The modules

| Module | What it is |
|---|---|
| `PolicyService` | the policy's tables and calls, each call a read step and a commit step |
| `ApprovalLifecycle` | abstract: a request is asked once and decided once |
| `AgentRuntime` | extends `PolicyService`; processes that run the graph, checkpoints, receipts, run records |
| `SessionContext` | the conversation and the workspace of one session, between its runs |
| `RouteContract` | abstract: candidates asked in order, the first failure at the end |
| `CoordinatorRoute` | one call of the coordinator over Codex and API candidates |
| `ToolExecution` | the adapters, their containers and requests, the files they share |
| `Turn` | extends `CoordinatorRoute` and `ToolExecution`; a turn from prompt to reply |
| `TelegramBot` | the Bot API queue, the polling loop and handlers, the durable Telegram state |
| `MC...` | instances for TLC |
| `..._proofs` | the theorems about the module of that name |
| `FoldLemmas` | what the proofs need of folds, of selections from a sequence and of sums |

Operators marked *Faulty variant* are not part of the model: each is a plausible bug in one
definition, kept next to it to show that the properties notice it (`PROJECT.json`,
`mutants`).

### 2.1 PolicyService

`session`, `request`, `grants` and `audit` are the tables. A request is filed under its
action id, which is unique in the table, so `request` is a function of the id. `call[c]` is
what the code of caller `c` holds in local variables between reading and committing:
`BeginAuthorize` reads clock, session and grants, `LookupRequest` reads the request,
`InsertRequest` commits a new one or `InsertRejected` meets the unique constraint;
`BeginApprove`/`BeginDeny` read the row and `CommitApprove`/`CommitExpire`/`CommitDeny`
commit, by id only, as the UPDATE does. `AbandonCall` is a caller that dies: its open
transaction rolls back. Resources and glob patterns are elements of a set, and `GlobMatch`
is the relation `fnmatchcase` computes on them. `revoke` and `close` are operations of the
service that no command calls yet; they are modelled because the policy must survive them.

### 2.2 ApprovalLifecycle

What a reader of the policy expects: *none*, *pending*, then *approved* or *denied* for
ever, and a licence only together with an approval of a write. `PolicyService` maps a
request's status to `verdict` and the grants' requests to `licensed`. With one process the
runtime implements it (`ImplementsLifecycle`); with two it does not (`policy_race`).

### 2.3 AgentRuntime

A caller of the policy is now a process that runs the graph. `proc[p]` is its memory: the
node it is in, the run, the proposed action, the human's answer, the outcome so far, and
whether this superstep's checkpoint is on disk. `SaveCheckpoint` may happen at any time
within a superstep or not at all before the next one replaces it; only `RecordResult`
waits for it, as `ainvoke` does. Nodes that call a service take several steps: *policy* and
*approval* go through the policy's own actions, *execute* is `StartTool` (the audit event
is committed), `RunTool` (the adapter, which may fail with or without its effect) and
`PersistResult` (one receipt per run: a second one is an IntegrityError, which leaves the
graph). `Resume` starts at the node after the checkpoint and does not look at the run's
status. `Crash` loses the memory, `Cancel` also records the cancellation, `ModelError` is
an exception from the coordinator or the verifier.

`executed[r]` is a history variable: the effects adapters brought about. Everything else is
in the database or in a process.

### 2.4 SessionContext

`messages` is the session's part of `conversation_messages`, `active` its row of
`session_workspaces`, `created` and `receipts` the runs with a row in `workflow_runs` and
`tool_operation_receipts`, `graph[r]` what the checkpoint of run `r` holds of the session.
`submit` is three transactions: `BeginSubmit` selects the history (`CompleteTurns` and
`Select` are the two loops of `_load_conversation_context`, `FindTurn` and `ChooseTurn` one
round of each, `FoldLeft` the loop), `ReadWorkspace` reads the workspace, `CreateRun` commits
run and prompt. `Resume` takes a run at its latest checkpoint, whatever other process works
on it, as nothing in `resume()` keeps two processes apart; a checkpoint at the end of the
graph returns its final state once more.

Inside an invocation the graph may use one tool. Most of them (`UseTool`) only name the
workspace they worked in. Making a repository takes three steps, as `create_workspace` does:
`MakeDirectory` takes the name, and from then on the directory is there for every process;
`InitEnds` is `git init` in its container, which succeeds (`maker`) or fails, and then the
directory is removed; a cancellation removes it too, a crash leaves it half made
(`Interruption`). `PersistResult` files receipt and session workspace in one transaction; a
second receipt of the run raises. `GraphReturns` is the end of `ainvoke`, `Record` files the
answer. The statuses of runs are `AgentRuntime`'s; here a run only has an answer or not.
`Clear` is one transaction; `select_workspace` resolves the directory and loads the row
(`BeginSelect`) before it writes it (`FinishSelect`), and an unchanged value is not written.
A message is its run, role and length. `cleared`, `replied` and `maker` are history
variables: what was cleared, the replies with which graphs have ended, the run that finished
a repository.

### 2.5 CoordinatorRoute and RouteContract

`call[c]` is the call of process `c`: the candidate asked, the model within a group, the
corrective attempt, whose failure came first. `Grouped` builds the route as
`build_coordinator` does, one target after the other (`AddTarget`), `Start` is the health
check of an opening runtime, `Ask` a node's call of `decide` or `compose`. A Codex
candidate refuses a prompt that is too long (`RefusePrompt`), is probed until a version is
remembered (`Probe`) and invoked (`Invoke`); an API candidate is one model or a
`FallbackModel` (`AskModel`). How a candidate ends is the environment's choice; `FailOver`
and `Stopped` are what `_call` makes of it. `Abandon` is a cancelled task. `RouteContract`
has only the candidates in order and the three ways to end.

### 2.6 ToolExecution

One turn has one action (`Take`). A coding task is `Baseline` (first manifest),
`LaunchWorker`, `Evidence` (second manifest), `LaunchTests` and `TestsEnd`, `Report`, and
`Reject` or a failing launch in between; a local command `LaunchCommand`/`CommandEnds`; a
new workspace `MakeDirectory`, `LaunchInit`, `InitEnds` with the removal of the directory
when anything fails; a Todoist change `SendChange` and `ChangeEnds`. `ContainerWrites`,
`ContainerEnds`, `ChangeApplied`, `DaemonStops` and `DaemonStarts` are the world. `TimeOut`
and `CancelTool` only *detach* the client: the container goes on. A file is represented by
who wrote it last, which is what a manifest comparison, and every property here, can tell;
a container that writes changes one file per step.

### 2.7 Turn

The nodes of the graph in the terms of both parts: `Decide` and `Respond` (coordinate),
`Execute`, `Verify`, `Cite` (the check of the citations), `Raise` and `Cancel`. An action
that policy or a human refuses ends in `Respond`; `AgentRuntime` has the steps in between.
`AgentRuntime` in turn has one adapter that succeeds, fails or fails with an effect:
`ToolExecution` says when each of these happens.

### 2.8 TelegramBot

`sent` is the Bot API's sequence of updates, the update id being its position, and
`confirmed` the prefix Telegram has forgotten. A bot remembers the offset, the batch and the
update it handles. A process that is down is started (`Restart`) and first deletes the
webhook, outside any `try`: a failure ends it again (`DeleteWebhookFails`). systemd counts
the starts of an interval (`starts`; the interval may be over at any start, which then
counts as the first) and leaves the service stopped at the limit (`GiveUp`). A failed
`getUpdates` is retried after a pause (`PollFails`, `Retry`); its offset may have arrived.
Each transaction (`CheckClaim`/`Claim`, `FindSession`, `CreateSession`,
`FindBinding`/`BindSession`, `Submit`, `CreateToken`, `LookupToken`, `ConsumeToken`) and
each request (`SendPlanning`, `SendCard`, `Acknowledge`, `Reply`, `ReportRun`,
`NotifyFailure`) is a step, in the handlers' order, so a crash or another poller fits
between any two. A request that fails takes the handler's error path; a failed failure
notice ends the process. The runtime is what the bot sees of it: `submit` raises, answers or
pauses; `resume` decides a paused run, returns the result of a decided one, or raises.
`DecideOnHost` is the CLI deciding the same run. `resumes` and `reported` are history
variables.

## 3. What TLC checks

| Run | Question | Instance |
|---|---|---|
| `policy` | Are grants and answers within what a human approved, and does the audit log explain every status? | two callers, one session, a write to every resource, a risky action and a read; clock to 2, session 2, window 1 |
| `policy_race` | Is a decision final when two processes decide? *No.* | the same |
| `runtime_one` | One process that may crash, be cancelled or lose its provider anywhere: authority, receipts, finality, answers, lifecycle | one run that may propose a write or a risky action; two effects at most |
| `runtime_two` | Two processes on one run, either cancelled at any step: they race for the request, the effect and the receipt | one run, one write |
| `runtime_live` | Does every submitted run settle, with one effect at most, the second run under the first one's grant? | two runs, no failures, fair processes |
| `runtime_repeat` | Is a completed effect never repeated on resume? *No.* | one run, crashes |
| `session` | Is the history always the newest finished exchanges, a cleared prompt never selected again, a finished repository never removed, the workspace one that was chosen or worked in? | two processes on the same or different runs, two runs (prompts of length 1 and 6, replies blank or of length 1), limits of 2 turns and 6 characters or 1 turn and 9, four messages, two workspaces of which one exists |
| `turn` | Do receipts and replies stay true, is no effect unauthorised, does the route keep its contract? | two turns, ten actions on two files, one source and one foreign citation, a Codex candidate before one API model, one corrective retry |
| `telegram` | Is no update lost unseen or run twice, and does the poller catch up unless systemd gives it up? | one poller, two crashes, a start limit of 3, any request failing (`deleteWebhook` and `getUpdates` too), two updates, an identity that is not allowed |
| `telegram_two` | Two pollers and two identities of one group chat on the same updates and card | three updates, no failures |
| `telegram_report` | Is a consumed approval that does not resume reported? *No.* | one poller, two updates, failing requests |
| `route_group` | Does a route fall back whenever only provider failures happened? *No.* | a group of two API models, then Codex |

The runs answered *no* are disagreements between the code and a sentence of its own
documentation (for `policy_race`, its own error path); `PROJECT.json` quotes each one under
`findings`. Others that came up while modelling and have no run:

* A write that was approved before its session expired runs under a grant that has expired
  by then: policy and execution are different nodes and only the first looks at the clock.
* The coordinator model chooses the action id. An id it repeats finds the other action's
  request, in whatever state that is; the instances give every proposal an id of its own.
* `src/docs/architecture.md:169` says that "Paused or cancelled runs therefore never become
  complete history turns". That is true of neither. A finished run that is resumed and
  cancelled becomes *cancelled* but keeps its answer and stays a complete turn, in one process
  (`runtime_one` has this behaviour; `AnsweredRunsHaveEnded` says what is left of the
  sentence). With two processes on a run, one may record *paused* from the state it
  interrupted in after the other has recorded the answer.
* `/clear` reaches the table only. A run that read its history before, and whatever resumes
  its checkpoint later, is still shown the turns that were cleared (`ClearedIsForgotten` is
  about the runs that are submitted afterwards).
* A session may be left with a workspace that does not exist: another process can select a
  directory whose `git init` is still running (`application/runtime.py:373-387`), which is
  removed when that fails (`execution/workspace.py:92-93`). The row stays.
  `RepositoriesStay` is about finished repositories only.
* A coding worker that times out has a failed receipt without files, although it may have
  changed some; `src/docs/user-testing-backlog.md:235` asks that every coding receipt list
  them. `src/docs/architecture.md:95` calls the container short-lived; killing its client
  does not end it.

**Bounds.** A race in the policy needs two callers and one request; the risky action of the
`policy` instance is there for the case in which no grant may be issued, the read for the
case that needs none. The clock reaches the expiry of the session and passes the approval
window, each with a step on either side. Two effects are enough to see an effect repeated; a
run takes a second one only by resuming from an older checkpoint, and every further one
repeats that step. In `telegram_two` three updates let a prompt be followed by two presses,
or two identities each send a prompt and one press a button. In `telegram` two updates make
a batch that a crash can cut at any step, two crashes cut it again while it is redelivered,
and the start limit of 3, smaller than the service's 5, is reached both by failing starts
alone and together with crashes. Pollers, processes and allowlisted identities are
interchangeable, which the symmetry sets use (safety runs only). The clock of `telegram_two`
stands still and its pollers start once: expiry and failures are covered by `telegram`, with
one poller. In `session` the long prompt does not fit the first limits though an older turn
would, and the second limits let one turn through: both reasons to stop selecting occur.
Four messages let both runs be answered, one of them twice or after a `/clear`.
`SessionBound` (in `MCSessionContext`) does not let the two halves of the module multiply:
with two processes active at once, either no graph has replied yet, so everything about
workspaces is explored, or the session has no workspace yet and no directory was made, so
everything about the conversation is. One process after the other, both halves change
freely. Two turns in one workspace are enough for every race between a client, its own
left-over container and somebody else; two files let a worker change what it was asked to
and something else. In `turn` the two turns, in `session` the two processes are
interchangeable. `runtime_two` has cancellations, which stop a process exactly as a crash
does and change the run's status besides, so its properties cover crashes too. Wider
instances of the policy (two sessions, grants of another session) are left to the proofs.

**Fairness.** `FairAgentSpec` lets each process that has started an operation go on with it:
the event loop runs a ready coroutine. Nothing makes a human give a command, answer an
approval, or makes time pass. `FairTelegramSpec` asks the same of each poller and, as
`BotStep` includes `Restart`, that systemd starts a dead service again
(`Restart=on-failure`) while it is below its start limit. Any Bot API request may fail, and
one that always fails starves the poller, so the specification also assumes strong fairness
of `DeleteWebhook` and `Poll`: asked again and again, the Bot API answers at some time. The
start limit is not assumed away: `EveryUpdateIsClaimed` excepts a service that was given up,
which only an operator who resets it can bring back; that is not modelled. Crashes, sends,
failures and clock ticks are unfair. Deadlock is not an error: at the bound of the clock and
with nobody giving commands, the system rests.

## 4. What is proved

All theorems are for arbitrary constants: any processes, sessions, actions, runs, files,
workspaces, routes and limits, finite or not. They rest on the modules' named assumptions
(`PolicyAssumption`, `RuntimeAssumption`, `SessionAssumption`, `RouteAssumption`,
`ToolAssumption`, `TurnAssumption`, `TelegramAssumption`), which say that the constant
functions have their types, that `write_file` names one file, that a placeholder such as
`NoRun` is not one of the things it stands in for, that time-to-lives are positive and a
route is not empty, that an action's session is its run's session, and that each turn's
process has a coordinator. Where a theorem needs more, it says so after ASSUME.

**`PolicyService_proofs`.** `PolicyInvariant` proves `PolicyInv`, the conjunction of the
five invariants and of what makes them inductive. The properties speak of committed rows,
but a commit writes what the caller remembers; so `CallSound` says what a remembered row
still means: the row exists, its action is the one remembered, its window contained the
clock the caller read. That survives other callers' steps because of `Grows` (`GrowStep`):
requests and grants never vanish and keep their identity, audit events and time only
accumulate. Each conjunct then has a lemma over the actions that write it.

**`AgentRuntime_proofs`.** `RuntimeRefinesPolicy`: every step of the runtime is a policy step
or leaves the policy alone, so each policy theorem holds of the runtime. `AgentInvariant`
adds `Position`: what a node implies about requests, authority and receipts, in the same
words for a process and for a checkpoint. This is the crux: a process that resumes at
*execute* never asks the policy again, so authority has to be implied by the checkpoint;
`SaveSound` and `CommandSound` carry it from memory to disk and back, and authority lasts
because the audit log and the grants only grow. `Link` ties a policy call in progress to the
node that made it. From it follow

* `EffectsAuthorizedTheorem`: every effect was announced and authorized;
* `ClaimsHaveReceiptsTheorem`: completion is claimed only over a receipt of success, also
  when processes race for the receipt;
* `ApprovalsAreFiledTheorem`: a waiting run's request is on file.

The second half needs a single process. With one (`Alone`) decisions are final, and policy
and runtime implement `ApprovalLifecycle` (`ResolutionFinalTheorem`,
`PolicyImplementsLifecycle`, `RuntimeImplementsLifecycle`): `Decisive` says that a decision
about to be committed has read a request that is still pending, which a second process would
break. About the graph, `Follows` says that a checkpoint is only ever *behind* the process
that works on its run, that the end is the end, and that a human's answer stands only over a
checkpoint at the approval node. With it and with distinct action ids, `DenialsStick` proves
`NoEffectAfterDenialTheorem`: the crash between a denial and its checkpoint resumes at the
approval node and finds the denial again. `Settled` ties the recorded status, the answer and
the final checkpoint together, through crashes, errors and cancellations: what is answered
has ended in its checkpoint, and the status is the checkpoint's or *cancelled*
(`OutcomeFinalTheorem`, `AnsweredEndedTheorem`). Without failures, `Spent` says that a run
with an effect has it behind its checkpoint or in the process at work (`OneEffectTheorem`);
a run with a receipt is past its adapter for good (`CompletedEffectNotRepeatedTheorem`).

**`SessionContext_proofs`.** `WorkspaceInv` is about repositories that are being made and
removed: one that is being made is on disk, belongs to one process and has no maker yet, and
what an unfiled result names was given to its run or made by it. As `mkdir` refuses a name
that exists, a cleanup then never meets a finished repository (`FinishedRepositoriesStay`);
with the steps that write the row, `ResultsStay`.

The history is what two loops make of the conversation, and the properties say what they
should make of it without a loop: `Fitting` is a set of positions. Each loop has its
invariant, about the state after `k` rounds. `FoundAfter`: what the first loop has collected
are the completions among the first `k` messages, and the prompts it holds are those without
an answer so far. `ChosenAfter`: the second loop has the newest `k` turns as long as they
fit, and stays closed from the first that does not. They need of the table that a run has one
prompt (`Orderly`); `ConversationInv` carries that through every interleaving, together with
what the answers in the table (`TableInv`), the histories and results that processes hold
(`ProcessesInv`) and those in checkpoints (`GraphsInv`) are worth: each is a reply with which
the graph of its run has ended (`replied`). Nothing in it counts the processes on a run; only
a submission has its run to itself, as the id is fresh. `HistoryIsNewest`,
`ShownTurnsTheorem` and `ClearedStaysForgotten` follow, for conversations and limits of
any size. `SessionAssumption` asks for this that the exchanges before the first run are
finitely many.

**`FoldLemmas`.** A loop is a fold, and the library's induction theorems take an operator,
which the provers cannot instantiate. So induction is stated for a set of naturals
(`NatSet`, from the well-foundedness of `<`), and `FoldLoop` says of any fold over a
sequence that there is a function that gives the state after each round: a loop invariant is
then proved as on paper, from one round to the next. The rest is about increasing lists of
positions (`Lists`), their cardinality, their ends, and sums over sets of positions.

**`CoordinatorRoute_proofs`.** `RouteInv` bounds the candidate, the model and the attempt of
a call and says that the first failure is the first candidate's once the call has moved on.
`RouteImplementsContract` follows step by step: probes and retries stutter, the rest is one
step of `RouteContract`. `UngroupedRouteFallsBack` draws the line that `route_group` crosses:
the documented fallback holds of every route of single models, and of a single candidate.
`GroupedIsARoute` is about `build_coordinator`: whatever targets are configured, the
candidates keep their order, Codex stands alone, two API candidates are never neighbours,
and the route is one that `RouteAssumption` admits. The loop over the targets is handled as
in the conversation.

**`ToolExecution_proofs`.** `EffectsMatchRisk` speaks of effects only, so `ToolInv` carries
the permission from the step that tests it along all steps that follow (`TurnSound`), and
says of each turn that it has one container at most, attached exactly while its client
waits, and that what goes on outside belongs to a turn that failed or was cancelled
(`ContainersSound`, `TurnSound`). For `WorkerChangesAreListed` and `SuccessIsBacked`,
`HonestInv` carries each fact a receipt will claim from the step that establishes it: the
first manifest was taken before the worker wrote, the list was complete when it was made and
nothing of the worker is left to write, a container that exits with 0 has done its work, a
directory is removed by its maker only. `Own` and `Undisturbed` say what a turn's own steps,
and everything else, may do to the facts of another turn.

**`Turn_proofs`.** `TurnSteps` shows that a turn's step is a step of the route, of the tools,
or of neither, so both invariants carry over; `ReplySound` ties the reply and the open call
to the tool: while a tool works nobody asks the coordinator, and what `compose` is asked
about is a successful search, which is why an error raised afterwards belongs to a turn
without effects.

**`TelegramBot_proofs`.** The state between two steps of a handler is in local variables, so
`Sound` says for every place in the handlers what has been committed before it, in words
that other pollers' steps cannot falsify: a claimed update stays claimed, a run keeps its
prompt, a token its run and holder. `Exclusive` says which places exclude each other: two
pollers never own one update, nor answer with one token. `Apart` strengthens
`ConversationsAreSeparate` by the sessions that pollers hold in memory and have not bound
yet. `UsedInHand` says that a token in use is in the name of a resume or in the hands of a
poller that is about to resume (`ConsumedIsResumed`).

**What the refuted sentences are worth.** Each run that answers *no* has a theorem that says
when the sentence is true. A decision is final, with the lifecycle, while one process works
(`ResolutionFinalTheorem`). A completed effect is not repeated while one process works and
nothing fails (`CompletedEffectNotRepeatedTheorem`). A consumed approval is resumed, with any
number of pollers, where no request fails and no poller dies (`ConsumedIsResumed`). The route
falls back after provider failures unless it has a group beside another candidate
(`UngroupedRouteFallsBack`).

Only model-checked: liveness (`EveryRunSettles`, `EveryUpdateIsClaimed`), which is out of the
prover's reach. Every other property of a run is stated by a theorem.

## 5. What is left out, and why

* Message texts, prompts, receipt payloads, redaction, rendering: no property is about them.
* LangGraph is external. Its checkpointer is modelled as the code uses it: one latest
  checkpoint per thread, written behind the graph, awaited before `ainvoke` returns. A run
  that died before its first checkpoint cannot be resumed in the model; the real call
  raises.
* The *authorized* node, reached only when a graph is built without a gateway, as tests do.
* Database failures other than unique constraints (a locked or full database).
* In the Telegram model, read-only commands, and the automatic denial of an approval whose
  card has no readable expiry: the runtime always supplies one.
* The interactive chat: a sequential loop around `submit` and `resume`.
* The migrations. A start applies the pending versions one by one in transactions of the
  driver's making; what two starts at once do depends on SQLite's locking of schema changes,
  which is outside the code.
* The deployment scripts: shell programs that one operator runs, whose failure paths move
  whole directories.
* In the route: the CLI's flags, event stream and wire schema; what a provider answers is
  arbitrary. In the tools: diffs, command audits, resource limits, path checks (`Reject` may
  happen to any action), Todoist's pages, the order of search providers.
* Files of the workspace other than by their last writer, and Git beyond `git init`.

## 6. What could follow

1. The migrations: two starts at once, a crash between a migration and its version row.
2. The restore script: the directory switch and its rollback when any command fails.
3. Liveness of a turn: every turn is answered, if the daemon, the providers and Todoist
   answer or time out.
