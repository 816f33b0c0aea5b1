--------------------------- MODULE CoordinatorRoute ---------------------------
(***************************************************************************)
(* One call of the coordinator, decide() or compose(), along the           *)
(* configured route (models/coordinator.py, models/factory.py): Codex CLI  *)
(* candidates with their cached probe and their corrective retries         *)
(* (models/codex_subscription.py, models/codex_cli.py), and groups of API  *)
(* models, each group one FallbackModel of pydantic-ai.                    *)
(*                                                                         *)
(* What a provider answers is a choice of the environment; what the code   *)
(* makes of it, a provider failure that falls back or an error that ends   *)
(* the call, is the subject.  Wording, prompts and credentials are left    *)
(* out; of a prompt only its length against max_prompt_chars matters.      *)
(***************************************************************************)
EXTENDS Integers, Sequences, SequencesExt

CONSTANTS
  Callers,            \* processes, each with a coordinator of its own
  Route,              \* the candidates, in order
  CorrectiveRetries   \* settings.codex_subscription.corrective_retries

Candidate == [kind : {"codex", "api"}, models : Nat \ {0}]

ASSUME RouteAssumption ==
  /\ Route \in Seq(Candidate)
  /\ Len(Route) \in Nat \ {0}
  /\ CorrectiveRetries \in Nat

N == Len(Route)

\* The kinds of settings.coordinator.models: the Codex CLI, or the model of an API.
Targets == {"codex", "api"}

\* build_coordinator, one target: API targets in a row become one candidate.
AddTarget(route, target) ==
  IF target = "api" /\ route # <<>> /\ Last(route).kind = "api"
  THEN [route EXCEPT ![Len(route)].models = @ + 1]
  ELSE Append(route, [kind |-> target, models |-> 1])

Grouped(targets) == FoldLeft(AddTarget, <<>>, targets)

VARIABLES
  call,     \* the call each caller makes, or made last
  checked,  \* per caller: candidates whose runner remembers a CLI version
  ready     \* callers whose startup probe passed

routeVars == <<call, checked, ready>>

---------------------------------------------------------------------------
\* Lengths of a prompt: within the limit, within it but not with the corrective text
\* appended, beyond it.
Prompts == {"short", "tight", "long"}

\* Why a model failed: a failure the providers report as temporary or as a matter of
\* login or quota, an HTTP status of another kind, or an error of the application.
Causes == {"provider", "status", "application"}

Call ==
  [op : {"none", "decide", "compose"},
   prompt : Prompts,
   outcome : {"none", "open", "answer", "refused", "exhausted", "cancelled"},
   at : 0..N,                  \* the candidate being asked
   model : Nat,                \* the model being asked within its group
   attempt : 0..CorrectiveRetries,
   first : 0..N,               \* the candidate of first_failure
   raised : 0..N,              \* the candidate whose error the call raised
   causes : SUBSET Causes]     \* why models have failed during the call

\* Calls stay within the route: the model asked belongs to the candidate asked, and an
\* open call has a first failure exactly when it has moved on.
RouteTypeOK ==
  /\ call \in [Callers -> Call]
  /\ checked \in [Callers -> SUBSET DOMAIN Route]
  /\ ready \subseteq Callers
  /\ \A c \in Callers : call[c].outcome = "open" =>
       /\ call[c].at \in DOMAIN Route
       /\ call[c].model \in 1..Route[call[c].at].models
       /\ call[c].first = IF call[c].at = 1 THEN 0 ELSE 1

NoCall ==
  [op |-> "none", prompt |-> "short", outcome |-> "none", at |-> 0, model |-> 0,
   attempt |-> 0, first |-> 0, raised |-> 0, causes |-> {}]

RouteInit ==
  /\ call = [c \in Callers |-> NoCall]
  /\ checked = [c \in Callers |-> {}]
  /\ ready = {}

Asking(c) == call[c].outcome = "open"

Codex(c) == Asking(c) /\ Route[call[c].at].kind = "codex"

---------------------------------------------------------------------------
\* Faulty variant: the failure raised is the last one.
FailOverKeepingLast(c, cause) ==
  IF call[c].at < N
  THEN [call[c] EXCEPT !.at = @ + 1, !.model = 1, !.attempt = 0, !.first = 1,
          !.causes = @ \cup {cause}]
  ELSE [call[c] EXCEPT !.outcome = "exhausted", !.raised = call[c].at, !.causes = @ \cup {cause}]

\* _call, an exception that _is_provider_failure recognises: the next candidate is asked;
\* after the last one the first failure is raised.
FailOver(c, cause) ==
  LET first == IF call[c].first = 0 THEN call[c].at ELSE call[c].first IN
  IF call[c].at < N
  THEN [call[c] EXCEPT !.at = @ + 1, !.model = 1, !.attempt = 0, !.first = first,
          !.causes = @ \cup {cause}]
  ELSE [call[c] EXCEPT !.outcome = "exhausted", !.raised = first, !.causes = @ \cup {cause}]

\* _call, any other exception: it ends the call.
Stopped(c, cause) ==
  [call[c] EXCEPT !.outcome = "refused", !.raised = call[c].at, !.causes = @ \cup {cause}]

\* The call is over without an error: of it only which candidate was asked last is kept.
Over(c, outcome) ==
  [NoCall EXCEPT !.op = call[c].op, !.outcome = outcome, !.at = call[c].at]

Becomes(c, next) == call' = [call EXCEPT ![c] = next]

---------------------------------------------------------------------------
\* FallbackCoordinator.health_check when a runtime opens: every CLI is probed, API groups
\* have no check, and the runtime opens unless every candidate failed.  (A failed startup
\* ends the process and leaves nothing.)
Start(c) ==
  /\ c \notin ready
  /\ \E healthy \in SUBSET {i \in DOMAIN Route : Route[i].kind = "codex"} :
       /\ healthy # {} \/ \E i \in DOMAIN Route : Route[i].kind = "api"
       /\ checked' = [checked EXCEPT ![c] = healthy]
  /\ ready' = ready \cup {c}
  /\ UNCHANGED call

\* A node of the graph calls decide() or compose().
Ask(c, op, prompt) ==
  /\ c \in ready
  /\ ~Asking(c)
  /\ call' = [call EXCEPT ![c] =
       [NoCall EXCEPT !.op = op, !.prompt = prompt, !.outcome = "open",
                      !.at = 1, !.model = 1]]
  /\ UNCHANGED <<checked, ready>>

\* _run_typed: a prompt beyond the limit is a ValueError, before the CLI is looked at.
RefusePrompt(c) ==
  /\ Codex(c)
  /\ call[c].prompt = "long"
  /\ Becomes(c, Stopped(c, "application"))
  /\ UNCHANGED <<checked, ready>>

\* execute: how a run of the CLI ends.  It exits; it is missing, writes too much or times
\* out (the process group is killed); or starting or writing to it fails some other way.
ProcessEnds == {"zero", "nonzero", "provider_error", "os_error"}

\* CodexCliRunner.health_check: version, help and login status, until one of them fails.
\* A version once found is never looked up again.
Probe(c) ==
  /\ Codex(c)
  /\ call[c].prompt # "long"
  /\ call[c].at \notin checked[c]
  /\ \E end \in ProcessEnds :
       \/ /\ end = "zero"
          /\ checked' = [checked EXCEPT ![c] = @ \cup {call[c].at}]
          /\ UNCHANGED call
       \/ /\ Becomes(c, IF end = "os_error" THEN Stopped(c, "application")
                        ELSE FailOver(c, "provider"))
          /\ UNCHANGED checked
  /\ UNCHANGED ready

\* What the typed call makes of the CLI's last message.
Payloads == {"valid", "unframed", "invalid", "bad_arguments", "bad_action"}

\* Faulty variant: every attempt that fails validation is followed by another.
CorrectedAlways(c) ==
  IF call[c].prompt = "tight" THEN Stopped(c, "application")
  ELSE [call[c] EXCEPT !.attempt = @ + 1]

\* _run_typed: a payload that fails validation is asked for again, with a longer prompt,
\* corrective_retries times.
Corrected(c) ==
  IF call[c].attempt >= CorrectiveRetries THEN FailOver(c, "provider")
  ELSE IF call[c].prompt = "tight" THEN Stopped(c, "application")
  ELSE [call[c] EXCEPT !.attempt = @ + 1]

\* CodexCliRunner.invoke, and decide() for the action encoded in the payload: malformed
\* arguments are a provider failure, an action that is no ActionRequest is not.
Invoke(c) ==
  /\ Codex(c)
  /\ call[c].prompt # "long"
  /\ call[c].at \in checked[c]
  /\ \/ \E end \in ProcessEnds \ {"zero"} :
          Becomes(c, IF end = "os_error" THEN Stopped(c, "application")
                     ELSE FailOver(c, "provider"))
     \/ \E payload \in Payloads :
          /\ payload \in {"bad_arguments", "bad_action"} => call[c].op = "decide"
          /\ Becomes(c,
               CASE payload = "valid" -> Over(c, "answer")
                 [] payload = "unframed" -> FailOver(c, "provider")
                 [] payload = "invalid" -> Corrected(c)
                 [] payload = "bad_arguments" -> FailOver(c, "provider")
                 [] payload = "bad_action" -> Stopped(c, "application"))
  /\ UNCHANGED <<checked, ready>>

\* A ModelAPIError.  FallbackModel asks the group's next model, whatever the status; when
\* all have failed it raises a FallbackExceptionGroup, which _is_provider_failure does not
\* know.  A model on its own raises the error itself: connection failures and the statuses
\* 408, 409, 429 and 5xx fall back.
ModelError(c, cause) ==
  IF call[c].model < Route[call[c].at].models
  THEN [call[c] EXCEPT !.model = @ + 1, !.causes = @ \cup {cause}]
  ELSE IF Route[call[c].at].models > 1 \/ cause = "status" THEN Stopped(c, cause)
  ELSE FailOver(c, cause)

\* PydanticCoordinator: Agent.run over one model or a FallbackModel.  Output that stays
\* invalid is an UnexpectedModelBehavior, which is no ModelAPIError.
AskModel(c) ==
  /\ Asking(c) /\ Route[call[c].at].kind = "api"
  /\ \/ Becomes(c, Over(c, "answer"))
     \/ \E cause \in {"provider", "status"} : Becomes(c, ModelError(c, cause))
     \/ Becomes(c, Stopped(c, "application"))
  /\ UNCHANGED <<checked, ready>>

\* The task is cancelled: CancelledError passes through every handler.
Abandon(c) ==
  /\ Asking(c)
  /\ Becomes(c, Over(c, "cancelled"))
  /\ UNCHANGED <<checked, ready>>

RouteStep(c) ==
  RefusePrompt(c) \/ Probe(c) \/ Invoke(c) \/ AskModel(c)

RouteNext ==
  \E c \in Callers :
    \/ Start(c)
    \/ \E op \in {"decide", "compose"}, prompt \in Prompts : Ask(c, op, prompt)
    \/ RouteStep(c)
    \/ Abandon(c)

RouteSpec == RouteInit /\ [][RouteNext]_routeVars

---------------------------------------------------------------------------
\* What the graph sees of a call.
Seen ==
  [c \in Callers |->
    [asked |-> call[c].at, outcome |-> call[c].outcome, raised |-> call[c].raised]]

Contract == INSTANCE RouteContract WITH Candidates <- N, request <- Seen

\* With its cached probes, corrective retries and model groups a call still is what
\* RouteContract says: candidates in order, one at a time, the first failure at the end.
ImplementsRouteContract == Contract!ContractSpec

\* The call has raised an error, of one candidate or of all.
Failed(c) == call[c].outcome \in {"refused", "exhausted"}

\* docs/architecture.md: fallback happens for provider failures such as rate limits,
\* timeouts and retryable model HTTP failures.  A call in which nothing but such failures
\* happened fails only when every candidate has been asked, with the first one's failure.
ProviderFailuresFallBack ==
  \A c \in Callers :
    (Failed(c) /\ call[c].causes = {"provider"}) =>
      call[c].at = N /\ call[c].raised = 1

=============================================================================
