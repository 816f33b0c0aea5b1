----------------------------- MODULE TelegramBot -----------------------------
(***************************************************************************)
(* The Telegram transport: the Bot API's update queue, the polling loop    *)
(* and handlers of telegram/bot.py, and the durable state behind them      *)
(* (application/telegram.py): claimed updates, conversation bindings and   *)
(* one-time action tokens.                                                 *)
(*                                                                         *)
(* The runtime is reduced to what the bot sees of it: submit() raises,     *)
(* answers or pauses, resume() decides a paused run or raises.             *)
(* AgentRuntime models what happens inside.  Each database transaction and *)
(* each Bot API request is a step of its own; a bot may die between any    *)
(* two of them and comes back with an empty memory: systemd restarts it,   *)
(* until it has started too often (deploy/systemd).                        *)
(***************************************************************************)
EXTENDS Integers, Sequences

CONSTANTS
  Bots,         \* polling processes (the guide asks for one; a second may overlap)
  Chatters,     \* identities: pairs of a chat and a user
  Allowed,      \* the identities on both allowlists
  SendFails,    \* whether Bot API requests may fail
  SessionTTL,   \* session_ttl_minutes
  ApprovalTTL,  \* approval_ttl_minutes
  MaxTime,      \* bound of the clock
  MaxUpdates,   \* bound on the updates sent
  StartLimit,   \* StartLimitBurst: starts of the service within its interval
  MaxCrashes    \* bound on the number of crashes

ASSUME TelegramAssumption ==
  /\ Allowed \subseteq Chatters
  /\ SendFails \in BOOLEAN
  /\ SessionTTL \in Nat \ {0} /\ ApprovalTTL \in Nat \ {0}
  /\ StartLimit \in Nat \ {0}
  /\ MaxTime \in Nat /\ MaxUpdates \in Nat /\ MaxCrashes \in Nat

VARIABLES
  now,        \* the wall clock
  sent,       \* Telegram: the updates so far; the update_id is the position
  confirmed,  \* Telegram: the updates up to here are not delivered again
  shown,      \* Telegram: the tokens whose approval card reached the chat
  claimed,    \* table telegram_updates
  sessions,   \* table sessions: the expiry of each
  bound,      \* table telegram_conversations: the session bound to an identity, 0 if none
  runs,       \* table workflow_runs, with the update a run was submitted for
  tokens,     \* table telegram_action_tokens
  resumes,    \* history: the tokens in whose name the bot called resume()
  reported,   \* history: the tokens whose run id the bot reported for recovery
  crashes,    \* the number of crashes so far
  starts,     \* systemd: the starts it has counted since the interval began
  bot         \* the memory of each polling process

network == <<sent, confirmed, shown>>
tables == <<claimed, sessions, bound, runs, tokens>>
history == <<resumes, reported>>
service == <<crashes, starts>>
telegramVars == <<now, network, tables, history, service, bot>>

---------------------------------------------------------------------------
Kinds == {"prompt", "new", "approve", "deny"}

Update == [kind : Kinds, from : Chatters, token : Nat]

RunRow ==
  [session : Nat, prompt : Nat, expires : Nat,
   state : {"failed", "answered", "paused", "approved", "denied"}]

TokenRow ==
  [run : Nat, holder : Chatters, expires : Nat, decision : {"none", "approve", "deny"}]

BotNodes ==
  {"stopped", "down", "start", "poll", "backoff", "claim", "insert", "session", "create", "bind", "firstbind", "rebind",
   "planning", "submit", "token", "card", "reply", "lookup", "consume", "ack", "resume",
   "report", "notify"}

BotRecord ==
  [node : BotNodes, offset : Nat, update : Nat, last : Nat,
   session : Nat, run : Nat, token : Nat]

\* Every table refers only to rows that exist.
TelegramTypeOK ==
  /\ now \in Nat
  /\ sent \in Seq(Update)
  /\ confirmed \in 0..Len(sent)
  /\ claimed \subseteq 1..Len(sent)
  /\ sessions \in Seq(Nat)
  /\ bound \in [Chatters -> 0..Len(sessions)]
  /\ runs \in Seq(RunRow)
  /\ \A r \in DOMAIN runs :
       runs[r].session \in DOMAIN sessions /\ runs[r].prompt \in DOMAIN sent
  /\ tokens \in Seq(TokenRow)
  /\ \A t \in DOMAIN tokens : tokens[t].run \in DOMAIN runs
  /\ shown \subseteq DOMAIN tokens
  /\ resumes \in Seq(DOMAIN tokens)
  /\ reported \subseteq DOMAIN tokens
  /\ crashes \in Nat /\ starts \in [Bots -> 0..StartLimit]
  /\ bot \in [Bots -> BotRecord]

---------------------------------------------------------------------------
DownBot ==
  [node |-> "down", offset |-> 0, update |-> 0, last |-> 0,
   session |-> 0, run |-> 0, token |-> 0]

TelegramInit ==
  /\ now = 0
  /\ sent = <<>> /\ confirmed = 0 /\ shown = {}
  /\ claimed = {} /\ sessions = <<>> /\ bound = [u \in Chatters |-> 0]
  /\ runs = <<>> /\ tokens = <<>>
  /\ resumes = <<>> /\ reported = {}
  /\ crashes = 0 /\ starts = [b \in Bots |-> 0]
  /\ bot = [b \in Bots |-> DownBot]

At(b, node) == bot[b].node = node

Goto(b, node) == bot' = [bot EXCEPT ![b] = [@ EXCEPT !.node = node]]

\* The update a bot is working on, and its sender.
Current(b) == sent[bot[b].update]

Sender(b) == Current(b).from

IsMessage(u) == u.kind \in {"prompt", "new"}

\* The handler is over: the next update of the batch, or the next poll.  The offset
\* was moved past the update before it was processed.
Finish(b) ==
  LET u == bot[b].update IN
  bot' = [bot EXCEPT ![b] =
    [node |-> IF u = @.last THEN "poll" ELSE "claim",
     offset |-> u + 1, update |-> IF u = @.last THEN 0 ELSE u + 1,
     last |-> IF u = @.last THEN 0 ELSE @.last,
     session |-> 0, run |-> 0, token |-> 0]]

\* The handler raised: run() notifies the chat of a message, not of a button.
Fail(b) == IF IsMessage(Current(b)) THEN Goto(b, "notify") ELSE Finish(b)

\* A Bot API request of bot b: it succeeds and Success happens, or it fails.
Request(b, Success) == Success \/ (SendFails /\ Fail(b))

---------------------------------------------------------------------------
Tick ==
  /\ now < MaxTime
  /\ now' = now + 1
  /\ UNCHANGED <<network, tables, history, service, bot>>

\* Someone types a message or presses a button of a card that was shown, perhaps in
\* someone else's chat, perhaps not for the first time.
Say(u, kind, t) ==
  /\ Len(sent) < MaxUpdates
  /\ kind \in {"approve", "deny"} <=> t # 0
  /\ sent' = Append(sent, [kind |-> kind, from |-> u, token |-> t])
  /\ UNCHANGED <<now, confirmed, shown, tables, history, service, bot>>

\* personal-agent approve or deny, on the host.
DecideOnHost(r) ==
  /\ runs[r].state = "paused"
  /\ \E decision \in {"approved", "denied"} :
       runs' = [runs EXCEPT ![r] = [@ EXCEPT !.state = decision]]
  /\ UNCHANGED <<now, network, claimed, sessions, bound, tokens, history, service, bot>>

Crash(b) ==
  /\ bot[b].node \notin {"down", "stopped"}
  /\ crashes < MaxCrashes
  /\ crashes' = crashes + 1
  /\ bot' = [bot EXCEPT ![b] = DownBot]
  /\ UNCHANGED <<now, network, tables, history, starts>>

\* systemd starts the service, on boot and after a failure; it counts from one again once
\* the interval of its start limit is over.
Restart(b) ==
  /\ At(b, "down")
  /\ \E counted \in {0, starts[b]} :
       /\ counted < StartLimit
       /\ starts' = [starts EXCEPT ![b] = counted + 1]
  /\ Goto(b, "start")
  /\ UNCHANGED <<now, network, tables, history, crashes>>

\* The service has failed too often within the interval: systemd leaves it stopped.
GiveUp(b) ==
  /\ At(b, "down")
  /\ starts[b] >= StartLimit
  /\ Goto(b, "stopped")
  /\ UNCHANGED <<now, network, tables, history, service>>

\* run() starts with deleteWebhook, which keeps the pending updates ...
DeleteWebhook(b) ==
  /\ At(b, "start")
  /\ Goto(b, "poll")
  /\ UNCHANGED <<now, network, tables, history, service>>

\* ... and nothing catches its failure: the process ends.
DeleteWebhookFails(b) ==
  /\ At(b, "start")
  /\ SendFails
  /\ bot' = [bot EXCEPT ![b] = DownBot]
  /\ UNCHANGED <<now, network, tables, history, service>>

---------------------------------------------------------------------------
Larger(m, n) == IF m < n THEN n ELSE m

\* Faulty variant: the whole batch is confirmed when it is fetched.
PollConfirming(b) ==
  LET first == Larger(bot[b].offset, confirmed + 1) IN
  /\ At(b, "poll")
  /\ first <= Len(sent)
  /\ confirmed' = Len(sent)
  /\ bot' = [bot EXCEPT ![b] =
       [@ EXCEPT !.node = "claim", !.update = first, !.last = Len(sent)]]
  /\ UNCHANGED <<now, sent, shown, tables, history, service>>

\* getUpdates: the offset confirms what lies before it; without one, after a restart,
\* Telegram delivers everything that is not confirmed.
Poll(b) ==
  LET first == Larger(bot[b].offset, confirmed + 1) IN
  /\ At(b, "poll")
  /\ confirmed' = Larger(confirmed, bot[b].offset - 1)
  /\ bot' = IF first <= Len(sent)
            THEN [bot EXCEPT ![b] =
                   [@ EXCEPT !.node = "claim", !.update = first, !.last = Len(sent)]]
            ELSE bot
  /\ UNCHANGED <<now, sent, shown, tables, history, service>>

\* A failed poll is tried again after a pause; its offset may have arrived.
PollFails(b) ==
  /\ At(b, "poll")
  /\ SendFails
  /\ confirmed' \in {confirmed, Larger(confirmed, bot[b].offset - 1)}
  /\ Goto(b, "backoff")
  /\ UNCHANGED <<now, sent, shown, tables, history, service>>

Retry(b) ==
  /\ At(b, "backoff")
  /\ Goto(b, "poll")
  /\ UNCHANGED <<now, network, tables, history, service>>

\* claim_update: an update with a row is skipped.
CheckClaim(b) ==
  /\ At(b, "claim")
  /\ IF bot[b].update \in claimed THEN Finish(b) ELSE Goto(b, "insert")
  /\ UNCHANGED <<now, network, tables, history, service>>

\* The node that handles an update; a prompt and a command have a session first.
Handler(u) ==
  CASE u.kind = "prompt" -> "session"
    [] u.kind = "new" -> "create"
    [] OTHER -> "lookup"

\* Faulty variant: the claim is checked, never recorded.
ClaimUnrecorded(b) ==
  /\ At(b, "insert")
  /\ IF Sender(b) \in Allowed THEN Goto(b, Handler(Current(b))) ELSE Finish(b)
  /\ UNCHANGED <<now, network, tables, history, service>>

\* claim_update's insert, and the allowlists; the primary key rejects a second claim.
Claim(b) ==
  /\ At(b, "insert")
  /\ IF bot[b].update \in claimed
     THEN Fail(b) /\ UNCHANGED claimed
     ELSE /\ claimed' = claimed \cup {bot[b].update}
          /\ IF Sender(b) \in Allowed THEN Goto(b, Handler(Current(b))) ELSE Finish(b)
  /\ UNCHANGED <<now, network, sessions, bound, runs, tokens, history, service>>

---------------------------------------------------------------------------
\* get_or_create_session: the bound session, unless it has expired.
FindSession(b) ==
  LET s == bound[Sender(b)] IN
  /\ At(b, "session")
  /\ IF s # 0 /\ sessions[s] > now
     THEN bot' = [bot EXCEPT ![b] = [@ EXCEPT !.node = "planning", !.session = s]]
     ELSE Goto(b, "create")
  /\ UNCHANGED <<now, network, tables, history, service>>

\* Faulty variant: the session's transaction is not committed.
CreateUncommitted(b) ==
  /\ At(b, "create")
  /\ bot' = [bot EXCEPT ![b] = [@ EXCEPT !.node = "bind", !.session = Len(sessions) + 1]]
  /\ UNCHANGED <<now, network, tables, history, service>>

\* create_session, in a transaction of its own.
CreateSession(b) ==
  /\ At(b, "create")
  /\ sessions' = Append(sessions, now + SessionTTL)
  /\ bot' = [bot EXCEPT ![b] = [@ EXCEPT !.node = "bind", !.session = Len(sessions) + 1]]
  /\ UNCHANGED <<now, network, claimed, bound, runs, tokens, history, service>>

\* bind_conversation reads the identity's row, then inserts or updates it.
FindBinding(b) ==
  /\ At(b, "bind")
  /\ Goto(b, IF bound[Sender(b)] = 0 THEN "firstbind" ELSE "rebind")
  /\ UNCHANGED <<now, network, tables, history, service>>

\* Another poller has bound the identity first.
BindConflict(b) == At(b, "firstbind") /\ bound[Sender(b)] # 0

\* Faulty variant: the binding is keyed by the chat alone, and everyone is in one chat.
BindWholeChat(b) ==
  /\ At(b, "firstbind") \/ At(b, "rebind")
  /\ bound' = [u \in Chatters |-> bot[b].session]
  /\ Goto(b, IF Current(b).kind = "new" THEN "reply" ELSE "planning")
  /\ UNCHANGED <<now, network, claimed, sessions, runs, tokens, history, service>>

\* bind_conversation, in a transaction of its own; the primary key rejects an insert in
\* conflict with another, and the new session stays unbound.
BindSession(b) ==
  /\ At(b, "firstbind") \/ At(b, "rebind")
  /\ IF BindConflict(b)
     THEN Fail(b) /\ UNCHANGED bound
     ELSE /\ bound' = [bound EXCEPT ![Sender(b)] = bot[b].session]
          /\ Goto(b, IF Current(b).kind = "new" THEN "reply" ELSE "planning")
  /\ UNCHANGED <<now, network, claimed, sessions, runs, tokens, history, service>>

SendPlanning(b) ==
  /\ At(b, "planning")
  /\ Request(b, Goto(b, "submit"))
  /\ UNCHANGED <<now, network, tables, history, service>>

\* runtime.submit: the run it creates raises, is answered, or pauses on an approval
\* whose window starts now.
Submit(b) ==
  LET r == Len(runs) + 1 IN
  /\ At(b, "submit")
  /\ \E state \in {"failed", "answered", "paused"} :
       /\ runs' = Append(runs, [session |-> bot[b].session, prompt |-> bot[b].update,
                                expires |-> now + ApprovalTTL, state |-> state])
       /\ \/ state = "failed" /\ Fail(b)
          \/ state = "answered" /\ Goto(b, "reply")
          \/ /\ state = "paused"
             /\ bot' = [bot EXCEPT ![b] = [@ EXCEPT !.node = "token", !.run = r]]
  /\ UNCHANGED <<now, network, claimed, sessions, bound, tokens, history, service>>

\* create_action_token, for the chat and user that asked.
CreateToken(b) ==
  LET r == bot[b].run IN
  /\ At(b, "token")
  /\ tokens' = Append(tokens, [run |-> r, holder |-> Sender(b),
                               expires |-> runs[r].expires, decision |-> "none"])
  /\ bot' = [bot EXCEPT ![b] = [@ EXCEPT !.node = "card", !.token = Len(tokens) + 1]]
  /\ UNCHANGED <<now, network, claimed, sessions, bound, runs, history, service>>

\* The approval card; it may be shown although the request failed.
SendCard(b) ==
  /\ At(b, "card")
  /\ \/ shown' = shown \cup {bot[b].token} /\ Request(b, Finish(b))
     \/ SendFails /\ Fail(b) /\ UNCHANGED shown
  /\ UNCHANGED <<now, sent, confirmed, tables, history, service>>

\* The final text.
Reply(b) ==
  /\ At(b, "reply")
  /\ Request(b, Finish(b))
  /\ UNCHANGED <<now, network, tables, history, service>>

---------------------------------------------------------------------------
\* Faulty variant: whoever presses.
LookupUnbound(b) ==
  LET t == Current(b).token IN
  /\ At(b, "lookup")
  /\ IF tokens[t].decision = "none" /\ tokens[t].expires > now
     THEN bot' = [bot EXCEPT ![b] = [@ EXCEPT !.node = "consume", !.token = t]]
     ELSE Finish(b)
  /\ UNCHANGED <<now, network, tables, history, service>>

\* consume_action_token reads the row: someone else's, a used or an expired token is
\* answered with an alert and the handler is over.
LookupToken(b) ==
  LET t == Current(b).token IN
  /\ At(b, "lookup")
  /\ IF /\ tokens[t].holder = Sender(b)
        /\ tokens[t].decision = "none"
        /\ tokens[t].expires > now
     THEN bot' = [bot EXCEPT ![b] = [@ EXCEPT !.node = "consume", !.token = t]]
     ELSE Finish(b)
  /\ UNCHANGED <<now, network, tables, history, service>>

\* Faulty variant: the UPDATE does not test consumed_at.
ConsumeUnconditionally(b) ==
  /\ At(b, "consume")
  /\ tokens' = [tokens EXCEPT ![bot[b].token] = [@ EXCEPT !.decision = Current(b).kind]]
  /\ Goto(b, "ack")
  /\ UNCHANGED <<now, network, claimed, sessions, bound, runs, history, service>>

\* consume_action_token's UPDATE ... WHERE consumed_at IS NULL.
ConsumeToken(b) ==
  LET t == bot[b].token IN
  /\ At(b, "consume")
  /\ IF tokens[t].decision = "none"
     THEN /\ tokens' = [tokens EXCEPT ![t] = [@ EXCEPT !.decision = Current(b).kind]]
          /\ Goto(b, "ack")
     ELSE Finish(b) /\ UNCHANGED tokens
  /\ UNCHANGED <<now, network, claimed, sessions, bound, runs, history, service>>

\* answer_callback_query and the card's new text, both before the resume and outside
\* the try block around it.
Acknowledge(b) ==
  /\ At(b, "ack")
  /\ Request(b, Goto(b, "resume"))
  /\ UNCHANGED <<now, network, tables, history, service>>

\* runtime.resume: the answer decides a paused run; a run decided elsewhere returns
\* its result.  The call may raise, before or after the decision.
ResumeRun(b) ==
  LET t == bot[b].token
      r == tokens[t].run
      decision == IF tokens[t].decision = "approve" THEN "approved" ELSE "denied"
      decided == IF runs[r].state = "paused"
                 THEN [runs EXCEPT ![r] = [@ EXCEPT !.state = decision]]
                 ELSE runs
  IN  /\ At(b, "resume")
      /\ resumes' = Append(resumes, t)
      /\ \/ runs' = decided /\ Goto(b, "reply")
         \/ runs' \in {runs, decided} /\ Goto(b, "report")
      /\ UNCHANGED <<now, network, claimed, sessions, bound, tokens, reported, service>>

\* The resume raised: the chat is told the run id.
ReportRun(b) ==
  /\ At(b, "report")
  /\ Finish(b)
  /\ \/ reported' = reported \cup {bot[b].token}
     \/ SendFails /\ UNCHANGED reported
  /\ UNCHANGED <<now, network, tables, resumes, service>>

\* _notify_update_failure: if this message cannot be sent either, the exception leaves
\* the polling loop and the process ends.
NotifyFailure(b) ==
  /\ At(b, "notify")
  /\ \/ Finish(b)
     \/ SendFails /\ bot' = [bot EXCEPT ![b] = DownBot]
  /\ UNCHANGED <<now, network, tables, history, service>>

---------------------------------------------------------------------------
\* One step of a polling process.
BotStep(b) ==
  \/ Restart(b)
  \/ GiveUp(b)
  \/ DeleteWebhook(b)
  \/ DeleteWebhookFails(b)
  \/ Poll(b)
  \/ PollFails(b)
  \/ Retry(b)
  \/ CheckClaim(b)
  \/ Claim(b)
  \/ FindSession(b)
  \/ CreateSession(b)
  \/ FindBinding(b)
  \/ BindSession(b)
  \/ SendPlanning(b)
  \/ Submit(b)
  \/ CreateToken(b)
  \/ SendCard(b)
  \/ Reply(b)
  \/ LookupToken(b)
  \/ ConsumeToken(b)
  \/ Acknowledge(b)
  \/ ResumeRun(b)
  \/ ReportRun(b)
  \/ NotifyFailure(b)

TelegramNext ==
  \/ Tick
  \/ \E u \in Chatters, kind \in Kinds, t \in shown \cup {0} : Say(u, kind, t)
  \/ \E r \in DOMAIN runs : DecideOnHost(r)
  \/ \E b \in Bots : BotStep(b) \/ Crash(b)

TelegramSpec == TelegramInit /\ [][TelegramNext]_telegramVars

\* The event loop runs and systemd acts; nobody has to write a message.  Bot API requests
\* may fail any number of times, but not for ever: of the start's request and of the polls
\* that are repeated again and again, one gets its answer.
FairTelegramSpec ==
  /\ TelegramSpec
  /\ \A b \in Bots :
       /\ WF_telegramVars(BotStep(b))
       /\ SF_telegramVars(DeleteWebhook(b))
       /\ SF_telegramVars(Poll(b))

---------------------------------------------------------------------------
Prompter(r) == sent[runs[r].prompt].from

\* "Claimed update IDs are stored before processing to prevent replay": however often
\* an update is delivered, to however many pollers, and wherever one of them dies, it
\* becomes one run at most, and only for an allowlisted identity.
PromptsRunOnce ==
  \A r \in DOMAIN runs :
    /\ Prompter(r) \in Allowed
    /\ \A q \in DOMAIN runs : runs[q].prompt = runs[r].prompt => q = r

\* "Duplicated, expired, or cross-identity callbacks cannot authorize an effect": every
\* resume was asked for, with the answer it carries, by a press of the identity whose
\* prompt started the run.
ResumesWerePressed ==
  \A i \in DOMAIN resumes :
    LET row == tokens[resumes[i]] IN
    /\ row.holder = Prompter(row.run)
    /\ \E u \in claimed :
         sent[u] = [kind |-> row.decision, from |-> row.holder, token |-> resumes[i]]

\* A token resumes its run once, however many presses and pollers race for it.
TokensAreUsedOnce ==
  \A i, j \in DOMAIN resumes : resumes[i] = resumes[j] => i = j

\* Two identities never share a session, so neither sees the other's history, grants
\* or workspace.
ConversationsAreSeparate ==
  \A r \in DOMAIN runs :
    /\ \A q \in DOMAIN runs : runs[q].session = runs[r].session => Prompter(q) = Prompter(r)
    /\ \A u \in Chatters : bound[u] = runs[r].session => u = Prompter(r)

\* Telegram forgets an update only after a poller has claimed it: a crash in the middle
\* of a batch loses no update that nobody has looked at.
ConfirmedWereClaimed == \A i \in 1..confirmed : i \in claimed

\* The poller catches up: again and again it has claimed every update sent so far, across
\* crashes in the middle of a batch, failed starts and failed polls -- unless it failed so
\* often within one interval that systemd gave it up.
EveryUpdateIsClaimed ==
  []<>(\/ \A i \in DOMAIN sent : i \in claimed
       \/ \A b \in Bots : At(b, "stopped"))

\* "If a consumed approval cannot resume, the bot includes the run ID so it can be
\* inspected through the CLI."
ConsumedIsResumedOrReported ==
  \A t \in DOMAIN tokens : tokens[t].decision # "none" =>
    \/ t \in reported
    \/ \E i \in DOMAIN resumes : resumes[i] = t
    \/ \E b \in Bots : bot[b].token = t
=============================================================================
