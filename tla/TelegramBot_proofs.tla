--------------------------- MODULE TelegramBot_proofs ---------------------------
(***************************************************************************)
(* Proofs about TelegramBot, for any number of pollers, identities,        *)
(* updates, crashes and failing requests.                                  *)
(***************************************************************************)
EXTENDS TelegramBot, TLAPS

---------------------------------------------------------------------------
(***************************************************************************)
(* The inductive invariant.  What a poller remembers of an update is true  *)
(* of the tables when it reads them and is used later, while other pollers *)
(* go on; a poller may die and its successor starts without a memory.  So  *)
(* the invariant says of each place in the handlers what it implies about  *)
(* the tables (Sound), in words that other pollers' steps cannot undo, and *)
(* which places two pollers cannot share (Owning, Answering).              *)
(***************************************************************************)
Working == BotNodes \ {"stopped", "down", "start", "poll", "backoff"}

\* Nodes after the claim.
Handling == Working \ {"claim", "insert"}

\* Nodes reached only by the poller that claimed the update.
Owning == Handling \ {"notify"}

\* Nodes of a message before its run exists.
Opening == {"session", "create", "bind", "firstbind", "rebind", "planning", "submit"}

\* Nodes of a button press whose token has been looked at, and used.
Pressing == {"consume", "ack", "resume", "report"}

Answering == {"ack", "resume"}

ServiceOK == crashes \in Nat /\ starts \in [Bots -> 0..StartLimit]

Sound(x) ==
  /\ x.node \in Working => x.update \in DOMAIN sent /\ x.last \in DOMAIN sent
  /\ x.node \in Working => x.update <= x.last
  /\ \A i \in Nat : 0 < i /\ i < x.offset => i \in claimed
  /\ x.node \in Working => \A i \in Nat : 0 < i /\ i < x.update => i \in claimed
  /\ x.node \in Handling => x.update \in claimed
  /\ x.node \in Owning => sent[x.update].from \in Allowed
  /\ x.node \in Opening => \A r \in DOMAIN runs : runs[r].prompt # x.update
  /\ x.session # 0 => x.node \in Working /\ x.session \in DOMAIN sessions
  /\ x.node \in {"bind", "firstbind", "rebind", "planning", "submit"} => x.session # 0
  /\ x.node = "token" => x.run \in DOMAIN runs /\ runs[x.run].prompt = x.update
  /\ x.node = "card" => x.token \in DOMAIN tokens
  /\ x.node \in Pressing \cup {"lookup"} => sent[x.update].kind \in {"approve", "deny"}
  /\ x.node \in Pressing =>
       /\ x.token \in DOMAIN tokens /\ x.token = sent[x.update].token
       /\ tokens[x.token].holder = sent[x.update].from
  /\ x.node \in Pressing \ {"consume"} => tokens[x.token].decision = sent[x.update].kind
  /\ x.node \in Answering => \A i \in DOMAIN resumes : resumes[i] # x.token

\* Identity u has to do with session s: it is bound to it, has a run in it, or a poller
\* holds it on the identity's behalf.
Uses(u, s) ==
  \/ bound[u] = s
  \/ \E r \in DOMAIN runs : runs[r].session = s /\ Prompter(r) = u
  \/ \E b \in Bots : bot[b].session = s /\ Sender(b) = u

Apart == \A u, v \in Chatters, s \in DOMAIN sessions : Uses(u, s) /\ Uses(v, s) => u = v

\* A button belongs to a token.
Buttons ==
  \A i \in DOMAIN sent :
    /\ sent[i].kind \in {"approve", "deny"} <=> sent[i].token # 0
    /\ sent[i].token # 0 => sent[i].token \in DOMAIN tokens

RunsClaimed == \A r \in DOMAIN runs : runs[r].prompt \in claimed

TokensOfPrompters == \A t \in DOMAIN tokens : tokens[t].holder = Prompter(tokens[t].run)

Exclusive ==
  \A b, c \in Bots : b # c =>
    /\ ~(bot[b].node \in Owning /\ bot[c].node \in Owning /\ bot[b].update = bot[c].update)
    /\ ~(bot[b].node \in Answering /\ bot[c].node \in Answering /\ bot[b].token = bot[c].token)

TelegramInv ==
  /\ TelegramTypeOK
  /\ Buttons /\ RunsClaimed /\ TokensOfPrompters
  /\ PromptsRunOnce /\ ResumesWerePressed /\ TokensAreUsedOnce /\ ConfirmedWereClaimed
  /\ Apart /\ Exclusive
  /\ \A b \in Bots : Sound(bot[b])

---------------------------------------------------------------------------
\* Rows and updates stay what they are; a token that is used stays used.
Grown ==
  /\ \A i \in DOMAIN sent : i \in DOMAIN sent' /\ sent'[i] = sent[i]
  /\ claimed \subseteq claimed'
  /\ DOMAIN sessions \subseteq DOMAIN sessions'
  /\ \A r \in DOMAIN runs :
       r \in DOMAIN runs' /\ runs'[r].prompt = runs[r].prompt /\ runs'[r].session = runs[r].session
  /\ \A t \in DOMAIN tokens :
       /\ t \in DOMAIN tokens'
       /\ tokens'[t].holder = tokens[t].holder /\ tokens'[t].run = tokens[t].run
       /\ tokens[t].decision # "none" => tokens'[t].decision = tokens[t].decision

\* What a poller remembers survives a step that files no run for its update and no
\* resume for its token.
LEMMA SoundLasts ==
  ASSUME Grown, NEW x, Sound(x),
         x.node \in Opening => \A r \in DOMAIN runs' : runs'[r].prompt # x.update,
         x.node \in Answering => \A i \in DOMAIN resumes' : resumes'[i] # x.token
  PROVE  /\ x.node \in Working => x.update \in DOMAIN sent' /\ x.last \in DOMAIN sent'
         /\ x.node \in Working => x.update <= x.last
         /\ \A i \in Nat : 0 < i /\ i < x.offset => i \in claimed'
         /\ x.node \in Working => \A i \in Nat : 0 < i /\ i < x.update => i \in claimed'
         /\ x.node \in Handling => x.update \in claimed'
         /\ x.node \in Owning => sent'[x.update].from \in Allowed
         /\ x.session # 0 => x.node \in Working /\ x.session \in DOMAIN sessions'
         /\ x.node = "token" => x.run \in DOMAIN runs' /\ runs'[x.run].prompt = x.update
         /\ x.node = "card" => x.token \in DOMAIN tokens'
         /\ x.node \in Pressing \cup {"lookup"} => sent'[x.update].kind \in {"approve", "deny"}
         /\ x.node \in Pressing =>
              /\ x.token \in DOMAIN tokens' /\ x.token = sent'[x.update].token
              /\ tokens'[x.token].holder = sent'[x.update].from
         /\ x.node \in Pressing \ {"consume"} => tokens'[x.token].decision = sent'[x.update].kind
<1>1. /\ Owning \subseteq Working /\ Handling \subseteq Working
      /\ Pressing \cup {"lookup"} \subseteq Working
  BY DEF Owning, Handling, Working, Pressing, BotNodes
<1>2. x.node \in Working => x.update \in DOMAIN sent /\ sent'[x.update] = sent[x.update]
  BY DEF Sound, Grown
<1> QED
  BY <1>1, <1>2 DEF Sound, Grown

LEMMA OthersLast ==
  ASSUME TelegramInv, Grown, NEW c \in Bots, bot'[c] = bot[c],
         bot[c].node \in Opening => \A r \in DOMAIN runs' : runs'[r].prompt # bot[c].update,
         bot[c].node \in Answering => \A i \in DOMAIN resumes' : resumes'[i] # bot[c].token
  PROVE  Sound(bot[c])'
<1> DEFINE x == bot[c]
<1>1. Sound(x)
  BY DEF TelegramInv
<1>2. bot'[c] = x
  OBVIOUS
<1>3. x.node \in {"bind", "firstbind", "rebind", "planning", "submit"} => x.session # 0
  BY <1>1 DEF Sound
<1> HIDE DEF x
<1> QED
  BY <1>1, <1>2, <1>3, SoundLasts DEF Sound, x

\* The facts about rows stay true while no row changes and updates are only claimed.
LEMMA RowsRest ==
  ASSUME TelegramInv, UNCHANGED <<sent, runs, tokens, resumes>>, claimed \subseteq claimed'
  PROVE  /\ Buttons' /\ RunsClaimed' /\ TokensOfPrompters'
         /\ PromptsRunOnce' /\ ResumesWerePressed' /\ TokensAreUsedOnce'
<1>1. Buttons' /\ TokensOfPrompters'
  BY DEF TelegramInv, Buttons, TokensOfPrompters, Prompter
<1>2. RunsClaimed' /\ PromptsRunOnce'
  BY DEF TelegramInv, RunsClaimed, PromptsRunOnce, Prompter
<1>3. TokensAreUsedOnce'
  BY DEF TelegramInv, TokensAreUsedOnce
<1>4. ResumesWerePressed'
  BY DEF TelegramInv, ResumesWerePressed, Prompter
<1> QED
  BY <1>1, <1>2, <1>3, <1>4

\* Pollers stay apart when what the moving one enters is not held by another.
LEMMA ExclusiveLasts ==
  ASSUME TelegramInv, NEW b \in Bots, NEW y, bot' = [bot EXCEPT ![b] = y],
         \A c \in Bots : c # b =>
           /\ ~(y.node \in Owning /\ bot[c].node \in Owning /\ y.update = bot[c].update)
           /\ ~(y.node \in Answering /\ bot[c].node \in Answering /\ y.token = bot[c].token)
  PROVE  Exclusive'
<1>1. \A c \in Bots : bot'[c] = IF c = b THEN y ELSE bot[c]
  BY DEF TelegramInv, TelegramTypeOK
<1>2. Exclusive
  BY DEF TelegramInv
<1> QED
  BY <1>1, <1>2 DEF Exclusive

\* Identities stay apart when no session comes to be used by a new one.
LEMMA ApartLasts ==
  ASSUME TelegramInv, DOMAIN sessions' = DOMAIN sessions,
         \A u \in Chatters, s \in DOMAIN sessions : Uses(u, s)' => Uses(u, s)
  PROVE  Apart'
BY DEF TelegramInv, Apart

\* A step of one poller that writes no table of the database: it goes on with the update
\* it holds, or it lets go of it.
LEMMA QuietStep ==
  ASSUME TelegramInv, NEW b \in Bots, NEW y \in BotRecord,
         bot' = [bot EXCEPT ![b] = y],
         UNCHANGED <<now, sent, tables, resumes>>, ServiceOK',
         confirmed' \in 0..Len(sent), \A i \in 1..confirmed' : i \in claimed,
         shown' \subseteq DOMAIN tokens, reported' \subseteq DOMAIN tokens,
         Sound(y),
         y.node \in Owning => bot[b].node \in Owning /\ y.update = bot[b].update,
         y.node \in Answering => bot[b].node \in Answering /\ y.token = bot[b].token,
         y.session # 0 =>
           y.update = bot[b].update /\ y.session \in {bot[b].session, bound[Sender(b)]}
  PROVE  TelegramInv'
<1>1. /\ UNCHANGED <<sent, runs, tokens, resumes, claimed, sessions, bound>>
      /\ claimed \subseteq claimed'
  BY DEF tables
<1>2. /\ bot'[b] = y
      /\ \A c \in Bots : c # b => bot'[c] = bot[c]
  BY DEF TelegramInv, TelegramTypeOK
<1>3. TelegramTypeOK'
  BY <1>1 DEF TelegramInv, TelegramTypeOK, ServiceOK
<1>4. ConfirmedWereClaimed'
  BY <1>1 DEF ConfirmedWereClaimed
<1>5. Exclusive'
  BY ExclusiveLasts DEF TelegramInv, Exclusive
<1>6. Apart'
  <2>1. \A u \in Chatters, s \in DOMAIN sessions : Uses(u, s)' => Uses(u, s)
    <3> SUFFICES ASSUME NEW u \in Chatters, NEW s \in DOMAIN sessions, Uses(u, s)'
                 PROVE  Uses(u, s)
      OBVIOUS
    <3>1. s # 0
      BY DEF TelegramInv, TelegramTypeOK
    <3>2. CASE bound'[u] = s
      BY <1>1, <3>2 DEF Uses
    <3>3. CASE \E r \in DOMAIN runs' : runs'[r].session = s /\ Prompter(r)' = u
      BY <1>1, <3>3 DEF Uses, Prompter
    <3>4. CASE \E c \in Bots : bot'[c].session = s /\ Sender(c)' = u
      <4>1. PICK c \in Bots : bot'[c].session = s /\ sent[bot'[c].update].from = u
        BY <1>1, <3>4 DEF Sender, Current
      <4>2. CASE c # b
        BY <1>2, <4>1, <4>2 DEF Uses, Sender, Current
      <4>3. CASE c = b
        BY <1>2, <3>1, <4>1, <4>3 DEF Uses, Sender, Current
      <4> QED
        BY <4>2, <4>3
    <3> QED
      BY <3>2, <3>3, <3>4 DEF Uses
  <2> QED
    BY <1>1, <2>1, ApartLasts
<1>7. ASSUME NEW c \in Bots PROVE Sound(bot[c])'
  <2>1. CASE c = b
    BY <1>1, <1>2, <2>1 DEF Sound
  <2>2. CASE c # b
    <3>1. Grown
      BY <1>1 DEF Grown
    <3>2. Sound(bot[c])
      BY DEF TelegramInv
    <3> QED
      BY <1>1, <1>2, <2>2, <3>1, <3>2, OthersLast DEF Sound
  <2> QED
    BY <2>1, <2>2
<1> QED
  BY <1>1, <1>3, <1>4, <1>5, <1>6, <1>7, RowsRest DEF TelegramInv

---------------------------------------------------------------------------
\* The memory of a poller after Finish, after Goto, and when it is down.
Finished(x) ==
  [node |-> IF x.update = x.last THEN "poll" ELSE "claim",
   offset |-> x.update + 1, update |-> IF x.update = x.last THEN 0 ELSE x.update + 1,
   last |-> IF x.update = x.last THEN 0 ELSE x.last,
   session |-> 0, run |-> 0, token |-> 0]

Moved(x, node) == [x EXCEPT !.node = node]

LEMMA FinishRecord ==
  ASSUME TelegramInv, NEW x \in BotRecord, Sound(x), x.node \in Working,
         x.update \in claimed
  PROVE  /\ Finished(x) \in BotRecord /\ Sound(Finished(x))
         /\ Finished(x).node \in {"poll", "claim"} /\ Finished(x).session = 0
<1> DEFINE y == Finished(x)
<1>1. x.update \in Nat /\ x.last \in Nat
  BY DEF BotRecord
<1>2. /\ y \in BotRecord /\ y.node \in {"poll", "claim"} /\ y.session = 0
      /\ y.offset = x.update + 1
      /\ y.node = "claim" => y.update = x.update + 1 /\ y.last = x.last /\ x.update # x.last
  BY <1>1 DEF Finished, BotRecord, BotNodes
<1>3. sent \in Seq(Update) /\ DOMAIN sent = 1..Len(sent)
  BY DEF TelegramInv, TelegramTypeOK
<1>4. /\ x.update \in DOMAIN sent /\ x.last \in DOMAIN sent /\ x.update <= x.last
      /\ \A i \in Nat : 0 < i /\ i < x.update => i \in claimed
  BY DEF Sound
<1>5. \A i \in Nat : 0 < i /\ i < x.update + 1 => i \in claimed
  BY <1>1, <1>4
<1>6. y.node = "claim" => y.update \in DOMAIN sent /\ y.last \in DOMAIN sent /\ y.update <= y.last
  BY <1>1, <1>2, <1>3, <1>4
<1> HIDE DEF y
<1>7. Sound(y)
  BY <1>2, <1>5, <1>6
     DEF Sound, Working, Handling, Owning, Opening, Pressing, Answering, BotNodes
<1> QED
  BY <1>2, <1>7 DEF y

LEMMA MoveRecord ==
  ASSUME NEW x \in BotRecord, NEW n \in BotNodes
  PROVE  /\ Moved(x, n) \in BotRecord /\ Moved(x, n).node = n
         /\ Moved(x, n).offset = x.offset /\ Moved(x, n).update = x.update
         /\ Moved(x, n).last = x.last /\ Moved(x, n).session = x.session
         /\ Moved(x, n).run = x.run /\ Moved(x, n).token = x.token
BY DEF Moved, BotRecord

LEMMA DownRecord == DownBot \in BotRecord /\ Sound(DownBot)
BY DEF DownBot, BotRecord, BotNodes, Sound, Working, Handling, Owning, Opening, Pressing,
       Answering

\* Every poller's memory has its type and is sound.
LEMMA BotFacts ==
  ASSUME TelegramInv, NEW b \in Bots
  PROVE  bot[b] \in BotRecord /\ Sound(bot[b])
BY DEF TelegramInv, TelegramTypeOK

LEMMA FinishStep ==
  ASSUME TelegramInv, NEW b \in Bots, bot[b].node \in Working, bot[b].update \in claimed,
         Finish(b), UNCHANGED <<now, sent, confirmed, tables, resumes, service>>,
         shown' \subseteq DOMAIN tokens, reported' \subseteq DOMAIN tokens
  PROVE  TelegramInv'
<1>1. bot' = [bot EXCEPT ![b] = Finished(bot[b])]
  BY DEF Finish, Finished, TelegramInv, TelegramTypeOK
<1>2. bot[b] \in BotRecord /\ Sound(bot[b])
  BY BotFacts
<1>3. /\ Finished(bot[b]) \in BotRecord /\ Sound(Finished(bot[b]))
      /\ Finished(bot[b]).node \in {"poll", "claim"} /\ Finished(bot[b]).session = 0
  BY <1>2, FinishRecord
<1>4. ServiceOK' /\ confirmed' \in 0..Len(sent) /\ \A i \in 1..confirmed' : i \in claimed
  BY DEF TelegramInv, TelegramTypeOK, ConfirmedWereClaimed, ServiceOK, service
<1> QED
  BY <1>1, <1>3, <1>4, QuietStep DEF Owning, Handling, Working, Answering

\* A poller moves to another node and remembers what it did.
LEMMA MoveStep ==
  ASSUME TelegramInv, NEW b \in Bots, NEW n \in BotNodes, Goto(b, n),
         UNCHANGED <<now, network, tables, history, service>>, Sound(Moved(bot[b], n)),
         n \in Owning => bot[b].node \in Owning,
         n \in Answering => bot[b].node \in Answering
  PROVE  TelegramInv'
<1>1. bot' = [bot EXCEPT ![b] = Moved(bot[b], n)]
  BY DEF Goto, Moved, TelegramInv, TelegramTypeOK
<1>2. bot[b] \in BotRecord
  BY BotFacts
<1>3. /\ ServiceOK' /\ confirmed' \in 0..Len(sent) /\ \A i \in 1..confirmed' : i \in claimed
      /\ shown' \subseteq DOMAIN tokens /\ reported' \subseteq DOMAIN tokens
      /\ UNCHANGED <<sent, resumes>>
  BY DEF TelegramInv, TelegramTypeOK, ConfirmedWereClaimed, network, history, ServiceOK, service
<1> QED
  BY <1>1, <1>2, <1>3, MoveRecord, QuietStep

LEMMA FailStep ==
  ASSUME TelegramInv, NEW b \in Bots, bot[b].node \in Working, bot[b].update \in claimed,
         Fail(b), UNCHANGED <<now, network, tables, history, service>>
  PROVE  TelegramInv'
<1>1. bot[b] \in BotRecord /\ Sound(bot[b])
  BY BotFacts
<1>2. CASE IsMessage(Current(b))
  <2>1. Goto(b, "notify") /\ "notify" \in BotNodes
    BY <1>2 DEF Fail, BotNodes
  <2>2. Sound(Moved(bot[b], "notify"))
    BY <1>1, <2>1, MoveRecord
       DEF Sound, Working, Handling, Owning, Opening, Pressing, Answering
  <2> QED
    BY <2>1, <2>2, MoveStep DEF Owning, Answering
<1>3. CASE ~IsMessage(Current(b))
  <2>1. Finish(b)
    BY <1>3 DEF Fail
  <2>2. /\ shown' \subseteq DOMAIN tokens /\ reported' \subseteq DOMAIN tokens
        /\ UNCHANGED <<sent, confirmed, resumes>>
    BY DEF TelegramInv, TelegramTypeOK, network, history
  <2> QED
    BY <2>1, <2>2, FinishStep
<1> QED
  BY <1>2, <1>3

---------------------------------------------------------------------------
\* The steps that write no table of the database.
LEMMA AtWork ==
  ASSUME TelegramInv, NEW b \in Bots, bot[b].node \in Handling
  PROVE  bot[b].node \in Working /\ bot[b].update \in claimed
BY BotFacts DEF Sound, Handling, Working

\* Who sent the update a poller works on.
LEMMA SenderFacts ==
  ASSUME TelegramTypeOK, NEW b \in Bots, bot[b].update \in DOMAIN sent
  PROVE  Sender(b) \in Chatters
<1>1. sent \in Seq(Update)
  BY DEF TelegramTypeOK
<1> DEFINE u == bot[b].update
<1>2. u \in DOMAIN sent
  OBVIOUS
<1> HIDE DEF u
<1>3. sent[u] \in Update
  BY <1>1, <1>2
<1>4. sent[u].from \in Chatters
  BY <1>3 DEF Update
<1> QED
  BY <1>4 DEF Sender, Current, u

LEMMA DownStep ==
  ASSUME TelegramInv, NEW b \in Bots, bot' = [bot EXCEPT ![b] = DownBot],
         UNCHANGED <<now, network, tables, history>>, ServiceOK'
  PROVE  TelegramInv'
<1>1. /\ confirmed' \in 0..Len(sent) /\ \A i \in 1..confirmed' : i \in claimed
      /\ shown' \subseteq DOMAIN tokens /\ reported' \subseteq DOMAIN tokens
      /\ UNCHANGED <<sent, resumes>>
  BY DEF TelegramInv, TelegramTypeOK, ConfirmedWereClaimed, network, history, ServiceOK, service
<1>2. DownBot.node \notin Owning /\ DownBot.node \notin Answering /\ DownBot.session = 0
  BY DEF DownBot, Owning, Handling, Working, Answering
<1> QED
  BY <1>1, <1>2, DownRecord, QuietStep

LEMMA CrashKeeps ==
  ASSUME TelegramInv, NEW b \in Bots, Crash(b)
  PROVE  TelegramInv'
<1>1. ServiceOK'
  BY DEF Crash, TelegramInv, TelegramTypeOK, ServiceOK
<1> QED
  BY <1>1, DownStep DEF Crash

\* The steps between two polls, and between two starts of the service.
LEMMA IdleStep ==
  ASSUME TelegramInv, NEW b \in Bots, NEW n \in {"stopped", "start", "poll", "backoff"},
         Goto(b, n), bot[b].node \in {"down", "start", "poll", "backoff"},
         UNCHANGED <<now, sent, shown, tables, history>>, ServiceOK',
         confirmed' \in 0..Len(sent), \A i \in 1..confirmed' : i \in claimed
  PROVE  TelegramInv'
<1>1. n \in BotNodes
  BY DEF BotNodes
<1>2. bot[b] \in BotRecord /\ Sound(bot[b])
  BY BotFacts
<1>3. bot' = [bot EXCEPT ![b] = Moved(bot[b], n)]
  BY DEF Goto, Moved, TelegramInv, TelegramTypeOK
<1>4. bot[b].session = 0
  BY <1>2 DEF Sound, Working
<1>5. Sound(Moved(bot[b], n))
  BY <1>1, <1>2, <1>4, MoveRecord
     DEF Sound, Working, Handling, Owning, Opening, Pressing, Answering
<1>6. /\ shown' \subseteq DOMAIN tokens /\ reported' \subseteq DOMAIN tokens
      /\ UNCHANGED <<sent, resumes>>
  BY DEF TelegramInv, TelegramTypeOK, history
<1>7. n \notin Owning /\ n \notin Answering
  BY DEF Owning, Handling, Working, Answering
<1> QED
  BY <1>1, <1>2, <1>3, <1>4, <1>5, <1>6, <1>7, MoveRecord, QuietStep

LEMMA ServiceFacts ==
  ASSUME TelegramInv
  PROVE  /\ ServiceOK /\ (UNCHANGED service => ServiceOK')
         /\ confirmed \in 0..Len(sent) /\ \A i \in 1..confirmed : i \in claimed
BY DEF TelegramInv, TelegramTypeOK, ServiceOK, service, ConfirmedWereClaimed

LEMMA RestartKeeps ==
  ASSUME TelegramInv, NEW b \in Bots, Restart(b)
  PROVE  TelegramInv'
<1>1. PICK counted \in {0, starts[b]} :
        counted < StartLimit /\ starts' = [starts EXCEPT ![b] = counted + 1]
  BY DEF Restart
<1>2. starts \in [Bots -> 0..StartLimit] /\ crashes \in Nat
  BY ServiceFacts DEF ServiceOK
<1>3. counted + 1 \in 0..StartLimit
  BY <1>1, <1>2, TelegramAssumption
<1>4. ServiceOK'
  BY <1>1, <1>2, <1>3 DEF Restart, ServiceOK
<1>5. UNCHANGED <<now, sent, confirmed, shown, tables, history>>
  BY DEF Restart, network
<1> QED
  BY <1>4, <1>5, ServiceFacts, IdleStep DEF Restart, At

LEMMA GiveUpKeeps ==
  ASSUME TelegramInv, NEW b \in Bots, GiveUp(b)
  PROVE  TelegramInv'
<1>1. UNCHANGED <<now, sent, confirmed, shown, tables, history, service>>
  BY DEF GiveUp, network
<1> QED
  BY <1>1, ServiceFacts, IdleStep DEF GiveUp, At

LEMMA DeleteWebhookKeeps ==
  ASSUME TelegramInv, NEW b \in Bots, DeleteWebhook(b) \/ DeleteWebhookFails(b)
  PROVE  TelegramInv'
<1>1. UNCHANGED <<now, sent, confirmed, shown, tables, history, service>>
  BY DEF DeleteWebhook, DeleteWebhookFails, network
<1>2. CASE DeleteWebhook(b)
  BY <1>1, <1>2, ServiceFacts, IdleStep DEF DeleteWebhook, At
<1>3. CASE DeleteWebhookFails(b)
  BY <1>1, <1>3, ServiceFacts, DownStep DEF DeleteWebhookFails, network
<1> QED
  BY <1>2, <1>3

\* What a poll confirms was claimed, whether or not its answer arrives.
LEMMA PollConfirms ==
  ASSUME TelegramInv, NEW b \in Bots
  PROVE  LET upto == Larger(confirmed, bot[b].offset - 1)
         IN  upto \in 0..Len(sent) /\ \A i \in 1..upto : i \in claimed
<1> DEFINE x == bot[b]
           upto == Larger(confirmed, x.offset - 1)
<1>1. x.offset \in Nat /\ confirmed \in 0..Len(sent) /\ Len(sent) \in Nat
  BY BotFacts DEF BotRecord, TelegramInv, TelegramTypeOK
<1>2. \A i \in Nat : 0 < i /\ i < x.offset => i \in claimed
  BY BotFacts DEF Sound
<1>3. \A i \in 1..confirmed : i \in claimed
  BY DEF TelegramInv, ConfirmedWereClaimed
<1>4. claimed \subseteq 1..Len(sent)
  BY DEF TelegramInv, TelegramTypeOK
<1>5. CASE confirmed < x.offset - 1
  <2>1. x.offset - 1 \in claimed
    BY <1>1, <1>2, <1>5
  <2>2. upto = x.offset - 1
    BY <1>5 DEF Larger
  <2> QED
    BY <1>1, <1>2, <1>4, <2>1, <2>2
<1>6. CASE ~(confirmed < x.offset - 1)
  BY <1>1, <1>3, <1>6 DEF Larger
<1> QED
  BY <1>5, <1>6

LEMMA PollFailsKeeps ==
  ASSUME TelegramInv, NEW b \in Bots, PollFails(b)
  PROVE  TelegramInv'
<1>1. confirmed' \in 0..Len(sent) /\ \A i \in 1..confirmed' : i \in claimed
  BY PollConfirms, ServiceFacts DEF PollFails
<1> QED
  BY <1>1, ServiceFacts, IdleStep DEF PollFails, At

LEMMA RetryKeeps ==
  ASSUME TelegramInv, NEW b \in Bots, Retry(b)
  PROVE  TelegramInv'
<1>1. UNCHANGED <<now, sent, confirmed, shown, tables, history, service>>
  BY DEF Retry, network
<1> QED
  BY <1>1, ServiceFacts, IdleStep DEF Retry, At

LEMMA PollKeeps ==
  ASSUME TelegramInv, NEW b \in Bots, Poll(b)
  PROVE  TelegramInv'
<1> DEFINE x == bot[b]
           first == Larger(x.offset, confirmed + 1)
           y == [x EXCEPT !.node = "claim", !.update = first, !.last = Len(sent)]
           z == IF first <= Len(sent) THEN y ELSE x
<1>1. x \in BotRecord /\ Sound(x) /\ x.node = "poll"
  BY BotFacts DEF Poll, At
<1>2. x.offset \in Nat /\ confirmed \in 0..Len(sent) /\ Len(sent) \in Nat
  BY <1>1 DEF BotRecord, TelegramInv, TelegramTypeOK
<1>3. /\ bot' = [bot EXCEPT ![b] = z] /\ confirmed' = Larger(confirmed, x.offset - 1)
      /\ UNCHANGED <<now, sent, tables, resumes, service, shown, reported>>
  BY DEF Poll, TelegramInv, TelegramTypeOK, history
<1>4. \A i \in Nat : 0 < i /\ i < x.offset => i \in claimed
  BY <1>1 DEF Sound
<1>5. \A i \in 1..confirmed : i \in claimed
  BY DEF TelegramInv, ConfirmedWereClaimed
<1>6. claimed \subseteq 1..Len(sent) /\ DOMAIN sent = 1..Len(sent)
  BY DEF TelegramInv, TelegramTypeOK
<1>7. confirmed' \in 0..Len(sent) /\ \A i \in 1..confirmed' : i \in claimed
  BY <1>3, PollConfirms
<1>8. /\ first \in Nat /\ 0 < first
      /\ \A i \in Nat : 0 < i /\ i < first => i \in claimed
  <2>1. CASE x.offset < confirmed + 1
    BY <1>2, <1>5, <2>1 DEF Larger
  <2>2. CASE ~(x.offset < confirmed + 1)
    BY <1>2, <1>4, <2>2 DEF Larger
  <2> QED
    BY <2>1, <2>2
<1>9. z \in BotRecord /\ Sound(z) /\ z.node \in {"poll", "claim"} /\ z.session = 0
  <2>1. x.session = 0
    BY <1>1 DEF Sound, Working
  <2>2. CASE first <= Len(sent)
    <3> HIDE DEF first
    <3>1. /\ y \in BotRecord /\ y.node = "claim" /\ y.update = first /\ y.last = Len(sent)
          /\ y.offset = x.offset /\ y.session = 0
      BY <1>1, <1>2, <1>8, <2>1 DEF BotRecord, BotNodes
    <3>2. first \in DOMAIN sent /\ Len(sent) \in DOMAIN sent
      BY <1>2, <1>6, <1>8, <2>2
    <3> HIDE DEF y, x
    <3>3. Sound(y)
      BY <1>4, <1>8, <2>2, <3>1, <3>2
         DEF Sound, Working, Handling, Owning, Opening, Pressing, Answering, BotNodes
    <3> QED
      BY <2>2, <3>1, <3>3
  <2>3. CASE ~(first <= Len(sent))
    BY <1>1, <2>1, <2>3
  <2> QED
    BY <2>2, <2>3
<1>10. /\ ServiceOK' /\ shown' \subseteq DOMAIN tokens /\ reported' \subseteq DOMAIN tokens
       /\ z.node \notin Owning /\ z.node \notin Answering
  BY <1>3, <1>9
     DEF TelegramInv, TelegramTypeOK, Owning, Handling, Working, Answering, ServiceOK, service
<1> HIDE DEF z
<1> QED
  BY <1>3, <1>7, <1>9, <1>10, QuietStep

LEMMA CheckClaimKeeps ==
  ASSUME TelegramInv, NEW b \in Bots, CheckClaim(b)
  PROVE  TelegramInv'
<1>1. bot[b].node = "claim" /\ UNCHANGED <<now, network, tables, history, service>>
  BY DEF CheckClaim, At
<1>2. /\ shown' \subseteq DOMAIN tokens /\ reported' \subseteq DOMAIN tokens
      /\ UNCHANGED <<sent, confirmed, resumes>>
  BY <1>1 DEF TelegramInv, TelegramTypeOK, network, history
<1>3. CASE bot[b].update \in claimed
  BY <1>1, <1>2, <1>3, FinishStep DEF CheckClaim, Working, BotNodes
<1>4. CASE bot[b].update \notin claimed
  <2>1. "insert" \in BotNodes
    BY DEF BotNodes
  <2>2. Sound(Moved(bot[b], "insert"))
    BY <1>1, <2>1, BotFacts, MoveRecord
       DEF Sound, Working, Handling, Owning, Opening, Pressing, Answering, BotNodes
  <2> QED
    BY <1>1, <1>4, <2>1, <2>2, MoveStep DEF CheckClaim, Owning, Handling, Answering
<1> QED
  BY <1>3, <1>4

LEMMA FindSessionKeeps ==
  ASSUME TelegramInv, NEW b \in Bots, FindSession(b)
  PROVE  TelegramInv'
<1> DEFINE x == bot[b]
           s == bound[Sender(b)]
           y == [x EXCEPT !.node = "planning", !.session = s]
<1>1. x \in BotRecord /\ Sound(x) /\ x.node = "session"
  BY BotFacts DEF FindSession, At
<1>2. UNCHANGED <<now, network, tables, history, service>>
  BY DEF FindSession
<1>3. CASE s # 0 /\ sessions[s] > now
  <2>1. bot' = [bot EXCEPT ![b] = y]
    BY <1>3 DEF FindSession, TelegramInv, TelegramTypeOK
  <2>2. x.update \in DOMAIN sent
    BY <1>1 DEF Sound, Working, BotNodes
  <2>3. s \in DOMAIN sessions
    <3>1. Sender(b) \in Chatters
      BY <2>2, SenderFacts DEF TelegramInv
    <3>2. bound \in [Chatters -> 0..Len(sessions)]
      BY DEF TelegramInv, TelegramTypeOK
    <3>3. s \in 0..Len(sessions)
      BY <3>1, <3>2
    <3>4. DOMAIN sessions = 1..Len(sessions) /\ Len(sessions) \in Nat
      BY DEF TelegramInv, TelegramTypeOK
    <3> HIDE DEF s
    <3> QED
      BY <1>3, <3>3, <3>4
  <2>4. s \in Nat
    BY <2>3 DEF TelegramInv, TelegramTypeOK
  <2> HIDE DEF s
  <2>5. /\ y \in BotRecord /\ y.node = "planning" /\ y.session = s
        /\ y.update = x.update /\ y.last = x.last /\ y.offset = x.offset
    BY <1>1, <2>4 DEF BotRecord, BotNodes
  <2>6. Sound(y)
    <3> HIDE DEF x, y
    <3> QED
      BY <1>1, <1>3, <2>3, <2>5
         DEF Sound, Working, Handling, Owning, Opening, Pressing, Answering, BotNodes
  <2>7. /\ confirmed' \in 0..Len(sent) /\ \A i \in 1..confirmed' : i \in claimed
        /\ shown' \subseteq DOMAIN tokens /\ reported' \subseteq DOMAIN tokens
        /\ UNCHANGED <<sent, resumes>> /\ ServiceOK'
    BY <1>2
       DEF TelegramInv, TelegramTypeOK, ConfirmedWereClaimed, network, history, ServiceOK, service
  <2>8. x.node \in Owning /\ y.node \notin Answering /\ y.session = bound[Sender(b)]
    BY <1>1, <2>5 DEF Owning, Handling, Working, BotNodes, Answering, s
  <2> HIDE DEF y
  <2> QED
    BY <1>2, <2>1, <2>5, <2>6, <2>7, <2>8, QuietStep
<1>4. CASE ~(s # 0 /\ sessions[s] > now)
  <2>1. Goto(b, "create") /\ "create" \in BotNodes
    BY <1>4 DEF FindSession, BotNodes
  <2>2. Sound(Moved(x, "create"))
    BY <1>1, <2>1, MoveRecord
       DEF Sound, Working, Handling, Owning, Opening, Pressing, Answering, BotNodes
  <2>3. x.node \in Owning /\ "create" \notin Answering
    BY <1>1 DEF Owning, Handling, Working, BotNodes, Answering
  <2> QED
    BY <1>2, <2>1, <2>2, <2>3, MoveStep
<1> QED
  BY <1>3, <1>4

LEMMA FindBindingKeeps ==
  ASSUME TelegramInv, NEW b \in Bots, FindBinding(b)
  PROVE  TelegramInv'
<1>1. PICK n \in {"firstbind", "rebind"} : Goto(b, n)
  BY DEF FindBinding
<1>2. bot[b].node = "bind" /\ UNCHANGED <<now, network, tables, history, service>>
  BY DEF FindBinding, At
<1>3. n \in BotNodes
  BY DEF BotNodes
<1>4. Sound(Moved(bot[b], n))
  BY <1>2, <1>3, BotFacts, MoveRecord
     DEF Sound, Working, Handling, Owning, Opening, Pressing, Answering, BotNodes
<1>5. bot[b].node \in Owning /\ n \notin Answering
  BY <1>2 DEF Owning, Handling, Working, BotNodes, Answering
<1> QED
  BY <1>1, <1>2, <1>3, <1>4, <1>5, MoveStep

LEMMA SendPlanningKeeps ==
  ASSUME TelegramInv, NEW b \in Bots, SendPlanning(b)
  PROVE  TelegramInv'
<1>1. bot[b].node = "planning" /\ UNCHANGED <<now, network, tables, history, service>>
  BY DEF SendPlanning, At
<1>2. bot[b].node \in Handling /\ bot[b].node \in Owning
  BY <1>1 DEF Owning, Handling, Working, BotNodes
<1>3. CASE Goto(b, "submit")
  <2>1. "submit" \in BotNodes
    BY DEF BotNodes
  <2>2. Sound(Moved(bot[b], "submit"))
    BY <1>1, <2>1, BotFacts, MoveRecord
       DEF Sound, Working, Handling, Owning, Opening, Pressing, Answering, BotNodes
  <2> QED
    BY <1>1, <1>2, <1>3, <2>1, <2>2, MoveStep DEF Answering
<1>4. CASE Fail(b)
  BY <1>1, <1>2, <1>4, AtWork, FailStep
<1> QED
  BY <1>3, <1>4 DEF SendPlanning, Request

LEMMA ReplyKeeps ==
  ASSUME TelegramInv, NEW b \in Bots, Reply(b)
  PROVE  TelegramInv'
<1>1. bot[b].node = "reply" /\ UNCHANGED <<now, network, tables, history, service>>
  BY DEF Reply, At
<1>2. bot[b].node \in Handling
  BY <1>1 DEF Handling, Working, BotNodes
<1>3. /\ shown' \subseteq DOMAIN tokens /\ reported' \subseteq DOMAIN tokens
      /\ UNCHANGED <<sent, confirmed, resumes>>
  BY <1>1 DEF TelegramInv, TelegramTypeOK, network, history
<1>4. CASE Finish(b)
  BY <1>1, <1>2, <1>3, <1>4, AtWork, FinishStep
<1>5. CASE Fail(b)
  BY <1>1, <1>2, <1>5, AtWork, FailStep
<1> QED
  BY <1>4, <1>5 DEF Reply, Request

LEMMA AcknowledgeKeeps ==
  ASSUME TelegramInv, NEW b \in Bots, Acknowledge(b)
  PROVE  TelegramInv'
<1>1. bot[b].node = "ack" /\ UNCHANGED <<now, network, tables, history, service>>
  BY DEF Acknowledge, At
<1>2. bot[b].node \in Handling /\ bot[b].node \in Owning /\ bot[b].node \in Answering
  BY <1>1 DEF Owning, Handling, Working, BotNodes, Answering
<1>3. CASE Goto(b, "resume")
  <2>1. "resume" \in BotNodes
    BY DEF BotNodes
  <2>2. Sound(Moved(bot[b], "resume"))
    BY <1>1, <2>1, BotFacts, MoveRecord
       DEF Sound, Working, Handling, Owning, Opening, Pressing, Answering, BotNodes
  <2> QED
    BY <1>1, <1>2, <1>3, <2>1, <2>2, MoveStep
<1>4. CASE Fail(b)
  BY <1>1, <1>2, <1>4, AtWork, FailStep
<1> QED
  BY <1>3, <1>4 DEF Acknowledge, Request

LEMMA SendCardKeeps ==
  ASSUME TelegramInv, NEW b \in Bots, SendCard(b)
  PROVE  TelegramInv'
<1>1. bot[b].node = "card" /\ UNCHANGED <<now, sent, confirmed, tables, history, service>>
  BY DEF SendCard, At
<1>2. bot[b].node \in Handling
  BY <1>1 DEF Handling, Working, BotNodes
<1>3. bot[b].token \in DOMAIN tokens
  BY <1>1, BotFacts DEF Sound
<1>4. shown' \subseteq DOMAIN tokens /\ reported' \subseteq DOMAIN tokens /\ UNCHANGED resumes
  BY <1>1, <1>3 DEF SendCard, TelegramInv, TelegramTypeOK, history
<1>5. CASE Finish(b)
  BY <1>1, <1>2, <1>4, <1>5, AtWork, FinishStep
<1>6. CASE Fail(b) /\ ~Finish(b)
  \* The handler raised, and run() notifies the chat.
  <2>1. bot' = [bot EXCEPT ![b] = Moved(bot[b], "notify")] /\ "notify" \in BotNodes
    BY <1>6 DEF Fail, Goto, Moved, BotNodes, TelegramInv, TelegramTypeOK
  <2>2. /\ Moved(bot[b], "notify") \in BotRecord /\ Moved(bot[b], "notify").node = "notify"
        /\ Moved(bot[b], "notify").update = bot[b].update
        /\ Moved(bot[b], "notify").session = bot[b].session
    BY <2>1, BotFacts, MoveRecord
  <2>3. Sound(Moved(bot[b], "notify"))
    BY <1>1, <2>1, BotFacts, MoveRecord
       DEF Sound, Working, Handling, Owning, Opening, Pressing, Answering, BotNodes
  <2>4. /\ confirmed' \in 0..Len(sent) /\ \A i \in 1..confirmed' : i \in claimed
        /\ ServiceOK'
    BY <1>1 DEF TelegramInv, TelegramTypeOK, ConfirmedWereClaimed, ServiceOK, service
  <2> QED
    BY <1>1, <1>4, <2>1, <2>2, <2>3, <2>4, QuietStep DEF Owning, Answering
<1> QED
  BY <1>5, <1>6 DEF SendCard, Request

LEMMA LookupTokenKeeps ==
  ASSUME TelegramInv, NEW b \in Bots, LookupToken(b)
  PROVE  TelegramInv'
<1> DEFINE x == bot[b]
           t == Current(b).token
           y == [x EXCEPT !.node = "consume", !.token = t]
           Usable == /\ tokens[t].holder = Sender(b)
                     /\ tokens[t].decision = "none"
                     /\ tokens[t].expires > now
<1>1. x \in BotRecord /\ Sound(x) /\ x.node = "lookup"
  BY BotFacts DEF LookupToken, At
<1>2. UNCHANGED <<now, network, tables, history, service>>
  BY DEF LookupToken
<1>3. x.node \in Handling /\ x.node \in Owning
  BY <1>1 DEF Owning, Handling, Working, BotNodes
<1>4. /\ confirmed' \in 0..Len(sent) /\ \A i \in 1..confirmed' : i \in claimed
      /\ shown' \subseteq DOMAIN tokens /\ reported' \subseteq DOMAIN tokens
      /\ UNCHANGED <<sent, confirmed, resumes>> /\ ServiceOK'
  BY <1>2
     DEF TelegramInv, TelegramTypeOK, ConfirmedWereClaimed, network, history, ServiceOK, service
<1>5. CASE Usable
  <2>1. bot' = [bot EXCEPT ![b] = y]
    BY <1>5 DEF LookupToken, TelegramInv, TelegramTypeOK
  <2>2. x.update \in DOMAIN sent /\ sent[x.update].kind \in {"approve", "deny"}
    BY <1>1 DEF Sound, Working, BotNodes
  <2>3. t \in DOMAIN tokens /\ t = sent[x.update].token
    BY <2>2 DEF Current, TelegramInv, Buttons
  <2>4. t \in Nat /\ tokens[t].holder = sent[x.update].from
    <3>1. DOMAIN tokens = 1..Len(tokens) /\ Len(tokens) \in Nat
      BY DEF TelegramInv, TelegramTypeOK
    <3>2. t \in Nat
      <4> HIDE DEF t
      <4> QED
        BY <2>3, <3>1
    <3> QED
      BY <1>5, <3>2 DEF Sender, Current
  <2> HIDE DEF t
  <2>5. /\ y \in BotRecord /\ y.node = "consume" /\ y.token = t /\ y.session = x.session
        /\ y.update = x.update /\ y.last = x.last /\ y.offset = x.offset
    BY <1>1, <2>4 DEF BotRecord, BotNodes
  <2>6. Sound(y)
    <3> HIDE DEF x, y
    <3> QED
      BY <1>1, <2>2, <2>3, <2>4, <2>5
         DEF Sound, Working, Handling, Owning, Opening, Pressing, Answering, BotNodes
  <2> HIDE DEF y
  <2> QED
    BY <1>2, <1>3, <1>4, <2>1, <2>5, <2>6, QuietStep DEF Answering
<1>6. CASE ~Usable
  BY <1>2, <1>3, <1>4, <1>6, AtWork, FinishStep DEF LookupToken
<1> QED
  BY <1>5, <1>6

LEMMA ReportRunKeeps ==
  ASSUME TelegramInv, NEW b \in Bots, ReportRun(b)
  PROVE  TelegramInv'
<1>1. /\ bot[b].node = "report" /\ Finish(b)
      /\ UNCHANGED <<now, network, tables, resumes, service>>
  BY DEF ReportRun, At
<1>2. bot[b].node \in Handling
  BY <1>1 DEF Handling, Working, BotNodes
<1>3. bot[b].token \in DOMAIN tokens
  BY <1>1, BotFacts DEF Sound, Pressing
<1>4. /\ shown' \subseteq DOMAIN tokens /\ reported' \subseteq DOMAIN tokens
      /\ UNCHANGED <<sent, confirmed>>
  BY <1>1, <1>3 DEF ReportRun, TelegramInv, TelegramTypeOK, network
<1> QED
  BY <1>1, <1>2, <1>4, AtWork, FinishStep

LEMMA NotifyFailureKeeps ==
  ASSUME TelegramInv, NEW b \in Bots, NotifyFailure(b)
  PROVE  TelegramInv'
<1>1. bot[b].node = "notify" /\ UNCHANGED <<now, network, tables, history, service>>
  BY DEF NotifyFailure, At
<1>2. bot[b].node \in Handling
  BY <1>1 DEF Handling, Working, BotNodes
<1>3. /\ shown' \subseteq DOMAIN tokens /\ reported' \subseteq DOMAIN tokens
      /\ UNCHANGED <<sent, confirmed, resumes>> /\ ServiceOK'
  BY <1>1 DEF TelegramInv, TelegramTypeOK, network, history, ServiceOK, service
<1>4. CASE Finish(b)
  BY <1>1, <1>2, <1>3, <1>4, AtWork, FinishStep
<1>5. CASE bot' = [bot EXCEPT ![b] = DownBot]
  BY <1>1, <1>3, <1>5, DownStep
<1> QED
  BY <1>4, <1>5 DEF NotifyFailure

---------------------------------------------------------------------------
\* The steps that write the tables.
LEMMA SequenceFacts ==
  ASSUME NEW S, NEW q \in Seq(S), NEW e \in S
  PROVE  /\ Append(q, e) \in Seq(S) /\ Len(Append(q, e)) = Len(q) + 1 /\ Len(q) \in Nat
         /\ DOMAIN q = 1..Len(q) /\ DOMAIN Append(q, e) = 1..Len(q) + 1
         /\ Append(q, e)[Len(q) + 1] = e
         /\ \A i \in DOMAIN q : Append(q, e)[i] = q[i]
OBVIOUS

LEMMA PrompterLasts ==
  ASSUME TelegramInv, Grown, NEW r \in DOMAIN runs
  PROVE  runs[r].prompt \in DOMAIN sent /\ Prompter(r)' = Prompter(r)
<1>1. runs[r].prompt \in DOMAIN sent /\ runs'[r].prompt = runs[r].prompt
  BY DEF TelegramInv, TelegramTypeOK, Grown
<1> DEFINE p == runs[r].prompt
<1>2. sent'[p] = sent[p]
  BY <1>1 DEF Grown
<1> QED
  BY <1>1, <1>2 DEF Prompter

\* Identities stay apart through steps that only move a poller, or a row it has filed.
LEMMA UsesLast ==
  ASSUME TelegramInv, Grown, DOMAIN runs' = DOMAIN runs, bound' = bound,
         DOMAIN sessions' = DOMAIN sessions,
         \A c \in Bots : bot'[c].session # 0 =>
           bot'[c].session = bot[c].session /\ bot'[c].update = bot[c].update
  PROVE  Apart'
<1>1. \A u \in Chatters, s \in DOMAIN sessions : Uses(u, s)' => Uses(u, s)
  <2> SUFFICES ASSUME NEW u \in Chatters, NEW s \in DOMAIN sessions, Uses(u, s)'
               PROVE  Uses(u, s)
    OBVIOUS
  <2>1. s # 0
    BY DEF TelegramInv, TelegramTypeOK
  <2>2. CASE bound'[u] = s
    BY <2>2 DEF Uses
  <2>3. CASE \E r \in DOMAIN runs' : runs'[r].session = s /\ Prompter(r)' = u
    BY <2>3, PrompterLasts DEF Uses, Grown
  <2>4. CASE \E c \in Bots : bot'[c].session = s /\ Sender(c)' = u
    <3>1. PICK c \in Bots : bot'[c].session = s /\ sent'[bot'[c].update].from = u
      BY <2>4 DEF Sender, Current
    <3>2. bot[c].session = s /\ bot'[c].update = bot[c].update
      BY <2>1, <3>1
    <3>3. bot[c].update \in DOMAIN sent
      BY <2>1, <3>2, BotFacts DEF Sound
    <3>4. sent'[bot[c].update] = sent[bot[c].update]
      BY <3>3 DEF Grown
    <3> QED
      BY <3>1, <3>2, <3>4 DEF Uses, Sender, Current
  <2> QED
    BY <2>2, <2>3, <2>4 DEF Uses
<1> QED
  BY <1>1, ApartLasts

LEMMA TickKeeps ==
  ASSUME TelegramInv, now' \in Nat, UNCHANGED <<network, tables, history, service, bot>>
  PROVE  TelegramInv'
<1>1. /\ UNCHANGED <<sent, confirmed, shown, claimed, sessions, bound, runs, tokens>>
      /\ UNCHANGED <<resumes, reported, service, bot>>
  BY DEF network, tables, history
<1>2. Grown
  BY <1>1 DEF Grown
<1>3. TelegramTypeOK' /\ ConfirmedWereClaimed' /\ Exclusive'
  BY <1>1 DEF TelegramInv, TelegramTypeOK, ConfirmedWereClaimed, Exclusive, service
<1>4. Apart'
  BY <1>1, <1>2, UsesLast
<1>5. \A b \in Bots : Sound(bot[b])'
  BY <1>1 DEF TelegramInv, Sound
<1> QED
  BY <1>1, <1>3, <1>4, <1>5, RowsRest DEF TelegramInv

LEMMA SayKeeps ==
  ASSUME TelegramInv, NEW u \in Chatters, NEW kind \in Kinds, NEW t \in shown \cup {0},
         Say(u, kind, t)
  PROVE  TelegramInv'
<1> DEFINE new == [kind |-> kind, from |-> u, token |-> t]
<1>1. /\ sent' = Append(sent, new)
      /\ kind \in {"approve", "deny"} <=> t # 0
      /\ UNCHANGED <<now, confirmed, shown, claimed, sessions, bound, runs, tokens>>
      /\ UNCHANGED <<resumes, reported, service, bot>>
  BY DEF Say, tables, history
<1>2. t \in Nat /\ (t # 0 => t \in DOMAIN tokens)
  BY DEF TelegramInv, TelegramTypeOK
<1>3. sent \in Seq(Update) /\ new \in Update
  BY <1>2 DEF TelegramInv, TelegramTypeOK, Update
<1> HIDE DEF new
<1>4. /\ sent' \in Seq(Update) /\ Len(sent') = Len(sent) + 1 /\ Len(sent) \in Nat
      /\ DOMAIN sent = 1..Len(sent) /\ DOMAIN sent' = 1..Len(sent) + 1
      /\ sent'[Len(sent) + 1] = new /\ \A i \in DOMAIN sent : sent'[i] = sent[i]
  BY <1>1, <1>3
<1>5. DOMAIN sent \subseteq DOMAIN sent'
  BY <1>4
<1>6. Grown
  BY <1>1, <1>4, <1>5 DEF Grown
<1>7. TelegramTypeOK'
  <2>1. TelegramTypeOK
    BY DEF TelegramInv
  <2>2. confirmed' \in 0..Len(sent') /\ claimed' \subseteq 1..Len(sent')
    BY <1>1, <1>4, <2>1 DEF TelegramTypeOK
  <2>3. \A r \in DOMAIN runs' :
          runs'[r].session \in DOMAIN sessions' /\ runs'[r].prompt \in DOMAIN sent'
    BY <1>1, <1>5, <2>1 DEF TelegramTypeOK
  <2> QED
    BY <1>1, <1>4, <2>1, <2>2, <2>3 DEF TelegramTypeOK, service
<1>8. Apart' /\ ConfirmedWereClaimed' /\ Exclusive'
  BY <1>1, <1>6, UsesLast DEF TelegramInv, ConfirmedWereClaimed, Exclusive
<1>9. Buttons'
  <2>1. \A i \in DOMAIN sent' : i \in DOMAIN sent \/ i = Len(sent) + 1
    BY <1>4
  <2>2. Buttons
    BY DEF TelegramInv
  <2> QED
    BY <1>1, <1>2, <1>4, <2>1, <2>2 DEF Buttons, new
<1>10. RunsClaimed' /\ TokensOfPrompters' /\ PromptsRunOnce' /\ TokensAreUsedOnce'
  BY <1>1, <1>6, PrompterLasts
     DEF TelegramInv, TelegramTypeOK, RunsClaimed, TokensOfPrompters, PromptsRunOnce,
         TokensAreUsedOnce
<1>11. ResumesWerePressed'
  <2>1. \A i \in DOMAIN resumes : resumes[i] \in DOMAIN tokens /\ tokens[resumes[i]].run \in DOMAIN runs
    BY DEF TelegramInv, TelegramTypeOK
  <2>2. claimed \subseteq DOMAIN sent
    BY <1>4 DEF TelegramInv, TelegramTypeOK
  <2> QED
    BY <1>1, <1>4, <1>6, <2>1, <2>2, PrompterLasts DEF TelegramInv, ResumesWerePressed
<1>12. ASSUME NEW c \in Bots PROVE Sound(bot[c])'
  BY <1>1, <1>6, OthersLast, BotFacts DEF Sound
<1> QED
  BY <1>7, <1>8, <1>9, <1>10, <1>11, <1>12 DEF TelegramInv

\* Deciding a run changes nothing that a poller relies on.
RunsDecided ==
  /\ runs' \in Seq(RunRow) /\ DOMAIN runs' = DOMAIN runs
  /\ \A r \in DOMAIN runs :
       runs'[r].prompt = runs[r].prompt /\ runs'[r].session = runs[r].session

LEMMA DecideRun ==
  ASSUME TelegramInv, NEW r \in DOMAIN runs, NEW state \in {"approved", "denied"},
         runs' = [runs EXCEPT ![r] = [@ EXCEPT !.state = state]]
  PROVE  RunsDecided
<1>1. runs \in Seq(RunRow)
  BY DEF TelegramInv, TelegramTypeOK
<1> DEFINE row == [runs[r] EXCEPT !.state = state]
<1>2. runs[r] \in RunRow
  BY <1>1
<1>3. row \in RunRow /\ row.prompt = runs[r].prompt /\ row.session = runs[r].session
  BY <1>2 DEF RunRow
<1>4. runs' = [runs EXCEPT ![r] = row]
  OBVIOUS
<1> HIDE DEF row
<1>5. runs' \in Seq(RunRow) /\ DOMAIN runs' = DOMAIN runs
  BY <1>1, <1>3, <1>4
<1>6. \A q \in DOMAIN runs : runs'[q] = IF q = r THEN row ELSE runs[q]
  BY <1>1, <1>4
<1> QED
  BY <1>3, <1>5, <1>6 DEF RunsDecided

LEMMA DecidedRows ==
  ASSUME TelegramInv, RunsDecided, UNCHANGED <<sent, claimed, sessions, tokens>>
  PROVE  Grown /\ Buttons' /\ RunsClaimed' /\ TokensOfPrompters' /\ PromptsRunOnce'
<1>1. Grown
  BY DEF RunsDecided, Grown
<1> QED
  BY <1>1, PrompterLasts
     DEF RunsDecided, TelegramInv, TelegramTypeOK, Buttons, RunsClaimed, TokensOfPrompters,
         PromptsRunOnce

LEMMA DecideOnHostKeeps ==
  ASSUME TelegramInv, NEW r \in DOMAIN runs, DecideOnHost(r)
  PROVE  TelegramInv'
<1>1. /\ UNCHANGED <<now, sent, confirmed, shown, claimed, sessions, bound, tokens>>
      /\ UNCHANGED <<resumes, reported, service, bot>>
  BY DEF DecideOnHost, network, history
<1>2. RunsDecided
  BY DecideRun DEF DecideOnHost
<1>3. Grown /\ Buttons' /\ RunsClaimed' /\ TokensOfPrompters' /\ PromptsRunOnce'
  BY <1>1, <1>2, DecidedRows
<1>4. TelegramTypeOK' /\ ConfirmedWereClaimed' /\ Exclusive' /\ TokensAreUsedOnce'
  BY <1>1, <1>2
     DEF RunsDecided, TelegramInv, TelegramTypeOK, ConfirmedWereClaimed, Exclusive,
         TokensAreUsedOnce, service
<1>5. Apart'
  BY <1>1, <1>2, <1>3, UsesLast DEF RunsDecided
<1>6. ResumesWerePressed'
  <2>1. \A i \in DOMAIN resumes : resumes[i] \in DOMAIN tokens /\ tokens[resumes[i]].run \in DOMAIN runs
    BY DEF TelegramInv, TelegramTypeOK
  <2> QED
    BY <1>1, <1>3, <2>1, PrompterLasts DEF TelegramInv, ResumesWerePressed
<1>7. ASSUME NEW c \in Bots PROVE Sound(bot[c])'
  BY <1>1, <1>2, <1>3, OthersLast, BotFacts DEF Sound, RunsDecided
<1> QED
  BY <1>3, <1>4, <1>5, <1>6, <1>7 DEF TelegramInv

\* The pollers after a step of b: the moving one as assumed, the others as OthersLast has it.
LEMMA AllSound ==
  ASSUME TelegramInv, Grown, NEW b \in Bots, NEW y, bot' = [bot EXCEPT ![b] = y],
         Sound(bot[b])',
         \A c \in Bots : c # b /\ bot[c].node \in Opening =>
           \A r \in DOMAIN runs' : runs'[r].prompt # bot[c].update,
         \A c \in Bots : c # b /\ bot[c].node \in Answering =>
           \A i \in DOMAIN resumes' : resumes'[i] # bot[c].token
  PROVE  \A c \in Bots : Sound(bot[c])'
<1>1. /\ bot'[b] = y
      /\ \A c \in Bots : c # b => bot'[c] = bot[c]
  BY DEF TelegramInv, TelegramTypeOK
<1> SUFFICES ASSUME NEW c \in Bots PROVE Sound(bot[c])'
  OBVIOUS
<1>2. CASE c = b
  BY <1>2
<1>3. CASE c # b
  BY <1>1, <1>3, OthersLast
<1> QED
  BY <1>2, <1>3

\* The others' runs and resumes are not those of this step.
LEMMA OthersFiled ==
  ASSUME TelegramInv, NEW c \in Bots
  PROVE  /\ bot[c].node \in Opening => \A r \in DOMAIN runs : runs[r].prompt # bot[c].update
         /\ bot[c].node \in Answering => \A i \in DOMAIN resumes : resumes[i] # bot[c].token
BY BotFacts DEF Sound

LEMMA MovedSession ==
  ASSUME TelegramInv, NEW b \in Bots, NEW y, bot' = [bot EXCEPT ![b] = y],
         y.session # 0 => y.session = bot[b].session /\ y.update = bot[b].update
  PROVE  \A c \in Bots : bot'[c].session # 0 =>
           bot'[c].session = bot[c].session /\ bot'[c].update = bot[c].update
BY DEF TelegramInv, TelegramTypeOK

LEMMA CreateTokenKeeps ==
  ASSUME TelegramInv, NEW b \in Bots, CreateToken(b)
  PROVE  TelegramInv'
<1> DEFINE x == bot[b]
           r == x.run
           n == Len(tokens) + 1
           row == [run |-> r, holder |-> Sender(b), expires |-> runs[r].expires,
                   decision |-> "none"]
           y == [x EXCEPT !.node = "card", !.token = n]
<1>1. x \in BotRecord /\ Sound(x) /\ x.node = "token"
  BY BotFacts DEF CreateToken, At
<1>2. /\ tokens' = Append(tokens, row) /\ bot' = [bot EXCEPT ![b] = y]
      /\ UNCHANGED <<now, sent, confirmed, shown, claimed, sessions, bound, runs>>
      /\ UNCHANGED <<resumes, reported, service>>
  BY DEF CreateToken, network, history, TelegramInv, TelegramTypeOK
<1>3. x.node \in Owning /\ x.node \in Working /\ x.update \in DOMAIN sent
  BY <1>1 DEF Sound, Owning, Handling, Working, BotNodes
<1>4. r \in DOMAIN runs /\ runs[r].prompt = x.update
  BY <1>1 DEF Sound
<1>5. Sender(b) = Prompter(r) /\ Sender(b) \in Chatters
  BY <1>3, <1>4, SenderFacts DEF Sender, Current, Prompter, TelegramInv
<1>6. runs \in Seq(RunRow) /\ tokens \in Seq(TokenRow)
  BY DEF TelegramInv, TelegramTypeOK
<1>7. row \in TokenRow
  <2>1. runs[r] \in RunRow /\ r \in Nat
    <3> HIDE DEF r
    <3> QED
      BY <1>4, <1>6
  <2>2. runs[r].expires \in Nat
    BY <2>1 DEF RunRow
  <2> QED
    BY <1>5, <2>1, <2>2 DEF TokenRow
<1>8. row.run = r /\ row.holder = Sender(b) /\ row.decision = "none"
  OBVIOUS
<1> HIDE DEF row
<1>9. /\ tokens' \in Seq(TokenRow) /\ DOMAIN tokens = 1..Len(tokens) /\ Len(tokens) \in Nat
      /\ DOMAIN tokens' = 1..n /\ tokens'[n] = row
      /\ \A t \in DOMAIN tokens : tokens'[t] = tokens[t]
  BY <1>2, <1>6, <1>7
<1>10. /\ DOMAIN tokens \subseteq DOMAIN tokens' /\ n \in DOMAIN tokens'
       /\ \A t \in DOMAIN tokens' : t \in DOMAIN tokens \/ t = n
  BY <1>9
<1>11. Grown
  BY <1>2, <1>9, <1>10 DEF Grown
<1>12. /\ y \in BotRecord /\ y.node = "card" /\ y.token = n /\ y.session = x.session
       /\ y.update = x.update /\ y.last = x.last /\ y.offset = x.offset
  <2>1. n \in Nat
    BY <1>9
  <2> HIDE DEF n
  <2> QED
    BY <1>1, <2>1 DEF BotRecord, BotNodes
<1> HIDE DEF y, n
<1>13. Sound(bot[b])'
  <2>1. bot'[b] = y
    BY <1>2 DEF TelegramInv, TelegramTypeOK
  <2> HIDE DEF x
  <2> QED
    BY <1>1, <1>2, <1>10, <1>12, <2>1
       DEF Sound, Working, Handling, Owning, Opening, Pressing, Answering, BotNodes
<1>14. \A c \in Bots : Sound(bot[c])'
  BY <1>2, <1>11, <1>13, AllSound, OthersFiled
<1>15. TelegramTypeOK'
  <2>1. TelegramTypeOK
    BY DEF TelegramInv
  <2>2. \A t \in DOMAIN tokens' : tokens'[t].run \in DOMAIN runs'
    BY <1>2, <1>4, <1>8, <1>9, <1>10, <2>1 DEF TelegramTypeOK
  <2>3. resumes' \in Seq(DOMAIN tokens')
    BY <1>2, <1>10, <2>1 DEF TelegramTypeOK
  <2>4. shown' \subseteq DOMAIN tokens' /\ reported' \subseteq DOMAIN tokens'
    BY <1>2, <1>10, <2>1 DEF TelegramTypeOK
  <2>5. bot' \in [Bots -> BotRecord]
    BY <1>2, <1>12, <2>1 DEF TelegramTypeOK
  <2> QED
    BY <1>2, <1>9, <2>1, <2>2, <2>3, <2>4, <2>5 DEF TelegramTypeOK, service
<1>16. Exclusive'
  BY <1>2, <1>3, <1>12, ExclusiveLasts DEF TelegramInv, Exclusive, Answering
<1>17. Apart'
  BY <1>2, <1>11, <1>12, MovedSession, UsesLast
<1>18. Buttons' /\ RunsClaimed' /\ PromptsRunOnce' /\ TokensAreUsedOnce' /\ ConfirmedWereClaimed'
  BY <1>2, <1>10
     DEF TelegramInv, Buttons, RunsClaimed, PromptsRunOnce, TokensAreUsedOnce,
         ConfirmedWereClaimed, Prompter
<1>19. TokensOfPrompters'
  BY <1>2, <1>5, <1>8, <1>9, <1>10 DEF TelegramInv, TokensOfPrompters, Prompter
<1>20. ResumesWerePressed'
  <2>1. \A i \in DOMAIN resumes : resumes[i] \in DOMAIN tokens
    BY DEF TelegramInv, TelegramTypeOK
  <2> QED
    BY <1>2, <1>9, <2>1 DEF TelegramInv, ResumesWerePressed, Prompter
<1> QED
  BY <1>14, <1>15, <1>16, <1>17, <1>18, <1>19, <1>20 DEF TelegramInv

LEMMA ConsumeTokenKeeps ==
  ASSUME TelegramInv, NEW b \in Bots, ConsumeToken(b)
  PROVE  TelegramInv'
<1> DEFINE x == bot[b]
           t == x.token
           row == [tokens[t] EXCEPT !.decision = Current(b).kind]
           y == Moved(x, "ack")
<1>1. x \in BotRecord /\ Sound(x) /\ x.node = "consume"
  BY BotFacts DEF ConsumeToken, At
<1>2. /\ UNCHANGED <<now, sent, confirmed, shown, claimed, sessions, bound, runs>>
      /\ UNCHANGED <<resumes, reported, service>>
  BY DEF ConsumeToken, network, history
<1>3. /\ x.node \in Owning /\ x.node \in Working /\ x.node \in Pressing
      /\ x.node \in Handling /\ x.update \in DOMAIN sent
  BY <1>1 DEF Sound, Owning, Handling, Working, Pressing, BotNodes
<1>4. /\ t \in DOMAIN tokens /\ t = sent[x.update].token
      /\ tokens[t].holder = sent[x.update].from /\ sent[x.update].kind \in {"approve", "deny"}
  BY <1>1, <1>3 DEF Sound
<1>5. CASE tokens[t].decision = "none"
  <2>1. tokens' = [tokens EXCEPT ![t] = row] /\ bot' = [bot EXCEPT ![b] = y]
    BY <1>5 DEF ConsumeToken, Goto, Moved, TelegramInv, TelegramTypeOK
  <2>2. tokens \in Seq(TokenRow)
    BY DEF TelegramInv, TelegramTypeOK
  <2>3. tokens[t] \in TokenRow
    <3> HIDE DEF t
    <3> QED
      BY <1>4, <2>2
  <2>4. /\ row \in TokenRow /\ row.decision = sent[x.update].kind
        /\ row.run = tokens[t].run /\ row.holder = tokens[t].holder
    BY <1>4, <2>3 DEF TokenRow, Current
  <2> HIDE DEF row
  <2>5. /\ tokens' \in Seq(TokenRow) /\ DOMAIN tokens' = DOMAIN tokens
        /\ \A q \in DOMAIN tokens : tokens'[q] = IF q = t THEN row ELSE tokens[q]
    <3> HIDE DEF t
    <3> QED
      BY <1>4, <2>1, <2>2, <2>4
  <2>6. Grown
    BY <1>2, <1>5, <2>4, <2>5 DEF Grown
  \* Nobody has resumed in the name of an unused token.
  <2>7. \A i \in DOMAIN resumes : resumes[i] \in DOMAIN tokens /\ resumes[i] # t
    <3> SUFFICES ASSUME NEW i \in DOMAIN resumes
                 PROVE  resumes[i] \in DOMAIN tokens /\ resumes[i] # t
      OBVIOUS
    <3>1. resumes[i] \in DOMAIN tokens
      BY DEF TelegramInv, TelegramTypeOK
    <3>2. PICK u \in claimed :
            sent[u] = [kind |-> tokens[resumes[i]].decision,
                       from |-> tokens[resumes[i]].holder, token |-> resumes[i]]
      BY DEF TelegramInv, ResumesWerePressed
    <3>3. sent[u] \in Update
      BY DEF TelegramInv, TelegramTypeOK
    <3>4. sent[u].kind # "none"
      BY <3>3 DEF Update, Kinds
    <3> QED
      BY <1>5, <3>1, <3>2, <3>4
  <2>8. /\ y \in BotRecord /\ y.node = "ack" /\ y.token = t /\ y.session = x.session
        /\ y.update = x.update /\ y.last = x.last /\ y.offset = x.offset
    BY <1>1, MoveRecord DEF BotNodes
  <2> HIDE DEF y
  <2>9. Sound(bot[b])'
    <3>1. bot'[b] = y
      BY <2>1 DEF TelegramInv, TelegramTypeOK
    <3> HIDE DEF x
    <3> QED
      BY <1>1, <1>2, <1>4, <2>4, <2>5, <2>7, <2>8, <3>1
         DEF Sound, Working, Handling, Owning, Opening, Pressing, Answering, BotNodes
  <2>10. \A c \in Bots : Sound(bot[c])'
    BY <1>2, <2>1, <2>6, <2>9, AllSound, OthersFiled
  <2>11. TelegramTypeOK'
    <3>1. TelegramTypeOK
      BY DEF TelegramInv
    <3>2. \A q \in DOMAIN tokens' : tokens'[q].run \in DOMAIN runs'
      BY <1>2, <2>4, <2>5, <3>1 DEF TelegramTypeOK
    <3>3. bot' \in [Bots -> BotRecord]
      BY <2>1, <2>8, <3>1 DEF TelegramTypeOK
    <3> QED
      BY <1>2, <2>5, <3>1, <3>2, <3>3 DEF TelegramTypeOK, service
  <2>12. Exclusive'
    <3>1. ASSUME NEW c \in Bots, c # b, bot[c].node \in Answering
          PROVE  bot[c].token # t
      <4>1. bot[c].node \in Pressing \ {"consume"} /\ bot[c].node \in Pressing \cup {"lookup"}
        BY <3>1 DEF Answering, Pressing
      <4>2. /\ tokens[bot[c].token].decision = sent[bot[c].update].kind
            /\ sent[bot[c].update].kind \in {"approve", "deny"}
        BY <4>1, BotFacts DEF Sound
      <4> QED
        BY <1>5, <4>2
    <3> QED
      BY <1>3, <2>1, <2>8, <3>1, ExclusiveLasts DEF TelegramInv, Exclusive
  <2>13. Apart'
    BY <1>2, <2>1, <2>6, <2>8, MovedSession, UsesLast
  <2>14. /\ Buttons' /\ RunsClaimed' /\ PromptsRunOnce' /\ TokensAreUsedOnce'
         /\ ConfirmedWereClaimed'
    BY <1>2, <2>5
       DEF TelegramInv, Buttons, RunsClaimed, PromptsRunOnce, TokensAreUsedOnce,
           ConfirmedWereClaimed, Prompter
  <2>15. TokensOfPrompters'
    BY <1>2, <2>4, <2>5 DEF TelegramInv, TokensOfPrompters, Prompter
  <2>16. ResumesWerePressed'
    BY <1>2, <2>5, <2>7 DEF TelegramInv, ResumesWerePressed, Prompter
  <2> QED
    BY <2>10, <2>11, <2>12, <2>13, <2>14, <2>15, <2>16 DEF TelegramInv
<1>6. CASE tokens[t].decision # "none"
  <2>1. Finish(b) /\ UNCHANGED <<tokens, tables>>
    BY <1>2, <1>6 DEF ConsumeToken, tables
  <2>2. shown' \subseteq DOMAIN tokens /\ reported' \subseteq DOMAIN tokens
    BY <1>2 DEF TelegramInv, TelegramTypeOK
  <2> QED
    BY <1>2, <1>3, <2>1, <2>2, AtWork, FinishStep
<1> QED
  BY <1>5, <1>6

LEMMA ResumeRunKeeps ==
  ASSUME TelegramInv, NEW b \in Bots, ResumeRun(b)
  PROVE  TelegramInv'
<1> DEFINE x == bot[b]
           t == x.token
           r == tokens[t].run
           decision == IF tokens[t].decision = "approve" THEN "approved" ELSE "denied"
<1>1. x \in BotRecord /\ Sound(x) /\ x.node = "resume"
  BY BotFacts DEF ResumeRun, At
<1>2. /\ resumes' = Append(resumes, t)
      /\ UNCHANGED <<now, sent, confirmed, shown, claimed, sessions, bound, tokens>>
      /\ UNCHANGED <<reported, service>>
  BY DEF ResumeRun, network
<1>3. PICK n \in {"reply", "report"} : Goto(b, n)
  BY DEF ResumeRun
<1> DEFINE y == Moved(x, n)
<1>4. bot' = [bot EXCEPT ![b] = y] /\ bot'[b] = y
  BY <1>3 DEF Goto, Moved, TelegramInv, TelegramTypeOK
<1>5. /\ x.node \in Owning /\ x.node \in Working /\ x.node \in Pressing
      /\ x.node \in Handling /\ x.node \in Pressing \ {"consume"} /\ x.node \in Answering
  BY <1>1 DEF Owning, Handling, Working, Pressing, BotNodes, Answering
<1>6. /\ t \in DOMAIN tokens /\ t = sent[x.update].token
      /\ tokens[t].holder = sent[x.update].from /\ tokens[t].decision = sent[x.update].kind
      /\ x.update \in DOMAIN sent /\ x.update \in claimed
      /\ \A i \in DOMAIN resumes : resumes[i] # t
  BY <1>1, <1>5 DEF Sound
<1>7. r \in DOMAIN runs /\ tokens[t].holder = Prompter(r)
  BY <1>6 DEF TelegramInv, TelegramTypeOK, TokensOfPrompters
<1>8. RunsDecided
  <2>1. CASE runs' = runs
    BY <2>1 DEF RunsDecided, TelegramInv, TelegramTypeOK
  <2>2. CASE runs' = [runs EXCEPT ![r] = [@ EXCEPT !.state = decision]]
    <3>1. decision \in {"approved", "denied"}
      OBVIOUS
    <3> HIDE DEF decision, r
    <3> QED
      BY <1>7, <2>2, <3>1, DecideRun
  <2> QED
    BY <2>1, <2>2 DEF ResumeRun
<1>9. Grown /\ Buttons' /\ RunsClaimed' /\ TokensOfPrompters' /\ PromptsRunOnce'
  BY <1>2, <1>8, DecidedRows
<1>10. /\ y \in BotRecord /\ y.node = n /\ y.token = t /\ y.session = x.session
       /\ y.update = x.update /\ y.last = x.last /\ y.offset = x.offset
  BY <1>1, MoveRecord DEF BotNodes
<1>11. /\ resumes' \in Seq(DOMAIN tokens) /\ DOMAIN resumes = 1..Len(resumes)
       /\ Len(resumes) \in Nat /\ DOMAIN resumes' = 1..Len(resumes) + 1
       /\ resumes'[Len(resumes) + 1] = t
       /\ \A i \in DOMAIN resumes : resumes'[i] = resumes[i]
  <2>1. resumes \in Seq(DOMAIN tokens)
    BY DEF TelegramInv, TelegramTypeOK
  <2> HIDE DEF t
  <2> QED
    BY <1>2, <1>6, <2>1
<1>12. \A i \in DOMAIN resumes' : i \in DOMAIN resumes \/ i = Len(resumes) + 1
  BY <1>11
<1> HIDE DEF y
<1>13. Sound(bot[b])'
  <2> HIDE DEF x, t
  <2> QED
    BY <1>1, <1>2, <1>4, <1>5, <1>6, <1>10
       DEF Sound, Working, Handling, Owning, Opening, Pressing, Answering, BotNodes
<1>14. \A c \in Bots : Sound(bot[c])'
  <2>1. \A c \in Bots : c # b /\ bot[c].node \in Answering => bot[c].token # t
    BY <1>5 DEF TelegramInv, Exclusive
  <2>2. \A c \in Bots : c # b /\ bot[c].node \in Answering =>
          \A i \in DOMAIN resumes' : resumes'[i] # bot[c].token
    BY <1>11, <1>12, <2>1, OthersFiled
  <2>3. \A c \in Bots : c # b /\ bot[c].node \in Opening =>
          \A q \in DOMAIN runs' : runs'[q].prompt # bot[c].update
    BY <1>8, OthersFiled DEF RunsDecided
  <2> QED
    BY <1>4, <1>9, <1>13, <2>2, <2>3, AllSound
<1>15. TelegramTypeOK'
  <2>1. TelegramTypeOK
    BY DEF TelegramInv
  <2>2. bot' \in [Bots -> BotRecord]
    BY <1>4, <1>10, <2>1 DEF TelegramTypeOK
  <2> QED
    BY <1>2, <1>8, <1>11, <2>1, <2>2 DEF TelegramTypeOK, RunsDecided, service
<1>16. Exclusive'
  BY <1>4, <1>5, <1>10, ExclusiveLasts DEF TelegramInv, Exclusive, Answering
<1>17. Apart'
  BY <1>2, <1>4, <1>8, <1>9, <1>10, MovedSession, UsesLast DEF RunsDecided
<1>18. ConfirmedWereClaimed'
  BY <1>2 DEF TelegramInv, ConfirmedWereClaimed
<1>19. TokensAreUsedOnce'
  BY <1>6, <1>11, <1>12 DEF TelegramInv, TokensAreUsedOnce
<1>20. ResumesWerePressed'
  <2>1. \A i \in DOMAIN resumes : resumes[i] \in DOMAIN tokens /\ tokens[resumes[i]].run \in DOMAIN runs
    BY DEF TelegramInv, TelegramTypeOK
  <2>2. \A q \in DOMAIN runs : Prompter(q)' = Prompter(q)
    BY <1>9, PrompterLasts
  <2>3. ASSUME NEW i \in DOMAIN resumes
        PROVE  /\ tokens'[resumes'[i]].holder = Prompter(tokens[resumes[i]].run)'
               /\ \E u \in claimed' :
                    sent'[u] = [kind |-> tokens'[resumes'[i]].decision,
                                from |-> tokens'[resumes'[i]].holder, token |-> resumes'[i]]
    BY <1>2, <1>11, <2>1, <2>2 DEF TelegramInv, ResumesWerePressed
  <2>4. sent[x.update] = [kind |-> tokens[t].decision, from |-> tokens[t].holder, token |-> t]
    <3>1. sent \in Seq(Update)
      BY DEF TelegramInv, TelegramTypeOK
    <3> DEFINE u == x.update
    <3>2. u \in DOMAIN sent
      BY <1>6
    <3> HIDE DEF u
    <3>3. sent[u] \in Update
      BY <3>1, <3>2
    <3>4. sent[u] = [kind |-> sent[u].kind, from |-> sent[u].from, token |-> sent[u].token]
      BY <3>3 DEF Update
    <3> QED
      BY <1>6, <3>4 DEF u
  <2>5. tokens'[t].holder = sent'[runs'[tokens'[t].run].prompt].from
    BY <1>2, <1>7, <2>2 DEF Prompter
  <2>6. ASSUME NEW i \in DOMAIN resumes', i = Len(resumes) + 1
        PROVE  /\ tokens'[resumes'[i]].holder = sent'[runs'[tokens'[resumes'[i]].run].prompt].from
               /\ \E u \in claimed' :
                    sent'[u] = [kind |-> tokens'[resumes'[i]].decision,
                                from |-> tokens'[resumes'[i]].holder, token |-> resumes'[i]]
    <3>1. resumes'[i] = t
      BY <1>11, <2>6
    <3> HIDE DEF t, x
    <3> QED
      BY <1>2, <1>6, <2>4, <2>5, <3>1
  <2> QED
    BY <1>2, <1>12, <2>3, <2>6 DEF ResumesWerePressed, Prompter
<1> QED
  BY <1>9, <1>14, <1>15, <1>16, <1>17, <1>18, <1>19, <1>20 DEF TelegramInv

\* The poller that inserts the row owns the update: no run was submitted for it, and no
\* other poller is past its claim.
LEMMA ClaimKeeps ==
  ASSUME TelegramInv, NEW b \in Bots, Claim(b)
  PROVE  TelegramInv'
<1> DEFINE x == bot[b]
           u == x.update
           n == Handler(Current(b))
<1>1. x \in BotRecord /\ Sound(x) /\ x.node = "insert" /\ x.node \in Working
  BY BotFacts DEF Claim, At, Working, BotNodes
<1>2. /\ UNCHANGED <<now, sent, confirmed, shown, sessions, bound, runs, tokens>>
      /\ UNCHANGED <<resumes, reported, service>>
  BY DEF Claim, network, history
<1>3. CASE u \in claimed
  BY <1>1, <1>2, <1>3, FailStep DEF Claim, network, tables, history
<1>4. CASE u \notin claimed
  <2>1. claimed' = claimed \cup {u}
    BY <1>4 DEF Claim
  <2>2. /\ u \in DOMAIN sent /\ x.last \in DOMAIN sent /\ u <= x.last /\ u \in Nat
        /\ \A i \in Nat : 0 < i /\ i < u => i \in claimed
    BY <1>1 DEF Sound, BotRecord
  <2>3. sent[u].kind \in Kinds
    <3>1. sent \in Seq(Update)
      BY DEF TelegramInv, TelegramTypeOK
    <3> HIDE DEF u
    <3>2. sent[u] \in Update
      BY <2>2, <3>1
    <3> QED
      BY <3>2 DEF Update
  <2>4. /\ n \in {"session", "create", "lookup"}
        /\ n = "lookup" => sent[u].kind \in {"approve", "deny"}
    BY <2>3 DEF Handler, Kinds, Current
  <2>5. Grown
    BY <1>2, <2>1 DEF Grown
  <2>6. PICK y : /\ bot' = [bot EXCEPT ![b] = y]
                 /\ \/ y = Moved(x, n) /\ sent[u].from \in Allowed
                    \/ y = Finished(x)
    <3>1. CASE Sender(b) \in Allowed
      <4>1. bot' = [bot EXCEPT ![b] = Moved(x, n)]
        BY <1>4, <3>1 DEF Claim, Goto, Moved, TelegramInv, TelegramTypeOK
      <4> QED
        BY <3>1, <4>1 DEF Sender, Current
    <3>2. CASE Sender(b) \notin Allowed
      <4>1. bot' = [bot EXCEPT ![b] = Finished(x)]
        BY <1>4, <3>2 DEF Claim, Finish, Finished, TelegramInv, TelegramTypeOK
      <4> QED
        BY <4>1
    <3> QED
      BY <3>1, <3>2
  <2> HIDE DEF n
  <2>7. bot'[b] = y
    BY <2>6 DEF TelegramInv, TelegramTypeOK
  <2>8. /\ y \in BotRecord /\ Sound(bot[b])'
        /\ y.node \in {"session", "create", "lookup", "poll", "claim"}
        /\ y.node \in {"session", "create", "lookup"} => y.update = u
        /\ y.session # 0 => y.session = x.session /\ y.update = x.update
    <3>1. CASE y = Moved(x, n) /\ sent[u].from \in Allowed
      <4>1. n \in BotNodes
        BY <2>4 DEF BotNodes
      <4>2. /\ y \in BotRecord /\ y.node = n /\ y.session = x.session
            /\ y.update = u /\ y.last = x.last /\ y.offset = x.offset
        BY <1>1, <3>1, <4>1, MoveRecord
      <4>3. \A r \in DOMAIN runs : runs[r].prompt # u
        BY <1>4 DEF TelegramInv, RunsClaimed
      <4>4. Sound(bot[b])'
        <5> HIDE DEF x, u
        <5> QED
          BY <1>1, <1>2, <2>1, <2>2, <2>4, <2>7, <3>1, <4>2, <4>3
             DEF Sound, Working, Handling, Owning, Opening, Pressing, Answering, BotNodes
      <4> QED
        BY <2>4, <4>2, <4>4
    <3>2. CASE y = Finished(x)
      <4>1. /\ y \in BotRecord /\ y.node \in {"poll", "claim"} /\ y.session = 0
            /\ y.offset = u + 1
            /\ y.node = "claim" => y.update = u + 1 /\ y.last = x.last /\ u # x.last
        BY <1>1, <2>2, <3>2 DEF Finished, BotRecord, BotNodes
      <4>2. \A i \in Nat : 0 < i /\ i < u + 1 => i \in claimed'
        BY <2>1, <2>2
      <4>3. y.node = "claim" => y.update \in DOMAIN sent /\ y.last \in DOMAIN sent /\ y.update <= y.last
        <5>1. DOMAIN sent = 1..Len(sent) /\ Len(sent) \in Nat
          BY DEF TelegramInv, TelegramTypeOK
        <5> QED
          BY <2>2, <4>1, <5>1
      <4>4. Sound(bot[b])'
        <5> HIDE DEF x, u
        <5> QED
          BY <1>2, <2>7, <4>1, <4>2, <4>3
             DEF Sound, Working, Handling, Owning, Opening, Pressing, Answering, BotNodes
      <4> QED
        BY <4>1, <4>4
    <3> QED
      BY <2>6, <3>1, <3>2
  <2>9. \A c \in Bots : Sound(bot[c])'
    BY <1>2, <2>5, <2>6, <2>8, AllSound, OthersFiled
  <2>10. TelegramTypeOK'
    <3>1. TelegramTypeOK
      BY DEF TelegramInv
    <3>2. claimed' \subseteq 1..Len(sent)
      <4>1. DOMAIN sent = 1..Len(sent) /\ claimed \subseteq 1..Len(sent)
        BY <3>1 DEF TelegramTypeOK
      <4> HIDE DEF u
      <4> QED
        BY <2>1, <2>2, <4>1
    <3>3. bot' \in [Bots -> BotRecord]
      BY <2>6, <2>8, <3>1 DEF TelegramTypeOK
    <3> QED
      BY <1>2, <3>1, <3>2, <3>3 DEF TelegramTypeOK, service
  <2>11. Exclusive'
    <3>1. ASSUME NEW c \in Bots, c # b, bot[c].node \in Owning, y.node \in Owning
          PROVE  bot[c].update # y.update
      <4>1. bot[c].update \in claimed
        BY <3>1, BotFacts DEF Sound, Owning
      <4>2. y.update = u
        BY <2>8, <3>1 DEF Owning, Handling, Working
      <4> QED
        BY <1>4, <4>1, <4>2
    <3>2. y.node \notin Answering
      BY <2>8 DEF Answering
    <3> QED
      BY <2>6, <3>1, <3>2, ExclusiveLasts
  <2>12. Apart'
    BY <1>2, <2>5, <2>6, <2>8, MovedSession, UsesLast
  <2>13. ConfirmedWereClaimed'
    BY <1>2, <2>1 DEF TelegramInv, ConfirmedWereClaimed
  <2> QED
    BY <1>2, <2>1, <2>9, <2>10, <2>11, <2>12, <2>13, RowsRest DEF TelegramInv
<1> QED
  BY <1>3, <1>4

\* The binding takes over what the poller held on the identity's behalf.
LEMMA BindSessionKeeps ==
  ASSUME TelegramInv, NEW b \in Bots, BindSession(b)
  PROVE  TelegramInv'
<1> DEFINE x == bot[b]
           u == Sender(b)
           s0 == x.session
<1>1. x \in BotRecord /\ Sound(x) /\ x.node \in {"firstbind", "rebind"}
  BY BotFacts DEF BindSession, At
<1>2. /\ UNCHANGED <<now, sent, confirmed, shown, claimed, sessions, runs, tokens>>
      /\ UNCHANGED <<resumes, reported, service>>
  BY DEF BindSession, network, history
<1>3. /\ x.node \in Owning /\ x.node \in Handling /\ x.node \in Working /\ x.node \in Opening
      /\ x.update \in DOMAIN sent /\ s0 # 0 /\ s0 \in DOMAIN sessions
  BY <1>1 DEF Sound, Owning, Handling, Working, BotNodes, Opening
<1>4. CASE BindConflict(b)
  <2>1. Fail(b) /\ UNCHANGED <<now, network, tables, history, service>>
    BY <1>2, <1>4 DEF BindSession, network, tables, history
  <2> QED
    BY <1>3, <2>1, AtWork, FailStep
<1>5. CASE ~BindConflict(b)
  <2>1. bound' = [bound EXCEPT ![u] = s0]
    BY <1>5 DEF BindSession
  <2>2. PICK n \in {"reply", "planning"} : bot' = [bot EXCEPT ![b] = Moved(x, n)]
    BY <1>5 DEF BindSession, Goto, Moved, TelegramInv, TelegramTypeOK
  <2> DEFINE y == Moved(x, n)
  <2>3. /\ y \in BotRecord /\ y.node = n /\ y.session = s0
        /\ y.update = x.update /\ y.last = x.last /\ y.offset = x.offset
    BY <1>1, MoveRecord DEF BotNodes
  <2>4. bot' = [bot EXCEPT ![b] = y] /\ bot'[b] = y
    BY <2>2 DEF TelegramInv, TelegramTypeOK
  <2> HIDE DEF y
  <2>5. Grown
    BY <1>2 DEF Grown
  <2>6. Sound(bot[b])'
    <3> HIDE DEF x
    <3> QED
      BY <1>1, <1>2, <2>3, <2>4
         DEF Sound, Working, Handling, Owning, Opening, Pressing, Answering, BotNodes
  <2>7. \A c \in Bots : Sound(bot[c])'
    BY <1>2, <2>4, <2>5, <2>6, AllSound, OthersFiled
  <2>8. TelegramTypeOK'
    <3>1. TelegramTypeOK
      BY DEF TelegramInv
    <3>2. s0 \in 0..Len(sessions)
      BY <1>3, <3>1 DEF TelegramTypeOK
    <3>3. bound' \in [Chatters -> 0..Len(sessions)]
      <4> HIDE DEF u, s0
      <4> QED
        BY <2>1, <3>1, <3>2 DEF TelegramTypeOK
    <3>4. bot' \in [Bots -> BotRecord]
      BY <2>3, <2>4, <3>1 DEF TelegramTypeOK
    <3> QED
      BY <1>2, <3>1, <3>3, <3>4 DEF TelegramTypeOK, service
  <2>9. Exclusive'
    BY <1>3, <2>3, <2>4, ExclusiveLasts DEF TelegramInv, Exclusive, Answering
  <2>10. Apart'
    <3>1. \A v \in Chatters, s \in DOMAIN sessions : Uses(v, s)' => Uses(v, s)
      <4> SUFFICES ASSUME NEW v \in Chatters, NEW s \in DOMAIN sessions, Uses(v, s)'
                   PROVE  Uses(v, s)
        OBVIOUS
      <4>1. CASE bound'[v] = s
        <5>1. CASE v = u /\ s = s0
          BY <5>1 DEF Uses
        <5>2. CASE bound[v] = s
          BY <5>2 DEF Uses
        <5> QED
          <6>1. bound \in [Chatters -> 0..Len(sessions)]
            BY DEF TelegramInv, TelegramTypeOK
          <6> HIDE DEF u, s0
          <6> QED
            BY <2>1, <4>1, <5>1, <5>2, <6>1
      <4>2. CASE \E r \in DOMAIN runs' : runs'[r].session = s /\ Prompter(r)' = v
        BY <1>2, <4>2 DEF Uses, Prompter
      <4>3. CASE \E c \in Bots : bot'[c].session = s /\ Sender(c)' = v
        <5>1. PICK c \in Bots : bot'[c].session = s /\ sent[bot'[c].update].from = v
          BY <1>2, <4>3 DEF Sender, Current
        <5>2. bot[c].session = s /\ bot'[c].update = bot[c].update
          BY <2>3, <2>4, <5>1 DEF TelegramInv, TelegramTypeOK
        <5> QED
          BY <5>1, <5>2 DEF Uses, Sender, Current
      <4> QED
        BY <4>1, <4>2, <4>3 DEF Uses
    <3> QED
      BY <1>2, <3>1, ApartLasts
  <2>11. ConfirmedWereClaimed'
    BY <1>2 DEF TelegramInv, ConfirmedWereClaimed
  <2> QED
    BY <1>2, <2>7, <2>8, <2>9, <2>10, <2>11, RowsRest DEF TelegramInv
<1> QED
  BY <1>4, <1>5

\* A new session is nobody's but its creator's.
LEMMA CreateSessionKeeps ==
  ASSUME TelegramInv, NEW b \in Bots, CreateSession(b)
  PROVE  TelegramInv'
<1> DEFINE x == bot[b]
           n == Len(sessions) + 1
           expiry == now + SessionTTL
           y == [x EXCEPT !.node = "bind", !.session = n]
<1>1. x \in BotRecord /\ Sound(x) /\ x.node = "create"
  BY BotFacts DEF CreateSession, At
<1>2. /\ sessions' = Append(sessions, expiry)
      /\ UNCHANGED <<now, sent, confirmed, shown, claimed, bound, runs, tokens>>
      /\ UNCHANGED <<resumes, reported, service>>
  BY DEF CreateSession, network, history
<1>3. bot' = [bot EXCEPT ![b] = y] /\ bot'[b] = y
  BY DEF CreateSession, TelegramInv, TelegramTypeOK
<1>4. /\ x.node \in Owning /\ x.node \in Handling /\ x.node \in Working /\ x.node \in Opening
      /\ x.update \in DOMAIN sent
  BY <1>1 DEF Sound, Owning, Handling, Working, BotNodes, Opening
<1>5. sessions \in Seq(Nat) /\ expiry \in Nat
  BY TelegramAssumption DEF TelegramInv, TelegramTypeOK
<1> HIDE DEF expiry
<1>6. /\ sessions' \in Seq(Nat) /\ Len(sessions) \in Nat /\ Len(sessions') = n
      /\ DOMAIN sessions = 1..Len(sessions) /\ DOMAIN sessions' = 1..n
  BY <1>2, <1>5
<1>7. n \in Nat /\ n # 0 /\ n \in DOMAIN sessions' /\ DOMAIN sessions \subseteq DOMAIN sessions'
  BY <1>6
<1>8. \A s \in DOMAIN sessions' : s \in DOMAIN sessions \/ s = n
  BY <1>6
<1>9. n \notin DOMAIN sessions /\ n \notin 0..Len(sessions)
  BY <1>6
<1>10. Len(sessions) <= n
  BY <1>6
<1> HIDE DEF n
<1>11. /\ y \in BotRecord /\ y.node = "bind" /\ y.session = n
       /\ y.update = x.update /\ y.last = x.last /\ y.offset = x.offset
  BY <1>1, <1>7 DEF BotRecord, BotNodes
<1> HIDE DEF y
<1>12. Grown
  BY <1>2, <1>7 DEF Grown
<1>13. Sound(bot[b])'
  <2> HIDE DEF x
  <2> QED
    BY <1>1, <1>2, <1>3, <1>7, <1>11
       DEF Sound, Working, Handling, Owning, Opening, Pressing, Answering, BotNodes
<1>14. \A c \in Bots : Sound(bot[c])'
  BY <1>2, <1>3, <1>12, <1>13, AllSound, OthersFiled
<1>15. TelegramTypeOK'
  <2>1. TelegramTypeOK
    BY DEF TelegramInv
  <2>2. bound' \in [Chatters -> 0..Len(sessions')]
    <3>1. 0..Len(sessions) \subseteq 0..Len(sessions')
      BY <1>6, <1>7, <1>10
    <3> QED
      BY <1>2, <2>1, <3>1 DEF TelegramTypeOK
  <2>3. \A r \in DOMAIN runs' :
          runs'[r].session \in DOMAIN sessions' /\ runs'[r].prompt \in DOMAIN sent'
    BY <1>2, <1>7, <2>1 DEF TelegramTypeOK
  <2>4. bot' \in [Bots -> BotRecord]
    BY <1>3, <1>11, <2>1 DEF TelegramTypeOK
  <2> QED
    BY <1>2, <1>6, <2>1, <2>2, <2>3, <2>4 DEF TelegramTypeOK, service
<1>16. Exclusive'
  BY <1>3, <1>4, <1>11, ExclusiveLasts DEF TelegramInv, Exclusive, Answering
<1>17. Apart'
  <2>1. ASSUME NEW v \in Chatters, NEW s \in DOMAIN sessions, Uses(v, s)'
        PROVE  Uses(v, s)
    <3>1. s # n
      BY <1>9
    <3>2. CASE bound'[v] = s
      BY <1>2, <3>2 DEF Uses
    <3>3. CASE \E r \in DOMAIN runs' : runs'[r].session = s /\ Prompter(r)' = v
      BY <1>2, <3>3 DEF Uses, Prompter
    <3>4. CASE \E c \in Bots : bot'[c].session = s /\ Sender(c)' = v
      <4>1. PICK c \in Bots : bot'[c].session = s /\ sent[bot'[c].update].from = v
        BY <1>2, <3>4 DEF Sender, Current
      <4>2. c # b
        BY <1>3, <1>11, <3>1, <4>1
      <4>3. bot'[c] = bot[c]
        BY <1>3, <4>2 DEF TelegramInv, TelegramTypeOK
      <4> QED
        BY <4>1, <4>3 DEF Uses, Sender, Current
    <3> QED
      BY <2>1, <3>2, <3>3, <3>4 DEF Uses
  <2>2. ASSUME NEW v \in Chatters, NEW s, s = n, Uses(v, s)'
        PROVE  v = Sender(b)
    <3>1. bound'[v] # n
      BY <1>2, <1>9 DEF TelegramInv, TelegramTypeOK
    <3>2. \A r \in DOMAIN runs' : runs'[r].session # n
      BY <1>2, <1>9 DEF TelegramInv, TelegramTypeOK
    <3>3. PICK c \in Bots : bot'[c].session = n /\ sent[bot'[c].update].from = v
      <4>1. \E c \in Bots : bot'[c].session = s /\ Sender(c)' = v
        BY <1>2, <1>9, <2>2, <3>1, <3>2 DEF Uses
      <4> QED
        BY <1>2, <2>2, <4>1 DEF Sender, Current
    <3>4. ASSUME c # b PROVE FALSE
      <4>1. bot'[c] = bot[c]
        BY <1>3, <3>4 DEF TelegramInv, TelegramTypeOK
      <4>2. bot[c].session \in DOMAIN sessions
        BY <1>7, <3>3, <4>1, BotFacts DEF Sound
      <4> QED
        BY <1>9, <3>3, <4>1, <4>2
    <3> QED
      BY <1>3, <1>11, <3>3, <3>4 DEF Sender, Current
  <2> SUFFICES ASSUME NEW v \in Chatters, NEW w \in Chatters, NEW s \in DOMAIN sessions',
                      Uses(v, s)', Uses(w, s)'
               PROVE  v = w
    BY DEF Apart
  <2>3. CASE s = n
    BY <2>2, <2>3
  <2>4. CASE s \in DOMAIN sessions
    BY <2>1, <2>4 DEF TelegramInv, Apart
  <2> QED
    BY <1>8, <2>3, <2>4
<1>18. ConfirmedWereClaimed'
  BY <1>2 DEF TelegramInv, ConfirmedWereClaimed
<1> QED
  BY <1>2, <1>14, <1>15, <1>16, <1>17, <1>18, RowsRest DEF TelegramInv

\* The run is the first one for the update, of an identity that holds the session.
LEMMA SubmitKeeps ==
  ASSUME TelegramInv, NEW b \in Bots, Submit(b)
  PROVE  TelegramInv'
<1> DEFINE x == bot[b]
           r == Len(runs) + 1
<1>1. x \in BotRecord /\ Sound(x) /\ x.node = "submit"
  BY BotFacts DEF Submit, At
<1>2. /\ UNCHANGED <<now, sent, confirmed, shown, claimed, sessions, bound, tokens>>
      /\ UNCHANGED <<resumes, reported, service>>
  BY DEF Submit, network, history
<1>3. /\ x.node \in Owning /\ x.node \in Handling /\ x.node \in Working /\ x.node \in Opening
      /\ x.update \in DOMAIN sent /\ x.update \in claimed
      /\ x.session # 0 /\ x.session \in DOMAIN sessions
      /\ sent[x.update].from \in Allowed
      /\ \A q \in DOMAIN runs : runs[q].prompt # x.update
  BY <1>1 DEF Sound, Owning, Handling, Working, BotNodes, Opening
<1>4. PICK state \in {"failed", "answered", "paused"} :
        /\ runs' = Append(runs, [session |-> x.session, prompt |-> x.update,
                                 expires |-> now + ApprovalTTL, state |-> state])
        /\ \/ Fail(b)
           \/ Goto(b, "reply")
           \/ bot' = [bot EXCEPT ![b] = [@ EXCEPT !.node = "token", !.run = r]]
  BY DEF Submit
<1> DEFINE row == [session |-> x.session, prompt |-> x.update,
                   expires |-> now + ApprovalTTL, state |-> state]
<1>5. row.session = x.session /\ row.prompt = x.update
  OBVIOUS
<1>6. runs \in Seq(RunRow) /\ row \in RunRow
  <2>1. now + ApprovalTTL \in Nat /\ runs \in Seq(RunRow)
    BY TelegramAssumption DEF TelegramInv, TelegramTypeOK
  <2>2. x.session \in Nat /\ x.update \in Nat
    BY <1>1 DEF BotRecord
  <2> HIDE DEF x
  <2> QED
    BY <2>1, <2>2 DEF RunRow
<1>7. runs' = Append(runs, row)
  BY <1>4
<1> HIDE DEF row
<1>8. /\ runs' \in Seq(RunRow) /\ Len(runs) \in Nat
      /\ DOMAIN runs = 1..Len(runs) /\ DOMAIN runs' = 1..r
      /\ runs'[r] = row /\ \A q \in DOMAIN runs : runs'[q] = runs[q]
  BY <1>6, <1>7
<1>9. /\ r \in Nat /\ r \in DOMAIN runs' /\ DOMAIN runs \subseteq DOMAIN runs'
      /\ \A q \in DOMAIN runs' : q \in DOMAIN runs \/ q = r
  BY <1>8
<1>10. Grown
  BY <1>2, <1>8, <1>9 DEF Grown
<1> HIDE DEF r
<1>11. PICK y :
         /\ bot' = [bot EXCEPT ![b] = y] /\ y \in BotRecord /\ Sound(bot[b])'
         /\ y.node \in {"notify", "reply", "token", "poll", "claim"}
         /\ y.node \in Owning => y.update = x.update
         /\ y.session # 0 => y.session = x.session /\ y.update = x.update
  <2>1. ASSUME NEW n \in {"notify", "reply"}, Goto(b, n)
        PROVE  /\ bot' = [bot EXCEPT ![b] = Moved(x, n)] /\ Moved(x, n) \in BotRecord
               /\ Moved(x, n).node = n /\ Moved(x, n).update = x.update
               /\ Moved(x, n).session = x.session /\ Sound(bot[b])'
    <3> DEFINE y == Moved(x, n)
    <3>1. bot' = [bot EXCEPT ![b] = y] /\ bot'[b] = y
      BY <2>1 DEF Goto, Moved, TelegramInv, TelegramTypeOK
    <3>2. /\ y \in BotRecord /\ y.node = n /\ y.session = x.session
          /\ y.update = x.update /\ y.last = x.last /\ y.offset = x.offset
      BY <1>1, MoveRecord DEF BotNodes
    <3> HIDE DEF y
    <3>3. Sound(bot[b])'
      <4> HIDE DEF x
      <4> QED
        BY <1>1, <1>2, <3>1, <3>2
           DEF Sound, Working, Handling, Owning, Opening, Pressing, Answering, BotNodes
    <3> QED
      BY <3>1, <3>2, <3>3 DEF y
  <2>2. CASE Goto(b, "reply")
    BY <2>1, <2>2
  <2>3. CASE Fail(b)
    <3>1. CASE Goto(b, "notify")
      BY <2>1, <3>1
    <3>2. CASE Finish(b)
      <4> DEFINE y == Finished(x)
      <4>1. bot' = [bot EXCEPT ![b] = y] /\ bot'[b] = y
        BY <3>2 DEF Finish, Finished, TelegramInv, TelegramTypeOK
      <4>2. /\ y \in BotRecord /\ Sound(y) /\ y.node \in {"poll", "claim"} /\ y.session = 0
        BY <1>1, <1>3, FinishRecord
      <4> HIDE DEF y
      <4>3. Sound(bot[b])'
        BY <1>2, <4>1, <4>2
           DEF Sound, Working, Handling, Owning, Opening, Pressing, Answering, BotNodes
      <4>4. y.node \notin Owning
        BY <4>2 DEF Owning, Handling, Working
      <4> QED
        BY <4>1, <4>2, <4>3, <4>4
    <3> QED
      BY <2>3, <3>1, <3>2 DEF Fail
  <2>4. CASE bot' = [bot EXCEPT ![b] = [@ EXCEPT !.node = "token", !.run = r]]
    <3> DEFINE y == [x EXCEPT !.node = "token", !.run = r]
    <3>1. bot' = [bot EXCEPT ![b] = y] /\ bot'[b] = y
      BY <2>4 DEF TelegramInv, TelegramTypeOK
    <3>2. /\ y \in BotRecord /\ y.node = "token" /\ y.run = r /\ y.session = x.session
          /\ y.update = x.update /\ y.last = x.last /\ y.offset = x.offset
      BY <1>1, <1>9 DEF BotRecord, BotNodes
    <3> HIDE DEF y
    <3>3. Sound(bot[b])'
      <4> HIDE DEF x
      <4> QED
        BY <1>1, <1>2, <1>5, <1>8, <1>9, <3>1, <3>2
           DEF Sound, Working, Handling, Owning, Opening, Pressing, Answering, BotNodes
    <3> QED
      BY <3>1, <3>2, <3>3
  <2> QED
    BY <1>4, <2>2, <2>3, <2>4
<1>12. \A c \in Bots : Sound(bot[c])'
  <2>1. ASSUME NEW c \in Bots, c # b, bot[c].node \in Opening
        PROVE  \A q \in DOMAIN runs' : runs'[q].prompt # bot[c].update
    <3>1. bot[c].node \in Owning
      BY <2>1 DEF Opening, Owning, Handling, Working, BotNodes
    <3>2. bot[c].update # x.update
      BY <1>3, <2>1, <3>1 DEF TelegramInv, Exclusive
    <3> QED
      BY <1>5, <1>8, <1>9, <2>1, <3>2, OthersFiled
  <2> QED
    BY <1>2, <1>10, <1>11, <2>1, AllSound, OthersFiled
<1>13. TelegramTypeOK'
  <2>1. TelegramTypeOK
    BY DEF TelegramInv
  <2>2. \A q \in DOMAIN runs' :
          runs'[q].session \in DOMAIN sessions' /\ runs'[q].prompt \in DOMAIN sent'
    BY <1>2, <1>3, <1>5, <1>8, <1>9, <2>1 DEF TelegramTypeOK
  <2>3. \A t \in DOMAIN tokens' : tokens'[t].run \in DOMAIN runs'
    BY <1>2, <1>9, <2>1 DEF TelegramTypeOK
  <2>4. bot' \in [Bots -> BotRecord]
    BY <1>11, <2>1 DEF TelegramTypeOK
  <2> QED
    BY <1>2, <1>8, <2>1, <2>2, <2>3, <2>4 DEF TelegramTypeOK, service
<1>14. Exclusive'
  <2>1. y.node \notin Answering
    BY <1>11 DEF Answering
  <2> QED
    BY <1>3, <1>11, <2>1, ExclusiveLasts DEF TelegramInv, Exclusive
<1>15. \A q \in DOMAIN runs : Prompter(q)' = Prompter(q)
  BY <1>10, PrompterLasts
<1>16. sent'[runs'[r].prompt].from = Sender(b)
  BY <1>2, <1>5, <1>8 DEF Sender, Current
<1>17. Apart'
  <2>1. \A v \in Chatters, s \in DOMAIN sessions : Uses(v, s)' => Uses(v, s)
    <3> SUFFICES ASSUME NEW v \in Chatters, NEW s \in DOMAIN sessions, Uses(v, s)'
                 PROVE  Uses(v, s)
      OBVIOUS
    <3>1. s # 0
      BY DEF TelegramInv, TelegramTypeOK
    <3>2. CASE bound'[v] = s
      BY <1>2, <3>2 DEF Uses
    <3>3. CASE \E q \in DOMAIN runs' : runs'[q].session = s /\ Prompter(q)' = v
      <4>1. PICK q \in DOMAIN runs' : runs'[q].session = s /\ Prompter(q)' = v
        BY <3>3
      <4>2. CASE q \in DOMAIN runs
        BY <1>8, <1>15, <4>1, <4>2 DEF Uses
      <4>3. CASE q = r
        <5>1. x.session = s /\ Sender(b) = v
          BY <1>5, <1>8, <1>16, <4>1, <4>3 DEF Prompter
        <5> QED
          BY <5>1 DEF Uses
      <4> QED
        BY <1>9, <4>2, <4>3
    <3>4. CASE \E c \in Bots : bot'[c].session = s /\ Sender(c)' = v
      <4>1. PICK c \in Bots : bot'[c].session = s /\ sent[bot'[c].update].from = v
        BY <1>2, <3>4 DEF Sender, Current
      <4>2. bot[c].session = s /\ bot'[c].update = bot[c].update
        BY <1>11, <3>1, <4>1 DEF TelegramInv, TelegramTypeOK
      <4> QED
        BY <4>1, <4>2 DEF Uses, Sender, Current
    <3> QED
      BY <3>2, <3>3, <3>4 DEF Uses
  <2> QED
    BY <1>2, <2>1, ApartLasts
<1>18. Buttons' /\ ConfirmedWereClaimed' /\ TokensAreUsedOnce'
  BY <1>2 DEF TelegramInv, Buttons, ConfirmedWereClaimed, TokensAreUsedOnce
<1>19. RunsClaimed'
  BY <1>2, <1>3, <1>5, <1>8, <1>9 DEF TelegramInv, RunsClaimed
<1>20. PromptsRunOnce'
  <2>1. ASSUME NEW q \in DOMAIN runs'
        PROVE  /\ Prompter(q)' \in Allowed
               /\ \A p \in DOMAIN runs' : runs'[p].prompt = runs'[q].prompt => p = q
    <3>1. Prompter(q)' \in Allowed
      <4>1. CASE q \in DOMAIN runs
        BY <1>15, <4>1 DEF TelegramInv, PromptsRunOnce
      <4>2. CASE q = r
        BY <1>3, <1>16, <4>2 DEF Prompter, Sender, Current
      <4> QED
        BY <1>9, <4>1, <4>2
    <3>2. \A p \in DOMAIN runs' : runs'[p].prompt = runs'[q].prompt => p = q
      BY <1>3, <1>5, <1>8, <1>9 DEF TelegramInv, PromptsRunOnce
    <3> QED
      BY <3>1, <3>2
  <2> QED
    BY <2>1 DEF PromptsRunOnce
<1>21. TokensOfPrompters' /\ ResumesWerePressed'
  <2>1. /\ \A t \in DOMAIN tokens : tokens[t].run \in DOMAIN runs
        /\ \A i \in DOMAIN resumes : resumes[i] \in DOMAIN tokens
    BY DEF TelegramInv, TelegramTypeOK
  <2>2. TokensOfPrompters'
    BY <1>2, <1>15, <2>1 DEF TelegramInv, TokensOfPrompters
  <2>3. ResumesWerePressed'
    BY <1>2, <1>15, <2>1 DEF TelegramInv, ResumesWerePressed
  <2> QED
    BY <2>2, <2>3
<1> QED
  BY <1>12, <1>13, <1>14, <1>17, <1>18, <1>19, <1>20, <1>21 DEF TelegramInv

---------------------------------------------------------------------------
LEMMA TelegramInitInv == TelegramInit => TelegramInv
<1> SUFFICES ASSUME TelegramInit PROVE TelegramInv
  OBVIOUS
<1>1. \A b \in Bots : bot[b] = DownBot
  BY DEF TelegramInit
<1>2. TelegramTypeOK
  BY DownRecord, TelegramAssumption DEF TelegramInit, TelegramTypeOK
<1>3. /\ Buttons /\ RunsClaimed /\ TokensOfPrompters /\ PromptsRunOnce
      /\ ResumesWerePressed /\ TokensAreUsedOnce /\ ConfirmedWereClaimed
  BY DEF TelegramInit, Buttons, RunsClaimed, TokensOfPrompters, PromptsRunOnce,
         ResumesWerePressed, TokensAreUsedOnce, ConfirmedWereClaimed
<1>4. Apart
  BY DEF TelegramInit, Apart
<1>5. Exclusive
  BY <1>1 DEF Exclusive, DownBot, Owning, Handling, Working, Answering
<1>6. \A b \in Bots : Sound(bot[b])
  BY <1>1, DownRecord
<1> QED
  BY <1>2, <1>3, <1>4, <1>5, <1>6 DEF TelegramInv

LEMMA BotStepKeeps ==
  ASSUME TelegramInv, NEW b \in Bots, BotStep(b)
  PROVE  TelegramInv'
BY RestartKeeps, GiveUpKeeps, DeleteWebhookKeeps, PollKeeps, PollFailsKeeps, RetryKeeps,
   CheckClaimKeeps, ClaimKeeps, FindSessionKeeps,
   CreateSessionKeeps, FindBindingKeeps, BindSessionKeeps, SendPlanningKeeps, SubmitKeeps,
   CreateTokenKeeps, SendCardKeeps, ReplyKeeps, LookupTokenKeeps, ConsumeTokenKeeps,
   AcknowledgeKeeps, ResumeRunKeeps, ReportRunKeeps, NotifyFailureKeeps DEF BotStep

LEMMA TelegramNextInv == TelegramInv /\ [TelegramNext]_telegramVars => TelegramInv'
<1> SUFFICES ASSUME TelegramInv, [TelegramNext]_telegramVars PROVE TelegramInv'
  OBVIOUS
<1>1. now \in Nat
  BY DEF TelegramInv, TelegramTypeOK
<1>2. CASE Tick
  BY <1>1, <1>2, TickKeeps DEF Tick
<1>3. CASE UNCHANGED telegramVars
  BY <1>1, <1>3, TickKeeps DEF telegramVars
<1>4. CASE \E u \in Chatters, kind \in Kinds, t \in shown \cup {0} : Say(u, kind, t)
  BY <1>4, SayKeeps
<1>5. CASE \E r \in DOMAIN runs : DecideOnHost(r)
  BY <1>5, DecideOnHostKeeps
<1>6. CASE \E b \in Bots : BotStep(b) \/ Crash(b)
  BY <1>6, BotStepKeeps, CrashKeeps
<1> QED
  BY <1>2, <1>3, <1>4, <1>5, <1>6 DEF TelegramNext

\* What every place in the handlers implies holds in every reachable state, for any number
\* of pollers, crashes and redeliveries.
THEOREM TelegramInvariant == TelegramSpec => []TelegramInv
BY TelegramInitInv, TelegramNextInv, PTL DEF TelegramSpec

\* Rows refer to rows that exist (the foreign keys of telegram_* and workflow_runs), and
\* every poller remembers a node, an update and rows of the right kind.
THEOREM TelegramTypeCorrect == TelegramSpec => []TelegramTypeOK
<1>1. TelegramInv => TelegramTypeOK
  BY DEF TelegramInv
<1> QED
  BY <1>1, TelegramInvariant, PTL

\* An update becomes one run at most, and only for an allowlisted identity: the claimed
\* row is what separates a redelivery, or another poller, from the handler.
THEOREM PromptsRunOnceTheorem == TelegramSpec => []PromptsRunOnce
<1>1. TelegramInv => PromptsRunOnce
  BY DEF TelegramInv
<1> QED
  BY <1>1, TelegramInvariant, PTL

\* A run is resumed only with the answer that the identity whose prompt started it gave by
\* pressing its button.
THEOREM ResumesWerePressedTheorem == TelegramSpec => []ResumesWerePressed
<1>1. TelegramInv => ResumesWerePressed
  BY DEF TelegramInv
<1> QED
  BY <1>1, TelegramInvariant, PTL

\* However many presses and pollers race for a token, it resumes its run once.
THEOREM TokensAreUsedOnceTheorem == TelegramSpec => []TokensAreUsedOnce
<1>1. TelegramInv => TokensAreUsedOnce
  BY DEF TelegramInv
<1> QED
  BY <1>1, TelegramInvariant, PTL

\* Telegram forgets only updates that a poller has claimed.
THEOREM ConfirmedWereClaimedTheorem == TelegramSpec => []ConfirmedWereClaimed
<1>1. TelegramInv => ConfirmedWereClaimed
  BY DEF TelegramInv
<1> QED
  BY <1>1, TelegramInvariant, PTL

\* No two identities ever have to do with one session: neither a binding nor a run of
\* another identity refers to it, whatever conversations are bound and rebound meanwhile.
THEOREM ConversationsAreSeparateTheorem == TelegramSpec => []ConversationsAreSeparate
<1>1. TelegramInv => ConversationsAreSeparate
  <2> SUFFICES ASSUME TelegramInv, NEW r \in DOMAIN runs
               PROVE  /\ \A q \in DOMAIN runs :
                           runs[q].session = runs[r].session => Prompter(q) = Prompter(r)
                      /\ \A u \in Chatters : bound[u] = runs[r].session => u = Prompter(r)
    BY DEF ConversationsAreSeparate
  <2>1. \A q \in DOMAIN runs :
          /\ Prompter(q) \in Chatters /\ runs[q].session \in DOMAIN sessions
          /\ Uses(Prompter(q), runs[q].session)
    BY TelegramAssumption DEF TelegramInv, TelegramTypeOK, PromptsRunOnce, Uses
  <2>2. \A u \in Chatters : bound[u] = runs[r].session => Uses(u, runs[r].session)
    BY DEF Uses
  <2> QED
    BY <2>1, <2>2 DEF TelegramInv, Apart
<1> QED
  BY <1>1, TelegramInvariant, PTL

---------------------------------------------------------------------------
(***************************************************************************)
(* "If a consumed approval cannot resume, the bot includes the run ID":    *)
(* what the run telegram_report refutes holds where no request fails and   *)
(* no poller dies, for any number of pollers that race for the tokens.     *)
(***************************************************************************)
InHand(t) ==
  \/ \E i \in DOMAIN resumes : resumes[i] = t
  \/ \E b \in Bots : bot[b].node \in Answering /\ bot[b].token = t

UsedInHand == \A t \in DOMAIN tokens : tokens[t].decision # "none" => InHand(t)

\* A step of a poller leaves the memory of the others alone.
LEMMA OthersRest ==
  ASSUME TelegramInv, NEW b \in Bots, BotStep(b), NEW c \in Bots, c # b
  PROVE  bot'[c] = bot[c]
<1>1. bot \in [Bots -> BotRecord]
  BY DEF TelegramInv, TelegramTypeOK
<1>2. \/ bot' = bot
      \/ \E y : bot' = [bot EXCEPT ![b] = y]
  BY DEF BotStep, Restart, GiveUp, DeleteWebhook, DeleteWebhookFails, Poll, PollFails, Retry,
   CheckClaim, Claim, FindSession, CreateSession, FindBinding,
     BindSession, SendPlanning, Submit, CreateToken, SendCard, Reply, LookupToken,
     ConsumeToken, Acknowledge, ResumeRun, ReportRun, NotifyFailure, Goto, Finish, Fail,
     Request
<1> QED
  BY <1>1, <1>2

\* A poller that holds no answer, and uses no token, changes nothing for the tokens in use.
LEMMA InHandRests ==
  ASSUME TelegramInv, UsedInHand, NEW b \in Bots, BotStep(b),
         bot[b].node \notin Answering, UNCHANGED <<tokens, resumes>>
  PROVE  UsedInHand'
<1>1. \A t : InHand(t) => InHand(t)'
  BY OthersRest DEF InHand
<1> QED
  BY <1>1 DEF UsedInHand

\* Only these steps write a token or a resume, or leave the nodes of an answer.
LEMMA OthersHoldNothing ==
  ASSUME NEW b \in Bots, BotStep(b),
         ~CreateToken(b), ~ConsumeToken(b), ~Acknowledge(b), ~ResumeRun(b)
  PROVE  bot[b].node \notin Answering /\ UNCHANGED <<tokens, resumes>>
BY DEF BotStep, Restart, GiveUp, DeleteWebhook, DeleteWebhookFails, Poll, PollFails, Retry,
   CheckClaim, Claim, FindSession, CreateSession, FindBinding,
   BindSession, SendPlanning, Submit, SendCard, Reply, LookupToken, ReportRun,
   NotifyFailure, At, Answering, tables, history

\* What a poller consumes it holds, until it has resumed the run.
LEMMA UsedStep ==
  ASSUME TelegramInv, UsedInHand, NEW b \in Bots, BotStep(b), ~SendFails
  PROVE  UsedInHand'
<1>0. TelegramTypeOK /\ bot[b] \in BotRecord /\ Sound(bot[b])
  BY BotFacts DEF TelegramInv
<1>1. CASE CreateToken(b)
  <2>1. /\ UNCHANGED resumes
        /\ tokens' = Append(tokens, [run |-> bot[b].run, holder |-> Sender(b),
                                     expires |-> runs[bot[b].run].expires, decision |-> "none"])
        /\ bot[b].node \notin Answering
    BY <1>1 DEF CreateToken, history, At, Answering
  <2>2. tokens \in Seq(TokenRow)
    BY <1>0 DEF TelegramTypeOK
  <2>3. \A t \in DOMAIN tokens' : tokens'[t].decision # "none" =>
          t \in DOMAIN tokens /\ tokens[t].decision # "none"
    BY <2>1, <2>2
  <2>4. \A t : InHand(t) => InHand(t)'
    BY <2>1, OthersRest DEF InHand
  <2> QED
    BY <2>3, <2>4 DEF UsedInHand
<1>2. CASE ConsumeToken(b) /\ tokens[bot[b].token].decision = "none"
  <2>0. PICK t : t = bot[b].token
    OBVIOUS
  <2>1. /\ bot[b].node = "consume" /\ UNCHANGED resumes
        /\ tokens' = [tokens EXCEPT ![t] = [@ EXCEPT !.decision = Current(b).kind]]
        /\ bot' = [bot EXCEPT ![b] = Moved(bot[b], "ack")]
    BY <1>0, <1>2, <2>0 DEF ConsumeToken, history, At, Goto, Moved, TelegramTypeOK
  <2>2. bot'[b] = Moved(bot[b], "ack") /\ bot'[b].node = "ack" /\ bot'[b].token = t
    BY <1>0, <2>0, <2>1, MoveRecord DEF BotNodes, TelegramTypeOK
  <2>3. InHand(t)'
    BY <2>2 DEF InHand, Answering
  <2>4. \A q : InHand(q) => InHand(q)'
    BY <1>2, <2>1, OthersRest DEF InHand, Answering
  <2>5. \A q \in DOMAIN tokens' : q \in DOMAIN tokens /\ (q # t => tokens'[q] = tokens[q])
    <3>1. tokens \in Seq(TokenRow)
      BY <1>0 DEF TelegramTypeOK
    <3> QED
      BY <2>1, <3>1
  <2> QED
    BY <2>3, <2>4, <2>5 DEF UsedInHand
<1>3. CASE ConsumeToken(b) /\ tokens[bot[b].token].decision # "none"
  <2>1. bot[b].node \notin Answering /\ UNCHANGED <<tokens, resumes>>
    BY <1>3 DEF ConsumeToken, At, Answering, history
  <2> QED
    BY <2>1, InHandRests
<1>4. CASE Acknowledge(b)
  <2>1. UNCHANGED <<tokens, resumes>> /\ bot' = [bot EXCEPT ![b] = Moved(bot[b], "resume")]
    BY <1>0, <1>4 DEF Acknowledge, Request, Goto, Moved, tables, history, TelegramTypeOK
  <2>2. bot'[b].node = "resume" /\ bot'[b].token = bot[b].token
    BY <1>0, <2>1, MoveRecord DEF BotNodes, TelegramTypeOK
  <2>3. \A t : InHand(t) => InHand(t)'
    BY <2>1, <2>2, OthersRest DEF InHand, Answering
  <2> QED
    BY <2>1, <2>3 DEF UsedInHand
<1>5. CASE ResumeRun(b)
  <2>1. /\ bot[b].node = "resume" /\ resumes' = Append(resumes, bot[b].token)
        /\ UNCHANGED tokens
    BY <1>5 DEF ResumeRun, At
  <2>2. resumes \in Seq(DOMAIN tokens) /\ bot[b].token \in DOMAIN tokens
    BY <1>0, <2>1 DEF TelegramTypeOK, Sound, Pressing
  <2>3. /\ \A i \in DOMAIN resumes : i \in DOMAIN resumes' /\ resumes'[i] = resumes[i]
        /\ Len(resumes) + 1 \in DOMAIN resumes' /\ resumes'[Len(resumes) + 1] = bot[b].token
    BY <2>1, <2>2, SequenceFacts
  <2>4. \A t : InHand(t) => InHand(t)'
    BY <2>3, OthersRest DEF InHand
  <2> QED
    BY <2>1, <2>4 DEF UsedInHand
<1>6. CASE ~CreateToken(b) /\ ~ConsumeToken(b) /\ ~Acknowledge(b) /\ ~ResumeRun(b)
  BY <1>6, OthersHoldNothing, InHandRests
<1> QED
  BY <1>1, <1>2, <1>3, <1>4, <1>5, <1>6

\* Where no request to the Bot API fails and no poller dies, an approval that is used up
\* is resumed: none is lost between the press that consumes it and the resume, whichever
\* pollers race for it.  A failing acknowledgement and a crash each lose one.
THEOREM ConsumedIsResumed ==
  ASSUME ~SendFails, MaxCrashes = 0
  PROVE  TelegramSpec => []ConsumedIsResumedOrReported
<1>1. TelegramInit => UsedInHand
  BY DEF TelegramInit, UsedInHand
<1>2. TelegramInv /\ UsedInHand /\ [TelegramNext]_telegramVars => UsedInHand'
  <2> SUFFICES ASSUME TelegramInv, UsedInHand, [TelegramNext]_telegramVars
               PROVE  UsedInHand'
    OBVIOUS
  <2>1. ASSUME UNCHANGED <<tokens, resumes, bot>>
        PROVE  UsedInHand'
    BY <2>1 DEF UsedInHand, InHand
  <2>2. CASE \E b \in Bots : Crash(b)
    BY <2>2 DEF Crash, TelegramInv, TelegramTypeOK
  <2> QED
    BY <2>1, <2>2, UsedStep
       DEF TelegramNext, telegramVars, Tick, Say, DecideOnHost, tables, history
<1>3. UsedInHand => ConsumedIsResumedOrReported
  BY DEF UsedInHand, InHand, ConsumedIsResumedOrReported
<1> QED
  BY <1>1, <1>2, <1>3, TelegramInvariant, PTL DEF TelegramSpec
=============================================================================
