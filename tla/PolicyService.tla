--------------------------- MODULE PolicyService ---------------------------
(***************************************************************************)
(* The approval policy of the personal agent: sessions, approval requests, *)
(* session grants and the audit log, with the PolicyService calls that     *)
(* read and change them (policy/service.py over persistence/).             *)
(*                                                                         *)
(* A call is not one transaction-wide atomic step.  SQLite's driver opens  *)
(* a write transaction only at the first INSERT or UPDATE, so a call reads *)
(* rows, decides, and commits later; another process (the Telegram bot and *)
(* every CLI command are processes of their own over one database file)    *)
(* may commit in between, and the UPDATE names the row by its id without   *)
(* testing the status it was decided on.  Each call is therefore a read    *)
(* step followed by a commit step, and call[c] is what caller c remembers  *)
(* between them.                                                           *)
(***************************************************************************)
EXTENDS Integers, Sequences, FiniteSets

CONSTANTS
  Sessions,     \* session ids
  Callers,      \* the processes that call the service
  Actions,      \* the actions a coordinator may propose
  NoAction,     \* no action
  Ids,          \* action ids
  ActionId,     \* the action_id of an action: a field of the proposal
  SessionOf,    \* the session of the run that proposes the action
  Risk,         \* its risk level
  Operation,    \* its tool and operation
  Resource,     \* its target resource
  Resources,    \* the resources
  GlobMatch,    \* pairs <<resource, pattern>> on which fnmatchcase holds
  SessionTTL,   \* session_ttl_minutes
  ApprovalTTL,  \* approval_ttl_minutes
  MaxTime       \* bound of the clock

RiskLevels == {"read", "write", "risky"}

ASSUME PolicyAssumption ==
  /\ NoAction \notin Actions
  /\ Ids # {}
  /\ ActionId \in [Actions -> Ids]
  /\ SessionOf \in [Actions -> Sessions]
  /\ Risk \in [Actions -> RiskLevels]
  /\ Resource \in [Actions -> Resources]
  /\ SessionTTL \in Nat \ {0}
  /\ ApprovalTTL \in Nat \ {0}
  /\ MaxTime \in Nat

VARIABLES
  now,      \* the wall clock, in coarse units
  session,  \* table sessions
  request,  \* table approval_requests, at most one row per action id
  grants,   \* table approval_grants, in insertion order
  audit,    \* table audit_events: the approval events seen so far
  call      \* what each caller remembers of its call in progress

policyVars == <<now, session, request, grants, audit, call>>

---------------------------------------------------------------------------
SessionRow == [status : {"none", "active", "closed"}, expires : Nat]

RequestRow ==
  [status : {"none", "pending", "approved", "denied"},
   action : Actions \cup {NoAction},
   created : Nat]

GrantRow == [action : Actions, issued : Nat, expires : Nat, revoked : BOOLEAN]

AuditEvents ==
  {"approval.requested", "approval.approved", "approval.denied",
   "approval.expired", "approval.revoked"}

CallSteps == {"idle", "lookup", "insert", "approve", "expire", "deny", "done"}

Results ==
  {"none", "allow", "deny", "require_approval", "approved", "denied",
   "expired", "conflict", "missing", "integrity_error"}

CallRecord ==
  [step : CallSteps,
   id : Ids,
   action : Actions \cup {NoAction},
   at : Nat,
   result : Results]

\* The state has the shape of the tables and of the calls in progress.
PolicyTypeOK ==
  /\ now \in Nat
  /\ session \in [Sessions -> SessionRow]
  /\ request \in [Ids -> RequestRow]
  /\ grants \in Seq(GrantRow)
  /\ audit \subseteq (AuditEvents \X Ids)
  /\ call \in [Callers -> CallRecord]

---------------------------------------------------------------------------
IdleCall == [step |-> "idle", id |-> CHOOSE i \in Ids : TRUE, action |-> NoAction,
             at |-> 0, result |-> "none"]

PolicyInit ==
  /\ now = 0
  /\ session = [s \in Sessions |-> [status |-> "none", expires |-> 0]]
  /\ request = [i \in Ids |-> [status |-> "none", action |-> NoAction, created |-> 0]]
  /\ grants = <<>>
  /\ audit = {}
  /\ call = [c \in Callers |-> IdleCall]

\* Faulty variant: the later of the two times.
LaterInstead(s, t) == IF s < t THEN t ELSE s

Earlier(s, t) == IF s < t THEN s ELSE t

Log(event, id) == audit' = audit \cup {<<event, id>>}

\* ApprovalRepository.resolve_request.
Resolve(id, status) == request' = [request EXCEPT ![id] = [@ EXCEPT !.status = status]]

\* Caller c starts a call; it is over at once when step is "done".
Enter(c, step, id, a, result) ==
  /\ call[c].step = "idle"
  /\ call' = [call EXCEPT ![c] =
       [step |-> step, id |-> id, action |-> a, at |-> now, result |-> result]]

Continue(c, from, to) ==
  /\ call[c].step = from
  /\ call' = [call EXCEPT ![c] = [@ EXCEPT !.step = to]]

Finish(c, from, result) ==
  /\ call[c].step = from
  /\ call' = [call EXCEPT ![c] = [@ EXCEPT !.step = "done", !.result = result]]

---------------------------------------------------------------------------
\* Time passes.
Tick ==
  /\ now < MaxTime
  /\ now' = now + 1
  /\ UNCHANGED <<session, request, grants, audit, call>>

\* AgentRuntime.create_session: the expiry is fixed here and never extended.
CreateSession(s) ==
  /\ session[s].status = "none"
  /\ session' = [session EXCEPT ![s] =
       [status |-> "active", expires |-> now + SessionTTL]]
  /\ UNCHANGED <<now, request, grants, audit, call>>

\* SessionRepository.close, an operation of the repository that no command calls yet.
CloseSession(s) ==
  /\ session[s].status = "active"
  /\ session' = [session EXCEPT ![s] = [@ EXCEPT !.status = "closed"]]
  /\ UNCHANGED <<now, request, grants, audit, call>>

---------------------------------------------------------------------------
\* Faulty variant: the expiry is not looked at.
ValidForever(s, t) == session[s].status = "active"

SessionValid(s, t) == session[s].status = "active" /\ session[s].expires > t

GrantMatches(g, a) ==
  /\ Operation[g.action] = Operation[a]
  /\ Risk[g.action] = Risk[a]
  /\ <<Resource[a], Resource[g.action]>> \in GlobMatch

\* Faulty variant: any active grant of the session will do.
AnyActiveGrant(a, t) ==
  \E i \in DOMAIN grants :
    /\ SessionOf[grants[i].action] = SessionOf[a]
    /\ ~grants[i].revoked
    /\ grants[i].expires > t

\* Rows of list_active_grants for the session of a that match a.
ActiveGrant(a, t) ==
  \E i \in DOMAIN grants :
    /\ SessionOf[grants[i].action] = SessionOf[a]
    /\ ~grants[i].revoked
    /\ grants[i].expires > t
    /\ GrantMatches(grants[i], a)

\* authorize: the clock, the session row and the active grants are read first.
BeginAuthorize(c, a) ==
  LET valid == SessionValid(SessionOf[a], now)
      allowed == Risk[a] = "read" \/ (Risk[a] = "write" /\ ActiveGrant(a, now))
  IN  /\ \/ ~valid /\ Enter(c, "done", ActionId[a], a, "deny")
         \/ valid /\ allowed /\ Enter(c, "done", ActionId[a], a, "allow")
         \/ valid /\ ~allowed /\ Enter(c, "lookup", ActionId[a], a, "none")
      /\ UNCHANGED <<now, session, request, grants, audit>>

\* authorize: get_request_by_action_id.  Any row with this action id ends the call,
\* whatever its status and whichever action it was created for.
LookupRequest(c) ==
  /\ \/ /\ request[call[c].id].status # "none"
        /\ Finish(c, "lookup", "require_approval")
     \/ /\ request[call[c].id].status = "none"
        /\ Continue(c, "lookup", "insert")
  /\ UNCHANGED <<now, session, request, grants, audit>>

\* Faulty variant: the request is never committed.
InsertUncommitted(c) ==
  /\ request[call[c].id].status = "none"
  /\ Finish(c, "insert", "require_approval")
  /\ UNCHANGED <<now, session, request, grants, audit>>

\* authorize: create_request, audited, committed.
InsertRequest(c) ==
  LET id == call[c].id IN
  /\ request[id].status = "none"
  /\ Finish(c, "insert", "require_approval")
  /\ request' = [request EXCEPT ![id] =
       [status |-> "pending", action |-> call[c].action, created |-> now]]
  /\ Log("approval.requested", id)
  /\ UNCHANGED <<now, session, grants>>

\* The UNIQUE constraint on action_id: another caller inserted the row first.
InsertRejected(c) ==
  /\ request[call[c].id].status # "none"
  /\ Finish(c, "insert", "integrity_error")
  /\ UNCHANGED <<now, session, request, grants, audit>>

RequestExpired(id, t) == request[id].created + ApprovalTTL <= t

\* Faulty variant: only a pending request is looked at closely.
ApproveWhateverStatus(c, id) ==
  /\ Enter(c, IF request[id].status = "pending" THEN "approve" ELSE "done",
           id, request[id].action, "approved")
  /\ UNCHANGED <<now, session, request, grants, audit>>

\* approve: what the request row read says decides the rest of the call.
BeginApprove(c, id) ==
  LET row == request[id]
      Start(step, result) == Enter(c, step, id, row.action, result)
  IN  /\ \/ row.status = "none" /\ Start("done", "missing")
         \/ row.status = "approved" /\ Start("done", "approved")
         \/ row.status = "denied" /\ Start("done", "conflict")
         \/ row.status = "pending" /\ RequestExpired(id, now) /\ Start("expire", "none")
         \/ row.status = "pending" /\ ~RequestExpired(id, now) /\ Start("approve", "none")
      /\ UNCHANGED <<now, session, request, grants, audit>>

\* Faulty variant: a risky approval leaves a grant as well.
IssuesGrantForRisky(a) == Risk[a] # "read"

IssuesGrant(a) == Risk[a] = "write"

\* approve: resolve_request, create_grant for a write, audit, commit.
CommitApprove(c) ==
  LET id == call[c].id
      a == call[c].action
      at == call[c].at
  IN  /\ Finish(c, "approve", "approved")
      /\ Resolve(id, "approved")
      /\ grants' = IF IssuesGrant(a)
                   THEN Append(grants,
                          [action |-> a, issued |-> at, revoked |-> FALSE,
                           expires |-> Earlier(session[SessionOf[a]].expires,
                                               at + SessionTTL)])
                   ELSE grants
      /\ Log("approval.approved", id)
      /\ UNCHANGED <<now, session>>

\* Faulty variants: expiry as a status of its own; expiry without an audit event.
ExpireAsStatus(c) ==
  /\ Finish(c, "expire", "expired")
  /\ Resolve(call[c].id, "expired")
  /\ Log("approval.expired", call[c].id)
  /\ UNCHANGED <<now, session, grants>>

ExpireUnaudited(c) ==
  /\ Finish(c, "expire", "expired")
  /\ Resolve(call[c].id, "denied")
  /\ UNCHANGED <<now, session, grants, audit>>

\* approve after the approval window: the request is denied and the call raises.
CommitExpire(c) ==
  /\ Finish(c, "expire", "expired")
  /\ Resolve(call[c].id, "denied")
  /\ Log("approval.expired", call[c].id)
  /\ UNCHANGED <<now, session, grants>>

\* Faulty variant: only a denied request is left alone.
DenyWhateverStatus(c, id) ==
  /\ Enter(c, IF request[id].status \in {"none", "denied"} THEN "done" ELSE "deny",
           id, request[id].action, "denied")
  /\ UNCHANGED <<now, session, request, grants, audit>>

\* deny: no window applies.
BeginDeny(c, id) ==
  LET row == request[id]
      Start(step, result) == Enter(c, step, id, row.action, result)
  IN  /\ \/ row.status = "none" /\ Start("done", "missing")
         \/ row.status = "denied" /\ Start("done", "denied")
         \/ row.status = "approved" /\ Start("done", "conflict")
         \/ row.status = "pending" /\ Start("deny", "none")
      /\ UNCHANGED <<now, session, request, grants, audit>>

CommitDeny(c) ==
  /\ Finish(c, "deny", "denied")
  /\ Resolve(call[c].id, "denied")
  /\ Log("approval.denied", call[c].id)
  /\ UNCHANGED <<now, session, grants>>

\* revoke, in one step: revoking twice changes nothing, so its read and its commit
\* cannot be told apart.  No command calls it yet.
RevokeGrant(i) ==
  /\ ~grants[i].revoked
  /\ grants' = [grants EXCEPT ![i] = [@ EXCEPT !.revoked = TRUE]]
  /\ Log("approval.revoked", ActionId[grants[i].action])
  /\ UNCHANGED <<now, session, request, call>>

\* The caller takes the result.
Return(c) ==
  /\ call[c].step = "done"
  /\ call' = [call EXCEPT ![c] = IdleCall]
  /\ UNCHANGED <<now, session, request, grants, audit>>

\* The process is killed or cancelled in a call: the open transaction rolls back.
AbandonCall(c) ==
  /\ call[c].step # "idle"
  /\ call' = [call EXCEPT ![c] = IdleCall]
  /\ UNCHANGED <<now, session, request, grants, audit>>

---------------------------------------------------------------------------
CallStep(c) ==
  \/ LookupRequest(c)
  \/ InsertRequest(c)
  \/ InsertRejected(c)
  \/ CommitApprove(c)
  \/ CommitExpire(c)
  \/ CommitDeny(c)

Administer ==
  \/ Tick
  \/ \E s \in Sessions : CreateSession(s) \/ CloseSession(s)
  \/ \E i \in DOMAIN grants : RevokeGrant(i)

PolicyNext ==
  \/ Administer
  \/ \E c \in Callers :
       \/ \E a \in Actions : BeginAuthorize(c, a)
       \/ \E id \in Ids : BeginApprove(c, id) \/ BeginDeny(c, id)
       \/ CallStep(c)
       \/ Return(c)
       \/ AbandonCall(c)

PolicySpec == PolicyInit /\ [][PolicyNext]_policyVars
---------------------------------------------------------------------------
Audited(event, id) == <<event, id>> \in audit

\* Every grant was issued for a write, for the action of a request that exists,
\* and a human approval of that request is in the audit log: approve() is the only
\* source of grants, whatever the interleaving of its calls.
GrantsAreBacked ==
  \A i \in DOMAIN grants :
    LET a == grants[i].action IN
    /\ Risk[a] = "write"
    /\ request[ActionId[a]].action = a
    /\ Audited("approval.approved", ActionId[a])

\* A grant never outlives the session it was issued in nor session_ttl, and it was
\* issued inside the approval window of its request (approve() reads the clock, the
\* request and the session at different moments).
GrantsStayInWindow ==
  \A i \in DOMAIN grants :
    LET g == grants[i] IN
    /\ g.expires <= session[SessionOf[g.action]].expires
    /\ g.expires <= g.issued + SessionTTL
    /\ g.issued < request[ActionId[g.action]].created + ApprovalTTL

\* authorize() answers allow only in an unexpired session, and for anything but a
\* read only because a human approved, in that session and not more than session_ttl
\* ago, a write of the same operation whose resource covers this one.
AllowIsJustified ==
  \A c \in Callers : call[c].result = "allow" =>
    LET a == call[c].action IN
    /\ call[c].at < session[SessionOf[a]].expires
    /\ \/ Risk[a] = "read"
       \/ \E i \in DOMAIN grants :
            /\ Audited("approval.approved", ActionId[grants[i].action])
            /\ SessionOf[grants[i].action] = SessionOf[a]
            /\ Risk[a] = "write"
            /\ GrantMatches(grants[i], a)
            /\ grants[i].issued <= call[c].at
            /\ call[c].at < grants[i].issued + SessionTTL

\* A request's status can be read back from the audit log alone: the event that put
\* it there was committed with it, also when decisions race or a caller dies.
StatusIsAudited ==
  \A id \in Ids :
    /\ request[id].status # "none" => Audited("approval.requested", id)
    /\ request[id].status = "approved" => Audited("approval.approved", id)
    /\ request[id].status = "denied" =>
         Audited("approval.denied", id) \/ Audited("approval.expired", id)

Resolved(id) == request[id].status \in {"approved", "denied"}

\* A decided request is never decided again (approve() and deny() refuse one that is
\* "already" resolved).
ResolutionIsFinal ==
  [][\A id \in Ids : Resolved(id) => request'[id].status = request[id].status]_policyVars

Lifecycle == INSTANCE ApprovalLifecycle WITH
  Requests <- Ids,
  Licensable <- {ActionId[a] : a \in {b \in Actions : Risk[b] = "write"}},
  verdict <- [id \in Ids |-> request[id].status],
  licensed <- {ActionId[grants[i].action] : i \in DOMAIN grants}

\* One process at a time, the service implements the one-decision lifecycle.
ImplementsLifecycle == Lifecycle!LifecycleSpec
=============================================================================
