------------------------ MODULE PolicyService_proofs ------------------------
(***************************************************************************)
(* Proofs about PolicyService, for any number of callers, sessions and     *)
(* actions and every interleaving of the calls.                            *)
(***************************************************************************)
EXTENDS PolicyService, TLAPS

---------------------------------------------------------------------------
(***************************************************************************)
(* The inductive invariant.  The properties of PolicyService speak of      *)
(* committed rows; to carry them over a commit one must also know what a   *)
(* caller still remembers of the row it read: that the row cannot vanish,  *)
(* that its action is the one remembered, and that the clock the caller    *)
(* read was inside the approval window.                                    *)
(***************************************************************************)
SessionsSound ==
  \A s \in Sessions : session[s].status = "none" => session[s].expires = 0

RequestsSound ==
  \A id \in Ids : request[id].status # "none" =>
    request[id].action \in Actions /\ ActionId[request[id].action] = id

CallSound(c) ==
  /\ call[c].at <= now
  /\ call[c].step \in {"lookup", "insert"} =>
       call[c].action \in Actions /\ call[c].id = ActionId[call[c].action]
  /\ call[c].step \in {"approve", "expire", "deny"} =>
       /\ request[call[c].id].status # "none"
       /\ request[call[c].id].action = call[c].action
  /\ call[c].step = "approve" =>
       call[c].at < request[call[c].id].created + ApprovalTTL
  /\ call[c].result = "allow" => call[c].action \in Actions

CallsSound == \A c \in Callers : CallSound(c)

GrantsSound ==
  \A i \in DOMAIN grants :
    /\ grants[i].issued <= now
    /\ request[ActionId[grants[i].action]].status # "none"

PolicyInv ==
  /\ PolicyTypeOK
  /\ SessionsSound
  /\ RequestsSound
  /\ CallsSound
  /\ GrantsSound
  /\ StatusIsAudited
  /\ GrantsAreBacked
  /\ GrantsStayInWindow
  /\ AllowIsJustified

\* What no step takes back.
Grows ==
  /\ now <= now'
  /\ audit \subseteq audit'
  /\ \A s \in Sessions : session[s].expires <= session'[s].expires
  /\ \A id \in Ids : request[id].status # "none" =>
       /\ request'[id].status # "none"
       /\ request'[id].action = request[id].action
       /\ request'[id].created = request[id].created
  /\ \A i \in DOMAIN grants :
       /\ i \in DOMAIN grants'
       /\ grants'[i].action = grants[i].action
       /\ grants'[i].issued = grants[i].issued
       /\ grants'[i].expires = grants[i].expires

---------------------------------------------------------------------------
\* What the helpers of the actions do to the shape of the state.

\* Enter stores a well-formed call record.
LEMMA EnterType ==
  ASSUME PolicyTypeOK, NEW c \in Callers, NEW step \in CallSteps, NEW id \in Ids,
         NEW a \in Actions \cup {NoAction}, NEW result \in Results,
         Enter(c, step, id, a, result)
  PROVE  call' \in [Callers -> CallRecord]
BY DEF PolicyTypeOK, Enter, CallRecord

\* Finish keeps the caller's record well formed.
LEMMA FinishType ==
  ASSUME PolicyTypeOK, NEW c \in Callers, NEW from, NEW result \in Results,
         Finish(c, from, result)
  PROVE  call' \in [Callers -> CallRecord]
<1>1. call[c] \in CallRecord
  BY DEF PolicyTypeOK
<1>2. [call[c] EXCEPT !.step = "done", !.result = result] \in CallRecord
  BY <1>1 DEF CallRecord, CallSteps
<1> QED
  BY <1>1, <1>2 DEF PolicyTypeOK, Finish

\* resolve_request keeps the row well formed.
LEMMA ResolveType ==
  ASSUME PolicyTypeOK, NEW id \in Ids, NEW status \in {"pending", "approved", "denied"},
         Resolve(id, status)
  PROVE  request' \in [Ids -> RequestRow]
<1>1. request[id] \in RequestRow
  BY DEF PolicyTypeOK
<1>2. [request[id] EXCEPT !.status = status] \in RequestRow
  BY <1>1 DEF RequestRow
<1> QED
  BY <1>1, <1>2 DEF PolicyTypeOK, Resolve

\* resolve_request changes nothing but the status, and never back to none.
LEMMA ResolveFrame ==
  ASSUME PolicyTypeOK, NEW id \in Ids, NEW status \in {"pending", "approved", "denied"},
         Resolve(id, status), NEW other \in Ids
  PROVE  /\ request'[other].action = request[other].action
         /\ request'[other].created = request[other].created
         /\ request[other].status # "none" => request'[other].status # "none"
         /\ other # id => request'[other] = request[other]
         /\ request'[id].status = status
BY DEF PolicyTypeOK, Resolve, RequestRow

\* An audit event about a known request keeps the log well formed.
LEMMA LogType ==
  ASSUME PolicyTypeOK, NEW id \in Ids, NEW event \in AuditEvents, Log(event, id)
  PROVE  audit' \subseteq (AuditEvents \X Ids)
BY DEF PolicyTypeOK, Log

\* The fields of a caller's record.
LEMMA CallFields ==
  ASSUME PolicyTypeOK, NEW c \in Callers
  PROVE  /\ call[c].id \in Ids
         /\ call[c].action \in Actions \cup {NoAction}
         /\ call[c].at \in Nat
BY DEF PolicyTypeOK, CallRecord

---------------------------------------------------------------------------
\* A step keeps the shape of the tables.  CommitApprove needs more than the shape:
\* that the request it read is still there and has an action.
LEMMA TypeStep ==
  ASSUME PolicyTypeOK, CallsSound, RequestsSound, [PolicyNext]_policyVars
  PROVE  PolicyTypeOK'
<1>1. CASE Tick
  BY <1>1 DEF Tick, PolicyTypeOK
<1>2. ASSUME NEW s \in Sessions, CreateSession(s)
      PROVE  PolicyTypeOK'
  BY <1>2, PolicyAssumption DEF CreateSession, PolicyTypeOK, SessionRow
<1>3. ASSUME NEW s \in Sessions, CloseSession(s)
      PROVE  PolicyTypeOK'
  BY <1>3 DEF CloseSession, PolicyTypeOK, SessionRow
<1>4. ASSUME NEW i \in DOMAIN grants, RevokeGrant(i)
      PROVE  PolicyTypeOK'
  <2>1. grants[i] \in GrantRow
    BY DEF PolicyTypeOK
  <2>2. [grants[i] EXCEPT !.revoked = TRUE] \in GrantRow
    BY <2>1 DEF GrantRow
  <2>3. grants' \in Seq(GrantRow)
    BY <1>4, <2>2 DEF RevokeGrant, PolicyTypeOK
  <2>4. ActionId[grants[i].action] \in Ids
    BY <2>1, PolicyAssumption DEF GrantRow
  <2> QED
    BY <1>4, <2>3, <2>4, LogType DEF RevokeGrant, PolicyTypeOK, AuditEvents
<1>5. ASSUME NEW c \in Callers, NEW a \in Actions, BeginAuthorize(c, a)
      PROVE  PolicyTypeOK'
  <2>1. ActionId[a] \in Ids
    BY PolicyAssumption
  <2>2. call' \in [Callers -> CallRecord]
    BY <1>5, <2>1, EnterType DEF BeginAuthorize, CallSteps, Results
  <2> QED
    BY <1>5, <2>2 DEF BeginAuthorize, PolicyTypeOK
<1>6. ASSUME NEW c \in Callers, NEW id \in Ids, BeginApprove(c, id) \/ BeginDeny(c, id)
      PROVE  PolicyTypeOK'
  <2>1. request[id].action \in Actions \cup {NoAction}
    BY DEF PolicyTypeOK, RequestRow
  <2>2. call' \in [Callers -> CallRecord]
    BY <1>6, <2>1, EnterType DEF BeginApprove, BeginDeny, CallSteps, Results
  <2> QED
    BY <1>6, <2>2 DEF BeginApprove, BeginDeny, PolicyTypeOK
<1>7. ASSUME NEW c \in Callers, CallStep(c)
      PROVE  PolicyTypeOK'
  <2>1. CASE LookupRequest(c)
    <3>1. CASE Continue(c, "lookup", "insert")
      BY <2>1, <3>1 DEF LookupRequest, Continue, PolicyTypeOK, CallRecord, CallSteps
    <3>2. CASE Finish(c, "lookup", "require_approval")
      BY <2>1, <3>2, FinishType DEF LookupRequest, PolicyTypeOK, Results
    <3> QED
      BY <2>1, <3>1, <3>2 DEF LookupRequest
  <2>2. CASE InsertRequest(c)
    <3>1. call' \in [Callers -> CallRecord]
      BY <2>2, FinishType DEF InsertRequest, Results
    <3>2. audit' \subseteq (AuditEvents \X Ids)
      BY <2>2, LogType, CallFields DEF InsertRequest, AuditEvents
    <3>3. request' \in [Ids -> RequestRow]
      BY <2>2, CallFields DEF InsertRequest, PolicyTypeOK, RequestRow
    <3> QED
      BY <2>2, <3>1, <3>2, <3>3 DEF InsertRequest, PolicyTypeOK
  <2>3. CASE InsertRejected(c)
    BY <2>3, FinishType DEF InsertRejected, PolicyTypeOK, Results
  <2>4. CASE CommitApprove(c)
    <3>1. call' \in [Callers -> CallRecord]
      BY <2>4, FinishType DEF CommitApprove, Results
    <3>2. audit' \subseteq (AuditEvents \X Ids)
      BY <2>4, LogType, CallFields DEF CommitApprove, AuditEvents
    <3>3. request' \in [Ids -> RequestRow]
      BY <2>4, ResolveType, CallFields DEF CommitApprove
    <3>4. grants' \in Seq(GrantRow)
      <4>1. CASE IssuesGrant(call[c].action)
        <5> DEFINE a == call[c].action
                   g == [action |-> a, issued |-> call[c].at, revoked |-> FALSE,
                         expires |-> Earlier(session[SessionOf[a]].expires,
                                             call[c].at + SessionTTL)]
        <5>1. a \in Actions
          BY <2>4, CallFields DEF CommitApprove, Finish, CallsSound, CallSound, RequestsSound
        <5>2. session[SessionOf[a]].expires \in Nat
          BY <5>1, PolicyAssumption DEF PolicyTypeOK, SessionRow
        <5>3. g \in GrantRow
          BY <5>1, <5>2, CallFields, PolicyAssumption DEF GrantRow, Earlier
        <5> QED
          BY <2>4, <4>1, <5>3 DEF CommitApprove, PolicyTypeOK
      <4>2. CASE ~IssuesGrant(call[c].action)
        BY <2>4, <4>2 DEF CommitApprove, PolicyTypeOK
      <4> QED
        BY <4>1, <4>2
    <3> QED
      BY <2>4, <3>1, <3>2, <3>3, <3>4 DEF CommitApprove, PolicyTypeOK
  <2>5. CASE CommitExpire(c) \/ CommitDeny(c)
    <3>1. call' \in [Callers -> CallRecord]
      BY <2>5, FinishType DEF CommitExpire, CommitDeny, Results
    <3>2. audit' \subseteq (AuditEvents \X Ids)
      BY <2>5, LogType, CallFields DEF CommitExpire, CommitDeny, AuditEvents
    <3>3. request' \in [Ids -> RequestRow]
      BY <2>5, ResolveType, CallFields DEF CommitExpire, CommitDeny
    <3> QED
      BY <2>5, <3>1, <3>2, <3>3 DEF CommitExpire, CommitDeny, PolicyTypeOK
  <2> QED
    BY <1>7, <2>1, <2>2, <2>3, <2>4, <2>5 DEF CallStep
<1>8. ASSUME NEW c \in Callers, Return(c) \/ AbandonCall(c)
      PROVE  PolicyTypeOK'
  BY <1>8, PolicyAssumption DEF Return, AbandonCall, PolicyTypeOK, IdleCall, CallRecord,
     CallSteps, Results
<1>9. CASE UNCHANGED policyVars
  BY <1>9 DEF policyVars, PolicyTypeOK
<1> QED
  BY <1>1, <1>2, <1>3, <1>4, <1>5, <1>6, <1>7, <1>8, <1>9 DEF PolicyNext, Administer

---------------------------------------------------------------------------
\* No step shortens a session, forgets a request or its audit events, or changes what
\* a grant was issued for.
LEMMA GrowStep ==
  ASSUME PolicyTypeOK, SessionsSound, [PolicyNext]_policyVars
  PROVE  Grows
<1>1. CASE Tick
  BY <1>1 DEF Tick, PolicyTypeOK, SessionRow, Grows
<1>2. ASSUME NEW s \in Sessions, CreateSession(s)
      PROVE  Grows
  <2>1. session[s].expires = 0 /\ session'[s].expires \in Nat
    BY <1>2, PolicyAssumption DEF CreateSession, SessionsSound, PolicyTypeOK, SessionRow
  <2> QED
    BY <1>2, <2>1 DEF CreateSession, PolicyTypeOK, SessionRow, Grows
<1>3. ASSUME NEW s \in Sessions, CloseSession(s)
      PROVE  Grows
  BY <1>3 DEF CloseSession, PolicyTypeOK, SessionRow, Grows
<1>4. ASSUME NEW i \in DOMAIN grants, RevokeGrant(i)
      PROVE  Grows
  BY <1>4 DEF RevokeGrant, PolicyTypeOK, SessionRow, GrantRow, Log, Grows
<1>5. ASSUME NEW c \in Callers, NEW a \in Actions, BeginAuthorize(c, a)
      PROVE  Grows
  BY <1>5 DEF BeginAuthorize, PolicyTypeOK, SessionRow, Grows
<1>6. ASSUME NEW c \in Callers, NEW id \in Ids, BeginApprove(c, id) \/ BeginDeny(c, id)
      PROVE  Grows
  BY <1>6 DEF BeginApprove, BeginDeny, PolicyTypeOK, SessionRow, Grows
<1>7. ASSUME NEW c \in Callers, CallStep(c)
      PROVE  Grows
  <2>1. CASE LookupRequest(c) \/ InsertRejected(c)
    BY <2>1 DEF LookupRequest, InsertRejected, PolicyTypeOK, SessionRow, Grows
  <2>2. CASE InsertRequest(c)
    BY <2>2, CallFields DEF InsertRequest, Log, PolicyTypeOK, SessionRow, Grows
  <2>3. CASE CommitApprove(c)
    <3>1. \A i \in DOMAIN grants : i \in DOMAIN grants' /\ grants'[i] = grants[i]
      BY <2>3 DEF CommitApprove, PolicyTypeOK
    <3>2. request' \in [Ids -> RequestRow]
      BY <2>3, ResolveType, CallFields DEF CommitApprove
    <3>3. \A id \in Ids : /\ request'[id].action = request[id].action
                          /\ request'[id].created = request[id].created
                          /\ request[id].status # "none" => request'[id].status # "none"
      BY <2>3, CallFields, ResolveFrame DEF CommitApprove
    <3> QED
      BY <2>3, <3>1, <3>3 DEF CommitApprove, Log, PolicyTypeOK, SessionRow, Grows
  <2>4. CASE CommitExpire(c) \/ CommitDeny(c)
    <3>1. \A id \in Ids : /\ request'[id].action = request[id].action
                          /\ request'[id].created = request[id].created
                          /\ request[id].status # "none" => request'[id].status # "none"
      BY <2>4, CallFields, ResolveFrame DEF CommitExpire, CommitDeny
    <3> QED
      BY <2>4, <3>1 DEF CommitExpire, CommitDeny, Log, PolicyTypeOK, SessionRow, Grows
  <2> QED
    BY <1>7, <2>1, <2>2, <2>3, <2>4 DEF CallStep
<1>8. ASSUME NEW c \in Callers, Return(c) \/ AbandonCall(c)
      PROVE  Grows
  BY <1>8 DEF Return, AbandonCall, PolicyTypeOK, SessionRow, Grows
<1>9. CASE UNCHANGED policyVars
  BY <1>9 DEF policyVars, PolicyTypeOK, SessionRow, Grows
<1> QED
  BY <1>1, <1>2, <1>3, <1>4, <1>5, <1>6, <1>7, <1>8, <1>9 DEF PolicyNext, Administer

---------------------------------------------------------------------------
\* Only an insert and the three resolutions write approval_requests.
LEMMA RequestWriters ==
  [PolicyNext]_policyVars =>
    \/ UNCHANGED request
    \/ \E c \in Callers :
         InsertRequest(c) \/ CommitApprove(c) \/ CommitExpire(c) \/ CommitDeny(c)
BY DEF PolicyNext, policyVars, Administer, Tick, CreateSession, CloseSession, RevokeGrant,
   BeginAuthorize, BeginApprove, BeginDeny, CallStep, LookupRequest, InsertRejected,
   Return, AbandonCall

\* Only an approval adds a grant, only a revocation changes one.
LEMMA GrantWriters ==
  [PolicyNext]_policyVars =>
    \/ UNCHANGED grants
    \/ \E i \in DOMAIN grants : RevokeGrant(i)
    \/ \E c \in Callers : CommitApprove(c)
BY DEF PolicyNext, policyVars, Administer, Tick, CreateSession, CloseSession,
   BeginAuthorize, BeginApprove, BeginDeny, CallStep, LookupRequest, InsertRequest,
   InsertRejected, CommitExpire, CommitDeny, Return, AbandonCall

\* Only the actions of a call change what a caller remembers.
LEMMA CallWriters ==
  [PolicyNext]_policyVars =>
    \/ UNCHANGED call
    \/ \E c \in Callers :
         \/ \E a \in Actions : BeginAuthorize(c, a)
         \/ \E id \in Ids : BeginApprove(c, id) \/ BeginDeny(c, id)
         \/ CallStep(c)
         \/ Return(c) \/ AbandonCall(c)
BY DEF PolicyNext, policyVars, Administer, Tick, CreateSession, CloseSession, RevokeGrant

---------------------------------------------------------------------------
\* A session that does not exist has no expiry yet.
LEMMA SessionsStep ==
  ASSUME PolicyTypeOK, SessionsSound, [PolicyNext]_policyVars
  PROVE  SessionsSound'
<1>1. CASE UNCHANGED session
  BY <1>1 DEF SessionsSound
<1>2. ASSUME NEW s \in Sessions, CreateSession(s) \/ CloseSession(s)
      PROVE  SessionsSound'
  <2>1. session'[s].status # "none"
    BY <1>2 DEF CreateSession, CloseSession, PolicyTypeOK, SessionRow
  <2>2. \A t \in Sessions : t # s => session'[t] = session[t]
    BY <1>2 DEF CreateSession, CloseSession, PolicyTypeOK
  <2> QED
    BY <2>1, <2>2 DEF SessionsSound
<1> QED
  BY <1>1, <1>2 DEF PolicyNext, policyVars, Administer, Tick, RevokeGrant, BeginAuthorize,
     BeginApprove, BeginDeny, CallStep, LookupRequest, InsertRequest, InsertRejected,
     CommitApprove, CommitExpire, CommitDeny, Return, AbandonCall

\* A committed status comes with its audit event, in the same commit.
LEMMA RequestsStep ==
  ASSUME PolicyInv, [PolicyNext]_policyVars, Grows
  PROVE  RequestsSound' /\ StatusIsAudited'
<1> USE DEF PolicyInv
<1>1. CASE UNCHANGED request
  BY <1>1 DEF RequestsSound, StatusIsAudited, Audited, Grows
<1>2. ASSUME NEW c \in Callers, InsertRequest(c)
      PROVE  RequestsSound' /\ StatusIsAudited'
  <2>1. call[c].action \in Actions /\ ActionId[call[c].action] = call[c].id
    BY <1>2 DEF InsertRequest, Finish, CallsSound, CallSound
  <2> QED
    BY <1>2, <2>1, CallFields DEF InsertRequest, Log, Audited, RequestsSound,
       StatusIsAudited, PolicyTypeOK
<1>3. ASSUME NEW c \in Callers, CommitApprove(c) \/ CommitExpire(c) \/ CommitDeny(c)
      PROVE  RequestsSound' /\ StatusIsAudited'
  <2>1. call[c].id \in Ids /\ request[call[c].id].status # "none"
    BY <1>3, CallFields DEF CommitApprove, CommitExpire, CommitDeny, Finish, CallsSound,
       CallSound
  <2>2. \A id \in Ids : /\ request'[id].action = request[id].action
                        /\ id # call[c].id => request'[id] = request[id]
    BY <1>3, <2>1, ResolveFrame DEF CommitApprove, CommitExpire, CommitDeny
  <2>3. RequestsSound'
    BY <2>1, <2>2 DEF RequestsSound
  <2>4. CASE CommitApprove(c)
    <3>1. request'[call[c].id].status = "approved"
      BY <2>1, <2>4, ResolveFrame DEF CommitApprove
    <3> QED
      BY <2>1, <2>2, <2>3, <2>4, <3>1 DEF CommitApprove, Log, Audited, StatusIsAudited
  <2>5. CASE CommitExpire(c) \/ CommitDeny(c)
    <3>1. request'[call[c].id].status = "denied"
      BY <2>1, <2>5, ResolveFrame DEF CommitExpire, CommitDeny
    <3> QED
      BY <2>1, <2>2, <2>3, <2>5, <3>1 DEF CommitExpire, CommitDeny, Log, Audited,
         StatusIsAudited
  <2> QED
    BY <1>3, <2>4, <2>5
<1> QED
  BY <1>1, <1>2, <1>3, RequestWriters

\* What a caller remembers stays true of the rows while others commit.
LEMMA CallKept ==
  ASSUME PolicyTypeOK, Grows, NEW c \in Callers, CallSound(c), call'[c] = call[c],
         now \in Nat, now' \in Nat
  PROVE  CallSound(c)'
BY CallFields DEF CallSound, Grows, PolicyTypeOK

\* Every step of a call leaves its caller with a true memory of the rows.
LEMMA CallsStep ==
  ASSUME PolicyInv, PolicyTypeOK', [PolicyNext]_policyVars, Grows
  PROVE  CallsSound'
<1> USE DEF PolicyInv
<1>0. now \in Nat /\ now' \in Nat
  BY DEF PolicyTypeOK
<1>1. CASE UNCHANGED call
  BY <1>0, <1>1, CallKept DEF CallsSound
<1>2. ASSUME NEW c \in Callers, NEW a \in Actions, BeginAuthorize(c, a)
      PROVE  CallsSound'
  <2>1. CallSound(c)'
    BY <1>0, <1>2 DEF BeginAuthorize, Enter, CallSound, PolicyTypeOK
  <2>2. \A d \in Callers : d # c => call'[d] = call[d]
    BY <1>2 DEF BeginAuthorize, Enter, PolicyTypeOK
  <2> QED
    BY <1>0, <2>1, <2>2, CallKept DEF CallsSound
<1>3. ASSUME NEW c \in Callers, NEW id \in Ids, BeginApprove(c, id) \/ BeginDeny(c, id)
      PROVE  CallsSound'
  <2>1. request[id].created \in Nat
    BY DEF PolicyTypeOK, RequestRow
  <2>2. CallSound(c)'
    BY <1>0, <1>3, <2>1, PolicyAssumption DEF BeginApprove, BeginDeny, Enter, CallSound,
       PolicyTypeOK, RequestExpired
  <2>3. \A d \in Callers : d # c => call'[d] = call[d]
    BY <1>3 DEF BeginApprove, BeginDeny, Enter, PolicyTypeOK
  <2> QED
    BY <1>0, <2>2, <2>3, CallKept DEF CallsSound
<1>4. ASSUME NEW c \in Callers, CallStep(c)
      PROVE  CallsSound'
  <2>1. \/ Continue(c, "lookup", "insert") /\ UNCHANGED <<now, request>>
        \/ \E from \in CallSteps, result \in Results \ {"allow"} : Finish(c, from, result)
    BY <1>4 DEF CallStep, LookupRequest, InsertRequest, InsertRejected, CommitApprove,
       CommitExpire, CommitDeny, CallSteps, Results
  <2>2. \A d \in Callers : d # c => call'[d] = call[d]
    BY <2>1 DEF Continue, Finish, PolicyTypeOK
  <2>3. CallSound(c)
    BY DEF CallsSound
  <2>4. call[c].at <= now'
    BY <1>0, <2>3, CallFields DEF CallSound, Grows
  <2>5. CASE Continue(c, "lookup", "insert") /\ UNCHANGED <<now, request>>
    <3>1. /\ call'[c].step = "insert"
          /\ call'[c].at = call[c].at
          /\ call'[c].id = call[c].id
          /\ call'[c].action = call[c].action
          /\ call'[c].result = call[c].result
      BY <2>5 DEF Continue, PolicyTypeOK, CallRecord
    <3> QED
      BY <1>0, <2>2, <2>3, <2>4, <2>5, <3>1, CallKept DEF Continue, CallsSound, CallSound
  <2>6. ASSUME NEW from \in CallSteps, NEW result \in Results \ {"allow"},
               Finish(c, from, result)
        PROVE  CallsSound'
    <3>1. /\ call'[c].step = "done"
          /\ call'[c].at = call[c].at
          /\ call'[c].result = result
      BY <2>6 DEF Finish, PolicyTypeOK, CallRecord
    <3> QED
      BY <1>0, <2>2, <2>4, <3>1, CallKept DEF CallsSound, CallSound
  <2> QED
    BY <2>1, <2>5, <2>6
<1>5. ASSUME NEW c \in Callers, Return(c) \/ AbandonCall(c)
      PROVE  CallsSound'
  <2>1. call'[c] = IdleCall /\ \A d \in Callers : d # c => call'[d] = call[d]
    BY <1>5 DEF Return, AbandonCall, PolicyTypeOK
  <2>2. CallSound(c)'
    BY <1>0, <2>1 DEF CallSound, IdleCall
  <2> QED
    BY <1>0, <2>1, <2>2, CallKept DEF CallsSound
<1> QED
  BY <1>1, <1>2, <1>3, <1>4, <1>5, CallWriters

---------------------------------------------------------------------------
\* The fields of a grant.
LEMMA GrantFields ==
  ASSUME PolicyTypeOK, NEW i \in DOMAIN grants
  PROVE  /\ grants[i].action \in Actions
         /\ grants[i].issued \in Nat
         /\ grants[i].expires \in Nat
         /\ ActionId[grants[i].action] \in Ids
         /\ SessionOf[grants[i].action] \in Sessions
         /\ session[SessionOf[grants[i].action]].expires \in Nat
         /\ request[ActionId[grants[i].action]].created \in Nat
<1>1. grants[i] \in GrantRow
  BY DEF PolicyTypeOK
<1>2. /\ grants[i].action \in Actions
      /\ grants[i].issued \in Nat
      /\ grants[i].expires \in Nat
  BY <1>1 DEF GrantRow
<1>3. ActionId[grants[i].action] \in Ids /\ SessionOf[grants[i].action] \in Sessions
  BY <1>2, PolicyAssumption
<1> QED
  BY <1>2, <1>3 DEF PolicyTypeOK, SessionRow, RequestRow

\* The facts about grants are kept by a step that touches no grant's terms.
LEMMA GrantKept ==
  ASSUME PolicyInv, PolicyTypeOK', Grows, NEW i \in DOMAIN grants,
         grants'[i].action = grants[i].action,
         grants'[i].issued = grants[i].issued,
         grants'[i].expires = grants[i].expires
  PROVE  /\ grants'[i].issued <= now'
         /\ request'[ActionId[grants'[i].action]].status # "none"
         /\ Risk[grants'[i].action] = "write"
         /\ request'[ActionId[grants'[i].action]].action = grants'[i].action
         /\ <<"approval.approved", ActionId[grants'[i].action]>> \in audit'
         /\ grants'[i].expires <= session'[SessionOf[grants'[i].action]].expires
         /\ grants'[i].expires <= grants'[i].issued + SessionTTL
         /\ grants'[i].issued < request'[ActionId[grants'[i].action]].created + ApprovalTTL
<1>1. /\ grants[i].issued <= now
      /\ request[ActionId[grants[i].action]].status # "none"
  BY DEF PolicyInv, GrantsSound
<1>2. /\ Risk[grants[i].action] = "write"
      /\ request[ActionId[grants[i].action]].action = grants[i].action
      /\ <<"approval.approved", ActionId[grants[i].action]>> \in audit
  BY DEF PolicyInv, GrantsAreBacked, Audited
<1>3. /\ grants[i].expires <= session[SessionOf[grants[i].action]].expires
      /\ grants[i].expires <= grants[i].issued + SessionTTL
      /\ grants[i].issued < request[ActionId[grants[i].action]].created + ApprovalTTL
  BY DEF PolicyInv, GrantsStayInWindow
<1>4. PolicyTypeOK
  BY DEF PolicyInv
<1>5. /\ request'[ActionId[grants[i].action]].status # "none"
      /\ request'[ActionId[grants[i].action]].action = grants[i].action
      /\ request'[ActionId[grants[i].action]].created
           = request[ActionId[grants[i].action]].created
  BY <1>1, <1>2, <1>4, GrantFields DEF Grows
<1>6. session[SessionOf[grants[i].action]].expires
        <= session'[SessionOf[grants[i].action]].expires
  BY <1>4, GrantFields DEF Grows
<1>7. session'[SessionOf[grants[i].action]].expires \in Nat
  BY <1>4, GrantFields DEF PolicyTypeOK, SessionRow
<1>8. now \in Nat /\ now' \in Nat /\ now <= now'
  BY <1>4 DEF PolicyTypeOK, Grows
<1>9. <<"approval.approved", ActionId[grants[i].action]>> \in audit'
  BY <1>2 DEF Grows
<1>10. grants[i].issued <= now'
  BY <1>1, <1>4, <1>8, GrantFields
<1>11. grants[i].expires <= session'[SessionOf[grants[i].action]].expires
  BY <1>3, <1>4, <1>6, <1>7, GrantFields
<1> QED
  BY <1>2, <1>3, <1>5, <1>9, <1>10, <1>11

\* A grant is added only by the commit of an approval, inside the session and the
\* approval window.
LEMMA GrantsStep ==
  ASSUME PolicyInv, PolicyTypeOK', [PolicyNext]_policyVars, Grows
  PROVE  GrantsSound' /\ GrantsAreBacked' /\ GrantsStayInWindow'
<1>1. ASSUME DOMAIN grants' = DOMAIN grants
      PROVE  GrantsSound' /\ GrantsAreBacked' /\ GrantsStayInWindow'
  <2>1. \A i \in DOMAIN grants' :
          /\ i \in DOMAIN grants
          /\ grants'[i].action = grants[i].action
          /\ grants'[i].issued = grants[i].issued
          /\ grants'[i].expires = grants[i].expires
    BY <1>1 DEF Grows
  <2>2. GrantsSound'
    BY <2>1, GrantKept DEF GrantsSound
  <2>3. GrantsAreBacked'
    BY <2>1, GrantKept DEF GrantsAreBacked, Audited
  <2>4. GrantsStayInWindow'
    BY <2>1, GrantKept DEF GrantsStayInWindow
  <2> QED
    BY <2>2, <2>3, <2>4
<1>2. ASSUME NEW i \in DOMAIN grants, RevokeGrant(i)
      PROVE  DOMAIN grants' = DOMAIN grants
  BY <1>2 DEF RevokeGrant, PolicyInv, PolicyTypeOK
<1>3. ASSUME NEW c \in Callers, CommitApprove(c)
      PROVE  GrantsSound' /\ GrantsAreBacked' /\ GrantsStayInWindow'
  <2> DEFINE a == call[c].action
             n == Len(grants) + 1
  <2>1. CASE ~IssuesGrant(a)
    BY <1>1, <1>3, <2>1 DEF CommitApprove
  <2>2. CASE IssuesGrant(a)
    <3>1. /\ DOMAIN grants' = DOMAIN grants \cup {n}
          /\ grants'[n] = [action |-> a, issued |-> call[c].at, revoked |-> FALSE,
                           expires |-> Earlier(session[SessionOf[a]].expires,
                                               call[c].at + SessionTTL)]
      BY <1>3, <2>2 DEF CommitApprove, PolicyInv, PolicyTypeOK
    <3>2. CallSound(c) /\ call[c].step = "approve"
      BY <1>3 DEF CommitApprove, Finish, PolicyInv, CallsSound
    <3>3. call[c].id \in Ids /\ call[c].at \in Nat
      BY CallFields DEF PolicyInv
    <3>4. /\ request[call[c].id].status # "none"
          /\ request[call[c].id].action = a
          /\ call[c].at < request[call[c].id].created + ApprovalTTL
          /\ call[c].at <= now
      BY <3>2 DEF CallSound
    <3>5. a \in Actions /\ ActionId[a] = call[c].id
      BY <3>3, <3>4 DEF PolicyInv, RequestsSound
    <3>6. session[SessionOf[a]].expires \in Nat
      BY <3>5, PolicyAssumption DEF PolicyInv, PolicyTypeOK, SessionRow
    <3>7. /\ grants'[n].issued <= now'
          /\ grants'[n].action = a
          /\ grants'[n].issued = call[c].at
          /\ grants'[n].expires <= session'[SessionOf[a]].expires
          /\ grants'[n].expires <= call[c].at + SessionTTL
      BY <1>3, <3>1, <3>3, <3>4, <3>6, PolicyAssumption DEF CommitApprove, Earlier
    <3>8. /\ request'[call[c].id].status # "none"
          /\ request'[call[c].id].action = a
          /\ call[c].at < request'[call[c].id].created + ApprovalTTL
      BY <3>3, <3>4 DEF Grows
    <3>9. Risk[a] = "write" /\ <<"approval.approved", ActionId[a]>> \in audit'
      BY <1>3, <2>2, <3>5 DEF CommitApprove, Log, IssuesGrant
    <3>10. GrantsSound'
      BY <3>1, <3>5, <3>7, <3>8, GrantKept DEF Grows, GrantsSound
    <3>11. GrantsAreBacked'
      <4>1. ASSUME NEW i \in DOMAIN grants
            PROVE  /\ Risk[grants'[i].action] = "write"
                   /\ request'[ActionId[grants'[i].action]].action = grants'[i].action
                   /\ <<"approval.approved", ActionId[grants'[i].action]>> \in audit'
        BY GrantKept DEF Grows
      <4>2. /\ Risk[grants'[n].action] = "write"
            /\ request'[ActionId[grants'[n].action]].action = grants'[n].action
            /\ <<"approval.approved", ActionId[grants'[n].action]>> \in audit'
        BY <3>5, <3>7, <3>8, <3>9
      <4> QED
        BY <3>1, <4>1, <4>2 DEF GrantsAreBacked, Audited
    <3>12. GrantsStayInWindow'
      <4>1. ASSUME NEW i \in DOMAIN grants
            PROVE  /\ grants'[i].expires <= session'[SessionOf[grants'[i].action]].expires
                   /\ grants'[i].expires <= grants'[i].issued + SessionTTL
                   /\ grants'[i].issued
                        < request'[ActionId[grants'[i].action]].created + ApprovalTTL
        BY GrantKept DEF Grows
      <4>2. /\ grants'[n].expires <= session'[SessionOf[grants'[n].action]].expires
            /\ grants'[n].expires <= grants'[n].issued + SessionTTL
            /\ grants'[n].issued
                 < request'[ActionId[grants'[n].action]].created + ApprovalTTL
        BY <3>5, <3>7, <3>8
      <4> QED
        BY <3>1, <4>1, <4>2 DEF GrantsStayInWindow
    <3> QED
      BY <3>10, <3>11, <3>12
  <2> QED
    BY <2>1, <2>2
<1> QED
  BY <1>1, <1>2, <1>3, GrantWriters

\* What justified an allow when it was answered still does.
LEMMA AllowKept ==
  ASSUME PolicyInv, PolicyTypeOK', Grows, NEW c \in Callers, call[c].result = "allow",
         call'[c].at = call[c].at, call'[c].action = call[c].action
  PROVE  LET a == call[c].action IN
         /\ call[c].at < session'[SessionOf[a]].expires
         /\ \/ Risk[a] = "read"
            \/ \E i \in DOMAIN grants' :
                 /\ <<"approval.approved", ActionId[grants'[i].action]>> \in audit'
                 /\ SessionOf[grants'[i].action] = SessionOf[a]
                 /\ Risk[a] = "write"
                 /\ GrantMatches(grants'[i], a)
                 /\ grants'[i].issued <= call[c].at
                 /\ call[c].at < grants'[i].issued + SessionTTL
<1>0. PolicyTypeOK
  BY DEF PolicyInv
<1>1. /\ call[c].action \in Actions
      /\ SessionOf[call[c].action] \in Sessions
      /\ call[c].at \in Nat
  BY <1>0, PolicyAssumption, CallFields DEF PolicyInv, CallsSound, CallSound
<1>2. /\ session[SessionOf[call[c].action]].expires \in Nat
      /\ session'[SessionOf[call[c].action]].expires \in Nat
      /\ session[SessionOf[call[c].action]].expires
           <= session'[SessionOf[call[c].action]].expires
  BY <1>0, <1>1 DEF PolicyTypeOK, SessionRow, Grows
<1>3. call[c].at < session[SessionOf[call[c].action]].expires
  BY DEF PolicyInv, AllowIsJustified
<1>4. call[c].at < session'[SessionOf[call[c].action]].expires
  BY <1>1, <1>2, <1>3
<1>5. CASE Risk[call[c].action] = "read"
  BY <1>4, <1>5
<1>6. CASE Risk[call[c].action] # "read"
  <2>1. PICK i \in DOMAIN grants :
          /\ <<"approval.approved", ActionId[grants[i].action]>> \in audit
          /\ SessionOf[grants[i].action] = SessionOf[call[c].action]
          /\ Risk[call[c].action] = "write"
          /\ GrantMatches(grants[i], call[c].action)
          /\ grants[i].issued <= call[c].at
          /\ call[c].at < grants[i].issued + SessionTTL
    BY <1>6 DEF PolicyInv, AllowIsJustified, Audited
  <2>2. /\ i \in DOMAIN grants'
        /\ grants'[i].action = grants[i].action
        /\ grants'[i].issued = grants[i].issued
    BY DEF Grows
  <2>3. GrantMatches(grants'[i], call[c].action)
    BY <2>1, <2>2 DEF GrantMatches
  <2>4. <<"approval.approved", ActionId[grants'[i].action]>> \in audit'
    BY <2>1, <2>2 DEF Grows
  <2> QED
    BY <1>4, <2>1, <2>2, <2>3, <2>4
<1> QED
  BY <1>5, <1>6

\* authorize answers allow only on what it has just read.
LEMMA AllowStep ==
  ASSUME PolicyInv, PolicyTypeOK', [PolicyNext]_policyVars, Grows
  PROVE  AllowIsJustified'
<1>0. PolicyTypeOK
  BY DEF PolicyInv
<1>1. ASSUME \A c \in Callers : call'[c].result = "allow" =>
               /\ call[c].result = "allow"
               /\ call'[c].at = call[c].at
               /\ call'[c].action = call[c].action
      PROVE  AllowIsJustified'
  BY <1>1, AllowKept DEF AllowIsJustified, Audited
<1>2. CASE UNCHANGED call
  BY <1>1, <1>2
<1>3. ASSUME NEW c \in Callers, NEW a \in Actions, BeginAuthorize(c, a)
      PROVE  AllowIsJustified'
  <2>1. \A d \in Callers : d # c => call'[d] = call[d]
    BY <1>0, <1>3 DEF BeginAuthorize, Enter, PolicyTypeOK
  <2>2. call'[c].result = "allow" =>
          /\ call'[c].action = a /\ call'[c].at = now
          /\ SessionValid(SessionOf[a], now)
          /\ Risk[a] = "read" \/ (Risk[a] = "write" /\ ActiveGrant(a, now))
    BY <1>0, <1>3 DEF BeginAuthorize, Enter, PolicyTypeOK
  <2>3. ASSUME call'[c].result = "allow", Risk[a] # "read"
        PROVE  \E i \in DOMAIN grants :
                 /\ <<"approval.approved", ActionId[grants[i].action]>> \in audit
                 /\ SessionOf[grants[i].action] = SessionOf[a]
                 /\ Risk[a] = "write"
                 /\ GrantMatches(grants[i], a)
                 /\ grants[i].issued <= now
                 /\ now < grants[i].issued + SessionTTL
    <3>1. PICK i \in DOMAIN grants :
            /\ SessionOf[grants[i].action] = SessionOf[a]
            /\ grants[i].expires > now
            /\ GrantMatches(grants[i], a)
      BY <2>2, <2>3 DEF ActiveGrant
    <3>2. /\ grants[i].issued \in Nat /\ grants[i].expires \in Nat /\ now \in Nat
          /\ SessionTTL \in Nat
      BY <1>0, GrantFields, PolicyAssumption DEF PolicyTypeOK
    <3>3. /\ grants[i].issued <= now
          /\ <<"approval.approved", ActionId[grants[i].action]>> \in audit
          /\ grants[i].expires <= grants[i].issued + SessionTTL
      BY DEF PolicyInv, GrantsSound, GrantsAreBacked, GrantsStayInWindow, Audited
    <3>4. now < grants[i].issued + SessionTTL
      BY <3>1, <3>2, <3>3
    <3> QED
      BY <2>2, <2>3, <3>1, <3>3, <3>4
  <2>4. call'[c].result = "allow" => now < session[SessionOf[a]].expires
    <3>1. session[SessionOf[a]].expires \in Nat /\ now \in Nat
      BY <1>0, PolicyAssumption DEF PolicyTypeOK, SessionRow
    <3> QED
      BY <2>2, <3>1 DEF SessionValid
  <2>5. UNCHANGED <<session, grants, audit>>
    BY <1>3 DEF BeginAuthorize
  <2>6. ASSUME NEW d \in Callers, call'[d].result = "allow"
        PROVE  LET b == call'[d].action IN
               /\ call'[d].at < session'[SessionOf[b]].expires
               /\ \/ Risk[b] = "read"
                  \/ \E i \in DOMAIN grants' :
                       /\ <<"approval.approved", ActionId[grants'[i].action]>> \in audit'
                       /\ SessionOf[grants'[i].action] = SessionOf[b]
                       /\ Risk[b] = "write"
                       /\ GrantMatches(grants'[i], b)
                       /\ grants'[i].issued <= call'[d].at
                       /\ call'[d].at < grants'[i].issued + SessionTTL
    <3>1. CASE d # c
      BY <2>1, <2>6, <3>1, AllowKept
    <3>2. CASE d = c
      BY <2>2, <2>3, <2>4, <2>5, <2>6, <3>2
    <3> QED
      BY <3>1, <3>2
  <2> QED
    BY <2>6 DEF AllowIsJustified, Audited
<1>4. ASSUME NEW c \in Callers, NEW id \in Ids, BeginApprove(c, id) \/ BeginDeny(c, id)
      PROVE  AllowIsJustified'
  <2>1. /\ call'[c].result # "allow"
        /\ \A d \in Callers : d # c => call'[d] = call[d]
    BY <1>0, <1>4 DEF BeginApprove, BeginDeny, Enter, PolicyTypeOK
  <2> QED
    BY <1>1, <2>1
<1>5. ASSUME NEW c \in Callers, CallStep(c)
      PROVE  AllowIsJustified'
  <2>1. \/ Continue(c, "lookup", "insert")
        \/ \E from \in CallSteps, result \in Results \ {"allow"} : Finish(c, from, result)
    BY <1>5 DEF CallStep, LookupRequest, InsertRequest, InsertRejected, CommitApprove,
       CommitExpire, CommitDeny, CallSteps, Results
  <2>2. CASE Continue(c, "lookup", "insert")
    <3>1. /\ call'[c].result = call[c].result
          /\ call'[c].at = call[c].at
          /\ call'[c].action = call[c].action
          /\ \A d \in Callers : d # c => call'[d] = call[d]
      BY <1>0, <2>2 DEF Continue, PolicyTypeOK, CallRecord
    <3> QED
      BY <1>1, <3>1
  <2>3. ASSUME NEW from \in CallSteps, NEW result \in Results \ {"allow"},
               Finish(c, from, result)
        PROVE  AllowIsJustified'
    <3>1. /\ call'[c].result = result
          /\ \A d \in Callers : d # c => call'[d] = call[d]
      BY <1>0, <2>3 DEF Finish, PolicyTypeOK, CallRecord
    <3> QED
      BY <1>1, <3>1
  <2> QED
    BY <2>1, <2>2, <2>3
<1>6. ASSUME NEW c \in Callers, Return(c) \/ AbandonCall(c)
      PROVE  AllowIsJustified'
  <2>1. /\ call'[c].result # "allow"
        /\ \A d \in Callers : d # c => call'[d] = call[d]
    BY <1>0, <1>6 DEF Return, AbandonCall, IdleCall, PolicyTypeOK
  <2> QED
    BY <1>1, <2>1
<1> QED
  BY <1>2, <1>3, <1>4, <1>5, <1>6, CallWriters

---------------------------------------------------------------------------
\* Empty tables and idle callers satisfy the invariant.
LEMMA InitInv ==
  PolicyInit => PolicyInv
<1> SUFFICES ASSUME PolicyInit
             PROVE  PolicyInv
  OBVIOUS
<1>1. IdleCall \in CallRecord
  BY PolicyAssumption DEF IdleCall, CallRecord, CallSteps, Results
<1>2. /\ \A c \in Callers : call[c] = IdleCall
      /\ \A id \in Ids : request[id].status = "none"
      /\ \A s \in Sessions : session[s].expires = 0
      /\ now = 0 /\ DOMAIN grants = {}
  BY DEF PolicyInit
<1>3. PolicyTypeOK
  <2>1. session \in [Sessions -> SessionRow] /\ request \in [Ids -> RequestRow]
    BY DEF PolicyInit, SessionRow, RequestRow
  <2>2. call \in [Callers -> CallRecord]
    BY <1>1 DEF PolicyInit
  <2> QED
    BY <2>1, <2>2 DEF PolicyInit, PolicyTypeOK
<1>4. CallsSound /\ AllowIsJustified
  <2>1. \A c \in Callers :
          call[c].step = "idle" /\ call[c].at = 0 /\ call[c].result = "none"
    <3>1. IdleCall.step = "idle" /\ IdleCall.at = 0 /\ IdleCall.result = "none"
      BY DEF IdleCall
    <3> QED
      BY <1>2, <3>1
  <2>2. CallsSound
    BY <1>2, <2>1 DEF CallsSound, CallSound
  <2>3. AllowIsJustified
    BY <2>1 DEF AllowIsJustified
  <2> QED
    BY <2>2, <2>3
<1>5. SessionsSound /\ RequestsSound /\ StatusIsAudited
  BY <1>2 DEF SessionsSound, RequestsSound, StatusIsAudited
<1>6. GrantsSound /\ GrantsAreBacked /\ GrantsStayInWindow
  BY <1>2 DEF GrantsSound, GrantsAreBacked, GrantsStayInWindow
<1> QED
  BY <1>3, <1>4, <1>5, <1>6 DEF PolicyInv

\* Every step keeps the invariant.
LEMMA StepInv ==
  PolicyInv /\ [PolicyNext]_policyVars => PolicyInv'
<1> SUFFICES ASSUME PolicyInv, [PolicyNext]_policyVars
             PROVE  PolicyInv'
  OBVIOUS
<1>1. PolicyTypeOK'
  BY TypeStep DEF PolicyInv
<1>2. Grows
  BY GrowStep DEF PolicyInv
<1>3. SessionsSound'
  BY SessionsStep DEF PolicyInv
<1>4. RequestsSound' /\ StatusIsAudited'
  BY <1>2, RequestsStep
<1>5. CallsSound'
  BY <1>1, <1>2, CallsStep
<1>6. GrantsSound' /\ GrantsAreBacked' /\ GrantsStayInWindow'
  BY <1>1, <1>2, GrantsStep
<1>7. AllowIsJustified'
  BY <1>1, <1>2, AllowStep
<1> QED
  BY <1>1, <1>3, <1>4, <1>5, <1>6, <1>7 DEF PolicyInv

\* The inductive invariant holds in every state the service reaches.
THEOREM PolicyInvariant == PolicySpec => []PolicyInv
BY InitInv, StepInv, PTL DEF PolicySpec

\* The tables and the callers' records keep their shape.
THEOREM PolicyTypeCorrect == PolicySpec => []PolicyTypeOK
BY PolicyInvariant, PTL DEF PolicyInv

\* However the calls of the processes interleave, a grant exists only for a write whose
\* request a human approved.
THEOREM GrantsBackedTheorem == PolicySpec => []GrantsAreBacked
BY PolicyInvariant, PTL DEF PolicyInv

\* A grant stays inside its session, session_ttl and the approval window, although
\* approve() decides on rows it has read before its commit.
THEOREM GrantsInWindowTheorem == PolicySpec => []GrantsStayInWindow
BY PolicyInvariant, PTL DEF PolicyInv

\* authorize() never answers allow for a write or a risky action that no human
\* approved, nor in an expired session.
THEOREM AllowJustifiedTheorem == PolicySpec => []AllowIsJustified
BY PolicyInvariant, PTL DEF PolicyInv

\* The audit log accounts for every status, also when decisions race.
THEOREM StatusAuditedTheorem == PolicySpec => []StatusIsAudited
BY PolicyInvariant, PTL DEF PolicyInv
=============================================================================
