------------------------ MODULE CoordinatorRoute_proofs ------------------------
(***************************************************************************)
(* Proofs about CoordinatorRoute, for any number of callers, any route and *)
(* any number of corrective retries: calls keep their shape, the route     *)
(* implements RouteContract, a route without groups of several models      *)
(* falls back as documented, and build_coordinator builds routes.          *)
(***************************************************************************)
EXTENDS CoordinatorRoute, FoldLemmas

---------------------------------------------------------------------------
(***************************************************************************)
(* The inductive invariant.  To RouteTypeOK it adds that an open call has  *)
(* raised nothing yet: without it an answer might carry an older error.    *)
(* Sound and Fits are constant operators over call records, so that one    *)
(* lemma serves all the actions that move one call.                        *)
(***************************************************************************)
Sound(x) ==
  /\ x \in Call
  /\ x.outcome = "open" =>
       /\ x.at \in DOMAIN Route
       /\ x.model \in 1..Route[x.at].models
       /\ x.first = IF x.at = 1 THEN 0 ELSE 1
       /\ x.raised = 0

RouteInv ==
  /\ RouteTypeOK
  /\ \A c \in Callers : Sound(call[c])

View(x) == [asked |-> x.at, outcome |-> x.outcome, raised |-> x.raised]

\* What one step may make of a call, seen through View: a step of RouteContract or none.
Fits(x, y) ==
  \/ View(y) = View(x)
  \/ /\ x.outcome # "open"
     /\ View(y) = [asked |-> 1, outcome |-> "open", raised |-> 0]
  \/ /\ x.outcome = "open"
     /\ \/ x.at < N /\ View(y) = [asked |-> x.at + 1, outcome |-> "open", raised |-> x.raised]
        \/ View(y) = [asked |-> x.at, outcome |-> "answer", raised |-> x.raised]
        \/ View(y) = [asked |-> x.at, outcome |-> "refused", raised |-> x.at]
        \/ x.at = N /\ View(y) = [asked |-> x.at, outcome |-> "exhausted", raised |-> 1]
        \/ View(y) = [asked |-> x.at, outcome |-> "cancelled", raised |-> x.raised]

\* Caller c's call becomes a sound record that fits; the caches keep their type.
MovesTo(c, y) ==
  /\ Sound(y)
  /\ Fits(call[c], y)
  /\ call' = [call EXCEPT ![c] = y]
  /\ checked' \in [Callers -> SUBSET DOMAIN Route]
  /\ ready' \subseteq Callers

---------------------------------------------------------------------------
\* The candidates are numbered from 1 to N, and each asks at least one model.
LEMMA RouteFacts ==
  /\ N \in Nat \ {0}
  /\ DOMAIN Route = 1..N
  /\ \A i \in 1..N : Route[i] \in Candidate /\ Route[i].models \in Nat \ {0}
  /\ CorrectiveRetries \in Nat
<1>1. N \in Nat \ {0} /\ DOMAIN Route = 1..N
  BY RouteAssumption DEF N
<1>2. \A i \in 1..N : Route[i] \in Candidate
  BY RouteAssumption DEF N
<1>3. \A k \in Candidate : k.models \in Nat \ {0}
  BY DEF Candidate
<1> QED
  BY <1>1, <1>2, <1>3, RouteAssumption

\* NoCall is a call.
LEMMA NoCallSound == NoCall \in Call /\ NoCall.outcome = "none"
BY RouteFacts DEF NoCall, Call, Prompts, Causes

\* A provider failure asks the next candidate, or ends the call with the first failure.
LEMMA FailOverMoves ==
  ASSUME NEW c \in Callers, Sound(call[c]), Asking(c), NEW cause \in Causes
  PROVE  Sound(FailOver(c, cause)) /\ Fits(call[c], FailOver(c, cause))
<1> DEFINE x == call[c]
           y == FailOver(c, cause)
           first == IF x.first = 0 THEN x.at ELSE x.first
<1>0. x.causes \cup {cause} \in SUBSET Causes
  BY DEF Sound, Call
<1>1. x \in Call /\ x.at \in 1..N /\ first = 1 /\ x.raised = 0 /\ x.outcome = "open"
  BY RouteFacts DEF Sound, Asking, Call
<1>2. CASE x.at < N
  <2>1. y = [x EXCEPT !.at = x.at + 1, !.model = 1, !.attempt = 0, !.first = 1,
                      !.causes = x.causes \cup {cause}]
    BY <1>1, <1>2 DEF FailOver
  <2>2. x.at + 1 \in 1..N /\ Route[x.at + 1].models \in Nat \ {0} /\ x.at + 1 # 1
    BY <1>1, <1>2, RouteFacts
  <2>3. y \in Call
    <3>1. x.at + 1 \in 0..N /\ 1 \in 0..N /\ 1 \in Nat /\ 0 \in 0..CorrectiveRetries
      BY <2>2, RouteFacts
    <3> QED
      BY <2>1, <3>1, <1>0, <1>1 DEF Call
  <2>4. y.at = x.at + 1 /\ y.model = 1 /\ y.first = 1 /\ y.outcome = "open" /\ y.raised = 0
    BY <2>1, <1>1 DEF Call
  <2>5. Sound(y)
    BY <2>2, <2>3, <2>4, RouteFacts DEF Sound
  <2>6. Fits(x, y)
    BY <2>4, <1>1, <1>2 DEF Fits, View
  <2> QED
    BY <2>5, <2>6
<1>3. CASE ~(x.at < N)
  <2>1. y = [x EXCEPT !.outcome = "exhausted", !.raised = 1, !.causes = x.causes \cup {cause}]
    BY <1>1, <1>3 DEF FailOver
  <2>2. x.at = N
    BY <1>1, <1>3, RouteFacts
  <2>3. y \in Call
    BY <2>1, <1>0, <1>1, RouteFacts DEF Call
  <2>4. y.at = x.at /\ y.outcome = "exhausted" /\ y.raised = 1
    BY <2>1, <1>1 DEF Call
  <2> QED
    BY <2>2, <2>3, <2>4, <1>1 DEF Sound, Fits, View
<1> QED
  BY <1>2, <1>3

\* Any other error ends the call with the candidate's own error.
LEMMA StoppedMoves ==
  ASSUME NEW c \in Callers, Sound(call[c]), Asking(c), NEW cause \in Causes
  PROVE  Sound(Stopped(c, cause)) /\ Fits(call[c], Stopped(c, cause))
<1> DEFINE x == call[c]
           y == Stopped(c, cause)
<1>0. x.causes \cup {cause} \in SUBSET Causes
  BY DEF Sound, Call
<1>1. x \in Call /\ x.at \in 1..N /\ x.outcome = "open"
  BY RouteFacts DEF Sound, Asking
<1>2. y = [x EXCEPT !.outcome = "refused", !.raised = x.at, !.causes = x.causes \cup {cause}]
  BY DEF Stopped
<1>3. y \in Call
  BY <1>0, <1>1, <1>2, RouteFacts DEF Call
<1>4. y.at = x.at /\ y.outcome = "refused" /\ y.raised = x.at
  BY <1>1, <1>2 DEF Call
<1> QED
  BY <1>1, <1>3, <1>4 DEF Sound, Fits, View

\* An answer, or the cancellation, leaves nothing raised.
LEMMA OverMoves ==
  ASSUME NEW c \in Callers, Sound(call[c]), Asking(c), NEW outcome \in {"answer", "cancelled"}
  PROVE  Sound(Over(c, outcome)) /\ Fits(call[c], Over(c, outcome))
<1> DEFINE x == call[c]
           y == Over(c, outcome)
<1>1. x \in Call /\ x.at \in 1..N /\ x.outcome = "open" /\ x.raised = 0
  BY RouteFacts DEF Sound, Asking
<1>2. y \in Call
  <2>1. x.op \in {"none", "decide", "compose"} /\ x.at \in 0..N
    BY <1>1 DEF Call
  <2> QED
    BY <2>1, NoCallSound DEF Over, Call
<1>3. y.at = x.at /\ y.outcome = outcome /\ y.raised = 0
  BY DEF Over, NoCall
<1> QED
  BY <1>1, <1>2, <1>3 DEF Sound, Fits, View

\* Another attempt or another model of the group is not seen from outside.
LEMMA RetryMoves ==
  ASSUME NEW c \in Callers, Sound(call[c]), Asking(c),
         NEW y \in Call, View(y) = View(call[c]), y.first = call[c].first,
         y.model \in 1..Route[call[c].at].models
  PROVE  Sound(y) /\ Fits(call[c], y)
BY DEF Sound, Fits, View, Asking

---------------------------------------------------------------------------
\* A payload that fails validation: corrected, given up, or too long to correct.
LEMMA CorrectedMoves ==
  ASSUME NEW c \in Callers, Sound(call[c]), Asking(c)
  PROVE  Sound(Corrected(c)) /\ Fits(call[c], Corrected(c))
<1> DEFINE x == call[c]
<1>1. "provider" \in Causes /\ "application" \in Causes
  BY DEF Causes
<1>2. CASE x.attempt >= CorrectiveRetries
  BY <1>1, <1>2, FailOverMoves DEF Corrected
<1>3. CASE ~(x.attempt >= CorrectiveRetries) /\ x.prompt = "tight"
  BY <1>1, <1>3, StoppedMoves DEF Corrected
<1>4. CASE ~(x.attempt >= CorrectiveRetries) /\ x.prompt # "tight"
  <2> DEFINE y == [x EXCEPT !.attempt = x.attempt + 1]
  <2>1. Corrected(c) = y
    BY <1>4 DEF Corrected
  <2>2. x \in Call /\ x.attempt + 1 \in 0..CorrectiveRetries
    BY <1>4, RouteFacts DEF Sound, Call
  <2>3. y \in Call
    BY <2>2 DEF Call
  <2>4. View(y) = View(x) /\ y.first = x.first /\ y.model = x.model
    BY <2>2 DEF Call, View
  <2>5. y.model \in 1..Route[x.at].models
    BY <2>4 DEF Sound, Asking
  <2> QED
    BY <2>1, <2>3, <2>4, <2>5, RetryMoves
<1> QED
  BY <1>2, <1>3, <1>4

\* A model error: the group's next model, the next candidate, or the end of the call.
LEMMA ModelErrorMoves ==
  ASSUME NEW c \in Callers, Sound(call[c]), Asking(c), NEW cause \in {"provider", "status"}
  PROVE  Sound(ModelError(c, cause)) /\ Fits(call[c], ModelError(c, cause))
<1> DEFINE x == call[c]
<1>1. cause \in Causes /\ x \in Call /\ x.at \in 1..N
  BY RouteFacts DEF Causes, Sound, Asking
<1>2. CASE x.model < Route[x.at].models
  <2> DEFINE y == [x EXCEPT !.model = x.model + 1, !.causes = x.causes \cup {cause}]
  <2>1. ModelError(c, cause) = y
    BY <1>2 DEF ModelError
  <2>2. x.model + 1 \in 1..Route[x.at].models
    BY <1>1, <1>2, RouteFacts DEF Sound, Asking
  <2>3. y \in Call
    <3>1. x.model + 1 \in Nat /\ x.causes \cup {cause} \in SUBSET Causes
      BY <1>1, <2>2, RouteFacts DEF Call
    <3> QED
      BY <1>1, <3>1 DEF Call
  <2>4. View(y) = View(x) /\ y.first = x.first /\ y.model = x.model + 1
    BY <1>1 DEF Call, View
  <2> QED
    BY <2>1, <2>2, <2>3, <2>4, RetryMoves
<1>3. CASE ~(x.model < Route[x.at].models)
  BY <1>1, <1>3, StoppedMoves, FailOverMoves DEF ModelError
<1> QED
  BY <1>2, <1>3

---------------------------------------------------------------------------
\* Whatever a caller does, its call moves to a sound record that fits.
LEMMA CallerMoves ==
  ASSUME RouteInv, NEW c \in Callers,
         \/ Start(c)
         \/ \E op \in {"decide", "compose"}, prompt \in Prompts : Ask(c, op, prompt)
         \/ RouteStep(c)
         \/ Abandon(c)
  PROVE  \E y \in Call : MovesTo(c, y)
<1>1. /\ Sound(call[c]) /\ call[c] \in Call
      /\ call \in [Callers -> Call]
      /\ checked \in [Callers -> SUBSET DOMAIN Route]
      /\ ready \subseteq Callers
  BY DEF RouteInv, RouteTypeOK, Sound
<1>2. "provider" \in Causes /\ "application" \in Causes
  BY DEF Causes
<1>3. CASE Start(c)
  <2>1. call' = [call EXCEPT ![c] = call[c]]
    BY <1>1, <1>3 DEF Start
  <2>2. checked' \in [Callers -> SUBSET DOMAIN Route] /\ ready' \subseteq Callers
    BY <1>1, <1>3 DEF Start
  <2> QED
    BY <1>1, <2>1, <2>2 DEF MovesTo, Fits
<1>4. ASSUME NEW op \in {"decide", "compose"}, NEW prompt \in Prompts, Ask(c, op, prompt)
      PROVE  \E y \in Call : MovesTo(c, y)
  <2> DEFINE y == [NoCall EXCEPT !.op = op, !.prompt = prompt, !.outcome = "open",
                                 !.at = 1, !.model = 1]
  <2>1. call' = [call EXCEPT ![c] = y] /\ UNCHANGED <<checked, ready>>
        /\ call[c].outcome # "open"
    BY <1>4 DEF Ask, Asking
  <2>2. y \in Call
    <3>1. 1 \in 0..N /\ 1 \in Nat
      BY RouteFacts
    <3> QED
      BY <3>1, NoCallSound DEF Call
  <2>3. y.at = 1 /\ y.outcome = "open" /\ y.model = 1 /\ y.first = 0 /\ y.raised = 0
    BY DEF NoCall
  <2>4. Sound(y)
    BY <2>2, <2>3, RouteFacts DEF Sound
  <2>5. Fits(call[c], y)
    BY <2>1, <2>3 DEF Fits, View
  <2> QED
    BY <1>1, <2>1, <2>2, <2>4, <2>5 DEF MovesTo
<1>5. CASE RefusePrompt(c)
  BY <1>1, <1>2, <1>5, StoppedMoves DEF RefusePrompt, Codex, Becomes, MovesTo, Sound
<1>6. CASE Probe(c)
  <2>1. CASE UNCHANGED call /\ checked' = [checked EXCEPT ![c] = @ \cup {call[c].at}]
    <3>1. call[c].at \in DOMAIN Route /\ ready' = ready
      BY <1>1, <1>6 DEF Probe, Codex, Asking, Sound
    <3>2. checked' \in [Callers -> SUBSET DOMAIN Route]
      BY <1>1, <2>1, <3>1
    <3>3. call' = [call EXCEPT ![c] = call[c]]
      BY <1>1, <2>1
    <3> QED
      BY <1>1, <3>1, <3>2, <3>3 DEF MovesTo, Fits
  <2>2. ASSUME NEW end \in ProcessEnds, UNCHANGED <<checked, ready>>,
               Becomes(c, IF end = "os_error" THEN Stopped(c, "application")
                          ELSE FailOver(c, "provider"))
        PROVE  \E y \in Call : MovesTo(c, y)
    <3>1. Asking(c)
      BY <1>6 DEF Probe, Codex
    <3> QED
      BY <1>1, <1>2, <2>2, <3>1, StoppedMoves, FailOverMoves DEF Becomes, MovesTo, Sound
  <2> QED
    BY <1>6, <2>1, <2>2 DEF Probe
<1>7. CASE Invoke(c)
  <2>1. Asking(c) /\ UNCHANGED <<checked, ready>>
    BY <1>7 DEF Invoke, Codex
  <2>2. ASSUME NEW y, Becomes(c, y), Sound(y) /\ Fits(call[c], y)
        PROVE  \E z \in Call : MovesTo(c, z)
    BY <1>1, <2>1, <2>2 DEF Becomes, MovesTo, Sound
  <2>3. ASSUME NEW end \in ProcessEnds \ {"zero"},
               Becomes(c, IF end = "os_error" THEN Stopped(c, "application")
                          ELSE FailOver(c, "provider"))
        PROVE  \E y \in Call : MovesTo(c, y)
    BY <1>1, <1>2, <2>1, <2>2, <2>3, StoppedMoves, FailOverMoves
  <2>4. ASSUME NEW payload \in Payloads,
               Becomes(c,
                 CASE payload = "valid" -> Over(c, "answer")
                   [] payload = "unframed" -> FailOver(c, "provider")
                   [] payload = "invalid" -> Corrected(c)
                   [] payload = "bad_arguments" -> FailOver(c, "provider")
                   [] payload = "bad_action" -> Stopped(c, "application"))
        PROVE  \E y \in Call : MovesTo(c, y)
    <3>1. CASE payload = "valid"
      BY <1>1, <2>1, <2>2, <2>4, <3>1, OverMoves
    <3>2. CASE payload \in {"unframed", "bad_arguments"}
      BY <1>1, <1>2, <2>1, <2>2, <2>4, <3>2, FailOverMoves
    <3>3. CASE payload = "invalid"
      BY <1>1, <2>1, <2>2, <2>4, <3>3, CorrectedMoves
    <3>4. CASE payload = "bad_action"
      BY <1>1, <1>2, <2>1, <2>2, <2>4, <3>4, StoppedMoves
    <3> QED
      BY <3>1, <3>2, <3>3, <3>4 DEF Payloads
  <2> QED
    BY <1>7, <2>3, <2>4 DEF Invoke
<1>8. CASE AskModel(c)
  <2>1. Asking(c) /\ UNCHANGED <<checked, ready>>
    BY <1>8 DEF AskModel
  <2>2. ASSUME NEW y, Becomes(c, y), Sound(y) /\ Fits(call[c], y)
        PROVE  \E z \in Call : MovesTo(c, z)
    BY <1>1, <2>1, <2>2 DEF Becomes, MovesTo, Sound
  <2> QED
    BY <1>1, <1>2, <1>8, <2>1, <2>2, OverMoves, StoppedMoves, ModelErrorMoves DEF AskModel
<1>9. CASE Abandon(c)
  BY <1>1, <1>9, OverMoves DEF Abandon, Becomes, MovesTo, Sound
<1> QED
  BY <1>3, <1>4, <1>5, <1>6, <1>7, <1>8, <1>9 DEF RouteStep

---------------------------------------------------------------------------
\* No call has been made when the behaviour begins.
LEMMA RouteInitInv == RouteInit => RouteInv
<1> SUFFICES ASSUME RouteInit PROVE RouteInv
  OBVIOUS
<1> QED
  BY NoCallSound DEF RouteInit, RouteInv, RouteTypeOK, Sound

\* Every step keeps the calls sound.
LEMMA RouteStepInv == RouteInv /\ [RouteNext]_routeVars => RouteInv'
<1> SUFFICES ASSUME RouteInv, [RouteNext]_routeVars PROVE RouteInv'
  OBVIOUS
<1>1. CASE UNCHANGED routeVars
  BY <1>1 DEF RouteInv, RouteTypeOK, routeVars
<1>2. ASSUME NEW c \in Callers, NEW y \in Call, MovesTo(c, y) PROVE RouteInv'
  <2>1. call' \in [Callers -> Call] /\ \A d \in Callers : Sound(call'[d])
    BY <1>2 DEF RouteInv, RouteTypeOK, MovesTo
  <2> QED
    BY <1>2, <2>1 DEF RouteInv, RouteTypeOK, MovesTo, Sound
<1> QED
  BY <1>1, <1>2, CallerMoves DEF RouteNext

\* Calls stay within the route at every moment.
THEOREM RouteInvariant == RouteSpec => []RouteInv
BY RouteInitInv, RouteStepInv, PTL DEF RouteSpec

\* Type correctness: the model asked belongs to the candidate asked, the corrective
\* attempts stay within their limit, an open call has a first failure once it moved on.
THEOREM RouteTypeCorrect == RouteSpec => []RouteTypeOK
BY RouteInvariant, PTL DEF RouteInv

---------------------------------------------------------------------------
\* A call that fits is a step of the contract.
LEMMA FitsContract ==
  ASSUME RouteInv, NEW c \in Callers, NEW y \in Call, MovesTo(c, y)
  PROVE  Contract!ContractNext \/ UNCHANGED Seen
<1> DEFINE x == call[c]
<1>1. Seen' = [Seen EXCEPT ![c] = View(y)]
  BY DEF RouteInv, RouteTypeOK, MovesTo, Seen, View
<1>2. Seen[c] = View(x) /\ Seen = [d \in Callers |-> View(call[d])]
  BY DEF Seen, View
<1>3. x.at \in Nat /\ x.raised \in Nat
  BY RouteFacts DEF RouteInv, Sound, Call
<1>4. CASE View(y) = View(x)
  BY <1>1, <1>2, <1>4
<1>5. CASE x.outcome # "open" /\ View(y) = [asked |-> 1, outcome |-> "open", raised |-> 0]
  <2>1. Contract!Begin(c)
    BY <1>1, <1>2, <1>5 DEF Contract!Begin, Contract!Open, View
  <2> QED
    BY <2>1 DEF Contract!ContractNext
<1>6. ASSUME x.outcome = "open" PROVE Contract!Open(c)
  BY <1>2, <1>6 DEF Contract!Open, View
<1>7. CASE /\ x.outcome = "open" /\ x.at < N
           /\ View(y) = [asked |-> x.at + 1, outcome |-> "open", raised |-> x.raised]
  <2>1. Contract!FallBack(c)
    BY <1>1, <1>2, <1>6, <1>7 DEF Contract!FallBack, View
  <2> QED
    BY <2>1 DEF Contract!ContractNext
<1>8. CASE x.outcome = "open" /\ View(y) = [asked |-> x.at, outcome |-> "answer", raised |-> x.raised]
  <2>1. Contract!Answered(c)
    BY <1>1, <1>2, <1>6, <1>8 DEF Contract!Answered, View
  <2> QED
    BY <2>1 DEF Contract!ContractNext
<1>9. CASE x.outcome = "open" /\ View(y) = [asked |-> x.at, outcome |-> "refused", raised |-> x.at]
  <2>1. Contract!Refused(c)
    BY <1>1, <1>2, <1>6, <1>9 DEF Contract!Refused, View
  <2> QED
    BY <2>1 DEF Contract!ContractNext
<1>10. CASE /\ x.outcome = "open" /\ x.at = N
            /\ View(y) = [asked |-> x.at, outcome |-> "exhausted", raised |-> 1]
  <2>1. Contract!Exhausted(c)
    BY <1>1, <1>2, <1>6, <1>10 DEF Contract!Exhausted, View
  <2> QED
    BY <2>1 DEF Contract!ContractNext
<1>11. CASE x.outcome = "open" /\ View(y) = [asked |-> x.at, outcome |-> "cancelled", raised |-> x.raised]
  <2>1. Contract!Abandoned(c)
    BY <1>1, <1>2, <1>6, <1>11 DEF Contract!Abandoned, View
  <2> QED
    BY <2>1 DEF Contract!ContractNext
<1> QED
  BY <1>4, <1>5, <1>7, <1>8, <1>9, <1>10, <1>11 DEF MovesTo, Fits

\* The route, with its probes, retries and groups of models, is the ordered route that
\* RouteContract describes: candidates in order, and the first failure at the end.
THEOREM RouteImplementsContract == RouteSpec => ImplementsRouteContract
<1>1. RouteInit => Contract!ContractInit
  BY DEF RouteInit, Contract!ContractInit, Seen, NoCall
<1>2. RouteInv /\ [RouteNext]_routeVars => [Contract!ContractNext]_Seen
  <2> SUFFICES ASSUME RouteInv, [RouteNext]_routeVars
               PROVE  Contract!ContractNext \/ UNCHANGED Seen
    OBVIOUS
  <2>1. CASE UNCHANGED routeVars
    BY <2>1 DEF routeVars, Seen
  <2> QED
    BY <2>1, CallerMoves, FitsContract DEF RouteNext
<1> QED
  BY <1>1, <1>2, RouteInvariant, PTL DEF RouteSpec, ImplementsRouteContract, Contract!ContractSpec

---------------------------------------------------------------------------
(***************************************************************************)
(* When the route falls back as documented.  A group of several models     *)
(* ends a call with an error that no candidate follows; without such a     *)
(* group before or after another candidate, provider failures alone never  *)
(* refuse a call.  The run route_group has the group that breaks it.       *)
(***************************************************************************)
Ungrouped == N = 1 \/ \A i \in DOMAIN Route : Route[i].models = 1

\* How a failed call has ended.
EndsAsDocumented(x) ==
  /\ x.outcome = "exhausted" => x.at = N /\ x.raised = 1
  /\ x.outcome = "refused" =>
       x.raised = x.at /\ x.at \in 1..N /\ (x.causes = {"provider"} => N = 1)

\* Where a call stands that a failure of the given cause has moved on or ended.
LEMMA FailureKinds ==
  ASSUME NEW c \in Callers, Sound(call[c]), Asking(c), NEW cause
  PROVE  /\ FailOver(c, cause).outcome # "refused"
         /\ cause \in Stopped(c, cause).causes
         /\ \A outcome : Over(c, outcome).outcome = outcome
<1>1. call[c] \in Call /\ call[c].outcome = "open"
  BY DEF Sound, Asking
<1>2. FailOver(c, cause).outcome # "refused"
  BY <1>1 DEF FailOver, Call
<1>3. cause \in Stopped(c, cause).causes
  BY <1>1 DEF Stopped, Call
<1>4. \A outcome : Over(c, outcome).outcome = outcome
  BY DEF Over, NoCall
<1> QED
  BY <1>2, <1>3, <1>4

\* An error other than a provider failure is among the causes of a call that it ends.
LEMMA RefusalHasCause ==
  ASSUME RouteInv, Ungrouped, NEW c \in Callers, Asking(c),
         \/ RouteStep(c)
         \/ Abandon(c),
         call'[c].outcome = "refused"
  PROVE  call'[c].causes = {"provider"} => N = 1
<1>1. Sound(call[c]) /\ call \in [Callers -> Call] /\ call[c].outcome = "open"
  BY DEF RouteInv, RouteTypeOK, Asking
<1>2. \A y : Becomes(c, y) => call'[c] = y
  BY <1>1 DEF Becomes
<1>3. ASSUME NEW cause, cause # "provider", call'[c] = Stopped(c, cause)
      PROVE  call'[c].causes # {"provider"}
  BY <1>1, <1>3, FailureKinds
<1>4. \A cause : call'[c] # FailOver(c, cause)
  BY <1>1, FailureKinds
<1>5. call'[c] # Over(c, "answer") /\ call'[c] # Over(c, "cancelled")
  BY <1>1, FailureKinds
<1>6. CASE RefusePrompt(c)
  BY <1>2, <1>3, <1>6 DEF RefusePrompt
<1>7. CASE Probe(c)
  <2>1. ~UNCHANGED call
    BY <1>1
  <2> QED
    BY <1>2, <1>3, <1>4, <1>7, <2>1 DEF Probe
<1>8. CASE Invoke(c)
  <2>1. call'[c] = Corrected(c) => call'[c] = Stopped(c, "application")
    <3>1. [call[c] EXCEPT !.attempt = @ + 1].outcome = "open"
      BY <1>1 DEF Sound, Call
    <3> QED
      BY <1>1, <1>4, <3>1 DEF Corrected
  <2>2. \/ \E end \in ProcessEnds : call'[c] = IF end = "os_error" THEN Stopped(c, "application")
                                               ELSE FailOver(c, "provider")
        \/ \E payload \in Payloads : call'[c] =
             CASE payload = "valid" -> Over(c, "answer")
               [] payload = "unframed" -> FailOver(c, "provider")
               [] payload = "invalid" -> Corrected(c)
               [] payload = "bad_arguments" -> FailOver(c, "provider")
               [] payload = "bad_action" -> Stopped(c, "application")
    BY <1>2, <1>8 DEF Invoke
  <2>3. call'[c] = Stopped(c, "application")
    BY <1>4, <1>5, <2>1, <2>2 DEF Payloads
  <2> QED
    BY <1>3, <2>3
<1>9. CASE AskModel(c)
  <2>1. ASSUME NEW cause \in {"provider", "status"}, call'[c] = ModelError(c, cause),
               N # 1
        PROVE  call'[c] = Stopped(c, "status")
    <3>1. Route[call[c].at].models = 1 /\ call[c].model \in 1..1
      BY <1>1, <2>1, RouteFacts DEF Ungrouped, Sound
    <3>2. ~(call[c].model < Route[call[c].at].models) /\ ~(Route[call[c].at].models > 1)
      BY <3>1
    <3> QED
      BY <1>4, <2>1, <3>2 DEF ModelError
  <2> QED
    BY <1>2, <1>3, <1>5, <1>9, <2>1 DEF AskModel
<1>10. CASE Abandon(c)
  BY <1>2, <1>5, <1>10 DEF Abandon
<1> QED
  BY <1>6, <1>7, <1>8, <1>9, <1>10 DEF RouteStep

\* Every step of every caller keeps the ends of the calls as documented.
LEMMA EndsStep ==
  ASSUME RouteInv, Ungrouped, [RouteNext]_routeVars,
         \A c \in Callers : EndsAsDocumented(call[c])
  PROVE  \A c \in Callers : EndsAsDocumented(call'[c])
<1>1. CASE UNCHANGED routeVars
  BY <1>1 DEF routeVars
<1>2. ASSUME NEW c \in Callers, 
             \/ Start(c)
             \/ \E op \in {"decide", "compose"}, prompt \in Prompts : Ask(c, op, prompt)
             \/ RouteStep(c)
             \/ Abandon(c)
      PROVE  \A d \in Callers : EndsAsDocumented(call'[d])
  <2>1. PICK y \in Call : MovesTo(c, y)
    BY <1>2, CallerMoves
  <2>2. call'[c] = y /\ \A d \in Callers \ {c} : call'[d] = call[d]
    BY <2>1 DEF MovesTo, RouteInv, RouteTypeOK
  <2>3. Fits(call[c], y) /\ EndsAsDocumented(call[c])
    BY <2>1 DEF MovesTo
  <2>4. CASE Asking(c)
    <3>1. RouteStep(c) \/ Abandon(c) \/ Start(c)
      BY <1>2, <2>4 DEF Ask
    <3>2. Start(c) => y = call[c]
      BY <2>2 DEF Start
    <3>3. call[c].outcome = "open" /\ View(y).outcome = y.outcome /\ View(y).asked = y.at
          /\ View(y).raised = y.raised /\ View(call[c]).outcome = "open"
      BY <2>4 DEF Asking, View
    <3>4. /\ y.outcome = "exhausted" => y.at = N /\ y.raised = 1
          /\ y.outcome = "refused" => y.raised = y.at /\ y.at = call[c].at
      BY <2>3, <3>3 DEF Fits
    <3>5. y.outcome = "refused" => (y.causes = {"provider"} => N = 1)
      BY <2>2, <2>4, <3>1, <3>2, <3>3, RefusalHasCause
    <3>6. call[c].at \in 1..N
      BY <2>4, RouteFacts DEF Asking, RouteInv, Sound
    <3>7. EndsAsDocumented(y)
      BY <3>4, <3>5, <3>6 DEF EndsAsDocumented
    <3> QED
      BY <2>2, <3>7
  <2>5. CASE ~Asking(c)
    <3>1. \/ Start(c)
          \/ \E op \in {"decide", "compose"}, prompt \in Prompts : Ask(c, op, prompt)
      BY <1>2, <2>5 DEF RouteStep, RefusePrompt, Probe, Invoke, AskModel, Abandon, Codex
    <3>2. Start(c) => y = call[c]
      BY <2>2 DEF Start
    <3>3. (\E op \in {"decide", "compose"}, prompt \in Prompts : Ask(c, op, prompt))
            => y.outcome = "open"
      BY <2>2 DEF Ask, NoCall, RouteInv, RouteTypeOK
    <3>4. EndsAsDocumented(y)
      BY <2>3, <3>1, <3>2, <3>3 DEF EndsAsDocumented
    <3> QED
      BY <2>2, <3>4
  <2> QED
    BY <2>4, <2>5
<1> QED
  BY <1>1, <1>2 DEF RouteNext

\* The route falls back whenever only provider failures have happened, and raises the first
\* of them at its end, if it is a single candidate or has no group of several API models.
THEOREM UngroupedRouteFallsBack ==
  ASSUME Ungrouped
  PROVE  RouteSpec => []ProviderFailuresFallBack
<1> DEFINE Ends == \A c \in Callers : EndsAsDocumented(call[c])
<1>1. RouteInit => Ends
  BY DEF RouteInit, NoCall, EndsAsDocumented
<1>2. RouteInv /\ Ends /\ [RouteNext]_routeVars => Ends'
  BY EndsStep
<1>3. RouteInv /\ Ends => ProviderFailuresFallBack
  <2> SUFFICES ASSUME RouteInv, Ends, NEW c \in Callers, Failed(c), call[c].causes = {"provider"}
               PROVE  call[c].at = N /\ call[c].raised = 1
    BY DEF ProviderFailuresFallBack
  <2>1. CASE call[c].outcome = "exhausted"
    BY <2>1 DEF EndsAsDocumented
  <2>2. CASE call[c].outcome = "refused"
    <3>1. N = 1 /\ call[c].raised = call[c].at /\ call[c].at \in 1..N
      BY <2>2 DEF EndsAsDocumented
    <3> QED
      BY <3>1
  <2> QED
    BY <2>1, <2>2 DEF Failed
<1> QED
  BY <1>1, <1>2, <1>3, RouteInvariant, PTL DEF RouteSpec

---------------------------------------------------------------------------
(***************************************************************************)
(* The routes that build_coordinator builds.                               *)
(***************************************************************************)
\* The targets among the first k that are asked by candidate c.
AskedBy(place, k, c) == {i \in 1..k : place[i] = c}

\* Every target i among the first k is asked by the candidate place[i], in the order of the
\* targets, and a candidate asks as many models as targets have become it.
Placed(route, targets, k, place) ==
  /\ place \in [1..k -> 1..Len(route)]
  /\ \A i, j \in 1..k : i <= j => place[i] <= place[j]
  /\ \A i \in 1..k : route[place[i]].kind = targets[i]
  /\ \A c \in 1..Len(route) : route[c].models = Cardinality(AskedBy(place, k, c))

\* The route groups the first k targets: no API candidates follow each other, and a Codex
\* candidate is one target.
IsGrouping(route, targets, k) ==
  /\ route \in Seq(Candidate)
  /\ \A c \in 1..(Len(route) - 1) : "codex" \in {route[c].kind, route[c + 1].kind}
  /\ \A c \in 1..Len(route) : route[c].kind = "codex" => route[c].models = 1
  /\ \E place : Placed(route, targets, k, place)

\* One more target asked by the last candidate counts for that candidate only.
LEMMA CountOneMore ==
  ASSUME NEW k \in Nat, NEW place, NEW longer, NEW last, NEW c,
         longer[k + 1] = last, \A i \in 1..k : longer[i] = place[i]
  PROVE  /\ Cardinality(AskedBy(place, k, c)) \in Nat
         /\ c = last => Cardinality(AskedBy(longer, k + 1, c)) = Cardinality(AskedBy(place, k, c)) + 1
         /\ c # last => Cardinality(AskedBy(longer, k + 1, c)) = Cardinality(AskedBy(place, k, c))
<1> DEFINE S == AskedBy(place, k, c)
           T == AskedBy(longer, k + 1, c)
<1>1. IsFiniteSet(S) /\ k + 1 \notin S
  <2>1. IsFiniteSet(1..k)
    BY FS_Interval
  <2> QED
    BY <2>1, FS_Subset DEF AskedBy
<1>2. \A i \in 1..(k + 1) : i \in 1..k \/ i = k + 1
  OBVIOUS
<1>3. k + 1 \in 1..(k + 1) /\ 1..k \subseteq 1..(k + 1)
  OBVIOUS
<1>4. c = last => T = S \cup {k + 1}
  BY <1>2, <1>3 DEF AskedBy
<1>5. c # last => T = S
  BY <1>2, <1>3 DEF AskedBy
<1> HIDE DEF S, T
<1>6. Cardinality(S) \in Nat
  BY <1>1, FS_CardinalityType
<1>7. Cardinality(S \cup {k + 1}) = Cardinality(S) + 1
  BY <1>1, FS_AddElement
<1>8. c = last => Cardinality(T) = Cardinality(S) + 1
  BY <1>4, <1>7
<1>9. c # last => Cardinality(T) = Cardinality(S)
  BY <1>5
<1> QED
  BY <1>6, <1>8, <1>9 DEF S, T

\* A target more keeps the route a sequence of candidates.
LEMMA AddTargetType ==
  ASSUME NEW route \in Seq(Candidate), NEW target \in Targets
  PROVE  AddTarget(route, target) \in Seq(Candidate)
<1>1. Len(route) \in Nat /\ \A i \in 1..Len(route) : route[i] \in Candidate
  OBVIOUS
<1>2. CASE target = "api" /\ route # <<>> /\ Last(route).kind = "api"
  <2>1. Len(route) \in 1..Len(route)
    BY <1>2
  <2>2. \A x \in Candidate : [x EXCEPT !.models = x.models + 1] \in Candidate
    BY DEF Candidate
  <2>3. AddTarget(route, target) =
          [route EXCEPT ![Len(route)] =
             [route[Len(route)] EXCEPT !.models = route[Len(route)].models + 1]]
    BY <1>2 DEF AddTarget
  <2> QED
    BY <1>1, <2>1, <2>2, <2>3
<1>3. CASE ~(target = "api" /\ route # <<>> /\ Last(route).kind = "api")
  <2>1. [kind |-> target, models |-> 1] \in Candidate
    BY DEF Candidate, Targets
  <2>2. AddTarget(route, target) = Append(route, [kind |-> target, models |-> 1])
    BY <1>3 DEF AddTarget
  <2> QED
    BY <2>1, <2>2
<1> QED
  BY <1>2, <1>3

\* The loop over the targets, target by target.
LEMMA GroupedLoop ==
  ASSUME NEW targets \in Seq(Targets)
  PROVE  \E built \in [0..Len(targets) -> Seq(Candidate)] :
           /\ built[0] = <<>>
           /\ \A k \in 1..Len(targets) : built[k] = AddTarget(built[k - 1], targets[k])
           /\ Grouped(targets) = built[Len(targets)]
<1> DEFINE n == Len(targets)
           St == Seq(Candidate)
           Iterates(f) == f = [s \in SUBSET DOMAIN targets |->
                                 IF s = {} THEN <<>>
                                 ELSE AddTarget(f[s \ {Max(s)}], targets[Max(s)])]
           iter == CHOOSE f : Iterates(f)
           g == [x \in (1..n) \X St |-> AddTarget(x[2], targets[x[1]])]
<1>1. n \in Nat /\ DOMAIN targets = 1..n /\ \A i \in 1..n : targets[i] \in Targets
  OBVIOUS
<1>2. <<>> \in St
  OBVIOUS
<1>3. g \in [(1..n) \X St -> St]
  <2>1. \A x \in (1..n) \X St : AddTarget(x[2], targets[x[1]]) \in St
    <3> SUFFICES ASSUME NEW x \in (1..n) \X St PROVE AddTarget(x[2], targets[x[1]]) \in St
      OBVIOUS
    <3>1. x[2] \in Seq(Candidate) /\ targets[x[1]] \in Targets
      BY <1>1
    <3> QED
      BY <3>1, AddTargetType
  <2> QED
    BY <2>1
<1>4. ASSUME NEW k \in 1..n, NEW x \in St PROVE g[k, x] = AddTarget(x, targets[k])
  OBVIOUS
<1> HIDE DEF g, St
<1>5. \A s \in SUBSET (1..n) : s # {} => Max(s) \in 1..n
  BY <1>1, MaxOfSubset
<1>6. PICK F : IsFold(F, St, n, <<>>, g)
  BY <1>1, <1>2, <1>3, FoldExists
<1>7. \A s \in SUBSET (1..n) : s # {} => F[s] = AddTarget(F[s \ {Max(s)}], targets[Max(s)])
  BY <1>4, <1>5, <1>6 DEF IsFold
<1>8. Iterates(F)
  BY <1>1, <1>6, <1>7 DEF IsFold
<1>9. Iterates(iter)
  BY <1>8
<1>10. Grouped(targets) = iter[1..n]
  BY <1>1 DEF Grouped, FoldLeft, MapThenFoldSet
<1> HIDE DEF iter
<1>11. iter[{}] = <<>>
  BY <1>9
<1>12. Iterated(iter, St, n, <<>>, g)
  BY <1>1, <1>4, <1>5, <1>9, <1>11 DEF Iterated
<1>13. PICK built : IsLoop(built, St, n, <<>>, g, iter[1..n])
  BY <1>1, <1>2, <1>3, <1>12, FoldLoop
<1>14. ASSUME NEW k \in 1..n PROVE built[k] = AddTarget(built[k - 1], targets[k])
  <2>1. k - 1 \in 0..n
    BY <1>1
  <2> QED
    BY <1>4, <1>13, <2>1 DEF IsLoop
<1> QED
  BY <1>10, <1>13, <1>14 DEF IsLoop, St

\* One target more keeps the route a grouping of the targets so far.
LEMMA AddTargetGroups ==
  ASSUME NEW targets \in Seq(Targets), NEW k \in Nat, k + 1 <= Len(targets), NEW route,
         IsGrouping(route, targets, k)
  PROVE  IsGrouping(AddTarget(route, targets[k + 1]), targets, k + 1)
<1> DEFINE l == Len(route)
           t == targets[k + 1]
           next == AddTarget(route, t)
           Joins == t = "api" /\ route # <<>> /\ Last(route).kind = "api"
<1>1. route \in Seq(Candidate) /\ l \in Nat /\ t \in Targets /\ DOMAIN route = 1..l
      /\ \A c \in 1..l : route[c] \in Candidate
  BY DEF IsGrouping
<1>2. /\ \A c \in 1..(l - 1) : "codex" \in {route[c].kind, route[c + 1].kind}
      /\ \A c \in 1..l : route[c].kind = "codex" => route[c].models = 1
  BY DEF IsGrouping
<1>3. PICK place : Placed(route, targets, k, place)
  BY DEF IsGrouping
<1>4. /\ place \in [1..k -> 1..l]
      /\ \A i, j \in 1..k : i <= j => place[i] <= place[j]
      /\ \A i \in 1..k : route[place[i]].kind = targets[i]
      /\ \A c \in 1..l : route[c].models = Cardinality(AskedBy(place, k, c))
  BY <1>3 DEF Placed
<1>5. next \in Seq(Candidate)
  BY <1>1, AddTargetType
<1> DEFINE last == IF Joins THEN l ELSE l + 1
           longer == [i \in 1..(k + 1) |-> IF i = k + 1 THEN last ELSE place[i]]
<1>6. last \in 1..(l + 1) /\ last >= l
  BY <1>1
<1>7. longer[k + 1] = last /\ (\A i \in 1..k : longer[i] = place[i])
      /\ \A i \in 1..(k + 1) : i \in 1..k \/ i = k + 1
  OBVIOUS
<1>8. ASSUME NEW c \in 1..(l + 1)
      PROVE  /\ Cardinality(AskedBy(place, k, c)) \in Nat
             /\ c = last => Cardinality(AskedBy(longer, k + 1, c)) = Cardinality(AskedBy(place, k, c)) + 1
             /\ c # last => Cardinality(AskedBy(longer, k + 1, c)) = Cardinality(AskedBy(place, k, c))
  <2> HIDE DEF longer, last, l
  <2> QED
    BY <1>7, CountOneMore
<1>9. /\ Len(next) = last
      /\ \A c \in 1..l : next[c].kind = route[c].kind
      /\ next[last].kind = t
      /\ \A c \in 1..l : c = last => next[c].models = route[c].models + 1
      /\ \A c \in 1..l : c # last => next[c].models = route[c].models
      /\ last = l + 1 => next[last].models = 1
      /\ \A c \in 1..last : next[c].kind = "codex" => next[c].models = 1
      /\ \A c \in 1..(last - 1) : "codex" \in {next[c].kind, next[c + 1].kind}
  <2>0. \A c \in 1..l : route[c].models \in Nat /\ route[c].kind \in Targets
        /\ \A x : [route[c] EXCEPT !.models = x].models = x
        /\ \A y : [route[c] EXCEPT !.models = y].kind = route[c].kind
    BY <1>1 DEF Candidate, Targets
  <2>1. CASE Joins
    <3>1. last = l /\ l \in 1..l /\ route[l].kind = "api" /\ t = "api"
      BY <1>1, <2>1 DEF Last
    <3>2. next = [route EXCEPT ![l] = [route[l] EXCEPT !.models = route[l].models + 1]]
      BY <2>1 DEF AddTarget
    <3> HIDE DEF next, last, t, l
    <3>3. next[l] = [route[l] EXCEPT !.models = route[l].models + 1]
          /\ \A c \in 1..l : c # l => next[c] = route[c]
      BY <1>1, <3>1, <3>2
    <3>4. Len(next) = l
      BY <1>1, <3>2 DEF l
    <3>5. next[l].kind = "api" /\ next[l].models = route[l].models + 1
      BY <2>0, <3>1, <3>3
    <3>6. \A c \in 1..l : next[c].kind = route[c].kind
      BY <3>1, <3>3, <3>5
    <3>7. /\ \A c \in 1..l : c = l => next[c].models = route[c].models + 1
          /\ \A c \in 1..l : c # l => next[c].models = route[c].models
      BY <3>3, <3>5
    <3>8. \A c \in 1..l : next[c].kind = "codex" => next[c].models = 1
      BY <1>2, <3>3, <3>5
    <3>9. \A c \in 1..(l - 1) : c \in 1..l /\ c + 1 \in 1..l
      BY <1>1
    <3> QED
      BY <1>1, <1>2, <3>1, <3>4, <3>5, <3>6, <3>7, <3>8, <3>9
  <2>2. CASE ~Joins
    <3> DEFINE new == [kind |-> t, models |-> 1]
    <3>1. last = l + 1 /\ next = Append(route, new)
      BY <2>2 DEF AddTarget
    <3>2. new.kind = t /\ new.models = 1
      OBVIOUS
    <3>3. l # 0 => t = "codex" \/ route[l].kind # "api"
      BY <1>1, <2>2 DEF Last, Targets
    <3> HIDE DEF new, next, last, t
    <3>4. Len(next) = l + 1 /\ next[l + 1] = new /\ \A c \in 1..l : next[c] = route[c]
      BY <1>1, <3>1
    <3> HIDE DEF l
    <3>5. \A c \in 1..l : c # l + 1
      BY <1>1
    <3>6. \A c \in 1..(l + 1) : c \in 1..l \/ c = l + 1
      BY <1>1
    <3>7. \A c \in 1..l : c = l \/ (c \in 1..(l - 1) /\ c + 1 \in 1..l)
      BY <1>1
    <3>8. \A c \in 1..l : "codex" \in {next[c].kind, next[c + 1].kind}
      <4> SUFFICES ASSUME NEW c \in 1..l PROVE "codex" \in {next[c].kind, next[c + 1].kind}
        OBVIOUS
      <4>1. CASE c = l
        <5>1. l # 0 /\ l \in 1..l
          BY <1>1, <4>1
        <5>2. route[l].kind \in Targets /\ next[l] = route[l] /\ next[l + 1].kind = t
          BY <2>0, <3>2, <3>4, <5>1
        <5> QED
          BY <3>3, <4>1, <5>1, <5>2 DEF Targets
      <4>2. CASE c \in 1..(l - 1) /\ c + 1 \in 1..l
        BY <1>2, <3>4, <4>2
      <4> QED
        BY <3>7, <4>1, <4>2
    <3>9. (l + 1) - 1 = l
      BY <1>1
    <3>10. \A c \in 1..l : c # l + 1 /\ next[c].models = route[c].models
      BY <3>4, <3>5
    <3>11. \A c \in 1..(l + 1) : next[c].kind = "codex" => next[c].models = 1
      BY <1>2, <3>2, <3>4, <3>6
    <3> QED
      BY <3>1, <3>2, <3>4, <3>8, <3>9, <3>10, <3>11
  <2> QED
    BY <2>1, <2>2
<1> HIDE DEF last, longer, next, l
<1>10. Placed(next, targets, k + 1, longer)
  <2>1. longer \in [1..(k + 1) -> 1..Len(next)]
    BY <1>1, <1>4, <1>6, <1>7, <1>9 DEF longer
  <2>2. \A i, j \in 1..(k + 1) : i <= j => longer[i] <= longer[j]
    <3> SUFFICES ASSUME NEW i \in 1..(k + 1), NEW j \in 1..(k + 1), i <= j
                 PROVE  longer[i] <= longer[j]
      OBVIOUS
    <3>1. CASE j = k + 1
      <4>1. longer[i] = last \/ (longer[i] \in 1..l)
        BY <1>4, <1>7
      <4>2. longer[j] = last /\ last >= l
        BY <1>6, <1>7, <3>1
      <4> QED
        BY <1>1, <1>6, <4>1, <4>2
    <3>2. CASE j # k + 1
      <4>1. i \in 1..k /\ j \in 1..k
        BY <3>2
      <4> QED
        BY <1>4, <1>7, <4>1
    <3> QED
      BY <3>1, <3>2
  <2>3. \A i \in 1..(k + 1) : next[longer[i]].kind = targets[i]
    <3> SUFFICES ASSUME NEW i \in 1..(k + 1) PROVE next[longer[i]].kind = targets[i]
      OBVIOUS
    <3>1. CASE i \in 1..k
      BY <1>4, <1>7, <1>9, <3>1
    <3>2. CASE i = k + 1
      BY <1>7, <1>9, <3>2
    <3> QED
      BY <1>7, <3>1, <3>2
  <2>4. \A c \in 1..Len(next) : next[c].models = Cardinality(AskedBy(longer, k + 1, c))
    <3> SUFFICES ASSUME NEW c \in 1..last
                 PROVE  next[c].models = Cardinality(AskedBy(longer, k + 1, c))
      BY <1>9
    <3>1. c \in 1..(l + 1)
      BY <1>1, <1>6
    <3>2. CASE c \in 1..l
      BY <1>4, <1>8, <1>9, <3>1, <3>2
    <3>3. CASE c \notin 1..l
      <4>1. c = last /\ last = l + 1
        BY <1>1, <1>6, <3>3
      <4>2. AskedBy(place, k, c) = {}
        BY <1>1, <1>4, <4>1 DEF AskedBy
      <4>3. Cardinality(AskedBy(longer, k + 1, c)) = 0 + 1
        BY <1>8, <3>1, <4>1, <4>2, FS_EmptySet
      <4> QED
        BY <1>9, <4>1, <4>3
    <3> QED
      BY <3>2, <3>3
  <2> QED
    BY <2>1, <2>2, <2>3, <2>4 DEF Placed
<1>11. IsGrouping(next, targets, k + 1)
  BY <1>5, <1>9, <1>10 DEF IsGrouping
<1> QED
  BY <1>11 DEF next

\* What build_coordinator makes of any list of targets: candidates in the order of the
\* targets, each target in one of them, Codex alone and neighbouring API targets together.
\* With at least one target it is a route as RouteAssumption asks.
THEOREM GroupedIsARoute ==
  ASSUME NEW targets \in Seq(Targets)
  PROVE  /\ IsGrouping(Grouped(targets), targets, Len(targets))
         /\ targets # <<>> => Grouped(targets) \in Seq(Candidate) /\ Len(Grouped(targets)) \in Nat \ {0}
<1> DEFINE n == Len(targets)
<1>1. PICK built \in [0..n -> Seq(Candidate)] :
        /\ built[0] = <<>>
        /\ \A k \in 1..n : built[k] = AddTarget(built[k - 1], targets[k])
        /\ Grouped(targets) = built[n]
  BY GroupedLoop
<1>2. n \in Nat
  OBVIOUS
<1> DEFINE P == {k \in Nat : k <= n => IsGrouping(built[k], targets, k)}
<1>3. 0 \in P
  <2>1. Placed(<<>>, targets, 0, <<>>)
    BY DEF Placed
  <2>2. IsGrouping(<<>>, targets, 0)
    BY <2>1 DEF IsGrouping
  <2> QED
    BY <1>1, <2>2
<1>4. ASSUME NEW k \in Nat, k \in P PROVE k + 1 \in P
  <2> SUFFICES ASSUME k + 1 <= n PROVE IsGrouping(built[k + 1], targets, k + 1)
    OBVIOUS
  <2>1. k + 1 \in 1..n /\ (k + 1) - 1 = k /\ k <= n
    BY <1>2
  <2>2. IsGrouping(built[k], targets, k) /\ built[k + 1] = AddTarget(built[k], targets[k + 1])
    BY <1>1, <1>4, <2>1
  <2> QED
    BY <2>2, AddTargetGroups
<1> HIDE DEF P
<1>5. n \in P
  BY <1>2, <1>3, <1>4, NatSet
<1>6. IsGrouping(Grouped(targets), targets, n)
  BY <1>1, <1>2, <1>5 DEF P
<1>7. targets # <<>> => Len(Grouped(targets)) # 0
  <2> SUFFICES ASSUME targets # <<>>, Len(Grouped(targets)) = 0 PROVE FALSE
    OBVIOUS
  <2>1. 1 \in 1..n
    OBVIOUS
  <2>2. PICK place : Placed(Grouped(targets), targets, n, place)
    BY <1>6 DEF IsGrouping
  <2>3. place[1] \in 1..0
    BY <2>1, <2>2 DEF Placed
  <2> QED
    BY <2>3
<1>8. Grouped(targets) \in Seq(Candidate)
  BY <1>6 DEF IsGrouping
<1> QED
  BY <1>6, <1>7, <1>8
=============================================================================
