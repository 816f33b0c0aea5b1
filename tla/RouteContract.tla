----------------------------- MODULE RouteContract -----------------------------
(***************************************************************************)
(* What the ordered route of coordinators promises to the graph's nodes,   *)
(* whatever a candidate does inside (FallbackCoordinator._call in          *)
(* models/coordinator.py): the candidates of a call are asked one after    *)
(* the other, the next one only when the one before reported a provider    *)
(* failure; the call ends with the answer of the candidate asked last, or  *)
(* with that candidate's error when it is no provider failure, or, when    *)
(* every candidate has failed, with the failure of the first.              *)
(***************************************************************************)
EXTENDS Naturals

CONSTANTS
  Callers,    \* processes that hold a coordinator
  Candidates  \* number of candidates of the route, at least one

VARIABLE request  \* per caller: candidates asked, how the call ended, whose error it raised

Request ==
  [asked : 0..Candidates,
   outcome : {"none", "open", "answer", "refused", "exhausted", "cancelled"},
   raised : 0..Candidates]

ContractTypeOK == request \in [Callers -> Request]

ContractInit == request = [c \in Callers |-> [asked |-> 0, outcome |-> "none", raised |-> 0]]

Open(c) == request[c].outcome = "open"

Begin(c) ==
  /\ ~Open(c)
  /\ request' = [request EXCEPT ![c] = [asked |-> 1, outcome |-> "open", raised |-> 0]]

FallBack(c) ==
  /\ Open(c)
  /\ request[c].asked < Candidates
  /\ request' = [request EXCEPT ![c].asked = @ + 1]

Answered(c) ==
  /\ Open(c)
  /\ request' = [request EXCEPT ![c].outcome = "answer"]

Refused(c) ==
  /\ Open(c)
  /\ request' = [request EXCEPT ![c].outcome = "refused", ![c].raised = request[c].asked]

Exhausted(c) ==
  /\ Open(c)
  /\ request[c].asked = Candidates
  /\ request' = [request EXCEPT ![c].outcome = "exhausted", ![c].raised = 1]

Abandoned(c) ==
  /\ Open(c)
  /\ request' = [request EXCEPT ![c].outcome = "cancelled"]

ContractNext ==
  \E c \in Callers :
    Begin(c) \/ FallBack(c) \/ Answered(c) \/ Refused(c) \/ Exhausted(c) \/ Abandoned(c)

ContractSpec == ContractInit /\ [][ContractNext]_request
=============================================================================
