------------------------- MODULE ApprovalLifecycle -------------------------
(***************************************************************************)
(* What the approval service promises about one approval request: it is    *)
(* asked once, a human decides it once, and the decision stands.  An       *)
(* approval of a write licenses later writes of the same scope; nothing    *)
(* else does.                                                              *)
(***************************************************************************)
CONSTANTS Requests, Licensable

VARIABLES
  verdict,   \* verdict[r]: "none", "pending", "approved" or "denied"
  licensed   \* the requests a grant was issued for

Ask(r) ==
  /\ verdict[r] = "none"
  /\ verdict' = [verdict EXCEPT ![r] = "pending"]
  /\ UNCHANGED licensed

Approve(r) ==
  /\ verdict[r] = "pending"
  /\ verdict' = [verdict EXCEPT ![r] = "approved"]
  /\ licensed' \in {licensed, licensed \cup ({r} \cap Licensable)}

Deny(r) ==
  /\ verdict[r] = "pending"
  /\ verdict' = [verdict EXCEPT ![r] = "denied"]
  /\ UNCHANGED licensed

LifecycleInit ==
  /\ verdict = [r \in Requests |-> "none"]
  /\ licensed = {}

LifecycleNext == \E r \in Requests : Ask(r) \/ Approve(r) \/ Deny(r)

LifecycleSpec == LifecycleInit /\ [][LifecycleNext]_<<verdict, licensed>>
=============================================================================
