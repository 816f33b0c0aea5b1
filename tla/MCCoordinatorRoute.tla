------------------------- MODULE MCCoordinatorRoute -------------------------
(***************************************************************************)
(* Instance of CoordinatorRoute alone: two API models, which become one    *)
(* group, and the Codex CLI after them.                                    *)
(***************************************************************************)
EXTENDS CoordinatorRoute

GroupFirst == Grouped(<<"api", "api", "codex">>)
=============================================================================
