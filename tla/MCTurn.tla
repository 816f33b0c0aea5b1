------------------------------- MODULE MCTurn -------------------------------
(***************************************************************************)
(* Instance of Turn: one action of each kind, and the same with a risk     *)
(* level the adapters refuse.                                              *)
(***************************************************************************)
EXTENDS Turn, TLC

Act(op, risk, onFiles, withTests) ==
  [op |-> op, risk |-> risk, files |-> onFiles, tests |-> withTests, network |-> FALSE]

MCActions ==
  {Act("code_task", "risky", {"f1"}, TRUE), Act("code_task", "write", {"f1"}, FALSE),
   Act("write_file", "write", {"f1"}, FALSE), Act("write_file", "read", {"f1"}, FALSE),
   [Act("run_command", "risky", {}, FALSE) EXCEPT !.network = TRUE],
   Act("create_workspace", "write", {}, FALSE), Act("change_task", "write", {}, FALSE),
   Act("read_file", "read", {}, FALSE), Act("list_tasks", "read", {}, FALSE),
   Act("search", "read", {}, FALSE)}

MixedRoute == Grouped(<<"codex", "api">>)

TurnSymmetry == Permutations(Turns)
=============================================================================
