---------------------------- MODULE MCTelegramBot ----------------------------
(***************************************************************************)
(* Instances of TelegramBot: identities of one group chat, each of whom    *)
(* sees and can press every card.                                          *)
(***************************************************************************)
EXTENDS TelegramBot, TLC

\* Pollers are interchangeable, and so are allowlisted identities.
TelegramSymmetry == Permutations(Bots) \cup Permutations(Chatters)
=============================================================================
