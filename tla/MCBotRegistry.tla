----------------------------- MODULE MCBotRegistry -----------------------------
(* Instances of BotRegistry for TLC.  Nicks, commands and handlers are        *)
(* interchangeable.                                                           *)
EXTENDS BotRegistry, TLC

CONSTANTS dragon, opbot, c1, h1, h2

Symmetry == Permutations(Nicks) \cup Permutations(Calls)
================================================================================
