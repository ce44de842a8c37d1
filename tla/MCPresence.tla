------------------------------- MODULE MCPresence -------------------------------
(* Constants for model checking Presence.                                   *)
EXTENDS Presence, TLC

CONSTANTS ann, bob, op, api

Symmetry == Permutations(Nicks)
================================================================================
