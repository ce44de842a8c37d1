------------------------------ MODULE MCModeration ------------------------------
(* Constants for model checking Moderation.                                 *)
EXTENDS Moderation, TLC

CONSTANTS ann, op, dragon, p1, p2, t1, none, rest
================================================================================
