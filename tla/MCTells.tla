--------------------------------- MODULE MCTells ---------------------------------
(* Constants for model checking Tells.                                      *)
EXTENDS Tells

CONSTANT ann
================================================================================
