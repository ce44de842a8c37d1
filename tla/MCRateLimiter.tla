----------------------------- MODULE MCRateLimiter -----------------------------
(* Constants for model checking RateLimiter: three interchangeable keys.    *)
EXTENDS RateLimiter, TLC

CONSTANTS web, cli, bot

Symmetry == Permutations(Keys)
================================================================================
