--------------------------- MODULE MCDisaggRollout ---------------------------
(* A small instance of DisaggRollout for TLC.                                *)
EXTENDS DisaggRollout, TLC

CONSTANTS s0, s1

Alike == Permutations(Prompt)
=============================================================================
