---------------------------- MODULE MCARRollout ----------------------------
(* A small instance of ARRollout for TLC.                                    *)
EXTENDS ARRollout, TLC

CONSTANTS s0, s1, s2

\* The default session is not like the others; prompts and images are alike.
Alike == Permutations({s1, s2}) \cup Permutations(Prompt) \cup Permutations(Clip)
=============================================================================
