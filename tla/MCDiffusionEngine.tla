-------------------------- MODULE MCDiffusionEngine --------------------------
(* Small instances of DiffusionEngine for TLC.                               *)
EXTENDS DiffusionEngine

CONSTANTS r1, r2, r3, kA, kB

\* r2 cannot join a batch of r1.
MCKeyOf == [r \in Request |-> IF r \in {r1, r3} THEN kA ELSE kB]
=============================================================================
