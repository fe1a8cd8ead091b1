---------------------------- MODULE MCStepRunner ----------------------------
(* Small instances of StepRunner for TLC.                                    *)
EXTENDS StepRunner

CONSTANTS r1, r2, r3, kA, kB

\* Two keys, interleaved, so that a wave ends at an incompatible request.
MCKeyOf == [r \in Request |-> IF r \in {r1, r3} THEN kA ELSE kB]

\* r2 asks to resume at a step, which only the scheduler notes.
MCStartAt == [r \in Request |-> IF r = r2 THEN 1 ELSE 0]

\* Without is SelectSeq: compared on every queue of up to four entries.
ASSUME WithoutIsSelectSeq ==
    \A n \in 0..4 : \A s \in [1..n -> Request] : \A S \in SUBSET Request :
        Without(s, S) = SelectSeq(s, LAMBDA r : r \notin S)
=============================================================================
