---------------------------- MODULE MCOrchestrator ----------------------------
(* Instances of Orchestrator for TLC: every companion is one of par's.         *)
EXTENDS Orchestrator

CONSTANTS par, comp, repA, repB, repD

OwnerIsP == [c \in Companion |-> par]
=============================================================================
