--------------------------- MODULE MCOmniCoordinator ---------------------------
(* OmniCoordinator for model checking. *)
EXTENDS OmniCoordinator
CONSTANTS a, b
================================================================================
