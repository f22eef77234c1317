-------------------------- MODULE MCEngineLifecycle --------------------------
(* An instance of EngineLifecycle for TLC: all constants are in the cfg. *)
EXTENDS EngineLifecycle
==============================================================================
