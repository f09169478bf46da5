---------------------------- MODULE MCLifecycle ----------------------------
(* Bounds for the checks of Lifecycle: all its constants are in the .cfg.  *)
EXTENDS Lifecycle, TLC
=============================================================================
