------------------------- MODULE MCServiceLifecycle -------------------------
(* Small instances of ServiceLifecycle for TLC.                            *)
EXTENDS ServiceLifecycle
=============================================================================
