----------------------------- MODULE MCSnooper -----------------------------
(* A small instance of Snooper for TLC; the constants are in the cfg.      *)
EXTENDS SnooperProps
=============================================================================
