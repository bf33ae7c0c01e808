--------------------------- MODULE MCKeyedWrites ---------------------------
(* A small instance of KeyedWrites for TLC: every row of PortalWrites.     *)
EXTENDS PortalWrites

CONSTANTS v1, v2
=============================================================================
