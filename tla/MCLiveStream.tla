---------------------------- MODULE MCLiveStream ----------------------------
(* A small instance of LiveStream for TLC.                                 *)
EXTENDS LiveStream

CONSTANTS s1, s2
=============================================================================
