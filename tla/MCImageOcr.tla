----------------------------- MODULE MCImageOcr -----------------------------
(* A small instance of ImageOcr for TLC: the operations of one account on  *)
(* one image, in different languages.                                      *)
EXTENDS ImageOcr

CONSTANTS o1, o2, a1, f1, f2, f3, f4

SameSource == [o \in Ops |-> a1]
=============================================================================
