--------------------------- MODULE MCManualTopup ---------------------------
(* Small instances of ManualTopup for TLC.                                 *)
EXTENDS ManualTopup, TLC

CONSTANTS r1, a1, s1, s2, h1, h2, u1, u2

OneOwner == [r \in Requests |-> a1]
SomeAmount == [r \in Requests |-> 100]

\* Sessions, handlers and user ids are interchangeable.
Symmetric == Permutations(Sessions) \cup Permutations(Handlers) \cup Permutations(Users)
=============================================================================
