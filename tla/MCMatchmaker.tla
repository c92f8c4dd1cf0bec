---------------------------- MODULE MCMatchmaker ----------------------------
(***************************************************************************)
(* Small instances of Matchmaker.                                          *)
(***************************************************************************)
EXTENDS Matchmaker, TLC

CONSTANTS A, B, C, a1, a2, b1, c1, c2, c3, normal, ranked

\* A comes back once.  C is hasty: it may be queued twice, for an AI with its
\* second call, in another queue with its third.
MixedCaller == [c \in Call |-> CASE c \in {a1, a2} -> A [] c = b1 -> B [] OTHER -> C]
MixedKind == [c \in Call |-> IF c \in {a2, c3} THEN ranked ELSE normal]
MixedRating == [c \in Call |-> CASE c \in {a1, a2} -> 0 [] c = b1 -> 400 [] OTHER -> 100]
=============================================================================
