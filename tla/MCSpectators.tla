---------------------------- MODULE MCSpectators ----------------------------
(***************************************************************************)
(* A small instance of Spectators: a1 and a2 join under the same id.       *)
(***************************************************************************)
EXTENDS Spectators

CONSTANTS A, B, a1, a2, b1

SomeWho == [c \in Call |-> IF c = b1 THEN B ELSE A]
=============================================================================
