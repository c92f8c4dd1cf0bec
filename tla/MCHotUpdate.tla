---------------------------- MODULE MCHotUpdate ----------------------------
(***************************************************************************)
(* A small instance of HotUpdate: two fields, and updates that set one of  *)
(* them, both, or one of them to 0.                                        *)
(***************************************************************************)
EXTENDS HotUpdate

CONSTANTS cost, attack

Set(c, a) == [f \in Field |-> IF f = cost THEN c ELSE a]
SomeUpdates == {Set(1, Unset), Set(2, 1), Set(Unset, 0)}
=============================================================================
