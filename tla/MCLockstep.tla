----------------------------- MODULE MCLockstep -----------------------------
(***************************************************************************)
(* Small lockstep games for TLC: two clients, P1 the one that diverges.    *)
(***************************************************************************)
EXTENDS Lockstep

CONSTANTS P1, P2

Both == {P1, P2}
First == {P1}
Second == {P2}
TwoAndOne == [p \in Both |-> IF p = P1 THEN 2 ELSE 1]
NoneAndTwo == [p \in Both |-> IF p = P1 THEN 0 ELSE 2]
=============================================================================
