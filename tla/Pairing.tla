------------------------------ MODULE Pairing ------------------------------
(***************************************************************************)
(* What matchmaking promises, whatever queues and channels it uses: a call *)
(* waits, is paired once or given up, and both sides of a pair share its   *)
(* fate.  An outsider is an AI, or a player nothing is promised to.        *)
(***************************************************************************)
EXTENDS Naturals

CONSTANTS Call, Caller, Outsider, NoCall

VARIABLES
  status,   \* "new", "waiting", "left", "matched", "playing" or "failed"
  mate      \* whom each call is paired with

vars == <<status, mate>>

Init ==
  /\ status = [c \in Call |-> "new"]
  /\ mate = [c \in Call |-> NoCall]

\* The calls of S, and no others, change to status s.
Become(S, s) == status' = [c \in Call |-> IF c \in S THEN s ELSE status[c]]

Join(c) ==
  /\ status[c] = "new"
  /\ Become({c}, "waiting")
  /\ UNCHANGED mate

Leave(c) ==
  /\ status[c] = "waiting"
  /\ Become({c}, "left")
  /\ UNCHANGED mate

\* Several pairs may be made at once.  Nobody is paired with itself, and a
\* call is the mate of its mate.
Pair(S) ==
  /\ S # {} /\ Become(S, "matched")
  /\ \A c \in Call \ S : mate'[c] = mate[c]
  /\ \A c \in S :
       \/ mate'[c] = Outsider
       \/ /\ mate'[c] \in S /\ mate'[mate'[c]] = c
          /\ Caller[mate'[c]] # Caller[c]

\* The game starts, or not, for both sides.
Settle(c, s) ==
  /\ status[c] = "matched"
  /\ Become({c, mate[c]} \cap Call, s)
  /\ UNCHANGED mate

Next ==
  \/ \E c \in Call : Join(c) \/ Leave(c)
  \/ \E S \in SUBSET {c \in Call : status[c] = "waiting"} : Pair(S)
  \/ \E c \in Call : \E s \in {"playing", "failed"} : Settle(c, s)

Spec == Init /\ [][Next]_vars
=============================================================================
