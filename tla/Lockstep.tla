------------------------------ MODULE Lockstep ------------------------------
(***************************************************************************)
(* The lockstep engine of one game (backend/internal/lockstep), the parts  *)
(* of GameInstance that drive it, and the clients that number their        *)
(* requests and acknowledge frames.                                        *)
(*                                                                         *)
(* A request is validated, applied and made pending under GameInstance.mu, *)
(* so SubmitAction is one step although it takes the engine's own lock     *)
(* twice.  An acknowledgement only takes the engine's lock.  A rollback    *)
(* runs in a goroutine of its own, some time after the acknowledgement     *)
(* that asked for it.                                                      *)
(*                                                                         *)
(* A snapshot's hash is what it is computed from: the frame number, the    *)
(* state of the game (here the actions accepted so far, those the rules    *)
(* then refuse included) and the actions of the frame.                     *)
(*                                                                         *)
(* Left out: rollbackInProgress, which is set and cleared under mu, and    *)
(* confirmedActions and playerHashChecks, which are never read.  What      *)
(* becomes of a finished game is not the engine's concern: the model stops *)
(* there.  Left out too: go e.onDesync, whose event without an entity ends *)
(* the process once it is broadcast (game_instance.go:419).  The model     *)
(* goes on after a desync, for any time, and may stop by EndGame as well.  *)
(***************************************************************************)
EXTENDS Integers, Sequences, FiniteSets, SequencesExt

CONSTANTS
  Player,
  HashAcks,       \* the clients whose acknowledgements carry a hash
  Diverged,       \* those among them that compute a wrong one
  Conceders,      \* the clients that may concede
  Reliable,       \* TRUE: a client awaits each reply, and no request is lost
  MaxHistory,     \* MaxSnapshotHistory
  Threshold,      \* desyncThreshold
  MaxFrame,       \* bound on the frames generated
  MaxRequest,     \* bound on the numbered requests of each client
  MaxAck,         \* bound on the acknowledgements on their way
  MaxRollback     \* bound on the rollback goroutines not yet run

ASSUME LockstepAssumption ==
  /\ Diverged \subseteq HashAcks /\ HashAcks \subseteq Player
  /\ Conceders \subseteq Player
  /\ Reliable \in BOOLEAN
  /\ MaxHistory \in Nat \ {0} /\ Threshold \in Nat \ {0}
  /\ MaxFrame \in Nat /\ MaxRequest \in [Player -> Nat]
  /\ MaxAck \in Nat /\ MaxRollback \in Nat

VARIABLES
  frame,       \* currentFrame
  snap,        \* currentSnapshot
  store,       \* snapshots, by frame number
  order,       \* snapshotOrder
  pending,     \* pendingActions[p]: the sequence numbers in the map
  seqs,        \* playerSequences
  acked,       \* playerAcks
  desync,      \* desyncCount
  rollbacks,   \* the snapshots captured by rollback goroutines not yet run
  finished,    \* the GameState is finished
  counter,     \* _sequenceCounter of each client
  known,       \* the latest snapshot each client has received
  requests,    \* requests on their way to the server
  acks,        \* acknowledgements on their way to the server
  made         \* history: every snapshot generated

engine == <<frame, snap, store, order, desync>>
players == <<pending, seqs, acked>>
clients == <<counter, known>>
vars == <<engine, players, rollbacks, finished, clients, requests, acks, made>>

Action == [player : Player, seq : Nat \ {0}]
Snapshot == [frame : Nat, state : [Player -> Nat], actions : SUBSET Action]

\* What a client that has received nothing yet, or a concession, is based on.
NoSnapshot == [frame |-> 0, state |-> [p \in Player |-> 0], actions |-> {}]

Request == [player : Player, seq : Nat, base : Snapshot, concede : BOOLEAN]
Ack == [player : Player, snap : Snapshot]

RequestsOf(p) == {r \in requests : r.player = p /\ ~r.concede}

\* Variants of the operators below, each with one plausible bug, for checking
\* that the properties notice it.
ValidateOlderBase(r) == r.seq = seqs[r.player] + 1 /\ r.base.frame < snap.frame
ValidateAcked(r) == r.seq = acked[r.player] + 1 /\ r.base.frame <= snap.frame
ValidateGap(r) == r.seq > seqs[r.player] /\ r.base.frame <= snap.frame
MismatchAnyFrame(a) == a.player \in HashAcks /\ a.snap # snap
EvictEarly(snapshots, frames) ==
  IF Len(frames) >= MaxHistory
    THEN <<[f \in DOMAIN snapshots \ {Head(frames)} |-> snapshots[f]], Tail(frames)>>
    ELSE <<snapshots, frames>>
EvictOrderOnly(snapshots, frames) ==
  IF Len(frames) > MaxHistory THEN <<snapshots, Tail(frames)>> ELSE <<snapshots, frames>>
ClearedNot == pending

-----------------------------------------------------------------------------
\* NewGameInstance registers both players and generates frame 1.
Init ==
  LET first == [NoSnapshot EXCEPT !.frame = 1]
  IN /\ frame = 1 /\ snap = first
     /\ store = [f \in {1} |-> first]
     /\ order = <<1>>
     /\ pending = [p \in Player |-> {}]
     /\ seqs = [p \in Player |-> 0]
     /\ acked = seqs
     /\ desync = 0 /\ rollbacks = <<>>
     /\ finished = FALSE
     /\ counter = seqs
     /\ known = [p \in Player |-> NoSnapshot]
     /\ requests = {} /\ acks = {}
     /\ made = {first}

-----------------------------------------------------------------------------
\* PlayCard, Attack and EndTurn of the client: the number is used up when the
\* request is sent, whatever becomes of it.
Send(p) ==
  /\ counter[p] < MaxRequest[p]
  /\ Reliable => RequestsOf(p) = {}
  /\ counter' = [counter EXCEPT ![p] = @ + 1]
  /\ requests' = requests \cup
       {[player |-> p, seq |-> counter'[p], base |-> known[p], concede |-> FALSE]}
  /\ UNCHANGED <<engine, players, rollbacks, finished, known, acks, made>>

\* Concede of the client carries neither a number nor a snapshot.
SendConcede(p) ==
  /\ p \in Conceders
  /\ \A r \in requests : r.player = p => ~r.concede
  /\ requests' = requests \cup
       {[player |-> p, seq |-> 0, base |-> NoSnapshot, concede |-> TRUE]}
  /\ UNCHANGED <<engine, players, rollbacks, finished, clients, acks, made>>

\* GetPlayerNextSeq, under a read lock released before validation: the number
\* follows the last frame the player has acknowledged.
FillSequence(r) ==
  /\ r.seq = 0
  /\ requests' = (requests \ {r}) \cup {[r EXCEPT !.seq = acked[r.player] + 1]}
  /\ UNCHANGED <<engine, players, rollbacks, finished, clients, acks, made>>

ValidateAction(r) ==
  /\ r.seq = seqs[r.player] + 1
  /\ r.base.frame <= snap.frame
  /\ r.base.frame = snap.frame => r.base = snap

\* validateAndApplyAction.  An action the rules then refuse uses up its number
\* and is recorded as well.
Accept(r) ==
  /\ r.seq > 0
  /\ ValidateAction(r)
  /\ requests' = requests \ {r}
  /\ seqs' = [seqs EXCEPT ![r.player] = r.seq]
  /\ pending' = [pending EXCEPT ![r.player] = @ \cup {r.seq}]
  /\ finished' = r.concede
  /\ UNCHANGED <<engine, acked, rollbacks, clients, acks, made>>

\* The reply to a rejected request carries the current snapshot.
Reject(r) ==
  /\ r.seq > 0
  /\ ~ValidateAction(r)
  /\ requests' = requests \ {r}
  /\ known' = IF r.concede THEN known ELSE [known EXCEPT ![r.player] = snap]
  /\ UNCHANGED <<engine, players, rollbacks, finished, counter, acks, made>>

Handle(r) == Accept(r) \/ Reject(r)

\* The connection breaks before the request arrives.
Lose(r) ==
  /\ ~Reliable
  /\ requests' = requests \ {r}
  /\ UNCHANGED <<engine, players, rollbacks, finished, clients, acks, made>>

-----------------------------------------------------------------------------
\* The oldest entry of snapshotOrder leaves it and the map once there are more
\* than MaxHistory.
Evict(snapshots, frames) ==
  IF Len(frames) > MaxHistory
    THEN <<[f \in DOMAIN snapshots \ {Head(frames)} |-> snapshots[f]], Tail(frames)>>
    ELSE <<snapshots, frames>>

\* Each snapshot starts with empty maps of pending actions.
Cleared == [p \in Player |-> {}]

\* takeSnapshot and GenerateSnapshot.
GenerateSnapshot ==
  LET next == [frame |-> frame + 1, state |-> seqs,
               actions |-> {a \in [player : Player, seq : UNION {pending[p] : p \in Player}] :
                              a.seq \in pending[a.player]}]
      kept == Evict([f \in DOMAIN store \cup {next.frame} |->
                       IF f = next.frame THEN next ELSE store[f]],
                    Append(order, next.frame))
  IN /\ frame < MaxFrame
     /\ frame' = next.frame /\ snap' = next
     /\ store' = kept[1] /\ order' = kept[2]
     /\ pending' = Cleared
     /\ made' = made \cup {next}
     /\ UNCHANGED <<seqs, acked, desync, rollbacks, finished, clients, requests,
                    acks>>

\* A client receives the current frame, a rollback's included.  A frame that
\* arrives later than the next ones are made is one received before them.
Show(p) ==
  /\ known' = [known EXCEPT ![p] = snap]
  /\ UNCHANGED <<engine, players, rollbacks, finished, counter, requests,
                 acks, made>>

\* An acknowledgement without a hash matters to the player's concession only.
SendAck(p) ==
  /\ p \in HashAcks \cup Conceders
  /\ known[p].frame > 0
  /\ Cardinality(acks) < MaxAck
  /\ acks' = acks \cup {[player |-> p, snap |-> known[p]]}
  /\ UNCHANGED <<engine, players, rollbacks, finished, clients, requests, made>>

\* The hash of an acknowledgement differs from that of the current snapshot.
Mismatch(a) ==
  /\ a.snap.frame = snap.frame
  /\ a.player \in HashAcks
  /\ a.player \in Diverged \/ a.snap # snap

\* ReceiveAck of the engine; of the two goroutines it may start only onRollback.
ReceiveAck(a) ==
  /\ acks' = acks \ {a}
  /\ acked' = [acked EXCEPT ![a.player] = IF a.snap.frame > @ THEN a.snap.frame ELSE @]
  /\ IF Mismatch(a)
       THEN /\ Len(rollbacks) < MaxRollback
            /\ desync' = desync + 1
            /\ rollbacks' = IF desync + 1 >= Threshold THEN Append(rollbacks, snap)
                                                       ELSE rollbacks
       ELSE UNCHANGED <<desync, rollbacks>>
  /\ UNCHANGED <<frame, snap, store, order, pending, seqs, finished, clients,
                 requests, made>>

RestoredFrame(i) == rollbacks[i].frame

\* handleRollback and RestoreFromSnapshot, in whatever order the goroutines
\* run.  The World, the pending actions, the numbers and the history stay.
Rollback(i) ==
  /\ frame' = RestoredFrame(i)
  /\ snap' = rollbacks[i]
  /\ desync' = 0
  /\ rollbacks' = RemoveAt(rollbacks, i)
  /\ UNCHANGED <<store, order, players, finished, clients, requests, acks, made>>

\* A tick finds a hero at zero.
EndGame ==
  /\ finished' = TRUE
  /\ UNCHANGED <<engine, players, rollbacks, clients, requests, acks, made>>

-----------------------------------------------------------------------------
Step ==
  \/ \E p \in Player : Send(p) \/ SendConcede(p) \/ Show(p) \/ SendAck(p)
  \/ \E r \in requests : FillSequence(r) \/ Accept(r) \/ Reject(r) \/ Lose(r)
  \/ \E a \in acks : ReceiveAck(a)
  \/ \E i \in DOMAIN rollbacks : Rollback(i)
  \/ GenerateSnapshot
  \/ EndGame

Next == ~finished /\ Step

Spec == Init /\ [][Next]_vars

\* Every request that is not lost is handled: each RPC has its own goroutine.
FairSpec == Spec /\ \A p \in Player : WF_vars(\E r \in RequestsOf(p) : Handle(r))

-----------------------------------------------------------------------------
\* Type invariant.
TypeOK ==
  /\ frame \in Nat /\ snap \in Snapshot /\ snap.frame = frame
  /\ DOMAIN store \subseteq Nat /\ \A f \in DOMAIN store : store[f] \in Snapshot
  /\ order \in Seq(Nat)
  /\ pending \in [Player -> SUBSET Nat]
  /\ seqs \in [Player -> Nat] /\ acked \in [Player -> Nat]
  /\ desync \in Nat
  /\ rollbacks \in Seq(Snapshot)
  /\ finished \in BOOLEAN
  /\ counter \in [Player -> Nat] /\ known \in [Player -> Snapshot]
  /\ requests \subseteq Request /\ acks \subseteq Ack
  /\ made \subseteq Snapshot

\* Every number the engine has accepted is either still pending or in exactly
\* one of the snapshots ever generated, whatever frames a rollback reuses.
ActionsRecordedOnce ==
  \A p \in Player : \A n \in 1..seqs[p] :
    LET holders == {s \in made : [player |-> p, seq |-> n] \in s.actions}
    IN IF n \in pending[p] THEN holders = {} ELSE Cardinality(holders) = 1

\* The snapshot map cannot outgrow the history limit, even when rollbacks
\* make a frame number appear twice in snapshotOrder.
StoreBounded ==
  /\ Len(order) <= MaxHistory
  /\ DOMAIN store \subseteq Range(order)

\* Rollbacks on snapshots captured earlier keep the types, the numbers of frame
\* and current snapshot in step, and the history within its limit.
Inv == TypeOK /\ StoreBounded

\* Without diverged clients the map holds the current snapshot and the ones
\* just before it, up to the limit, each under its own frame.
HistoryIsWindow ==
  /\ DOMAIN store = {f \in 1..frame : f > frame - MaxHistory}
  /\ store[frame] = snap
  /\ \A f \in DOMAIN store : store[f].frame = f

\* Late or reordered acknowledgements of clients that agree with the server
\* are never counted as a desync.
HonestAcksAgree == desync = 0 /\ rollbacks = <<>>

\* A client that awaits each reply, in a game without rollbacks, never has a
\* request rejected: its numbers and the engine's stay in step.
NumbersInStep ==
  \A p \in Player : ~finished => counter[p] = seqs[p] + Cardinality(RequestsOf(p))

\* The client has used up the number the engine waits for, and no request with
\* that number is on its way.
Wedged(p) ==
  /\ counter[p] > seqs[p]
  /\ \A r \in RequestsOf(p) : r.seq # seqs[p] + 1

\* One lost, overtaken or rejected request silences a client for the rest of
\* the game: neither later requests nor a rollback bring it back in step.
WedgeIsPermanent == [][\A p \in Player : Wedged(p) => Wedged(p)' \/ finished']_vars

\* A reliable client's request is eventually accepted, or the game is over.
RequestsAnswered ==
  \A p \in Player : \A n \in 1..MaxRequest[p] :
    counter[p] >= n ~> seqs[p] >= n \/ finished
=============================================================================
