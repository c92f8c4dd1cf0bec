--------------------------- MODULE LockstepProofs ---------------------------
(***************************************************************************)
(* Proofs about the lockstep engine: for any number of players, frames,    *)
(* requests, acknowledgements and rollbacks, the history stays within its  *)
(* limit, every accepted action is recorded once, a client out of step     *)
(* stays so, and clients that agree with the server are told nothing else. *)
(***************************************************************************)
EXTENDS Lockstep, SequenceTheorems, FiniteSetTheorems, TLAPS

\* An action by its player and number.
Did(p, n) == [player |-> p, seq |-> n]

\* An accepted action is pending until it is in a snapshot, and it is in one
\* snapshot only.
Recorded ==
  /\ \A p \in Player : pending[p] \subseteq 1 .. seqs[p]
  /\ \A s \in made : \A p \in Player : \A n \in Nat :
       Did(p, n) \in s.actions => n <= seqs[p] /\ n \notin pending[p]
  /\ \A p \in Player : \A n \in 1 .. seqs[p] :
       n \in pending[p] \/ \E s \in made : Did(p, n) \in s.actions
  /\ \A s, t \in made : s = t \/ s.actions \cap t.actions = {}

\* What a client numbers is never taken for a request without a number.
Sequenced == \A r \in requests : ~r.concede => r.seq > 0

IInv == TypeOK /\ StoreBounded /\ Recorded /\ Sequenced
-----------------------------------------------------------------------------
\* The steps that concern none of what is recorded.
Idle == UNCHANGED <<seqs, pending, made>>

\* The snapshot generated, and what is in it.
Taken == [frame |-> frame + 1, state |-> seqs,
          actions |-> {a \in [player : Player, seq : UNION {pending[p] : p \in Player}] :
                         a.seq \in pending[a.player]}]

\* The snapshot to be made takes exactly the pending actions.
LEMMA TakenActions ==
  \A p \in Player : \A n : Did(p, n) \in Taken.actions <=> n \in pending[p]
  BY DEF Taken, Did

\* Each of its actions is some player's pending one.
LEMMA TakenAreActions ==
  \A a \in Taken.actions : /\ a.player \in Player /\ a.seq \in pending[a.player]
                           /\ a = Did(a.player, a.seq)
  BY DEF Taken, Did

\* It is a snapshot, of the next frame.
LEMMA TakenType ==
  ASSUME TypeOK, Recorded
  PROVE  Taken \in Snapshot /\ Taken.frame = frame + 1 /\ frame + 1 \in Nat
  <1>1. \A p \in Player : pending[p] \subseteq Nat \ {0}
    BY DEF TypeOK, Recorded
  <1>2. Taken.actions \subseteq Action
    BY <1>1 DEF Taken, Action
  <1> QED
    BY <1>2 DEF TypeOK, Taken, Snapshot

\* The map and the order once the snapshot is stored, before one is evicted.
Stored == [f \in DOMAIN store \cup {Taken.frame} |-> IF f = Taken.frame THEN Taken ELSE store[f]]
Ordered == Append(order, Taken.frame)

\* What GenerateSnapshot does to each variable.
LEMMA GenerateEffect ==
  ASSUME GenerateSnapshot
  PROVE  /\ frame' = Taken.frame /\ snap' = Taken /\ made' = made \cup {Taken}
         /\ store' = Evict(Stored, Ordered)[1] /\ order' = Evict(Stored, Ordered)[2]
         /\ pending' = [p \in Player |-> {}]
         /\ UNCHANGED <<seqs, acked, desync, rollbacks, finished, clients, requests, acks>>
  BY DEF GenerateSnapshot, Taken, Stored, Ordered, Cleared

\* What is in a sequence is its first element or in the rest.
LEMMA RangeOfTail ==
  ASSUME NEW S, NEW s \in Seq(S), s # <<>>
  PROVE  Range(s) \ {Head(s)} \subseteq Range(Tail(s))
  <1>1. Head(s) = s[1] /\ Tail(s) \in Seq(S) /\ Len(Tail(s)) = Len(s) - 1
        /\ \A i \in 1 .. Len(Tail(s)) : Tail(s)[i] = s[i + 1]
    BY HeadTailProperties
  <1>2. ASSUME NEW x \in Range(s), x # Head(s) PROVE x \in Range(Tail(s))
    <2>1. PICK i \in 1 .. Len(s) : s[i] = x
      BY LenProperties DEF Range
    <2>2. i - 1 \in 1 .. Len(Tail(s)) /\ Tail(s)[i - 1] = x
      BY <1>1, <1>2, <2>1, LenProperties
    <2>3. DOMAIN Tail(s) = 1 .. Len(Tail(s))
      BY <1>1, LenProperties
    <2> QED
      BY <2>2, <2>3 DEF Range
  <1> QED
    BY <1>2

\* Eviction takes the oldest entry out of both the order and the map.
LEMMA EvictKeeps ==
  ASSUME NEW snapshots, NEW frames \in Seq(Nat), frames # <<>>,
         DOMAIN snapshots \subseteq Range(frames), Len(frames) <= MaxHistory + 1
  PROVE  LET kept == Evict(snapshots, frames)
         IN /\ kept[2] \in Seq(Nat) /\ Len(kept[2]) <= MaxHistory
            /\ DOMAIN kept[1] \subseteq Range(kept[2])
            /\ DOMAIN kept[1] \subseteq DOMAIN snapshots
            /\ \A f \in DOMAIN kept[1] : kept[1][f] = snapshots[f]
  <1>1. Tail(frames) \in Seq(Nat) /\ Len(Tail(frames)) = Len(frames) - 1 /\ Len(frames) \in Nat
    BY HeadTailProperties, LenProperties
  <1>2. CASE Len(frames) > MaxHistory
    BY <1>1, <1>2, RangeOfTail, LockstepAssumption DEF Evict
  <1>3. CASE ~(Len(frames) > MaxHistory)
    BY <1>1, <1>3, LockstepAssumption DEF Evict
  <1> QED
    BY <1>2, <1>3

\* The order of the history with the new frame at its end.
LEMMA OrderedRange ==
  ASSUME TypeOK, Recorded
  PROVE  /\ Ordered \in Seq(Nat) /\ Ordered # <<>> /\ Len(Ordered) = Len(order) + 1
         /\ Range(Ordered) = Range(order) \cup {Taken.frame}
         /\ \A i \in 1 .. Len(order) : Ordered[i] = order[i]
         /\ Ordered[Len(order) + 1] = Taken.frame
  <1>1. order \in Seq(Nat) /\ Taken.frame \in Nat
    BY TakenType DEF TypeOK
  <1>2. /\ Ordered \in Seq(Nat) /\ Ordered # <<>> /\ Len(Ordered) = Len(order) + 1
        /\ \A i \in 1 .. Len(order) : Ordered[i] = order[i]
        /\ Ordered[Len(order) + 1] = Taken.frame
    BY <1>1, AppendProperties DEF Ordered
  <1>3. DOMAIN order = 1 .. Len(order) /\ DOMAIN Ordered = 1 .. Len(order) + 1 /\ Len(order) \in Nat
    BY <1>1, <1>2, LenProperties
  <1>4. \A x : x \in Range(Ordered) <=> x \in Range(order) \/ x = Taken.frame
    <2>1. \A i \in 1 .. Len(order) + 1 : i \in 1 .. Len(order) \/ i = Len(order) + 1
      BY <1>3
    <2>2. \A i \in 1 .. Len(order) : i \in 1 .. Len(order) + 1
      BY <1>3
    <2>3. Len(order) + 1 \in 1 .. Len(order) + 1
      BY <1>3
    <2> QED
      BY <1>2, <1>3, <2>1, <2>2, <2>3 DEF Range
  <1> QED
    BY <1>2, <1>4

\* A rollback goroutine has run, and the others remain.
LEMMA RemovedRollback ==
  ASSUME NEW S, NEW s \in Seq(S), NEW i \in DOMAIN s
  PROVE  RemoveAt(s, i) \in Seq(S) /\ s[i] \in S
  <1>1. DOMAIN s = 1 .. Len(s) /\ Len(s) \in Nat /\ \A j \in 1 .. Len(s) : s[j] \in S
    BY LenProperties, ElementOfSeq
  <1>2. SubSeq(s, 1, i - 1) \in Seq(S)
    BY <1>1, SubSeqProperties
  <1>3. SubSeq(s, i + 1, Len(s)) \in Seq(S)
    BY <1>1, SubSeqProperties
  <1> QED
    BY <1>1, <1>2, <1>3, ConcatProperties DEF RemoveAt
-----------------------------------------------------------------------------
\* The invariant holds at the start.
LEMMA InitIInv == Init => IInv
  <1> SUFFICES ASSUME Init PROVE IInv
    OBVIOUS
  <1> DEFINE first == [NoSnapshot EXCEPT !.frame = 1]
  <1>0. NoSnapshot \in Snapshot /\ first \in Snapshot /\ first.frame = 1 /\ first.actions = {}
    BY DEF NoSnapshot, Snapshot
  <1>1. /\ frame = 1 /\ snap = first /\ store = [f \in {1} |-> first] /\ order = <<1>>
        /\ pending = [p \in Player |-> {}] /\ seqs = [p \in Player |-> 0] /\ acked = seqs
        /\ desync = 0 /\ rollbacks = <<>> /\ finished = FALSE /\ counter = seqs
        /\ known = [p \in Player |-> NoSnapshot] /\ requests = {} /\ acks = {} /\ made = {first}
    BY DEF Init
  <1> HIDE DEF first
  <1>2. TypeOK
    <2>1. frame \in Nat /\ snap \in Snapshot /\ snap.frame = frame
      BY <1>0, <1>1
    <2>2. DOMAIN store \subseteq Nat /\ \A f \in DOMAIN store : store[f] \in Snapshot
      BY <1>0, <1>1
    <2>3. order \in Seq(Nat) /\ rollbacks \in Seq(Snapshot)
      BY <1>1
    <2>4. /\ pending \in [Player -> SUBSET Nat] /\ seqs \in [Player -> Nat]
          /\ acked \in [Player -> Nat] /\ counter \in [Player -> Nat] /\ known \in [Player -> Snapshot]
      BY <1>0, <1>1
    <2> QED
      BY <1>0, <1>1, <2>1, <2>2, <2>3, <2>4 DEF TypeOK
  <1>3. StoreBounded
    <2>1. Len(order) = 1 /\ order[1] = 1 /\ DOMAIN order = {1}
      BY <1>1
    <2> QED
      BY <1>1, <2>1, LockstepAssumption DEF StoreBounded, Range
  <1>4. Recorded /\ Sequenced
    BY <1>0, <1>1 DEF Recorded, Sequenced
  <1> QED
    BY <1>2, <1>3, <1>4 DEF IInv

\* The types and the limit, one action after the other.
LEMMA TypeNext == IInv /\ [Next]_vars => TypeOK' /\ StoreBounded'
  <1> SUFFICES ASSUME TypeOK, StoreBounded, Recorded, Sequenced, [Next]_vars
               PROVE  TypeOK' /\ StoreBounded'
    BY DEF IInv
  <1>a. \A r \in requests : r \in Request
    BY DEF TypeOK
  <1>1. ASSUME NEW p \in Player, Send(p) PROVE TypeOK' /\ StoreBounded'
    <2>1. counter' \in [Player -> Nat] /\ counter'[p] \in Nat /\ known[p] \in Snapshot
      BY <1>1 DEF Send, TypeOK
    <2>2. [player |-> p, seq |-> counter'[p], base |-> known[p], concede |-> FALSE] \in Request
      BY <2>1 DEF Request
    <2> QED
      BY <1>1, <2>1, <2>2 DEF Send, TypeOK, StoreBounded, engine, players
  <1>2. ASSUME NEW p \in Player, SendConcede(p) PROVE TypeOK' /\ StoreBounded'
    <2>1. [player |-> p, seq |-> 0, base |-> NoSnapshot, concede |-> TRUE] \in Request
      BY DEF Request, NoSnapshot, Snapshot
    <2> QED
      BY <1>2, <2>1 DEF SendConcede, TypeOK, StoreBounded, engine, players, clients
  <1>3. ASSUME NEW p \in Player, Show(p) PROVE TypeOK' /\ StoreBounded'
    BY <1>3 DEF Show, TypeOK, StoreBounded, engine, players
  <1>4. ASSUME NEW p \in Player, SendAck(p) PROVE TypeOK' /\ StoreBounded'
    <2>1. [player |-> p, snap |-> known[p]] \in Ack
      BY DEF TypeOK, Ack
    <2> QED
      BY <1>4, <2>1 DEF SendAck, TypeOK, StoreBounded, engine, players, clients
  <1>5. ASSUME NEW r \in requests, FillSequence(r) PROVE TypeOK' /\ StoreBounded'
    <2>1. [r EXCEPT !.seq = acked[r.player] + 1] \in Request
      <3>1. r \in Request /\ acked[r.player] + 1 \in Nat
        BY <1>a DEF TypeOK, Request
      <3> QED
        BY <3>1 DEF Request
    <2> QED
      BY <1>5, <2>1 DEF FillSequence, TypeOK, StoreBounded, engine, players, clients
  <1>6. ASSUME NEW r \in requests, Accept(r) PROVE TypeOK' /\ StoreBounded'
    <2>1. r.player \in Player /\ r.seq \in Nat /\ r.concede \in BOOLEAN
      BY <1>a DEF Request
    <2>2. seqs' \in [Player -> Nat] /\ pending' \in [Player -> SUBSET Nat]
      BY <1>6, <2>1 DEF Accept, TypeOK
    <2> QED
      BY <1>6, <2>1, <2>2 DEF Accept, TypeOK, StoreBounded, engine, clients
  <1>7. ASSUME NEW r \in requests, Reject(r) PROVE TypeOK' /\ StoreBounded'
    <2>1. known' \in [Player -> Snapshot]
      BY <1>7 DEF Reject, TypeOK
    <2> QED
      BY <1>7, <2>1 DEF Reject, TypeOK, StoreBounded, engine, players
  <1>8. ASSUME NEW r \in requests, Lose(r) PROVE TypeOK' /\ StoreBounded'
    BY <1>8 DEF Lose, TypeOK, StoreBounded, engine, players, clients
  <1>9. ASSUME NEW a \in acks, ReceiveAck(a) PROVE TypeOK' /\ StoreBounded'
    <2>1. a \in Ack /\ a.player \in Player /\ a.snap.frame \in Nat
      BY DEF TypeOK, Ack, Snapshot
    <2>2. acked' \in [Player -> Nat]
      BY <1>9, <2>1 DEF ReceiveAck, TypeOK
    <2>3. Append(rollbacks, snap) \in Seq(Snapshot)
      BY AppendProperties DEF TypeOK
    <2>4. desync' \in Nat /\ rollbacks' \in Seq(Snapshot)
      <3>1. desync \in Nat /\ rollbacks \in Seq(Snapshot)
        BY DEF TypeOK
      <3>2. CASE Mismatch(a)
        BY <1>9, <2>3, <3>1, <3>2 DEF ReceiveAck
      <3>3. CASE ~Mismatch(a)
        BY <1>9, <3>1, <3>3 DEF ReceiveAck
      <3> QED
        BY <3>2, <3>3
    <2> QED
      BY <1>9, <2>2, <2>4 DEF ReceiveAck, TypeOK, StoreBounded, clients
  <1>10. ASSUME NEW i \in DOMAIN rollbacks, Rollback(i) PROVE TypeOK' /\ StoreBounded'
    <2>1. rollbacks \in Seq(Snapshot)
      BY DEF TypeOK
    <2>2. RemoveAt(rollbacks, i) \in Seq(Snapshot) /\ rollbacks[i] \in Snapshot
      BY <2>1, RemovedRollback
    <2>3. rollbacks[i].frame \in Nat
      BY <2>2 DEF Snapshot
    <2> QED
      BY <1>10, <2>2, <2>3 DEF Rollback, RestoredFrame, TypeOK, StoreBounded, players, clients
  <1>11. CASE GenerateSnapshot
    <2>1. /\ frame' = Taken.frame /\ snap' = Taken /\ made' = made \cup {Taken}
          /\ store' = Evict(Stored, Ordered)[1] /\ order' = Evict(Stored, Ordered)[2]
          /\ pending' = [p \in Player |-> {}]
          /\ UNCHANGED <<seqs, acked, desync, rollbacks, finished, counter, known, requests, acks>>
      BY <1>11, GenerateEffect DEF clients
    <2>2. Taken \in Snapshot /\ Taken.frame = frame + 1 /\ frame + 1 \in Nat
      BY TakenType
    <2>3. /\ Ordered \in Seq(Nat) /\ Ordered # <<>> /\ Len(Ordered) = Len(order) + 1
          /\ Range(Ordered) = Range(order) \cup {Taken.frame}
      BY OrderedRange
    <2>4. DOMAIN Stored \subseteq Nat /\ \A f \in DOMAIN Stored : Stored[f] \in Snapshot
      BY <2>2 DEF Stored, TypeOK
    <2>5. DOMAIN Stored \subseteq Range(Ordered) /\ Len(Ordered) <= MaxHistory + 1
      <3>1. Len(order) \in Nat /\ MaxHistory \in Nat
        BY LenProperties, LockstepAssumption DEF TypeOK
      <3> QED
        BY <2>3, <3>1 DEF Stored, StoreBounded
    <2>6. /\ order' \in Seq(Nat) /\ Len(order') <= MaxHistory
          /\ DOMAIN store' \subseteq Range(order') /\ DOMAIN store' \subseteq DOMAIN Stored
          /\ \A f \in DOMAIN store' : store'[f] = Stored[f]
      BY <2>1, <2>3, <2>5, EvictKeeps
    <2>7. TypeOK'
      BY <2>1, <2>2, <2>4, <2>6 DEF TypeOK
    <2> QED
      BY <2>6, <2>7 DEF StoreBounded
  <1>12. CASE EndGame
    BY <1>12 DEF EndGame, TypeOK, StoreBounded, engine, players, clients
  <1>13. CASE UNCHANGED vars
    BY <1>13 DEF vars, TypeOK, StoreBounded, engine, players, clients
  <1> QED
    BY <1>1, <1>2, <1>3, <1>4, <1>5, <1>6, <1>7, <1>8, <1>9, <1>10, <1>11, <1>12, <1>13
    DEF Next, Step

\* What is recorded stays so, one action after the other.
LEMMA RecordedNext == IInv /\ [Next]_vars => Recorded'
  <1> SUFFICES ASSUME TypeOK, Recorded, [Next]_vars PROVE Recorded'
    BY DEF IInv
  <1>1. CASE Idle
    BY <1>1 DEF Idle, Recorded
  <1>2. ASSUME NEW p \in Player, Send(p) \/ SendConcede(p) \/ Show(p) \/ SendAck(p) PROVE Idle
    BY <1>2 DEF Send, SendConcede, Show, SendAck, Idle, players
  <1>3. ASSUME NEW r \in requests, FillSequence(r) \/ Reject(r) \/ Lose(r) PROVE Idle
    BY <1>3 DEF FillSequence, Reject, Lose, Idle, players
  <1>4. ASSUME NEW a \in acks, ReceiveAck(a) PROVE Idle
    BY <1>4 DEF ReceiveAck, Idle
  <1>5. ASSUME NEW i \in DOMAIN rollbacks, Rollback(i) PROVE Idle
    BY <1>5 DEF Rollback, Idle, players
  <1>6. CASE EndGame \/ UNCHANGED vars
    BY <1>1, <1>6 DEF EndGame, vars, Idle, players
  <1>7. ASSUME NEW r \in requests, Accept(r) PROVE Recorded'
    <2>1. PICK q \in Player : q = r.player
      BY DEF TypeOK, Request
    <2>2. seqs[q] \in Nat /\ r.seq = seqs[q] + 1
      BY <1>7, <2>1 DEF Accept, ValidateAction, TypeOK
    <2>3. /\ seqs' = [seqs EXCEPT ![q] = r.seq] /\ made' = made
          /\ pending' = [pending EXCEPT ![q] = @ \cup {r.seq}]
      BY <1>7, <2>1 DEF Accept
    <2>4. /\ seqs'[q] = r.seq /\ pending'[q] = pending[q] \cup {r.seq}
          /\ \A p \in Player : p # q => seqs'[p] = seqs[p] /\ pending'[p] = pending[p]
          /\ \A p \in Player : seqs[p] \in Nat
      BY <2>3 DEF TypeOK
    <2>5. \A p \in Player : pending'[p] \subseteq 1 .. seqs'[p]
      BY <2>2, <2>4 DEF Recorded
    <2>6. ASSUME NEW s \in made, NEW p \in Player, NEW n \in Nat, Did(p, n) \in s.actions
          PROVE  n <= seqs'[p] /\ n \notin pending'[p]
      BY <2>2, <2>4, <2>6 DEF Recorded
    <2>7. ASSUME NEW p \in Player, NEW n \in 1 .. seqs'[p]
          PROVE  n \in pending'[p] \/ \E s \in made : Did(p, n) \in s.actions
      BY <2>2, <2>4 DEF Recorded
    <2> QED
      BY <2>3, <2>5, <2>6, <2>7 DEF Recorded
  <1>8. CASE GenerateSnapshot
    <2>1. made' = made \cup {Taken} /\ pending' = [p \in Player |-> {}] /\ seqs' = seqs
      BY <1>8, GenerateEffect
    <2>2. \A p \in Player : pending'[p] = {} /\ seqs[p] \in Nat /\ pending[p] \subseteq 1 .. seqs[p]
      BY <2>1 DEF TypeOK, Recorded
    <2>3. ASSUME NEW s \in made', NEW p \in Player, NEW n \in Nat, Did(p, n) \in s.actions
          PROVE  n <= seqs[p]
      BY <2>1, <2>2, <2>3, TakenActions DEF Recorded
    <2>4. ASSUME NEW p \in Player, NEW n \in 1 .. seqs[p]
          PROVE  \E s \in made' : Did(p, n) \in s.actions
      BY <2>1, TakenActions DEF Recorded
    <2>5. ASSUME NEW s \in made PROVE s.actions \cap Taken.actions = {}
      <3> SUFFICES ASSUME NEW a \in Taken.actions, a \in s.actions PROVE FALSE
        OBVIOUS
      <3>1. a.player \in Player /\ a.seq \in pending[a.player] /\ a = Did(a.player, a.seq)
        BY TakenAreActions
      <3>2. a.seq \in Nat
        BY <2>2, <3>1
      <3> QED
        BY <3>1, <3>2 DEF Recorded
    <2>6. \A s, t \in made' : s = t \/ s.actions \cap t.actions = {}
      BY <2>1, <2>5 DEF Recorded
    <2> QED
      BY <2>1, <2>2, <2>3, <2>4, <2>6 DEF Recorded
  <1> QED
    BY <1>1, <1>2, <1>3, <1>4, <1>5, <1>6, <1>7, <1>8 DEF Next, Step

\* The numbers of the clients' requests.
LEMMA SequencedNext == IInv /\ [Next]_vars => Sequenced'
  <1> SUFFICES ASSUME TypeOK, Sequenced, [Next]_vars PROVE Sequenced'
    BY DEF IInv
  <1> USE DEF Sequenced
  <1>1. ASSUME NEW p \in Player, Send(p) PROVE Sequenced'
    <2>1. counter'[p] > 0
      BY <1>1 DEF Send, TypeOK
    <2> QED
      BY <1>1, <2>1 DEF Send
  <1>2. ASSUME NEW p \in Player, SendConcede(p) \/ Show(p) \/ SendAck(p) PROVE Sequenced'
    BY <1>2 DEF SendConcede, Show, SendAck
  <1>3. ASSUME NEW r \in requests, FillSequence(r) PROVE Sequenced'
    <2>1. r \in Request /\ r.seq = 0 /\ requests' = (requests \ {r}) \cup {[r EXCEPT !.seq = acked[r.player] + 1]}
      BY <1>3 DEF FillSequence, TypeOK
    <2>2. r.concede
      <3>1. r.concede \in BOOLEAN
        BY <2>1 DEF Request
      <3> QED
        BY <2>1, <3>1
    <2>3. [r EXCEPT !.seq = acked[r.player] + 1].concede = r.concede
      BY <2>1 DEF Request
    <2> QED
      BY <2>1, <2>2, <2>3
  <1>4. ASSUME NEW r \in requests, Accept(r) \/ Reject(r) \/ Lose(r) PROVE Sequenced'
    BY <1>4 DEF Accept, Reject, Lose
  <1>5. ASSUME NEW a \in acks, ReceiveAck(a) PROVE Sequenced'
    BY <1>5 DEF ReceiveAck
  <1>6. ASSUME NEW i \in DOMAIN rollbacks, Rollback(i) PROVE Sequenced'
    BY <1>6 DEF Rollback
  <1>7. CASE GenerateSnapshot \/ EndGame \/ UNCHANGED vars
    BY <1>7 DEF GenerateSnapshot, EndGame, vars
  <1> QED
    BY <1>1, <1>2, <1>3, <1>4, <1>5, <1>6, <1>7 DEF Next, Step

\* Every step keeps the invariant.
LEMMA StepIInv == IInv /\ [Next]_vars => IInv'
  BY TypeNext, RecordedNext, SequencedNext DEF IInv

\* So it holds throughout.
LEMMA Invariance == Spec => []IInv
  BY InitIInv, StepIInv, PTL DEF Spec
-----------------------------------------------------------------------------
\* Whatever is requested, acknowledged, rolled back and generated, in whatever
\* order, the engine's state keeps its types, the current snapshot is that of
\* the current frame, and the map and the order of snapshots their limit.
THEOREM HistoryStaysBounded == Spec => []Inv
  <1>1. IInv => Inv
    BY DEF IInv, Inv
  <1> QED
    BY <1>1, Invariance, PTL

\* No accepted action is lost, and none goes into two frames, even when
\* rollbacks have the engine generate a frame number again.
THEOREM RecordedOnce == Spec => []ActionsRecordedOnce
  <1>1. IInv => ActionsRecordedOnce
    <2> SUFFICES ASSUME IInv, NEW p \in Player, NEW n \in 1 .. seqs[p]
                 PROVE  LET holders == {s \in made : Did(p, n) \in s.actions}
                        IN  IF n \in pending[p] THEN holders = {} ELSE Cardinality(holders) = 1
      BY DEF ActionsRecordedOnce, Did
    <2> DEFINE holders == {s \in made : Did(p, n) \in s.actions}
    <2>1. n \in Nat /\ Recorded
      BY DEF IInv, TypeOK
    <2>2. CASE n \in pending[p]
      BY <2>1, <2>2 DEF Recorded
    <2>3. CASE n \notin pending[p]
      <3>1. PICK s \in made : Did(p, n) \in s.actions
        BY <2>1, <2>3 DEF Recorded
      <3>2. \A t \in made : Did(p, n) \in t.actions => t = s
        BY <2>1, <3>1 DEF Recorded
      <3>3. holders = {s}
        BY <3>1, <3>2
      <3> QED
        BY <2>3, <3>3, FS_Singleton
    <2> QED
      BY <2>2, <2>3
  <1> QED
    BY <1>1, Invariance, PTL

\* A client that is out of step with the engine stays out of step until the
\* game is over, whatever it sends, acknowledges or receives.
THEOREM WedgesArePermanent == Spec => WedgeIsPermanent
  <1>1. IInv /\ [Next]_vars => \A p \in Player : Wedged(p) => Wedged(p)' \/ finished'
    <2> SUFFICES ASSUME TypeOK, Sequenced, [Next]_vars, NEW p \in Player, Wedged(p), ~finished'
                 PROVE  Wedged(p)'
      BY DEF IInv
    <2> USE DEF Wedged, RequestsOf
    <2>0. counter[p] \in Nat /\ seqs[p] \in Nat /\ counter[p] > seqs[p]
      BY DEF TypeOK
    <2>1. ASSUME NEW q \in Player, Send(q) PROVE Wedged(p)'
      <3>1. counter' = [counter EXCEPT ![q] = @ + 1] /\ seqs' = seqs
            /\ requests' = requests \cup
                 {[player |-> q, seq |-> counter'[q], base |-> known[q], concede |-> FALSE]}
        BY <2>1 DEF Send, players
      <3>2. counter'[q] = counter[q] + 1 /\ (p # q => counter'[p] = counter[p])
        BY <3>1 DEF TypeOK
      <3> QED
        BY <2>0, <3>1, <3>2
    <2>2. ASSUME NEW q \in Player, SendConcede(q) \/ Show(q) \/ SendAck(q) PROVE Wedged(p)'
      BY <2>2 DEF SendConcede, Show, SendAck, players, clients
    <2>3. ASSUME NEW r \in requests, FillSequence(r) PROVE Wedged(p)'
      <3>1. r \in Request /\ r.seq = 0 /\ UNCHANGED <<counter, seqs>>
            /\ requests' = (requests \ {r}) \cup {[r EXCEPT !.seq = acked[r.player] + 1]}
        BY <2>3 DEF FillSequence, TypeOK, players, clients
      <3>2. r.concede
        BY <3>1 DEF Sequenced, Request
      <3>3. [r EXCEPT !.seq = acked[r.player] + 1].concede
        BY <3>1, <3>2 DEF Request
      <3> QED
        BY <3>1, <3>3
    <2>4. ASSUME NEW r \in requests, Accept(r) PROVE Wedged(p)'
      <3>1. ~r.concede
        BY <2>4 DEF Accept
      <3>2. r.player # p
        BY <2>4, <3>1 DEF Accept, ValidateAction
      <3> QED
        BY <2>4, <3>2 DEF Accept, TypeOK, clients
    <2>5. ASSUME NEW r \in requests, Reject(r) \/ Lose(r) PROVE Wedged(p)'
      BY <2>5 DEF Reject, Lose, players, clients
    <2>6. ASSUME NEW a \in acks, ReceiveAck(a) PROVE Wedged(p)'
      BY <2>6 DEF ReceiveAck, clients
    <2>7. ASSUME NEW i \in DOMAIN rollbacks, Rollback(i) PROVE Wedged(p)'
      BY <2>7 DEF Rollback, players, clients
    <2>8. CASE GenerateSnapshot \/ EndGame \/ UNCHANGED vars
      BY <2>8 DEF GenerateSnapshot, EndGame, vars, players, clients
    <2> QED
      BY <2>1, <2>2, <2>3, <2>4, <2>5, <2>6, <2>7, <2>8 DEF Next, Step
  <1> QED
    BY <1>1, Invariance, PTL DEF Spec, WedgeIsPermanent
-----------------------------------------------------------------------------
\* Games in which no client computes a wrong hash.  Each frame number is then
\* given to one snapshot, and everything on its way is based on it.
Agreed ==
  /\ HonestAcksAgree
  /\ snap \in made
  /\ \A s \in made : 0 < s.frame /\ s.frame <= frame
  /\ \A s, t \in made : s.frame = t.frame => s = t
  /\ \A p \in Player : known[p] \in made \cup {NoSnapshot}
  /\ \A a \in acks : a.snap \in made
  /\ \A r \in requests : r.base \in made \cup {NoSnapshot}

\* The clients agree with the server at the start.
LEMMA AgreedInit == Init => Agreed
  BY DEF Init, Agreed, HonestAcksAgree, NoSnapshot

\* Without diverged clients every step keeps Agreed.
LEMMA AgreedNext ==
  ASSUME Diverged = {}, IInv, Agreed, [Next]_vars
  PROVE  Agreed'
  <1>0. /\ TypeOK /\ Recorded /\ frame \in Nat /\ snap.frame = frame /\ NoSnapshot.frame = 0
        /\ \A s \in made : s.frame \in Nat
    BY DEF IInv, TypeOK, NoSnapshot, Snapshot
  <1> USE DEF Agreed, HonestAcksAgree
  <1>1. ASSUME NEW p \in Player, Send(p) PROVE Agreed'
    BY <1>1 DEF Send, engine
  <1>2. ASSUME NEW p \in Player, SendConcede(p) PROVE Agreed'
    BY <1>2 DEF SendConcede, engine, clients
  <1>3. ASSUME NEW p \in Player, Show(p) PROVE Agreed'
    BY <1>0, <1>3 DEF Show, engine, TypeOK
  <1>4. ASSUME NEW p \in Player, SendAck(p) PROVE Agreed'
    BY <1>0, <1>4 DEF SendAck, engine, clients
  <1>5. ASSUME NEW r \in requests, FillSequence(r) PROVE Agreed'
    <2>1. [r EXCEPT !.seq = acked[r.player] + 1].base = r.base
      BY <1>0 DEF TypeOK, Request
    <2> QED
      BY <1>5, <2>1 DEF FillSequence, engine, clients
  <1>6. ASSUME NEW r \in requests, Accept(r) \/ Lose(r) PROVE Agreed'
    BY <1>6 DEF Accept, Lose, engine, clients
  <1>7. ASSUME NEW r \in requests, Reject(r) PROVE Agreed'
    BY <1>0, <1>7 DEF Reject, engine, TypeOK
  <1>8. ASSUME NEW a \in acks, ReceiveAck(a) PROVE Agreed'
    <2>1. ~Mismatch(a)
      BY <1>0 DEF Mismatch
    <2> QED
      BY <1>8, <2>1 DEF ReceiveAck, clients
  <1>9. ASSUME NEW i \in DOMAIN rollbacks, Rollback(i) PROVE Agreed'
    BY <1>9
  <1>10. CASE GenerateSnapshot
    <2>1. /\ frame' = Taken.frame /\ snap' = Taken /\ made' = made \cup {Taken}
          /\ UNCHANGED <<desync, rollbacks, known, requests, acks>>
      BY <1>10, GenerateEffect DEF clients
    <2>2. Taken.frame = frame + 1
      BY <1>0, TakenType
    <2> QED
      BY <1>0, <2>1, <2>2
  <1>11. CASE EndGame \/ UNCHANGED vars
    BY <1>11 DEF EndGame, vars, engine, clients
  <1> QED
    BY <1>1, <1>2, <1>3, <1>4, <1>5, <1>6, <1>7, <1>8, <1>9, <1>10, <1>11 DEF Next, Step

\* The order is that of the last frames, one after the other.
Window ==
  /\ frame > 0
  /\ Len(order) = IF frame < MaxHistory THEN frame ELSE MaxHistory
  /\ \A i \in 1 .. Len(order) : order[i] = frame - Len(order) + i
  /\ HistoryIsWindow

\* The history starts with one frame.
LEMMA WindowInit == Init => Window
  <1> SUFFICES ASSUME Init PROVE Window
    OBVIOUS
  <1> DEFINE first == [NoSnapshot EXCEPT !.frame = 1]
  <1>1. /\ frame = 1 /\ snap = first /\ store = [f \in {1} |-> first] /\ order = <<1>>
        /\ first.frame = 1
    BY DEF Init, NoSnapshot
  <1> HIDE DEF first
  <1>2. Len(order) = 1 /\ order[1] = 1
    BY <1>1
  <1>3. HistoryIsWindow
    BY <1>1, LockstepAssumption DEF HistoryIsWindow
  <1> QED
    BY <1>1, <1>2, <1>3, LockstepAssumption DEF Window

\* While the clients agree every step keeps the window.
LEMMA WindowNext ==
  ASSUME IInv, Agreed, Window, [Next]_vars
  PROVE  Window'
  <1>1. CASE UNCHANGED <<frame, snap, store, order>>
    BY <1>1 DEF Window, HistoryIsWindow
  <1>2. CASE GenerateSnapshot
    <2>1. /\ frame' = Taken.frame /\ snap' = Taken
          /\ store' = Evict(Stored, Ordered)[1] /\ order' = Evict(Stored, Ordered)[2]
      BY <1>2, GenerateEffect
    <2>2. /\ TypeOK /\ Recorded /\ Taken.frame = frame + 1 /\ frame \in Nat \ {0}
          /\ MaxHistory \in Nat \ {0}
      BY TakenType, LockstepAssumption DEF IInv, TypeOK, Window
    <2>3. /\ Ordered \in Seq(Nat) /\ Ordered # <<>> /\ Len(Ordered) = Len(order) + 1
          /\ \A i \in 1 .. Len(order) : Ordered[i] = order[i]
          /\ Ordered[Len(order) + 1] = frame + 1
      BY <2>2, OrderedRange
    <2>4. Len(order) \in Nat /\ Len(order) > 0
      BY <2>2 DEF Window
    <2>5. \A i \in 1 .. Len(order) + 1 : Ordered[i] = frame - Len(order) + i
      <3> TAKE i \in 1 .. Len(order) + 1
      <3>1. CASE i \in 1 .. Len(order)
        BY <2>3, <3>1 DEF Window
      <3>2. CASE i = Len(order) + 1
        BY <2>2, <2>3, <2>4, <3>2
      <3> QED
        BY <2>4, <3>1, <3>2
    <2>6. /\ DOMAIN Stored = {f \in 1 .. frame + 1 : f > frame - MaxHistory}
          /\ Stored[frame + 1] = Taken /\ \A f \in DOMAIN Stored : Stored[f].frame = f
      <3>1. /\ DOMAIN store = {f \in 1 .. frame : f > frame - MaxHistory}
            /\ \A f \in DOMAIN store : store[f].frame = f
        BY DEF Window, HistoryIsWindow
      <3>2. \A f : f \in DOMAIN Stored <=> f \in DOMAIN store \/ f = frame + 1
        BY <2>2 DEF Stored
      <3>3. \A f \in DOMAIN Stored : Stored[f] = IF f = frame + 1 THEN Taken ELSE store[f]
        BY <2>2 DEF Stored
      <3>4. \A f \in DOMAIN Stored : Stored[f].frame = f
        BY <2>2, <3>1, <3>2, <3>3
      <3>5. \A f : f \in DOMAIN Stored <=> f \in 1 .. frame + 1 /\ f > frame - MaxHistory
        BY <2>2, <3>1, <3>2
      <3> QED
        BY <3>2, <3>3, <3>4, <3>5
    <2>7. CASE Len(order) = MaxHistory
      <3>1. /\ frame >= MaxHistory
        BY <2>2, <2>7 DEF Window
      <3>2. /\ store' = [f \in DOMAIN Stored \ {Head(Ordered)} |-> Stored[f]]
            /\ order' = Tail(Ordered)
        BY <2>1, <2>2, <2>3, <2>7 DEF Evict
      <3>3. Head(Ordered) = frame - MaxHistory + 1
        BY <2>2, <2>3, <2>5, <2>7
      <3>4. Len(order') = MaxHistory /\ \A i \in 1 .. MaxHistory : order'[i] = Ordered[i + 1]
        BY <2>2, <2>3, <2>7, <3>2, HeadTailProperties
      <3>5. \A i \in 1 .. MaxHistory : order'[i] = frame + 1 - MaxHistory + i
        <4> TAKE i \in 1 .. MaxHistory
        <4>1. i + 1 \in 1 .. MaxHistory + 1 /\ i \in Nat
          BY <2>2
        <4>2. Ordered[i + 1] = frame - MaxHistory + (i + 1)
          BY <2>5, <2>7, <4>1
        <4> QED
          BY <2>2, <3>4, <4>1, <4>2
      <3>6. \A f : f \in DOMAIN store' <=> f \in 1 .. frame + 1 /\ f > frame + 1 - MaxHistory
        BY <2>2, <2>6, <3>2, <3>3
      <3>7. store'[frame + 1] = Taken /\ \A f \in DOMAIN store' : store'[f].frame = f
        BY <2>2, <2>6, <3>2, <3>3
      <3>8. HistoryIsWindow'
        BY <2>1, <2>2, <3>6, <3>7 DEF HistoryIsWindow
      <3> QED
        BY <2>1, <2>2, <3>1, <3>4, <3>5, <3>8 DEF Window
    <2>8. CASE Len(order) < MaxHistory
      <3>1. Len(order) = frame /\ frame < MaxHistory
        BY <2>2, <2>8 DEF Window
      <3>2. store' = Stored /\ order' = Ordered
        BY <2>1, <2>2, <2>3, <2>8, <3>1 DEF Evict
      <3>3. \A f : f \in DOMAIN Stored <=> f \in 1 .. frame + 1 /\ f > frame + 1 - MaxHistory
        BY <2>2, <2>6, <3>1
      <3>4. HistoryIsWindow'
        BY <2>1, <2>2, <2>6, <3>2, <3>3 DEF HistoryIsWindow
      <3>5. Len(order') = frame + 1 /\ \A i \in 1 .. frame + 1 : order'[i] = frame + 1 - (frame + 1) + i
        BY <2>2, <2>3, <2>5, <3>1, <3>2
      <3> QED
        BY <2>1, <2>2, <3>1, <3>4, <3>5 DEF Window
    <2> QED
      BY <2>2, <2>4, <2>7, <2>8 DEF IInv, StoreBounded
  <1>3. ASSUME NEW p \in Player, Send(p) \/ SendConcede(p) \/ Show(p) \/ SendAck(p)
        PROVE  UNCHANGED <<frame, snap, store, order>>
    BY <1>3 DEF Send, SendConcede, Show, SendAck, engine
  <1>4. ASSUME NEW r \in requests, FillSequence(r) \/ Accept(r) \/ Reject(r) \/ Lose(r)
        PROVE  UNCHANGED <<frame, snap, store, order>>
    BY <1>4 DEF FillSequence, Accept, Reject, Lose, engine
  <1>5. ASSUME NEW a \in acks, ReceiveAck(a) PROVE UNCHANGED <<frame, snap, store, order>>
    BY <1>5 DEF ReceiveAck
  <1>6. ~\E i \in DOMAIN rollbacks : Rollback(i)
    BY DEF Agreed, HonestAcksAgree
  <1>7. CASE EndGame \/ UNCHANGED vars
    BY <1>1, <1>7 DEF EndGame, vars, engine
  <1> QED
    BY <1>1, <1>2, <1>3, <1>4, <1>5, <1>6, <1>7 DEF Next, Step

\* Late or reordered acknowledgements are never taken for a desync.
THEOREM HonestAcksAreNoDesync ==
  ASSUME Diverged = {}
  PROVE  Spec => []HonestAcksAgree
  <1>1. IInv /\ Agreed /\ [Next]_vars => Agreed'
    BY AgreedNext
  <1>2. Agreed => HonestAcksAgree
    BY DEF Agreed
  <1> QED
    BY <1>1, <1>2, AgreedInit, Invariance, PTL DEF Spec

\* The map holds exactly the last snapshots, each under its own frame.
THEOREM HistoryStaysWindow ==
  ASSUME Diverged = {}
  PROVE  Spec => []HistoryIsWindow
  <1>1. IInv /\ Agreed /\ [Next]_vars => Agreed'
    BY AgreedNext
  <1>2. IInv /\ Agreed /\ Window /\ [Next]_vars => Window'
    BY WindowNext
  <1>3. Window => HistoryIsWindow
    BY DEF Window
  <1> QED
    BY <1>1, <1>2, <1>3, AgreedInit, WindowInit, Invariance, PTL DEF Spec
-----------------------------------------------------------------------------
\* A client that awaits each reply has at most one request on its way, and the
\* engine waits for it.
Awaiting(p) ==
  \/ RequestsOf(p) = {} /\ counter[p] = seqs[p]
  \/ \E r : RequestsOf(p) = {r} /\ counter[p] = seqs[p] + 1 /\ r.seq = seqs[p] + 1

InStep == finished \/ \A p \in Player : Awaiting(p)

\* A request that the engine waits for, based on a snapshot, is valid.
LEMMA AwaitedIsValid ==
  ASSUME TypeOK, Agreed, NEW r \in requests, r.seq = seqs[r.player] + 1
  PROVE  ValidateAction(r)
  <1>1. r.base \in made \cup {NoSnapshot} /\ snap \in made /\ snap.frame = frame /\ frame \in Nat
    BY DEF Agreed, TypeOK
  <1>2. CASE r.base = NoSnapshot
    BY <1>1, <1>2 DEF Agreed, ValidateAction, NoSnapshot
  <1>3. CASE r.base \in made
    BY <1>1, <1>3 DEF Agreed, ValidateAction
  <1> QED
    BY <1>1, <1>2, <1>3

\* On a reliable network, with clients that agree, every step keeps the numbers
\* in step.
LEMMA InStepNext ==
  ASSUME Reliable, IInv, Agreed, InStep, [Next]_vars
  PROVE  InStep'
  <1>0. /\ TypeOK /\ \A p \in Player : counter[p] \in Nat /\ seqs[p] \in Nat
        /\ \A r \in requests : r \in Request /\ r.player \in Player /\ r.concede \in BOOLEAN
    BY DEF IInv, TypeOK, Request
  <1>1. CASE UNCHANGED vars
    BY <1>1 DEF vars, InStep, Awaiting, RequestsOf, players, clients
  <1> SUFFICES ASSUME Step, \A p \in Player : Awaiting(p) PROVE InStep'
    BY <1>1 DEF Next, InStep
  <1>2. ASSUME \A p \in Player : RequestsOf(p)' = RequestsOf(p), UNCHANGED <<counter, seqs>>
        PROVE  InStep'
    BY <1>2 DEF InStep, Awaiting
  <1>3. ASSUME UNCHANGED <<requests, counter, seqs>> PROVE InStep'
    BY <1>2, <1>3 DEF RequestsOf
  <1>4. ASSUME NEW p \in Player, Send(p) PROVE InStep'
    <2>1. /\ RequestsOf(p) = {} /\ counter[p] = seqs[p] /\ seqs' = seqs
          /\ counter' = [counter EXCEPT ![p] = @ + 1]
          /\ requests' = requests \cup
               {[player |-> p, seq |-> counter'[p], base |-> known[p], concede |-> FALSE]}
      BY <1>4 DEF Send, Awaiting, players
    <2>2. counter'[p] = seqs'[p] + 1 /\ \A q \in Player : q # p => counter'[q] = counter[q]
      BY <1>0, <2>1 DEF TypeOK
    <2>3. RequestsOf(p)' = {[player |-> p, seq |-> counter'[p], base |-> known[p], concede |-> FALSE]}
      BY <2>1 DEF RequestsOf
    <2>4. \A q \in Player : q # p => RequestsOf(q)' = RequestsOf(q)
      BY <2>1 DEF RequestsOf
    <2>5. Awaiting(p)'
      <3>1. PICK r : r = [player |-> p, seq |-> counter'[p], base |-> known[p], concede |-> FALSE]
        OBVIOUS
      <3>2. RequestsOf(p)' = {r} /\ r.seq = seqs'[p] + 1 /\ counter'[p] = seqs'[p] + 1
        BY <2>2, <2>3, <3>1
      <3> QED
        BY <3>2 DEF Awaiting
    <2>6. ASSUME NEW q \in Player, q # p PROVE Awaiting(q)'
      BY <2>1, <2>2, <2>4, <2>6 DEF Awaiting
    <2> QED
      BY <2>5, <2>6 DEF InStep
  <1>5. ASSUME NEW p \in Player, SendConcede(p) PROVE InStep'
    <2>1. /\ requests' = requests \cup
               {[player |-> p, seq |-> 0, base |-> NoSnapshot, concede |-> TRUE]}
          /\ UNCHANGED <<counter, seqs>>
      BY <1>5 DEF SendConcede, clients, players
    <2>2. \A q \in Player : RequestsOf(q)' = RequestsOf(q)
      BY <2>1 DEF RequestsOf
    <2> QED
      BY <1>2, <2>1, <2>2
  <1>6. ASSUME NEW p \in Player, Show(p) \/ SendAck(p) PROVE InStep'
    BY <1>3, <1>6 DEF Show, SendAck, players, clients
  <1>7. ASSUME NEW r \in requests, FillSequence(r) PROVE InStep'
    <2>1. /\ r.seq = 0 /\ UNCHANGED <<counter, seqs>>
          /\ requests' = (requests \ {r}) \cup {[r EXCEPT !.seq = acked[r.player] + 1]}
      BY <1>7 DEF FillSequence, players, clients
    <2>2. r.concede
      BY <1>0, <2>1 DEF IInv, Sequenced
    <2>3. [r EXCEPT !.seq = acked[r.player] + 1].concede
      BY <1>0, <2>2 DEF Request
    <2>4. \A q \in Player : RequestsOf(q)' = RequestsOf(q)
      BY <2>1, <2>2, <2>3 DEF RequestsOf
    <2> QED
      BY <1>2, <2>1, <2>4
  <1>8. ASSUME NEW r \in requests, Accept(r) PROVE InStep'
    <2>1. PICK p \in Player : p = r.player
      BY <1>0
    <2>2. /\ requests' = requests \ {r} /\ seqs' = [seqs EXCEPT ![p] = r.seq]
          /\ r.seq = seqs[p] + 1 /\ finished' = r.concede /\ counter' = counter
      BY <1>8, <2>1 DEF Accept, ValidateAction, clients
    <2>3. CASE r.concede
      BY <2>2, <2>3 DEF InStep
    <2>4. CASE ~r.concede
      <3>1. r \in RequestsOf(p)
        BY <2>1, <2>4 DEF RequestsOf
      <3>2. RequestsOf(p) = {r} /\ counter[p] = seqs[p] + 1
        BY <3>1 DEF Awaiting
      <3>3. RequestsOf(p)' = {} /\ seqs'[p] = counter'[p]
        BY <1>0, <2>2, <3>2 DEF RequestsOf, TypeOK
      <3>4. \A q \in Player : q # p => RequestsOf(q)' = RequestsOf(q) /\ seqs'[q] = seqs[q]
        BY <1>0, <2>1, <2>2 DEF RequestsOf, TypeOK
      <3>5. Awaiting(p)'
        BY <3>3 DEF Awaiting
      <3>6. ASSUME NEW q \in Player, q # p PROVE Awaiting(q)'
        BY <2>2, <3>4, <3>6 DEF Awaiting
      <3> QED
        BY <3>5, <3>6 DEF InStep
    <2> QED
      BY <2>3, <2>4
  <1>9. ASSUME NEW r \in requests, Reject(r) PROVE InStep'
    <2>1. requests' = requests \ {r} /\ ~ValidateAction(r) /\ UNCHANGED <<counter, seqs>>
      BY <1>9 DEF Reject, players
    <2>2. r.concede
      <3> SUFFICES ASSUME ~r.concede PROVE FALSE
        BY <1>0
      <3>1. r \in RequestsOf(r.player) /\ r.player \in Player
        BY <1>0 DEF RequestsOf
      <3>2. r.seq = seqs[r.player] + 1
        BY <3>1 DEF Awaiting
      <3> QED
        BY <1>0, <2>1, <3>2, AwaitedIsValid
    <2>3. \A q \in Player : RequestsOf(q)' = RequestsOf(q)
      BY <2>1, <2>2 DEF RequestsOf
    <2> QED
      BY <1>2, <2>1, <2>3
  <1>10. ASSUME NEW r \in requests, Lose(r) PROVE FALSE
    BY <1>10 DEF Lose
  <1>11. ASSUME NEW a \in acks, ReceiveAck(a) PROVE InStep'
    BY <1>3, <1>11 DEF ReceiveAck, clients
  <1>12. ASSUME NEW i \in DOMAIN rollbacks, Rollback(i) PROVE InStep'
    BY <1>3, <1>12 DEF Rollback, players, clients
  <1>13. CASE GenerateSnapshot
    BY <1>3, <1>13, GenerateEffect DEF clients
  <1>14. CASE EndGame
    BY <1>3, <1>14 DEF EndGame, players, clients
  <1> QED
    BY <1>4, <1>5, <1>6, <1>7, <1>8, <1>9, <1>10, <1>11, <1>12, <1>13, <1>14 DEF Step

\* A client that awaits each reply is never out of step, and thus, when nobody
\* diverges, never rejected.
THEOREM NumbersStayInStep ==
  ASSUME Reliable, Diverged = {}
  PROVE  Spec => []NumbersInStep
  <1>1. IInv /\ Agreed /\ [Next]_vars => Agreed'
    BY AgreedNext
  <1>2. IInv /\ Agreed /\ InStep /\ [Next]_vars => InStep'
    BY InStepNext
  <1>3. Init => InStep
    BY DEF Init, InStep, Awaiting, RequestsOf
  <1>4. IInv /\ InStep => NumbersInStep
    <2> SUFFICES ASSUME IInv, InStep, NEW p \in Player, ~finished
                 PROVE  counter[p] = seqs[p] + Cardinality(RequestsOf(p))
      BY DEF NumbersInStep
    <2>1. Awaiting(p) /\ counter[p] \in Nat /\ seqs[p] \in Nat
      BY DEF InStep, IInv, TypeOK
    <2>2. CASE RequestsOf(p) = {} /\ counter[p] = seqs[p]
      BY <2>1, <2>2, FS_EmptySet
    <2>3. ASSUME NEW r, RequestsOf(p) = {r}, counter[p] = seqs[p] + 1
          PROVE  counter[p] = seqs[p] + Cardinality(RequestsOf(p))
      <3>1. Cardinality({r}) = 1
        BY FS_Singleton
      <3> QED
        BY <2>3, <3>1
    <2> QED
      BY <2>1, <2>2, <2>3 DEF Awaiting
  <1> QED
    BY <1>1, <1>2, <1>3, <1>4, AgreedInit, Invariance, PTL DEF Spec
=============================================================================
