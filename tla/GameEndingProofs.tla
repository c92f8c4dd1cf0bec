-------------------------- MODULE GameEndingProofs --------------------------
(***************************************************************************)
(* Proofs about the end of a game, whichever goroutines end it.  However   *)
(* their flushes overlap and their writes fail, the index the recorder     *)
(* keeps of what is stored never runs ahead and never goes back; all who   *)
(* pay the result agree on it; and one that nobody concedes is counted     *)
(* once, and fully paid before the process can die of it.                  *)
(***************************************************************************)
EXTENDS GameEnding, FiniteSetTheorems, TLAPS

\* The types the argument needs.
FlushType ==
  /\ at \in [Ender -> Stages]
  /\ copy \in [Ender -> [winner : Player \cup {NoPlayer}, from : Nat, upto : Nat]]
  /\ actions \in Nat /\ flushed \in Nat
  /\ stored \subseteq Nat
  /\ winner \in Player \cup {NoPlayer} /\ replayWinner \in Player \cup {NoPlayer}

Stored(e) == copy[e].from .. (copy[e].upto - 1)

\* A flush under way copied a non-empty range that begins at or before the
\* index.  The one that has stored its range without a duplicate is alone, and
\* nobody has moved the index since it copied.
FlushesInOrder ==
  /\ FlushedIsStored
  /\ \A e \in Ender : at[e] \in {"meta", "insert", "index"} =>
       /\ copy[e].from < copy[e].upto /\ copy[e].upto <= actions
       /\ copy[e].from <= flushed
  /\ \A e \in Ender : at[e] = "index" => copy[e].from = flushed /\ Stored(e) \subseteq stored
  /\ \A e, f \in Ender : at[e] = "index" /\ at[f] = "index" => e = f

FlushInv == FlushType /\ FlushesInOrder

\* The indexes below a count are among those below a larger one.
LEMMA LongerRange ==
  ASSUME NEW m \in Nat, NEW n \in Nat, m <= n
  PROVE  0 .. (m - 1) \subseteq 0 .. (n - 1)
  OBVIOUS

\* Nothing is stored or copied at the start.
LEMMA FlushInit == Init => FlushInv
  <1> SUFFICES ASSUME Init PROVE FlushInv
    OBVIOUS
  <1>1. FlushType
    BY DEF Init, FlushType, Stages
  <1>2. FlushesInOrder
    BY DEF Init, FlushesInOrder, FlushedIsStored
  <1> QED
    BY <1>1, <1>2 DEF FlushInv

\* Steps that move one ender to a stage outside a flush, or move nobody, and
\* at most record actions.
LEMMA FlushElsewhere ==
  ASSUME FlushInv, UNCHANGED <<copy, flushed, stored>>,
         actions' \in Nat, actions <= actions',
         winner' \in Player \cup {NoPlayer}, replayWinner' \in Player \cup {NoPlayer},
         \/ UNCHANGED at
         \/ \E e \in Ender, s \in Stages \ {"meta", "insert", "index"} : Go(e, s)
  PROVE  FlushInv'
  <1> USE DEF FlushInv, FlushType
  <1>1. at' \in [Ender -> Stages]
    BY DEF Go
  <1>2. \A e \in Ender : at'[e] \in {"meta", "insert", "index"} => at'[e] = at[e]
    BY DEF Go
  <1>3. FlushedIsStored'
    <2>1. 0 .. (actions - 1) \subseteq 0 .. (actions' - 1)
      BY LongerRange
    <2> QED
      BY <2>1 DEF FlushesInOrder, FlushedIsStored
  <1>4. \A e \in Ender : at'[e] \in {"meta", "insert", "index"} =>
          /\ copy[e].from < copy[e].upto /\ copy[e].upto <= actions'
          /\ copy[e].from <= flushed
    BY <1>2 DEF FlushesInOrder
  <1>5. /\ \A e \in Ender : at'[e] = "index" =>
              copy[e].from = flushed /\ Stored(e) \subseteq stored
        /\ \A e, f \in Ender : at'[e] = "index" /\ at'[f] = "index" => e = f
    BY <1>2 DEF FlushesInOrder
  <1>6. FlushesInOrder'
    BY <1>3, <1>4, <1>5 DEF FlushesInOrder, Stored
  <1> QED
    BY <1>1, <1>6

\* While the game runs nobody flushes.
LEMMA FlushRunning == FlushInv /\ Running => FlushInv'
  <1> SUFFICES ASSUME FlushInv, Running PROVE FlushInv'
    OBVIOUS
  <1> USE DEF FlushInv, FlushType, enders, recorder, replays, game, world
  <1>1. ASSUME NEW p \in Player, FindGame(p) PROVE FlushInv'
    BY <1>1, FlushElsewhere DEF FindGame
  <1>2. ASSUME NEW p \in Player, EndTurn(p) PROVE FlushInv'
    <2>1. actions' \in Nat /\ actions <= actions'
      BY <1>2 DEF EndTurn
    <2> QED
      BY <1>2, <2>1, FlushElsewhere DEF EndTurn
  <1>3. ASSUME NEW event \in queued, Listen(event) PROVE FlushInv'
    BY <1>3, FlushElsewhere DEF Listen
  <1>4. CASE TickEnds
    BY <1>4, FlushElsewhere DEF TickEnds
  <1>5. CASE TickNamesWinner
    BY <1>5, FlushElsewhere DEF TickNamesWinner
  <1>6. CASE TickTimes
    BY <1>6, FlushElsewhere DEF TickTimes
  <1>7. CASE TakeSnapshot
    BY <1>7, FlushElsewhere DEF TakeSnapshot
  <1>8. CASE BroadcastFrame
    BY <1>8, FlushElsewhere DEF BroadcastFrame
  <1> QED
    BY <1>1, <1>2, <1>3, <1>4, <1>5, <1>6, <1>7, <1>8 DEF Running

\* The steps of a concession keep FlushInv.
LEMMA FlushConcession ==
  ASSUME FlushInv, NEW p \in Conceders, Concession(p)
  PROVE  FlushInv'
  <1> USE DEF FlushInv, FlushType, enders, recorder, replays, game, world, Stages
  <1>0. p \in Ender /\ p \in Player
    BY EndingAssumption DEF Ender
  <1>1. CASE AskConcede(p)
    BY <1>0, <1>1, FlushElsewhere DEF AskConcede
  <1>2. CASE RefuseConcede(p)
    BY <1>0, <1>2, FlushElsewhere DEF RefuseConcede
  <1>3. CASE ConcedeState(p)
    BY <1>0, <1>3, FlushElsewhere DEF ConcedeState
  <1>4. CASE ConcedeWinner(p)
    <2>1. actions' \in Nat /\ actions <= actions'
      BY <1>4 DEF ConcedeWinner
    <2>2. winner' \in Player
      BY <1>0, <1>4 DEF ConcedeWinner, Opponent, Player
    <2> QED
      BY <1>0, <1>4, <2>1, <2>2, FlushElsewhere DEF ConcedeWinner
  <1>5. CASE Unlock(p)
    BY <1>0, <1>5, FlushElsewhere DEF Unlock
  <1>6. CASE Lookup(p)
    BY <1>0, <1>6, FlushElsewhere DEF Lookup
  <1> QED
    BY <1>1, <1>2, <1>3, <1>4, <1>5, <1>6 DEF Concession

\* The monitor and the manager outside a flush.
LEMMA FlushOthers == FlushInv /\ (Notice \/ ReadResult \/ Stop) => FlushInv'
  <1> SUFFICES ASSUME FlushInv, Notice \/ ReadResult \/ Stop PROVE FlushInv'
    OBVIOUS
  <1> USE DEF FlushInv, FlushType, enders, recorder, replays, game, world, Stages
  <1>0. Monitor \in Ender /\ (Stops => Manager \in Ender)
    BY DEF Ender
  <1>1. CASE Notice
    BY <1>0, <1>1, FlushElsewhere DEF Notice
  <1>2. CASE ReadResult
    BY <1>0, <1>2, FlushElsewhere DEF ReadResult
  <1>3. CASE Stop
    BY <1>0, <1>3, FlushElsewhere DEF Stop
  <1> QED
    BY <1>1, <1>2, <1>3

\* The steps of HandleGameEndInternal and of a payout.  SaveActions and
\* SetFlushIndex are where the order could be lost.
LEMMA FlushCopied == 
  ASSUME FlushInv, NEW e \in Ender, CopyActions(e)
  PROVE  FlushInv'
  <1> USE DEF FlushInv, FlushType, recorder, replays, game
  <1>1. CASE actions <= flushed
    BY <1>1, FlushElsewhere DEF CopyActions, enders, Stages
  <1>2. CASE ~(actions <= flushed)
    <2> DEFINE new == [winner |-> replayWinner, from |-> flushed, upto |-> actions]
    <2>1. /\ at' = [at EXCEPT ![e] = "meta"]
          /\ copy' = [copy EXCEPT ![e] = new]
          /\ UNCHANGED <<actions, flushed, stored, winner, replayWinner>>
      BY <1>2 DEF CopyActions, Go
    <2>2. FlushType'
      BY <2>1 DEF Stages
    <2>3. FlushedIsStored'
      BY <2>1 DEF FlushesInOrder, FlushedIsStored
    <2>4. \A f \in Ender : at'[f] \in {"meta", "insert", "index"} =>
            /\ copy'[f].from < copy'[f].upto /\ copy'[f].upto <= actions
            /\ copy'[f].from <= flushed
      <3> SUFFICES ASSUME NEW f \in Ender, at'[f] \in {"meta", "insert", "index"}
                   PROVE  /\ copy'[f].from < copy'[f].upto /\ copy'[f].upto <= actions
                          /\ copy'[f].from <= flushed
        OBVIOUS
      <3>1. CASE f = e
        BY <1>2, <2>1, <3>1
      <3>2. CASE f # e
        BY <2>1, <3>2 DEF FlushesInOrder
      <3> QED
        BY <3>1, <3>2
    <2>5. \A f \in Ender : at'[f] = "index" => at[f] = "index" /\ copy'[f] = copy[f]
      BY <2>1
    <2>6. FlushesInOrder'
      BY <2>1, <2>3, <2>4, <2>5 DEF FlushesInOrder, Stored
    <2> QED
      BY <2>2, <2>6
  <1> QED
    BY <1>1, <1>2

\* So does writing the game's document.
LEMMA FlushMeta ==
  ASSUME FlushInv, NEW e \in Ender, SaveMeta(e)
  PROVE  FlushInv'
  <1> USE DEF FlushInv, FlushType, recorder, enders, game
  <1>1. CASE Go(e, "usage")
    BY <1>1, FlushElsewhere DEF SaveMeta, Stages
  <1>2. CASE Go(e, "insert")
    <2>1. /\ at[e] = "meta" /\ at' = [at EXCEPT ![e] = "insert"]
          /\ UNCHANGED <<copy, actions, flushed, stored, winner, replayWinner>>
      BY <1>2 DEF SaveMeta, Go
    <2>2. FlushType'
      BY <2>1 DEF Stages
    <2>3. FlushesInOrder'
      BY <2>1 DEF FlushesInOrder, FlushedIsStored, Stored
    <2> QED
      BY <2>2, <2>3
  <1> QED
    BY <1>1, <1>2 DEF SaveMeta

\* A range stored without a duplicate begins at the index, and no other ender
\* has stored one since: the document at the index would be a duplicate.
LEMMA FlushStored ==
  ASSUME FlushInv, NEW e \in Ender, SaveActions(e)
  PROVE  FlushInv'
  <1> DEFINE docs == Stored(e)
  <1> USE DEF FlushInv, FlushType, recorder, enders, game
  <1>1. /\ at[e] = "insert"
        /\ UNCHANGED <<copy, actions, flushed, winner, replayWinner>>
        /\ stored \subseteq stored' /\ stored' \subseteq stored \cup docs
        /\ \/ /\ at' = [at EXCEPT ![e] = "index"]
              /\ docs \cap stored = {} /\ docs \subseteq stored'
           \/ at' = [at EXCEPT ![e] = "usage"]
    BY DEF SaveActions, Go, OnError, Inserted, Stored
  <1>2. /\ copy[e].from \in Nat /\ copy[e].upto \in Nat
        /\ copy[e].from < copy[e].upto /\ copy[e].upto <= actions
        /\ copy[e].from <= flushed
    BY <1>1 DEF FlushesInOrder
  <1>3. docs \subseteq 0 .. (actions - 1) /\ copy[e].from \in docs
    BY <1>2 DEF Stored
  <1>4. FlushType'
    BY <1>1, <1>3 DEF Stages
  <1>5. FlushedIsStored'
    BY <1>1, <1>3 DEF FlushesInOrder, FlushedIsStored
  <1>6. \A f \in Ender : at'[f] \in {"meta", "insert", "index"} =>
          at[f] \in {"meta", "insert", "index"}
    BY <1>1
  <1>7. \A f \in Ender : at'[f] = "index" /\ f # e => at[f] = "index"
    BY <1>1
  <1>8. ASSUME at'[e] = "index"
        PROVE  /\ docs \cap stored = {} /\ docs \subseteq stored'
               /\ copy[e].from = flushed
               /\ \A f \in Ender : at[f] # "index"
    <2>1. docs \cap stored = {} /\ docs \subseteq stored'
      BY <1>1, <1>8
    <2>2. copy[e].from = flushed
      <3>1. ~(copy[e].from < flushed)
        <4>1. copy[e].from < flushed => copy[e].from \in stored
          BY <1>2 DEF FlushesInOrder, FlushedIsStored
        <4> QED
          BY <1>3, <2>1, <4>1
      <3> QED
        BY <1>2, <3>1
    <2>3. ASSUME NEW f \in Ender, at[f] = "index" PROVE FALSE
      <3>1. copy[f].from = flushed /\ Stored(f) \subseteq stored
        BY <2>3 DEF FlushesInOrder
      <3>2. copy[f].from \in Stored(f)
        BY <2>3 DEF FlushesInOrder, Stored
      <3> QED
        BY <1>3, <2>1, <2>2, <3>1, <3>2
    <2> QED
      BY <2>1, <2>2, <2>3
  <1>9. \A f \in Ender : at'[f] = "index" =>
          copy[f].from = flushed /\ Stored(f) \subseteq stored'
    BY <1>1, <1>7, <1>8 DEF FlushesInOrder
  <1>10. \A f, g \in Ender : at'[f] = "index" /\ at'[g] = "index" => f = g
    BY <1>7, <1>8 DEF FlushesInOrder
  <1>11. FlushesInOrder'
    BY <1>1, <1>5, <1>6, <1>9, <1>10 DEF FlushesInOrder, Stored
  <1> QED
    BY <1>4, <1>11

\* Setting the index moves it forward, to what has been stored.
LEMMA FlushIndexed ==
  ASSUME FlushInv, NEW e \in Ender, SetFlushIndex(e)
  PROVE  FlushInv' /\ flushed' >= flushed
  <1> USE DEF FlushInv, FlushType, recorder, replays, enders, game
  <1>1. /\ at[e] = "index" /\ at' = [at EXCEPT ![e] = "usage"]
        /\ flushed' = copy[e].upto
        /\ UNCHANGED <<copy, actions, stored, winner, replayWinner>>
    BY DEF SetFlushIndex, Go
  <1>2. /\ copy[e].from \in Nat /\ copy[e].upto \in Nat
        /\ copy[e].from = flushed /\ copy[e].from < copy[e].upto
        /\ Stored(e) \subseteq stored
    BY <1>1 DEF FlushesInOrder
  <1>3. FlushType'
    BY <1>1, <1>2 DEF Stages
  <1>4. FlushedIsStored'
    <2>1. 0 .. (flushed' - 1) \subseteq (0 .. (flushed - 1)) \cup Stored(e)
      BY <1>1, <1>2 DEF Stored
    <2> QED
      BY <1>1, <1>2, <2>1 DEF FlushesInOrder, FlushedIsStored
  <1>5. \A f \in Ender : at'[f] \in {"meta", "insert", "index"} =>
          at[f] \in {"meta", "insert", "index"} /\ copy[f].from <= flushed'
    BY <1>1, <1>2 DEF FlushesInOrder
  <1>6. \A f \in Ender : at'[f] # "index"
    BY <1>1 DEF FlushesInOrder
  <1>7. FlushesInOrder'
    BY <1>1, <1>4, <1>5, <1>6 DEF FlushesInOrder, Stored
  <1> QED
    BY <1>1, <1>2, <1>3, <1>7

\* Reading the winner precedes a flush and leaves the ranges alone.
LEMMA FlushNamed ==
  ASSUME FlushInv, NEW e \in Ender, ReadWinner(e)
  PROVE  FlushInv'
  <1> USE DEF FlushInv, FlushType, recorder, replays, game
  <1>1. /\ at' = [at EXCEPT ![e] = "named"]
        /\ copy' = [copy EXCEPT ![e].winner = winner]
        /\ UNCHANGED <<actions, flushed, stored, winner, replayWinner>>
    BY DEF ReadWinner, Go
  <1>2. FlushType'
    <2>1. at' \in [Ender -> Stages]
      BY <1>1 DEF Stages
    <2>2. copy' \in [Ender -> [winner : Player \cup {NoPlayer}, from : Nat, upto : Nat]]
      BY <1>1
    <2> QED
      BY <1>1, <2>1, <2>2
  <1>3. \A f \in Ender : at'[f] \in {"meta", "insert", "index"} =>
          at'[f] = at[f] /\ copy'[f] = copy[f]
    BY <1>1
  <1>4. FlushesInOrder'
    BY <1>1, <1>3 DEF FlushesInOrder, FlushedIsStored, Stored
  <1> QED
    BY <1>2, <1>4

\* The stages of an ender keep FlushInv, and the index never goes back.
LEMMA FlushEnding ==
  ASSUME FlushInv, NEW e \in Ender, Ending(e)
  PROVE  FlushInv' /\ flushed' >= flushed
  <1> USE DEF FlushInv, FlushType, enders, recorder, replays, game, world, Stages
  <1>0. flushed \in Nat /\ (UNCHANGED flushed => flushed' >= flushed)
    OBVIOUS
  <1>1. CASE MarkFinished(e)
    BY <1>1, FlushElsewhere DEF MarkFinished
  <1>10. CASE ReadWinner(e)
    <2>1. UNCHANGED flushed
      BY <1>10, Zenon DEF ReadWinner
    <2> QED
      BY <1>0, <1>10, <2>1, FlushNamed
  <1>2. CASE CopyActions(e)
    BY <1>2, FlushCopied DEF CopyActions
  <1>3. CASE SaveMeta(e)
    BY <1>3, FlushMeta DEF SaveMeta
  <1>4. CASE SaveActions(e)
    <2>1. UNCHANGED flushed
      BY <1>4, Zenon DEF SaveActions
    <2> QED
      BY <1>0, <1>4, <2>1, FlushStored
  <1>5. CASE SetFlushIndex(e)
    BY <1>5, FlushIndexed
  <1>6. CASE RecordUsage(e)
    <2>1. \E s \in {"unlock", "read", "close", "write"} : Go(e, s)
      BY <1>6 DEF RecordUsage, Go
    <2> QED
      BY <1>0, <1>6, <2>1, FlushElsewhere DEF RecordUsage
  <1>7. CASE IssueWrite(e)
    BY <1>7, FlushElsewhere DEF IssueWrite
  <1>8. CASE Remove(e)
    BY <1>8, FlushElsewhere DEF Remove
  <1>9. CASE Close(e)
    BY <1>9, FlushElsewhere DEF Close
  <1> QED
    BY <1>1, <1>2, <1>3, <1>4, <1>5, <1>6, <1>7, <1>8, <1>9, <1>10 DEF Ending

\* So does every step.
LEMMA FlushNext == FlushInv /\ [Next]_vars => FlushInv' /\ flushed' >= flushed
  <1> SUFFICES ASSUME FlushInv, [Next]_vars PROVE FlushInv' /\ flushed' >= flushed
    OBVIOUS
  <1>0. flushed \in Nat
    BY DEF FlushInv, FlushType
  <1>1. CASE Running
    <2>1. UNCHANGED flushed
      BY <1>1 DEF Running, FindGame, EndTurn, Listen, TickEnds, TickNamesWinner,
                  TickTimes, TakeSnapshot, BroadcastFrame, recorder
    <2> QED
      BY <1>0, <1>1, <2>1, FlushRunning
  <1>2. ASSUME NEW p \in Conceders, Concession(p) PROVE FlushInv' /\ flushed' >= flushed
    <2>1. UNCHANGED flushed
      BY <1>2 DEF Concession, AskConcede, RefuseConcede, ConcedeState, ConcedeWinner,
                  Unlock, Lookup, recorder
    <2> QED
      BY <1>0, <1>2, <2>1, FlushConcession
  <1>3. CASE Notice \/ ReadResult \/ Stop
    <2>1. UNCHANGED flushed
      BY <1>3 DEF Notice, ReadResult, Stop, recorder
    <2> QED
      BY <1>0, <1>3, <2>1, FlushOthers
  <1>4. ASSUME NEW e \in Ender, Ending(e) PROVE FlushInv' /\ flushed' >= flushed
    BY <1>4, FlushEnding
  <1>5. CASE UNCHANGED vars
    BY <1>0, <1>5 DEF vars, game, enders, recorder, replays, FlushInv, FlushType,
                      FlushesInOrder, FlushedIsStored, Stored
  <1> QED
    BY <1>1, <1>2, <1>3, <1>4, <1>5 DEF Next, Step

\* Whatever the recorder takes for stored is stored, and nothing is stored
\* that the game has not recorded (FlushToStore, SaveReplayActions).
THEOREM FlushNeverAhead == Spec => []FlushedIsStored
  <1>1. FlushInv => FlushedIsStored
    BY DEF FlushInv, FlushesInOrder
  <1> QED
    BY <1>1, FlushInit, FlushNext, PTL DEF Spec

\* No flush sets back the index another one has reached (FlushToStore's second
\* critical section).
THEOREM FlushNeverSetBack == Spec => FlushNeverBack
  <1>1. FlushInv /\ [Next]_vars => [flushed' >= flushed]_vars
    BY FlushNext
  <1> QED
    BY <1>1, FlushInit, FlushNext, PTL DEF Spec, FlushNeverBack

-----------------------------------------------------------------------------
(* Who is paid. *)

PayType ==
  /\ state \in {"playing", "finished"} /\ winner \in Player \cup {NoPlayer}
  /\ timed \in BOOLEAN
  /\ mu \in {Free, "tick", "snapshot"} \cup Conceders
  /\ at \in [Ender -> Stages]
  /\ claim \in [Ender -> [winner : Player \cup {NoPlayer}, timed : BOOLEAN]]
  /\ step \in [Ender -> Nat]

\* The winner is assigned once: in the tick that holds mu before any concession
\* is accepted, or by the one concession accepted, which holds mu until then.
OneEnd ==
  /\ state = "playing" => winner = NoPlayer /\ Accepted = {} /\ mu # "tick"
  /\ mu = "tick" => winner = NoPlayer /\ Accepted = {}
  /\ \A p, q \in Accepted : p = q
  /\ \A p \in Conceders : at[p] = "torn" => mu = p /\ winner = NoPlayer
  /\ \A p \in Accepted : at[p] # "torn" =>
       winner # NoPlayer /\ (mu = p \/ claim[p].winner = winner)

\* A handler pays only after it has released mu and read the winner.
HandlersPay ==
  \A p \in Conceders :
    /\ at[p] = "write" => mu # p
    /\ step[p] > 0 => /\ p \in Accepted /\ state = "finished"
                      /\ winner # NoPlayer /\ claim[p].winner = winner

MonitorPays ==
  /\ at[Monitor] # "idle" => state = "finished"
  /\ step[Monitor] > 0 => at[Monitor] # "idle"
  /\ claim[Monitor].winner \in {winner, NoPlayer}

ManagerPaysNot == Manager \in Ender => at[Manager] # "write" /\ step[Manager] = 0

PayInv == PayType /\ OneEnd /\ HandlersPay /\ MonitorPays /\ ManagerPaysNot

\* Who the enders are: conceding players, the monitor and the manager, all different.
LEMMA EnderIsKnown ==
  /\ Monitor \in Ender /\ Conceders \subseteq Ender /\ Conceders \subseteq Player
  /\ Monitor \notin Conceders /\ Manager \notin Conceders /\ Monitor # Manager
  /\ (Stops => Manager \in Ender)
  /\ \A e \in Ender : e \in Conceders \/ e = Monitor \/ e = Manager
  /\ NoPlayer \notin Player
  /\ \A e \in Ender : e \notin {Free, "tick", "snapshot"}
  /\ Free # "tick" /\ Free # "snapshot"
  BY EndingAssumption DEF Ender, Free

\* Nobody has read a winner at the start.
LEMMA PayInit == Init => PayInv
  <1> SUFFICES ASSUME Init PROVE PayInv
    OBVIOUS
  <1>1. PayType
    BY DEF Init, PayType, Stages
  <1>2. Accepted = {}
    BY EnderIsKnown DEF Init, Accepted
  <1>3. OneEnd
    BY <1>2, EnderIsKnown DEF Init, OneEnd, Free
  <1>4. HandlersPay /\ MonitorPays /\ ManagerPaysNot
    BY EnderIsKnown DEF Init, HandlersPay, MonitorPays, ManagerPaysNot
  <1> QED
    BY <1>1, <1>3, <1>4 DEF PayInv

\* Nothing the payouts depend on moves.
LEMMA PayStill ==
  ASSUME PayInv, UNCHANGED <<state, winner, mu, at, claim, step>>, timed' \in BOOLEAN
  PROVE  PayInv'
  BY DEF PayInv, PayType, OneEnd, HandlersPay, MonitorPays, ManagerPaysNot, Accepted

\* One ender goes on to another stage, and no more.
LEMMA PayMove ==
  ASSUME PayInv, UNCHANGED <<state, winner, timed, mu, claim, step>>,
         NEW e \in Ender, NEW s \in Stages, Go(e, s),
         s # "torn", at[e] # "torn",
         e \in Conceders => (at[e] \in {"idle", "asked"} <=> s \in {"idle", "asked"}),
         s = "write" => e \in Conceders \cup {Monitor} /\ mu # e,
         e = Monitor => s # "idle" /\ state = "finished"
  PROVE  PayInv'
  <1> USE DEF PayInv, PayType
  <1>1. PayType'
    BY DEF Go
  <1>2. at' = [at EXCEPT ![e] = s]
    BY DEF Go
  <1>3. Accepted' = Accepted
    BY <1>2, EnderIsKnown DEF Accepted
  <1>4. \A f \in Ender : at'[f] = "torn" <=> at[f] = "torn"
    BY <1>2
  <1>5. OneEnd'
    BY <1>3, <1>4, EnderIsKnown DEF OneEnd, Accepted
  <1>6. HandlersPay'
    BY <1>2, <1>3, EnderIsKnown DEF HandlersPay
  <1>7. MonitorPays'
    BY <1>2, EnderIsKnown DEF MonitorPays
  <1>8. ManagerPaysNot'
    BY <1>2, EnderIsKnown DEF ManagerPaysNot
  <1> QED
    BY <1>1, <1>5, <1>6, <1>7, <1>8

\* A step that changes neither the enders' stages nor their claims, and the
\* winner only while a tick holds mu.
LEMMA PayRunning == PayInv /\ Running => PayInv'
  <1> SUFFICES ASSUME PayInv, Running PROVE PayInv'
    OBVIOUS
  <1> USE DEF PayInv, PayType, enders, game, world
  <1>1. ASSUME NEW p \in Player, FindGame(p) PROVE PayInv'
    BY <1>1, PayStill DEF FindGame
  <1>2. ASSUME NEW p \in Player, EndTurn(p) PROVE PayInv'
    BY <1>2, PayStill DEF EndTurn
  <1>3. ASSUME NEW event \in queued, Listen(event) PROVE PayInv'
    BY <1>3, PayStill DEF Listen
  <1>4. CASE TickEnds
    <2>1. /\ state = "playing" /\ state' = "finished" /\ mu' = "tick"
          /\ UNCHANGED <<winner, timed, at, claim, step>>
      BY <1>4 DEF TickEnds
    <2>2. Accepted' = {} /\ Accepted = {} /\ winner = NoPlayer
      BY <2>1 DEF OneEnd, Accepted
    <2>3. OneEnd'
      BY <2>1, <2>2, EnderIsKnown DEF OneEnd, Accepted
    <2>4. HandlersPay' /\ MonitorPays' /\ ManagerPaysNot'
      BY <2>1, <2>2, EnderIsKnown DEF HandlersPay, MonitorPays, ManagerPaysNot
    <2> QED
      BY <2>1, <2>3, <2>4
  <1>5. CASE TickNamesWinner
    <2>1. /\ mu = "tick" /\ mu' = Free /\ winner' \in Player
          /\ UNCHANGED <<state, timed, at, claim, step>>
      BY <1>5 DEF TickNamesWinner
    <2>2. Accepted' = {} /\ Accepted = {} /\ winner = NoPlayer /\ state = "finished"
      BY <2>1 DEF OneEnd, Accepted
    <2>3. OneEnd'
      BY <2>1, <2>2, EnderIsKnown DEF OneEnd, Accepted
    <2>4. HandlersPay' /\ MonitorPays' /\ ManagerPaysNot'
      BY <2>1, <2>2, EnderIsKnown DEF HandlersPay, MonitorPays, ManagerPaysNot
    <2> QED
      BY <2>1, <2>3, <2>4
  <1>6. CASE TickTimes
    BY <1>6, PayStill DEF TickTimes
  <1>7. CASE TakeSnapshot
    <2>1. /\ state = "playing" /\ mu' = "snapshot"
          /\ UNCHANGED <<state, winner, timed, at, claim, step>>
      BY <1>7 DEF TakeSnapshot
    <2>2. Accepted' = {} /\ Accepted = {} /\ winner = NoPlayer
      BY <2>1 DEF OneEnd, Accepted
    <2>3. OneEnd'
      BY <2>1, <2>2, EnderIsKnown DEF OneEnd, Accepted
    <2>4. HandlersPay' /\ MonitorPays' /\ ManagerPaysNot'
      BY <2>1, <2>2, EnderIsKnown DEF HandlersPay, MonitorPays, ManagerPaysNot
    <2> QED
      BY <2>1, <2>3, <2>4
  <1>8. CASE BroadcastFrame
    <2>1. /\ mu = "snapshot" /\ mu' = Free
          /\ UNCHANGED <<state, winner, timed, at, claim, step>>
      BY <1>8 DEF BroadcastFrame
    <2>2. \A p \in Conceders : mu # p /\ mu' # p
      BY <2>1, EnderIsKnown
    <2>3. OneEnd'
      BY <2>1, <2>2, EnderIsKnown DEF OneEnd, Accepted
    <2>4. HandlersPay' /\ MonitorPays' /\ ManagerPaysNot'
      BY <2>1, <2>2 DEF HandlersPay, MonitorPays, ManagerPaysNot, Accepted
    <2> QED
      BY <2>1, <2>3, <2>4
  <1> QED
    BY <1>1, <1>2, <1>3, <1>4, <1>5, <1>6, <1>7, <1>8 DEF Running

\* The steps of a concession keep PayInv.
LEMMA PayConcession ==
  ASSUME PayInv, NEW p \in Conceders, Concession(p)
  PROVE  PayInv'
  <1> USE DEF PayInv, PayType, enders, game, world
  <1>0. /\ p \in Ender /\ p \in Player /\ p # Monitor /\ p # Manager
        /\ p # Free /\ p # "tick" /\ p # "snapshot"
    BY EnderIsKnown
  <1>1. CASE AskConcede(p)
    BY <1>0, <1>1, PayMove DEF AskConcede, Stages
  <1>2. CASE RefuseConcede(p)
    BY <1>0, <1>2, PayMove DEF RefuseConcede, Stages
  <1>3. CASE ConcedeState(p)
    <2>1. /\ at[p] = "asked" /\ state = "playing" /\ state' = "finished" /\ mu' = p
          /\ at' = [at EXCEPT ![p] = "torn"]
          /\ UNCHANGED <<winner, timed, claim, step>>
      BY <1>3 DEF ConcedeState, Concedable, Go
    <2>2. winner = NoPlayer /\ Accepted = {}
      BY <2>1 DEF OneEnd
    <2>3. Accepted' = {p}
      BY <1>0, <2>1, <2>2, EnderIsKnown DEF Accepted
    <2>4. PayType'
      BY <2>1 DEF Stages
    <2>5. OneEnd'
      BY <1>0, <2>1, <2>2, <2>3, EnderIsKnown DEF OneEnd, Accepted
    <2>6. HandlersPay' /\ MonitorPays' /\ ManagerPaysNot'
      BY <1>0, <2>1, <2>2, EnderIsKnown DEF HandlersPay, MonitorPays, ManagerPaysNot, Accepted
    <2> QED
      BY <2>4, <2>5, <2>6
  <1>4. CASE ConcedeWinner(p)
    <2>1. /\ at[p] = "torn" /\ winner' \in Player /\ timed' = TRUE
          /\ at' = [at EXCEPT ![p] = "mark"]
          /\ UNCHANGED <<state, mu, claim, step>>
      BY <1>0, <1>4 DEF ConcedeWinner, Go, Opponent, Player
    <2>2. mu = p /\ winner = NoPlayer /\ p \in Accepted /\ state = "finished"
      BY <1>0, <2>1, EnderIsKnown DEF OneEnd, Accepted
    <2>3. Accepted' = Accepted /\ \A q \in Accepted : q = p
      BY <1>0, <2>1, <2>2, EnderIsKnown DEF OneEnd, Accepted
    <2>4. PayType'
      BY <2>1 DEF Stages
    <2>5. OneEnd'
      BY <1>0, <2>1, <2>2, <2>3, EnderIsKnown DEF OneEnd, Accepted
    <2>6. HandlersPay' /\ MonitorPays' /\ ManagerPaysNot'
      BY <1>0, <2>1, <2>2, <2>3, EnderIsKnown DEF HandlersPay, MonitorPays, ManagerPaysNot
    <2> QED
      BY <2>4, <2>5, <2>6
  <1>5. CASE Unlock(p)
    <2>1. /\ at[p] = "unlock" /\ mu' = Free
          /\ at' = [at EXCEPT ![p] = "lookup"]
          /\ claim' = [claim EXCEPT ![p] = [winner |-> winner, timed |-> timed]]
          /\ UNCHANGED <<state, winner, timed, step>>
      BY <1>5 DEF Unlock, Go
    <2>2. p \in Accepted /\ winner # NoPlayer /\ state = "finished" /\ mu # "tick"
      BY <1>0, <2>1, EnderIsKnown DEF OneEnd, Accepted
    <2>3. Accepted' = Accepted /\ \A q \in Accepted : q = p
      BY <1>0, <2>1, <2>2, EnderIsKnown DEF OneEnd, Accepted
    <2>4. PayType'
      BY <2>1 DEF Stages
    <2>5. claim'[p].winner = winner /\ \A e \in Ender : e # p => claim'[e] = claim[e]
      BY <1>0, <2>1
    <2>6. OneEnd'
      BY <1>0, <2>1, <2>2, <2>3, <2>5, EnderIsKnown DEF OneEnd, Accepted
    <2>7. HandlersPay' /\ MonitorPays' /\ ManagerPaysNot'
      BY <1>0, <2>1, <2>2, <2>3, <2>5, EnderIsKnown DEF HandlersPay, MonitorPays, ManagerPaysNot
    <2> QED
      BY <2>4, <2>6, <2>7
  <1>6. CASE Lookup(p)
    BY <1>0, <1>6, PayMove DEF Lookup, Stages
  <1> QED
    BY <1>1, <1>2, <1>3, <1>4, <1>5, <1>6 DEF Concession

\* The monitor reads the winner the game has, or none yet.
LEMMA PayOthers == PayInv /\ (Notice \/ ReadResult \/ Stop) => PayInv'
  <1> SUFFICES ASSUME PayInv, Notice \/ ReadResult \/ Stop PROVE PayInv'
    OBVIOUS
  <1> USE DEF PayInv, PayType, enders, game
  <1>1. CASE Notice
    BY <1>1, PayMove, EnderIsKnown DEF Notice, Stages, Polling
  <1>2. CASE ReadResult
    <2>1. /\ at[Monitor] = "read" /\ at' = [at EXCEPT ![Monitor] = "write"]
          /\ claim' = [claim EXCEPT ![Monitor] = [winner |-> winner, timed |-> timed]]
          /\ UNCHANGED <<state, winner, timed, mu, step>>
      BY <1>2 DEF ReadResult, Go
    <2>2. \A p \in Conceders : at'[p] = at[p] /\ claim'[p] = claim[p]
      BY <2>1, EnderIsKnown
    <2>3. claim'[Monitor].winner = winner
      BY <2>1, EnderIsKnown
    <2>4. PayType'
      BY <2>1, EnderIsKnown DEF Stages
    <2>5. OneEnd'
      BY <2>1, <2>2 DEF OneEnd, Accepted
    <2>6. HandlersPay' /\ MonitorPays' /\ ManagerPaysNot'
      BY <2>1, <2>2, <2>3, EnderIsKnown
         DEF HandlersPay, MonitorPays, ManagerPaysNot, Accepted
    <2> QED
      BY <2>4, <2>5, <2>6
  <1>3. CASE Stop
    <2>1. \E s \in {"done", "close", "mark"} : Go(Manager, s)
      BY <1>3 DEF Stop
    <2> QED
      BY <1>3, <2>1, PayMove, EnderIsKnown DEF Stop, Stages
  <1> QED
    BY <1>1, <1>2, <1>3

\* A write is issued for the winner its ender has read: a handler has read it
\* holding mu, after it was assigned.
LEMMA PayWrite ==
  ASSUME PayInv, NEW e \in Ender, IssueWrite(e)
  PROVE  PayInv'
  <1> USE DEF PayInv, PayType, enders, game
  <1>1. /\ at[e] = "write" /\ step' = [step EXCEPT ![e] = @ + 1]
        /\ at'[e] \in {"write", "remove"} /\ at' = [at EXCEPT ![e] = at'[e]]
        /\ UNCHANGED <<state, winner, timed, mu, claim>>
    BY DEF IssueWrite, Go
  <1>2. PayType'
    BY <1>1 DEF Stages
  <1>3. Accepted' = Accepted
    BY <1>1, EnderIsKnown DEF Accepted
  <1>4. \A p \in Conceders : at'[p] = "torn" <=> at[p] = "torn"
    BY <1>1, EnderIsKnown
  <1>5. OneEnd'
    BY <1>1, <1>3, <1>4, EnderIsKnown DEF OneEnd, Accepted
  <1>6. ASSUME e \in Conceders
        PROVE  /\ e \in Accepted /\ state = "finished" /\ mu # e
               /\ winner # NoPlayer /\ claim[e].winner = winner
    BY <1>1, <1>6 DEF OneEnd, HandlersPay, Accepted
  <1>7. HandlersPay'
    BY <1>1, <1>3, <1>6, EnderIsKnown DEF HandlersPay
  <1>8. e # Manager \/ Manager \notin Ender
    BY <1>1 DEF ManagerPaysNot
  <1>9. MonitorPays' /\ ManagerPaysNot'
    BY <1>1, <1>8, EnderIsKnown DEF MonitorPays, ManagerPaysNot
  <1> QED
    BY <1>2, <1>5, <1>7, <1>9

\* The stages of an ender outside the concession itself.
LEMMA PayEnding ==
  ASSUME PayInv, NEW e \in Ender, Ending(e)
  PROVE  PayInv'
  <1> USE DEF PayInv, PayType, enders, game, world, Stages
  <1>0. /\ e = Monitor /\ at[e] # "idle" => state = "finished"
        /\ e \in Conceders \/ e = Monitor \/ e = Manager
    BY EnderIsKnown DEF MonitorPays
  <1>1. CASE MarkFinished(e)
    BY <1>0, <1>1, PayMove DEF MarkFinished
  <1>10. CASE ReadWinner(e)
    BY <1>0, <1>10, PayMove DEF ReadWinner
  <1>2. CASE CopyActions(e)
    <2>1. at[e] = "copy" /\ \E s \in {"usage", "meta"} : Go(e, s)
      BY <1>2 DEF CopyActions
    <2> QED
      BY <1>0, <1>2, <2>1, PayMove DEF CopyActions
  <1>3. CASE SaveMeta(e)
    <2>1. at[e] = "meta" /\ \E s \in {"insert", "usage"} : Go(e, s)
      BY <1>3 DEF SaveMeta
    <2> QED
      BY <1>0, <1>3, <2>1, PayMove DEF SaveMeta
  <1>4. CASE SaveActions(e)
    <2>1. at[e] = "insert" /\ \E s \in {"index", "usage"} : Go(e, s)
      BY <1>4 DEF SaveActions, OnError
    <2> QED
      BY <1>0, <1>4, <2>1, PayMove DEF SaveActions
  <1>5. CASE SetFlushIndex(e)
    BY <1>0, <1>5, PayMove DEF SetFlushIndex
  <1>6. CASE RecordUsage(e)
    <2>1. /\ at[e] = "usage"
          /\ UNCHANGED <<state, winner, timed, mu, claim, step>>
      BY <1>6 DEF RecordUsage
    <2>2. PICK s \in {"unlock", "read", "close", "write"} :
            Go(e, s) /\ (s = "write" => mu # e /\ e # Manager)
      BY <1>6 DEF RecordUsage, Go
    <2> QED
      BY <1>0, <2>1, <2>2, PayMove
  <1>7. CASE IssueWrite(e)
    BY <1>7, PayWrite
  <1>8. CASE Remove(e)
    BY <1>0, <1>8, PayMove DEF Remove
  <1>9. CASE Close(e)
    BY <1>0, <1>9, PayMove DEF Close
  <1> QED
    BY <1>1, <1>2, <1>3, <1>4, <1>5, <1>6, <1>7, <1>8, <1>9, <1>10 DEF Ending

\* So does every step.
LEMMA PayNext == PayInv /\ [Next]_vars => PayInv'
  <1> SUFFICES ASSUME PayInv, [Next]_vars PROVE PayInv'
    OBVIOUS
  <1>1. CASE UNCHANGED vars
    BY <1>1, PayStill DEF vars, game, enders, PayInv, PayType
  <1> QED
    BY <1>1, PayRunning, PayConcession, PayOthers, PayEnding DEF Next, Step

\* Two concessions, or one and the end on the board, race: at most one is
\* accepted, and whoever pays does so for the one winner the game has
\* (applyConcede, MarkGameEnded, handleGameEnd).
THEOREM PayoutsAreAgreed == Spec => []PayoutsAgree
  <1>1. ASSUME PayInv PROVE PayoutsAgree
    <2> USE <1>1 DEF PayInv, PayType
    <2>1. Cardinality(Accepted) <= 1
      <3>1. CASE Accepted = {}
        BY <3>1, FS_EmptySet
      <3>2. CASE Accepted # {}
        <4>1. PICK p \in Accepted : Accepted = {p}
          BY <3>2 DEF OneEnd
        <4> QED
          BY <4>1, FS_Singleton
      <3> QED
        BY <3>1, <3>2
    <2>2. ASSUME NEW e \in Paying
          PROVE  /\ state = "finished"
                 /\ claim[e].winner = winner \/ (e = Monitor /\ claim[e].winner = NoPlayer)
      <3>1. e \in Ender /\ step[e] > 0
        BY DEF Paying
      <3>2. CASE e \in Conceders
        BY <3>1, <3>2 DEF HandlersPay
      <3>3. CASE e = Monitor
        BY <3>1, <3>3 DEF MonitorPays
      <3>4. e # Manager
        BY <3>1 DEF ManagerPaysNot
      <3> QED
        BY <3>1, <3>2, <3>3, <3>4, EnderIsKnown
    <2> QED
      BY <2>1, <2>2 DEF PayoutsAgree
  <1> QED
    BY <1>1, PayInit, PayNext, PTL DEF Spec
-----------------------------------------------------------------------------
(* An end on the board is paid for once. *)

RestType ==
  /\ calling \subseteq Player
  /\ queued \subseteq EventType /\ shown \subseteq EventType /\ closed \in BOOLEAN
  /\ listed \in BOOLEAN /\ stopping \in BOOLEAN /\ dead \in BOOLEAN
  /\ step \in [Ender -> 0 .. Writes] /\ finished \in BOOLEAN
  /\ meta \in Player \cup {NoPlayer, "none"} /\ usage \in Nat

\* The writes an ender has issued go with its stage: none before its payout,
\* and the monitor has issued them all when it goes on to the list.
StepsInStage ==
  /\ \A e \in Ender : at[e] = "write" => step[e] < Writes
  /\ \A e \in Ender : at[e] \notin {"write", "remove", "close", "done"} => step[e] = 0
  /\ at[Monitor] \in {"remove", "close", "done"} => step[Monitor] = Writes

Unrecorded == {"idle", "mark", "named", "copy", "meta", "insert", "index", "usage"}

\* While no concession is accepted and the server runs, the monitor is the only
\* ender: it alone counts the game and closes the streams, as its last step, and
\* without a concession's event nothing kills the process before that.
MonitorAlone ==
  Accepted = {} /\ ~stopping =>
    /\ \A e \in Ender \ {Monitor} : at[e] \in {"idle", "asked"}
    /\ "player_conceded" \notin queued
    /\ usage = IF at[Monitor] \in Unrecorded THEN 0 ELSE 1
    /\ dead => closed
    /\ closed => at[Monitor] = "done"

EndInv == FlushInv /\ PayInv /\ RestType /\ StepsInStage /\ MonitorAlone

\* No game has ended at the start.
LEMMA EndInit == Init => EndInv
  <1> SUFFICES ASSUME Init PROVE EndInv
    OBVIOUS
  <1>1. RestType
    <2>1. step \in [Ender -> 0 .. Writes]
      BY DEF Init, Writes
    <2> QED
      BY <2>1 DEF Init, RestType
  <1>2. StepsInStage
    BY EnderIsKnown DEF Init, StepsInStage
  <1>3. MonitorAlone
    BY EnderIsKnown DEF Init, MonitorAlone, Unrecorded
  <1> QED
    BY <1>1, <1>2, <1>3, FlushInit, PayInit DEF EndInv

\* What one action does to the rest of the state: one case for each.
LEMMA RestTyped ==
  ASSUME EndInv, [Next]_vars
  PROVE  RestType'
  <1> USE DEF EndInv, RestType, enders, recorder, replays, game, world, Emit, EventType
  <1>0. /\ state' \in {"playing", "finished"} /\ winner' \in Player \cup {NoPlayer}
        /\ \A e \in Ender : copy[e].winner \in Player \cup {NoPlayer}
    BY PayNext DEF PayInv, PayType, FlushInv, FlushType
  <1>1. ASSUME Running PROVE RestType'
    <2>1. ASSUME NEW p \in Player, FindGame(p) PROVE RestType'
      BY <2>1 DEF FindGame
    <2>2. ASSUME NEW p \in Player, EndTurn(p) PROVE RestType'
      BY <2>2 DEF EndTurn
    <2>3. ASSUME NEW event \in queued, Listen(event) PROVE RestType'
      BY <2>3 DEF Listen
    <2>4. CASE TickEnds
      BY <2>4 DEF TickEnds
    <2>5. CASE TickNamesWinner
      BY <2>5 DEF TickNamesWinner
    <2>6. CASE TickTimes
      BY <2>6 DEF TickTimes
    <2>7. CASE TakeSnapshot
      BY <2>7 DEF TakeSnapshot
    <2>8. CASE BroadcastFrame
      BY <2>8 DEF BroadcastFrame
    <2> QED
      BY <1>1, <2>1, <2>2, <2>3, <2>4, <2>5, <2>6, <2>7, <2>8 DEF Running
  <1>2. ASSUME NEW p \in Conceders, Concession(p) PROVE RestType'
    BY <1>2 DEF Concession, AskConcede, RefuseConcede, ConcedeState, ConcedeWinner,
                Unlock, Lookup
  <1>3. ASSUME Notice \/ ReadResult \/ Stop PROVE RestType'
    BY <1>3 DEF Notice, ReadResult, Stop
  <1>4. ASSUME NEW e \in Ender, Ending(e) PROVE RestType'
    <2>1. CASE ReadWinner(e) \/ MarkFinished(e) \/ CopyActions(e)
      BY <2>1 DEF ReadWinner, MarkFinished, CopyActions
    <2>2. CASE SaveMeta(e)
      BY <1>0, <2>2 DEF SaveMeta
    <2>3. CASE SaveActions(e) \/ SetFlushIndex(e)
      BY <2>3 DEF SaveActions, SetFlushIndex
    <2>4. CASE RecordUsage(e)
      BY <2>4 DEF RecordUsage
    <2>5. CASE IssueWrite(e)
      <3>1. at[e] = "write" /\ step' = [step EXCEPT ![e] = @ + 1]
        BY <2>5 DEF IssueWrite
      <3>2. step[e] \in 0 .. Writes /\ step[e] < Writes
        BY <3>1 DEF StepsInStage
      <3>3. step' \in [Ender -> 0 .. Writes]
        BY <3>1, <3>2 DEF Writes
      <3> QED
        BY <2>5, <3>3 DEF IssueWrite
    <2>6. CASE Remove(e)
      BY <2>6 DEF Remove, Delisted
    <2>7. CASE Close(e)
      BY <2>7 DEF Close
    <2> QED
      BY <1>4, <2>1, <2>2, <2>3, <2>4, <2>5, <2>6, <2>7 DEF Ending
  <1>5. CASE UNCHANGED vars
    BY <1>5 DEF vars
  <1> QED
    BY <1>1, <1>2, <1>3, <1>4, <1>5 DEF Next, Step

\* One ender at most moves, along the stages the code goes through.
LEMMA StepsKept ==
  ASSUME EndInv, [Next]_vars
  PROVE  StepsInStage'
  <1> USE DEF EndInv, enders
  <1>0. at \in [Ender -> Stages] /\ step \in [Ender -> 0 .. Writes]
    BY DEF FlushInv, FlushType, RestType
  <1>1. ASSUME UNCHANGED <<at, step>> PROVE StepsInStage'
    BY <1>1 DEF StepsInStage
  <1>2. ASSUME UNCHANGED step, NEW e \in Ender, NEW s \in Stages, Go(e, s),
               s \notin {"remove", "close", "done"} \/ e # Monitor
                 \/ at[e] \in {"remove", "close", "done"},
               s \in {"write", "remove", "close", "done"}
                 \/ at[e] \notin {"write", "remove", "close", "done"},
               s = "write" => step[e] < Writes
        PROVE  StepsInStage'
    <2>1. at'[e] = s /\ \A f \in Ender : f # e => at'[f] = at[f]
      BY <1>0, <1>2 DEF Go
    <2> QED
      BY <1>0, <1>2, <2>1, EnderIsKnown DEF StepsInStage
  <1>3. CASE Running
    BY <1>1, <1>3 DEF Running, FindGame, EndTurn, Listen, TickEnds, TickNamesWinner,
       TickTimes, TakeSnapshot, BroadcastFrame
  <1>4. ASSUME NEW p \in Conceders, Concession(p) PROVE StepsInStage'
    <2>1. p \in Ender /\ p # Monitor
      BY EnderIsKnown
    <2>2. UNCHANGED step
      BY <1>4 DEF Concession, AskConcede, RefuseConcede, ConcedeState, ConcedeWinner,
         Unlock, Lookup
    <2>3. \E s \in {"asked", "idle", "torn", "mark", "lookup", "done"} :
            Go(p, s) /\ at[p] \in {"idle", "asked", "torn", "unlock", "lookup"}
      BY <1>4 DEF Concession, AskConcede, RefuseConcede, ConcedeState, ConcedeWinner,
         Unlock, Lookup
    <2> QED
      BY <1>2, <2>1, <2>2, <2>3 DEF Stages
  <1>5. CASE Notice
    <2>1. UNCHANGED step /\ at[Monitor] = "idle" /\ Go(Monitor, "mark")
      BY <1>5 DEF Notice, Polling
    <2> QED
      BY <1>2, <2>1, EnderIsKnown DEF Stages
  <1>6. CASE ReadResult
    <2>1. UNCHANGED step /\ at[Monitor] = "read" /\ Go(Monitor, "write")
      BY <1>6 DEF ReadResult
    <2>2. step[Monitor] = 0
      BY <2>1, EnderIsKnown DEF StepsInStage
    <2> QED
      BY <1>2, <2>1, <2>2, EnderIsKnown DEF Stages, Writes
  <1>7. CASE Stop
    <2>1. UNCHANGED step /\ at[Manager] = "idle" /\ Manager \in Ender
      BY <1>7, EnderIsKnown DEF Stop
    <2>2. \E s \in {"done", "close", "mark"} : Go(Manager, s)
      BY <1>7 DEF Stop
    <2> QED
      BY <1>2, <2>1, <2>2, EnderIsKnown DEF Stages
  <1>8. ASSUME NEW e \in Ender, Ending(e), ~IssueWrite(e) PROVE StepsInStage'
    <2>1. CASE RecordUsage(e)
      <3>1. UNCHANGED step /\ at[e] = "usage"
        BY <2>1 DEF RecordUsage
      <3>2. step[e] = 0
        BY <3>1 DEF StepsInStage
      <3>3. \E s \in {"unlock", "read", "close", "write"} :
              Go(e, s) /\ (s = "close" => e = Manager)
        BY <2>1 DEF RecordUsage
      <3> QED
        BY <1>2, <3>1, <3>2, <3>3, EnderIsKnown DEF Stages, Writes
    <2>2. CASE Remove(e)
      <3>1. UNCHANGED step /\ at[e] = "remove" /\ Go(e, "close")
        BY <2>2 DEF Remove
      <3> QED
        BY <1>2, <3>1 DEF Stages
    <2>3. CASE Close(e)
      <3>1. UNCHANGED step /\ at[e] = "close" /\ Go(e, "done")
        BY <2>3 DEF Close
      <3> QED
        BY <1>2, <3>1 DEF Stages
    <2>4. CASE ~RecordUsage(e) /\ ~Remove(e) /\ ~Close(e)
      <3>1. /\ UNCHANGED step
            /\ at[e] \in {"mark", "named", "copy", "meta", "insert", "index"}
        BY <1>8, <2>4 DEF Ending, ReadWinner, MarkFinished, CopyActions, SaveMeta, SaveActions,
           SetFlushIndex, recorder, replays
      <3>2. \E s \in {"named", "copy", "meta", "insert", "index", "usage"} : Go(e, s)
        BY <1>8, <2>4 DEF Ending, ReadWinner, MarkFinished, CopyActions, SaveMeta, SaveActions,
           SetFlushIndex, OnError
      <3> QED
        BY <1>2, <3>1, <3>2 DEF Stages
    <2> QED
      BY <2>1, <2>2, <2>3, <2>4
  <1>9. ASSUME NEW e \in Ender, IssueWrite(e) PROVE StepsInStage'
    <2>1. /\ at[e] = "write" /\ step' = [step EXCEPT ![e] = @ + 1]
          /\ Go(e, IF LastWrite(e) THEN "remove" ELSE "write")
      BY <1>9 DEF IssueWrite
    <2>2. step[e] \in 0 .. Writes /\ step[e] < Writes
      BY <1>0, <2>1 DEF StepsInStage
    <2>3. step'[e] = step[e] + 1 /\ \A f \in Ender : f # e => step'[f] = step[f]
      BY <1>0, <2>1
    <2>4. \A f \in Ender : f # e => at'[f] = at[f]
      BY <1>0, <2>1 DEF Go
    <2>5. \/ at'[e] = "remove" /\ step'[e] = Writes
          \/ at'[e] = "write" /\ step'[e] < Writes
      <3>1. CASE LastWrite(e)
        <4>1. step'[e] = Writes
          BY <2>3, <3>1 DEF LastWrite
        <4>2. at'[e] = "remove"
          BY <1>0, <2>1, <3>1 DEF Go
        <4> QED
          BY <4>1, <4>2
      <3>2. CASE ~LastWrite(e)
        <4>1. step'[e] < Writes
          BY <2>2, <2>3, <3>2 DEF LastWrite, Writes
        <4>2. at'[e] = "write"
          BY <1>0, <2>1, <3>2 DEF Go
        <4> QED
          BY <4>1, <4>2
      <3> QED
        BY <3>1, <3>2
    <2> QED
      BY <2>3, <2>4, <2>5, EnderIsKnown DEF StepsInStage
  <1>10. CASE UNCHANGED vars
    BY <1>1, <1>10 DEF vars
  <1> QED
    BY <1>3, <1>4, <1>5, <1>6, <1>7, <1>8, <1>9, <1>10 DEF Next, Step

\* A concession once accepted stays accepted.
LEMMA AcceptedStay ==
  ASSUME EndInv, [Next]_vars
  PROVE  /\ Accepted \subseteq Accepted'
         /\ stopping => stopping'
  <1> USE DEF EndInv, enders
  <1>0. at \in [Ender -> Stages] /\ Conceders \subseteq Ender
    BY EnderIsKnown DEF FlushInv, FlushType
  <1>1. ASSUME NEW e \in Ender, NEW s \in Stages \ {"idle", "asked"}, Go(e, s)
        PROVE  Accepted \subseteq Accepted'
    BY <1>0, <1>1 DEF Go, Accepted
  <1>2. CASE Running
    BY <1>2 DEF Running, FindGame, EndTurn, Listen, TickEnds, TickNamesWinner,
       TickTimes, TakeSnapshot, BroadcastFrame, Accepted
  <1>3. ASSUME NEW p \in Conceders, Concession(p)
        PROVE  Accepted \subseteq Accepted' /\ (stopping => stopping')
    <2>1. UNCHANGED stopping
      BY <1>3 DEF Concession, AskConcede, RefuseConcede, ConcedeState, ConcedeWinner,
         Unlock, Lookup
    <2>2. CASE AskConcede(p) \/ RefuseConcede(p)
      BY <1>0, <2>1, <2>2 DEF AskConcede, RefuseConcede, Go, Accepted
    <2>3. CASE ~AskConcede(p) /\ ~RefuseConcede(p)
      <3>1. \E s \in {"torn", "mark", "lookup", "done"} : Go(p, s)
        BY <1>3, <2>3 DEF Concession, ConcedeState, ConcedeWinner, Unlock, Lookup
      <3> QED
        BY <1>0, <1>1, <2>1, <3>1 DEF Stages
    <2> QED
      BY <2>2, <2>3
  <1>4. ASSUME Notice \/ ReadResult \/ Stop
        PROVE  Accepted \subseteq Accepted' /\ (stopping => stopping')
    <2>1. stopping => stopping'
      BY <1>4 DEF Notice, ReadResult, Stop
    <2>2. \E e \in {Monitor, Manager}, s \in Stages : Go(e, s)
      BY <1>4 DEF Notice, ReadResult, Stop, Stages
    <2> QED
      BY <1>0, <2>1, <2>2, EnderIsKnown DEF Go, Accepted
  <1>5. ASSUME NEW e \in Ender, Ending(e)
        PROVE  Accepted \subseteq Accepted' /\ (stopping => stopping')
    <2>1. UNCHANGED stopping
      BY <1>5 DEF Ending, ReadWinner, MarkFinished, CopyActions, SaveMeta, SaveActions,
         SetFlushIndex, RecordUsage, IssueWrite, Remove, Close
    <2>2. \E s \in Stages \ {"idle", "asked"} : Go(e, s)
      BY <1>5 DEF Ending, ReadWinner, MarkFinished, CopyActions, SaveMeta, SaveActions,
         SetFlushIndex, RecordUsage, IssueWrite, Remove, Close, OnError, Stages
    <2> QED
      BY <1>1, <2>1, <2>2
  <1>6. CASE UNCHANGED vars
    BY <1>6 DEF vars, Accepted
  <1> QED
    BY <1>2, <1>3, <1>4, <1>5, <1>6 DEF Next, Step

\* Every step keeps the monitor alone while no concession is accepted and the
\* server does not stop.
LEMMA AloneKept ==
  ASSUME EndInv, [Next]_vars
  PROVE  MonitorAlone'
  <1> SUFFICES ASSUME Accepted' = {}, ~stopping'
               PROVE  /\ \A e \in Ender \ {Monitor} : at'[e] \in {"idle", "asked"}
                      /\ "player_conceded" \notin queued'
                      /\ usage' = IF at'[Monitor] \in Unrecorded THEN 0 ELSE 1
                      /\ dead' => closed'
                      /\ closed' => at'[Monitor] = "done"
    BY DEF MonitorAlone
  <1> DEFINE Goal == /\ \A e \in Ender \ {Monitor} : at'[e] \in {"idle", "asked"}
                     /\ "player_conceded" \notin queued'
                     /\ usage' = IF at'[Monitor] \in Unrecorded THEN 0 ELSE 1
                     /\ dead' => closed'
                     /\ closed' => at'[Monitor] = "done"
  <1>0. /\ at \in [Ender -> Stages] /\ Conceders \subseteq Ender /\ Monitor \in Ender
        /\ Monitor \notin Conceders /\ Manager # Monitor /\ Manager \notin Conceders
        /\ usage \in Nat /\ mu # Monitor
    BY EnderIsKnown DEF EndInv, FlushInv, FlushType, RestType, PayInv, PayType
  <1>1. /\ Accepted = {} /\ ~stopping
        /\ \A e \in Ender \ {Monitor} : at[e] \in {"idle", "asked"}
        /\ "player_conceded" \notin queued
        /\ usage = IF at[Monitor] \in Unrecorded THEN 0 ELSE 1
        /\ dead => closed
        /\ closed => at[Monitor] = "done"
    BY AcceptedStay DEF EndInv, MonitorAlone
  <1> USE DEF enders, world, game, recorder, replays
  <1>2. ASSUME UNCHANGED <<at, usage, closed>>,
               "player_conceded" \notin queued', dead' => dead \/ closed
        PROVE  Goal
    BY <1>1, <1>2
  <1>3. CASE Running
    <2>1. UNCHANGED <<at, usage, closed>>
      BY <1>3 DEF Running, FindGame, EndTurn, Listen, TickEnds, TickNamesWinner,
         TickTimes, TakeSnapshot, BroadcastFrame
    <2>2. "player_conceded" \notin queued'
      BY <1>1, <1>3 DEF Running, FindGame, EndTurn, Listen, TickEnds, TickNamesWinner,
         TickTimes, TakeSnapshot, BroadcastFrame, Emit
    <2>3. dead' => dead \/ closed
      BY <1>1, <1>3 DEF Running, FindGame, EndTurn, Listen, TickEnds, TickNamesWinner,
         TickTimes, TakeSnapshot, BroadcastFrame, Emit, HasEntity
    <2> QED
      BY <1>2, <2>1, <2>2, <2>3
  <1>4. ASSUME NEW p \in Conceders, Concession(p) PROVE Goal
    <2>1. at[p] \in {"idle", "asked"} /\ p # Monitor /\ p \in Ender
      BY <1>0, <1>1
    <2>2. CASE AskConcede(p)
      BY <1>0, <1>1, <2>1, <2>2 DEF AskConcede, Go
    <2>3. CASE RefuseConcede(p)
      BY <1>0, <1>1, <2>1, <2>3 DEF RefuseConcede, Go
    <2>4. ~ConcedeState(p)
      BY <1>0, <2>1 DEF ConcedeState, Go, Accepted
    <2>5. ~ConcedeWinner(p) /\ ~Unlock(p) /\ ~Lookup(p)
      BY <2>1 DEF ConcedeWinner, Unlock, Lookup
    <2> QED
      BY <1>4, <2>2, <2>3, <2>4, <2>5 DEF Concession
  <1>5. ASSUME NEW s \in Stages, Go(Monitor, s), UNCHANGED <<queued, closed, dead>>,
               usage' = IF s \in Unrecorded THEN 0 ELSE 1,
               at[Monitor] # "done"
        PROVE  Goal
    BY <1>0, <1>1, <1>5 DEF Go
  <1>6. CASE Notice
    BY <1>1, <1>5, <1>6 DEF Notice, Polling, Stages, Unrecorded
  <1>7. CASE ReadResult
    BY <1>1, <1>5, <1>7 DEF ReadResult, Stages, Unrecorded
  <1>8. ~Stop
    BY DEF Stop
  <1>9. ASSUME NEW e \in Ender, Ending(e) PROVE Goal
    <2>1. e = Monitor
      BY <1>1, <1>9 DEF Ending, ReadWinner, MarkFinished, CopyActions, SaveMeta,
         SaveActions, SetFlushIndex, RecordUsage, IssueWrite, Remove, Close
    <2>2. CASE ReadWinner(e) \/ MarkFinished(e) \/ CopyActions(e)
      <3>1. /\ at[Monitor] \in {"mark", "named", "copy"}
            /\ UNCHANGED <<queued, closed, dead, usage>>
            /\ \E s \in {"named", "copy", "usage", "meta"} : Go(Monitor, s)
        BY <2>1, <2>2 DEF ReadWinner, MarkFinished, CopyActions
      <3> QED
        BY <1>1, <1>5, <3>1 DEF Stages, Unrecorded
    <2>3. CASE SaveMeta(e) \/ SaveActions(e) \/ SetFlushIndex(e)
      <3>1. /\ at[Monitor] \in {"meta", "insert", "index"}
            /\ UNCHANGED <<queued, closed, dead, usage>>
            /\ \E s \in {"insert", "usage", "index"} : Go(Monitor, s)
        BY <2>1, <2>3 DEF SaveMeta, SaveActions, SetFlushIndex, OnError
      <3> QED
        BY <1>1, <1>5, <3>1 DEF Stages, Unrecorded
    <2>4. CASE RecordUsage(e)
      <3>1. /\ at[Monitor] = "usage" /\ UNCHANGED <<queued, closed, dead>>
            /\ usage' = usage + 1 /\ Go(Monitor, "read")
        BY <1>0, <2>1, <2>4 DEF RecordUsage
      <3>2. usage' = 1
        BY <1>1, <3>1 DEF Unrecorded
      <3> QED
        BY <1>5, <3>1, <3>2 DEF Stages, Unrecorded
    <2>5. CASE IssueWrite(e) \/ Remove(e)
      <3>1. /\ at[Monitor] \in {"write", "remove"} /\ UNCHANGED <<queued, closed, dead, usage>>
            /\ \E s \in {"write", "remove", "close"} : Go(Monitor, s)
        BY <2>1, <2>5 DEF IssueWrite, Remove
      <3> QED
        BY <1>1, <1>5, <3>1 DEF Stages, Unrecorded
    <2>6. CASE Close(e)
      <3>1. /\ at[Monitor] = "close" /\ UNCHANGED <<queued, usage>>
            /\ closed' = TRUE /\ dead' = closed /\ Go(Monitor, "done")
        BY <2>1, <2>6 DEF Close
      <3>2. /\ at'[Monitor] = "done"
            /\ \A f \in Ender \ {Monitor} : at'[f] = at[f]
        BY <1>0, <3>1 DEF Go
      <3> QED
        BY <1>1, <3>1, <3>2 DEF Unrecorded
    <2> QED
      BY <1>9, <2>2, <2>3, <2>4, <2>5, <2>6 DEF Ending
  <1>10. CASE UNCHANGED vars
    BY <1>1, <1>2, <1>10 DEF vars
  <1> QED
    BY <1>3, <1>4, <1>6, <1>7, <1>8, <1>9, <1>10 DEF Next, Step

\* Every step keeps EndInv.
LEMMA EndNext == EndInv /\ [Next]_vars => EndInv'
  BY FlushNext, PayNext, RestTyped, StepsKept, AloneKept DEF EndInv

\* Monitor, concessions and the server's stop race: an end on the board that
\* nobody concedes is counted once, and the process neither dies nor closes the
\* streams before the monitor has issued the whole payout (monitorGame,
\* handleGameEnd).
THEOREM BoardEndsArePaid == Spec => []Inv
  <1>1. ASSUME EndInv PROVE Inv
    <2> USE <1>1 DEF EndInv
    <2>1. TypeOK
      BY DEF TypeOK, FlushInv, FlushType, PayInv, PayType, RestType
    <2>2. ASSUME Accepted = {}, ~stopping
          PROVE  /\ Paying \subseteq {Monitor} /\ usage <= 1
                 /\ dead \/ closed => step[Monitor] = Writes
      <3>1. ASSUME NEW e \in Ender \ {Monitor} PROVE step[e] = 0
        BY <2>2 DEF MonitorAlone, StepsInStage
      <3>2. Paying \subseteq {Monitor}
        BY <3>1 DEF Paying
      <3>3. usage <= 1
        BY <2>2 DEF MonitorAlone
      <3> QED
        BY <2>2, <3>2, <3>3 DEF MonitorAlone, StepsInStage
    <2> QED
      BY <2>1, <2>2 DEF Inv, BoardEndIsPaid
  <1> QED
    BY <1>1, EndInit, EndNext, PTL DEF Spec
=============================================================================
