----------------------------- MODULE GameEnding -----------------------------
(***************************************************************************)
(* The end of one game: who notices it, records it, pays the players and   *)
(* closes the instance (GameManager in game/game_manager.go, the end of    *)
(* GameInstance in game/game_instance.go, FlushToStore of the recorder in  *)
(* replay/recorder.go and the Concede handler in server/game_server.go).   *)
(*                                                                         *)
(* Three kinds of goroutine end a game, each with the same steps: the      *)
(* handler of a concession, the monitor that polls IsFinished without the  *)
(* instance's mutex, and the manager when the server stops.  A step lies   *)
(* between two accesses to what they share; the database writes of a       *)
(* payout are steps of their own because the process may die between them. *)
(*                                                                         *)
(* The rules of the game are CardBattle's: here a game in progress ends at *)
(* some tick or by a concession that Lockstep accepts.  Left out: flushes  *)
(* from RecordAction, which need a game of 100000 actions, the Redis copy  *)
(* of the state, which nobody reads, and other games.                      *)
(***************************************************************************)
EXTENDS Integers, FiniteSets

CONSTANTS
  P1, P2, NoPlayer,
  Monitor, Manager,   \* the goroutines that are not a player's handler
  Conceders,          \* the players who may concede
  Stops,              \* TRUE: the server may be stopped
  Flaky,              \* TRUE: a write to the replay store may fail
  RelockBlocks,       \* TRUE: takeSnapshot as written, which read-locks the
                      \* mutex it holds; FALSE: it is taken as completing
  MaxActions          \* bound on the actions recorded

Player == {P1, P2}
Ender == Conceders \cup {Monitor} \cup (IF Stops THEN {Manager} ELSE {})

ASSUME EndingAssumption ==
  /\ P1 # P2 /\ NoPlayer \notin Player
  /\ Monitor # Manager /\ {Monitor, Manager} \cap Player = {}
  /\ {"free", "tick", "snapshot"} \cap (Player \cup {Monitor, Manager}) = {}
  /\ Conceders \subseteq Player
  /\ Stops \in BOOLEAN /\ Flaky \in BOOLEAN /\ RelockBlocks \in BOOLEAN
  /\ MaxActions \in Nat

Free == "free"
Stages == {"idle", "asked", "torn", "mark", "named", "copy", "meta", "insert", "index",
           "usage", "unlock", "lookup", "read", "write", "remove", "close", "done"}

\* The events of the world that matter here, and whether they carry an entity.
\* World.events is a queue of 1000; its order tells none of the properties
\* apart, so a set stands for it.
EventType == {"turn_ended", "game_ended", "player_conceded"}
HasEntity(event) == event # "player_conceded"

VARIABLES
  state, winner,     \* GameStateComponent.State and .Winner
  timed,             \* EndedAt and DurationMs are set
  mu,                \* who holds GameInstance.mu for writing
  calling,           \* the players with an EndTurn that has found the game
  queued, shown,     \* events in World.events, and those sent to the streams
  closed,            \* streams and World.events are closed
  listed,            \* the game is in GameManager.games
  stopping,          \* GracefulStop has returned
  dead,              \* the process has panicked
  at,                \* the stage of each ender
  claim,             \* the winner and the duration each ender has read
  step,              \* the database writes each ender has issued
  actions, finished, replayWinner, flushed,   \* ReplayRecorder
  stored, meta,      \* replay_actions and the winner in replays
  copy,              \* what each ender has read for MarkFinished, and then
                     \* copied in FlushToStore
  usage              \* the game's results in the statistics' buffer

game == <<state, winner, timed>>
world == <<queued, shown, closed>>
recorder == <<actions, finished, replayWinner, flushed>>
replays == <<stored, meta>>
enders == <<claim, step, copy>>
vars == <<game, mu, calling, world, listed, stopping, dead, at, enders, recorder,
          replays, usage>>

Opponent(p) == IF p = P1 THEN P2 ELSE P1

Go(e, stage) == at' = [at EXCEPT ![e] = stage]

\* Variants of the operators below, each with one plausible bug, for checking
\* that the properties notice it.
ConcedableAlways == TRUE
PollingAgain == {"idle", "done"}
InsertedAnyway(docs) == TRUE
OnErrorGoOn == "index"
DelistedNot == listed

\* applyConcede refuses in a finished game.
Concedable == state # "finished"

\* The monitor returns once it has handled the end.
Polling == {"idle"}

\* InsertMany fails if a document is stored already: action_index is unique,
\* provided createIndexes could create the index, whose error it ignores.
Inserted(docs) == docs \cap stored = {}

\* FlushToStore returns without touching the index if a write fails.
OnError == "usage"

\* The result, the winner's and the loser's statistics, the winner's and the
\* loser's rating, in this order; an error is ignored.
Writes == 5
LastWrite(e) == step[e] + 1 = Writes

\* GameManager.games after the delete.
Delisted == FALSE

\* GameManager.mu is held by the manager while it closes the games.
ManagerHolds == Manager \in Ender /\ at[Manager] \notin {"idle", "done"}

Init ==
  /\ state = "playing" /\ winner = NoPlayer /\ timed = FALSE
  /\ mu = Free /\ calling = {}
  /\ queued = {} /\ shown = {} /\ closed = FALSE
  /\ listed = TRUE /\ stopping = FALSE /\ dead = FALSE
  /\ at = [e \in Ender |-> "idle"]
  /\ claim = [e \in Ender |-> [winner |-> NoPlayer, timed |-> FALSE]]
  /\ step = [e \in Ender |-> 0]
  /\ copy = [e \in Ender |-> [winner |-> NoPlayer, from |-> 0, upto |-> 0]]
  /\ actions = 0 /\ finished = FALSE /\ replayWinner = NoPlayer /\ flushed = 0
  /\ stored = {} /\ meta = "none"
  /\ usage = 0

-----------------------------------------------------------------------------
\* EmitEvent.  Its select has a default, but sending on a closed channel
\* panics all the same.
Emit(event) ==
  IF closed THEN dead' = TRUE /\ UNCHANGED queued
            ELSE queued' = queued \cup {event} /\ UNCHANGED dead

\* listenEvents and broadcastEvent, with mu read-locked.  The event's entity
\* is dereferenced whether there is one or not; a closed stream is gone from
\* the map.
Listen(event) ==
  /\ mu = Free
  /\ queued' = queued \ {event}
  /\ IF HasEntity(event)
       THEN shown' = (IF closed THEN shown ELSE shown \cup {event}) /\ UNCHANGED dead
       ELSE dead' = TRUE /\ UNCHANGED shown
  /\ UNCHANGED <<game, mu, calling, closed, listed, stopping, at, enders, recorder,
                 replays, usage>>

\* A handler of EndTurn finds the instance ...
FindGame(p) ==
  /\ listed /\ ~stopping /\ ~ManagerHolds
  /\ calling' = calling \cup {p}
  /\ UNCHANGED <<game, mu, world, listed, stopping, dead, at, enders, recorder,
                 replays, usage>>

\* ... and later validates and applies the action, which may be refused.  An
\* EndTurn is accepted in a finished game too.
EndTurn(p) ==
  /\ p \in calling /\ mu = Free
  /\ calling' = calling \ {p}
  /\ \/ UNCHANGED <<queued, dead, actions>>
     \/ /\ actions < MaxActions
        /\ Emit("turn_ended")
        /\ actions' = IF closed THEN actions ELSE actions + 1
  /\ UNCHANGED <<game, mu, shown, closed, listed, stopping, at, enders, finished,
                 replayWinner, flushed, replays, usage>>

\* endGame assigns State and then, after a query, Winner: the monitor looks
\* at both without mu.
TickEnds ==
  /\ mu = Free /\ state = "playing"
  /\ mu' = "tick" /\ state' = "finished"
  /\ UNCHANGED <<winner, timed, calling, world, listed, stopping, dead, at, enders,
                 recorder, replays, usage>>

TickNamesWinner ==
  /\ mu = "tick"
  /\ mu' = Free /\ winner' \in Player
  /\ Emit("game_ended")
  /\ UNCHANGED <<state, timed, calling, shown, closed, listed, stopping, at, enders,
                 recorder, replays, usage>>

\* The next tick finds the game finished and sets EndedAt and DurationMs.
TickTimes ==
  /\ mu = Free /\ state = "finished" /\ ~timed /\ ~closed
  /\ timed' = TRUE
  /\ UNCHANGED <<state, winner, mu, calling, world, listed, stopping, dead, at,
                 enders, recorder, replays, usage>>

\* takeSnapshot: broadcastFrame read-locks the mutex the goroutine holds.
TakeSnapshot ==
  /\ mu = Free /\ state = "playing" /\ ~closed
  /\ mu' = "snapshot"
  /\ UNCHANGED <<game, calling, world, listed, stopping, dead, at, enders, recorder,
                 replays, usage>>

BroadcastFrame ==
  /\ mu = "snapshot" /\ ~RelockBlocks
  /\ mu' = Free
  /\ UNCHANGED <<game, calling, world, listed, stopping, dead, at, enders, recorder,
                 replays, usage>>

-----------------------------------------------------------------------------
\* The handler of p's concession.
AskConcede(p) ==
  /\ at[p] = "idle" /\ listed /\ ~stopping /\ ~ManagerHolds
  /\ Go(p, "asked")
  /\ UNCHANGED <<game, mu, calling, world, listed, stopping, dead, enders, recorder,
                 replays, usage>>

\* The lockstep engine rejects it, or the game is already finished.
RefuseConcede(p) ==
  /\ at[p] = "asked" /\ mu = Free
  /\ Go(p, "idle")
  /\ UNCHANGED <<game, mu, calling, world, listed, stopping, dead, enders, recorder,
                 replays, usage>>

\* applyConcede, from here to Unlock with mu held: State, then Winner.
ConcedeState(p) ==
  /\ at[p] = "asked" /\ mu = Free
  /\ Concedable
  /\ mu' = p /\ state' = "finished"
  /\ Go(p, "torn")
  /\ UNCHANGED <<winner, timed, calling, world, listed, stopping, dead, enders,
                 recorder, replays, usage>>

ConcedeWinner(p) ==
  /\ at[p] = "torn"
  /\ winner' = Opponent(p) /\ timed' = TRUE
  /\ Emit("player_conceded")
  /\ actions' = IF closed THEN actions ELSE actions + 1
  /\ Go(p, "mark")
  /\ UNCHANGED <<state, mu, calling, shown, closed, listed, stopping, enders,
                 finished, replayWinner, flushed, replays, usage>>

\* Concede returns, and the handler reads what it will pass on.
Unlock(p) ==
  /\ at[p] = "unlock"
  /\ mu' = Free
  /\ claim' = [claim EXCEPT ![p] = [winner |-> winner, timed |-> timed]]
  /\ Go(p, "lookup")
  /\ UNCHANGED <<game, calling, world, listed, stopping, dead, step, copy, recorder,
                 replays, usage>>

\* MarkGameEnded does nothing for a game no longer listed.
Lookup(p) ==
  /\ at[p] = "lookup" /\ ~ManagerHolds
  /\ Go(p, IF listed THEN "mark" ELSE "done")
  /\ UNCHANGED <<game, mu, calling, world, listed, stopping, dead, enders, recorder,
                 replays, usage>>

\* monitorGame polls without mu.
Notice ==
  /\ at[Monitor] \in Polling /\ state = "finished"
  /\ Go(Monitor, "mark")
  /\ UNCHANGED <<game, mu, calling, world, listed, stopping, dead, enders, recorder,
                 replays, usage>>

\* The server stops: GracefulStop lets the handlers finish, then the manager
\* closes the games that are left.  One in progress is ended without a winner.
Stop ==
  /\ Stops /\ at[Manager] = "idle"
  /\ calling = {} /\ \A p \in Conceders : at[p] \in {"idle", "done"}
  /\ stopping' = TRUE
  /\ Go(Manager, IF ~listed THEN "done" ELSE IF state = "finished" THEN "close" ELSE "mark")
  /\ UNCHANGED <<game, mu, calling, world, listed, dead, enders, recorder, replays,
                 usage>>

-----------------------------------------------------------------------------
\* HandleGameEndInternal, by whichever ender e: GetWinner, which takes no lock,
ReadWinner(e) ==
  /\ at[e] = "mark"
  /\ copy' = [copy EXCEPT ![e].winner = winner]
  /\ Go(e, "named")
  /\ UNCHANGED <<game, mu, calling, world, listed, stopping, dead, claim, step, recorder,
                 replays, usage>>

\* MarkFinished with what it has read ...
MarkFinished(e) ==
  /\ at[e] = "named"
  /\ finished' = TRUE /\ replayWinner' = copy[e].winner
  /\ Go(e, "copy")
  /\ UNCHANGED <<game, mu, calling, world, listed, stopping, dead, enders, actions,
                 flushed, replays, usage>>

\* ... and FlushToStore: what is not yet flushed is copied under the recorder's
\* lock, which is released for the writes.
CopyActions(e) ==
  /\ at[e] = "copy"
  /\ IF actions <= flushed
       THEN Go(e, "usage") /\ UNCHANGED copy
       ELSE /\ Go(e, "meta")
            /\ copy' = [copy EXCEPT ![e] = [winner |-> replayWinner, from |-> flushed,
                                            upto |-> actions]]
  /\ UNCHANGED <<game, mu, calling, world, listed, stopping, dead, claim, step,
                 recorder, replays, usage>>

\* SaveReplayMeta.
SaveMeta(e) ==
  /\ at[e] = "meta"
  /\ \/ meta' = copy[e].winner /\ Go(e, "insert")
     \/ Flaky /\ Go(e, "usage") /\ UNCHANGED meta
  /\ UNCHANGED <<game, mu, calling, world, listed, stopping, dead, enders, recorder,
                 stored, usage>>

\* SaveReplayActions: an unordered InsertMany stores what it can, even if one
\* document is a duplicate or the call fails.
SaveActions(e) ==
  LET docs == copy[e].from .. (copy[e].upto - 1)
  IN /\ at[e] = "insert"
     /\ \/ /\ stored' = stored \cup docs
           /\ Go(e, IF Inserted(docs) THEN "index" ELSE OnError)
        \/ /\ Flaky
           /\ \E part \in SUBSET docs : stored' = stored \cup part
           /\ Go(e, OnError)
     /\ UNCHANGED <<game, mu, calling, world, listed, stopping, dead, enders,
                    recorder, meta, usage>>

\* The second critical section of FlushToStore.
SetFlushIndex(e) ==
  /\ at[e] = "index"
  /\ flushed' = copy[e].upto
  /\ Go(e, "usage")
  /\ UNCHANGED <<game, mu, calling, world, listed, stopping, dead, enders, actions,
                 finished, replayWinner, replays, usage>>

\* RecordGameResult; then on to what called HandleGameEndInternal.
RecordUsage(e) ==
  /\ at[e] = "usage"
  /\ usage' = usage + 1
  /\ Go(e, IF mu = e THEN "unlock"
           ELSE IF e = Monitor THEN "read" ELSE IF e = Manager THEN "close" ELSE "write")
  /\ UNCHANGED <<game, mu, calling, world, listed, stopping, dead, enders, recorder,
                 replays>>

\* handleGameEnd reads the winner, then the duration, without mu.
ReadResult ==
  /\ at[Monitor] = "read"
  /\ claim' = [claim EXCEPT ![Monitor] = [winner |-> winner, timed |-> timed]]
  /\ Go(Monitor, "write")
  /\ UNCHANGED <<game, mu, calling, world, listed, stopping, dead, step, copy,
                 recorder, replays, usage>>

\* The next database write of handleGameEnd or MarkGameEnded.
IssueWrite(e) ==
  /\ at[e] = "write"
  /\ step' = [step EXCEPT ![e] = @ + 1]
  /\ Go(e, IF LastWrite(e) THEN "remove" ELSE "write")
  /\ UNCHANGED <<game, mu, calling, world, listed, stopping, dead, claim, copy,
                 recorder, replays, usage>>

\* The game leaves GameManager.games.
Remove(e) ==
  /\ at[e] = "remove" /\ ~ManagerHolds
  /\ listed' = Delisted
  /\ Go(e, "close")
  /\ UNCHANGED <<game, mu, calling, world, stopping, dead, enders, recorder, replays,
                 usage>>

\* GameInstance.Close: closing World.events a second time panics.
Close(e) ==
  /\ at[e] = "close" /\ mu = Free
  /\ closed' = TRUE /\ dead' = closed
  /\ listed' = (listed /\ e # Manager)
  /\ Go(e, "done")
  /\ UNCHANGED <<game, mu, calling, queued, shown, stopping, enders, recorder, replays,
                 usage>>

-----------------------------------------------------------------------------
Concession(p) ==
  AskConcede(p) \/ RefuseConcede(p) \/ ConcedeState(p) \/ ConcedeWinner(p) \/ Unlock(p)
    \/ Lookup(p)

Ending(e) ==
  ReadWinner(e) \/ MarkFinished(e) \/ CopyActions(e) \/ SaveMeta(e) \/ SaveActions(e)
    \/ SetFlushIndex(e) \/ RecordUsage(e) \/ IssueWrite(e) \/ Remove(e) \/ Close(e)

Running ==
  \/ \E p \in Player : FindGame(p) \/ EndTurn(p)
  \/ \E event \in queued : Listen(event)
  \/ TickEnds \/ TickNamesWinner \/ TickTimes
  \/ TakeSnapshot \/ BroadcastFrame

Step ==
  \/ Running
  \/ \E p \in Conceders : Concession(p)
  \/ Notice \/ ReadResult \/ Stop
  \/ \E e \in Ender : Ending(e)

Next == ~dead /\ Step

Spec == Init /\ [][Next]_vars

\* Every goroutine that can go on does: an ender, the monitor, the tick that
\* has mu, the snapshot loop and the listener.
FairSpec ==
  /\ Spec
  /\ \A e \in Ender : WF_vars(~dead /\ Ending(e))
  /\ \A p \in Conceders : WF_vars(~dead /\ (ConcedeWinner(p) \/ Unlock(p) \/ Lookup(p)))
  /\ WF_vars(~dead /\ (Notice \/ ReadResult))
  /\ WF_vars(~dead /\ TickNamesWinner) /\ WF_vars(~dead /\ BroadcastFrame)
  /\ \A event \in EventType : WF_vars(~dead /\ event \in queued /\ Listen(event))

-----------------------------------------------------------------------------
\* Type invariant.
TypeOK ==
  /\ state \in {"playing", "finished"} /\ winner \in Player \cup {NoPlayer}
  /\ timed \in BOOLEAN
  /\ mu \in {Free, "tick", "snapshot"} \cup Conceders
  /\ calling \subseteq Player
  /\ queued \subseteq EventType /\ shown \subseteq EventType /\ closed \in BOOLEAN
  /\ listed \in BOOLEAN /\ stopping \in BOOLEAN /\ dead \in BOOLEAN
  /\ at \in [Ender -> Stages]
  /\ claim \in [Ender -> [winner : Player \cup {NoPlayer}, timed : BOOLEAN]]
  /\ step \in [Ender -> 0..Writes]
  /\ copy \in [Ender -> [winner : Player \cup {NoPlayer}, from : Nat, upto : Nat]]
  /\ actions \in Nat /\ finished \in BOOLEAN
  /\ replayWinner \in Player \cup {NoPlayer} /\ flushed \in Nat
  /\ stored \subseteq Nat /\ meta \in Player \cup {NoPlayer, "none"}
  /\ usage \in Nat

\* The concessions the instance has accepted, and the enders that pay.
Accepted == {p \in Conceders : at[p] \notin {"idle", "asked"}}
Paying == {e \in Ender : step[e] > 0}

\* Two concessions, or one and the end on the board, race: at most one is
\* accepted, nobody pays before the game is finished, and whoever pays does so
\* for the winner the game will always have.  Only the monitor may read it too
\* early and find none.
PayoutsAgree ==
  /\ Cardinality(Accepted) <= 1
  /\ \A e \in Paying : /\ state = "finished"
                       /\ claim[e].winner = winner \/ (e = Monitor /\ claim[e].winner = NoPlayer)

\* An end on the board is paid for once, and the process does not die of it
\* before all of that payout is issued.
BoardEndIsPaid ==
  Accepted = {} /\ ~stopping =>
    /\ Paying \subseteq {Monitor} /\ usage <= 1
    /\ dead \/ closed => step[Monitor] = Writes

\* Monitor, concessions and the server's stop race: the state keeps its types,
\* and an end on the board its one payout.
Inv == TypeOK /\ BoardEndIsPaid

\* Enders flush at the same time, and their writes fail half way or meet
\* duplicates; what the recorder takes for stored is stored, and nothing is
\* stored that was not recorded.
FlushedIsStored == 0 .. (flushed - 1) \subseteq stored /\ stored \subseteq 0 .. (actions - 1)

\* A flush that ends late never sets the index of an earlier one back.
FlushNeverBack == [][flushed' >= flushed]_vars

\* A finished game is taken off the list and closed, or the process has died
\* of closing it twice, of a late EndTurn or of a concession's event.
EndingCompletes == state = "finished" ~> dead \/ (closed /\ ~listed)

\* config/config.yaml:51, snapshot_interval_ms: a snapshot once begun is sent
\* and makes way for the next.
SnapshotsGoOn == mu = "snapshot" ~> mu = Free
=============================================================================
