# A verification project for the card battle server

The repository is an online card game: a Go backend (a game server that runs
every battle authoritatively, a matchmaker, replays and spectators, balance
tooling, a tiered cache, an AI player) and a Unity client. This directory holds
TLA+ models of its core, the TLC configurations that check them, and TLAPS
proofs of every safety property they hold (section 13). Paths
below are relative to `src/`; Go packages are under `backend/internal/`.

## 1. Inventory

### 1.1 Game instance and battle rules (`game/`, `game/systems/`, `ecs/`)

* **State.** An entity world (`ecs.World`) of cards, two players and one game
  state entity with components: zones (deck, hand, board), hero (health, attack,
  weapon), mana, fatigue, health and readiness of minions, a dying mark. The
  instance adds one RW mutex `mu`, the frame streams of the players, a replay
  recorder and the lockstep engine.
* **Operations.** PlayCard, Attack, EndTurn, Concede (each under `mu` through
  `validateAndApplyAction`); a 30 ms tick that runs the systems in the order
  Card, Draw, Combat, Turn; a 100 ms snapshot; an event goroutine; subscription;
  Close.
* **Interactions.** RPC handlers call it; it calls the lockstep engine under
  `mu`; the engine calls back in goroutines of their own (rollback, desync); the
  manager's monitor polls it without the lock.
* **Hard.** Mutual recursion of damage and deathrattle; state that is only
  settled at the next tick (dead minions, dead heroes); refused operations that
  have already paid; ids that outlive their entities; two ways for a game to
  end, racing.
* **Correct when** cards stay in one zone, limits hold, mana is what the turns
  begun give, the dead are marked once and for all, a game ends for a reason and
  in favour of the right player, and a finished game's result never changes.

### 1.2 Lockstep engine and client networking (`lockstep/`, `Networking/GameNetworkClient.cs`)

* **State.** Current frame and snapshot; a bounded history (a map and its
  order); pending actions, last accepted number and last acknowledged frame per
  player; the desync count. The client keeps its request counter and the last
  snapshot it received.
* **Operations.** ValidateAction/SubmitAction, GenerateSnapshot, ReceiveAck,
  RestoreFromSnapshot; the client sends numbered requests and acknowledgements
  and adopts a snapshot after a rejection.
* **Hard.** Requests, frames and acknowledgements cross on the network; a
  rollback runs some time after the acknowledgement that asked for it and reuses
  frame numbers; lost requests leave a gap in the numbering.
* **Correct when** each accepted action is recorded in one snapshot, the history
  is bounded and complete, agreeing clients are never counted as diverged, and a
  client that awaits its replies is always answered.

### 1.3 Game manager and RPC layer (`game/game_manager.go`, `server/`)

* **State.** The map of live games; the databases behind it.
* **Operations.** CreateGame (starts a monitor goroutine per game), handleGameEnd
  (from the monitor), MarkGameEnded (from Concede's handler), Close. StreamGame
  forwards frames; SendActionStream forwards actions.
* **Hard.** Both ends of a game may run at once; Close while ticks and streams
  still send.
* **Correct when** a game's result and rating change are recorded once and the
  instance is closed once, after its result is known.

### 1.4 Matchmaker (`matchmaking/`, `server/match_server.go`)

* **State.** The queues, one per game type, with a channel per entry; the
  matches under way.
* **Operations.** FindMatch, CancelMatch, the 100 ms match loop (AI fallback at
  30 s, then at most one pair per queue, within a rating window that widens with
  time or else the first two), startGame in a goroutine per match,
  SubmitMatchResult.
* **Hard.** Sends on a channel another goroutine closes or fills; a player queued
  twice; a failed StartGame after both have left the queue.
* **Correct when** a player is in at most one match, and everyone queued is
  eventually matched, cancelled or told of a failure.

### 1.5 Replay and spectators (`replay/`)

* **State.** The recorder's actions, subscribers, flush index; stored actions
  unique per (game, index); the spectators' sessions.
* **Operations.** RecordAction, MarkFinished, FlushToStore (incremental, lock
  released during the writes), GetSegment, SeekByTime; join, leave, seek, stream,
  clean-up of stale sessions.
* **Hard.** Concurrent flushes; a write that fails half way; a session closed
  under its stream loop.
* **Correct when** the store holds a prefix without gaps, a spectator is shown
  every action in order unless it is too slow, and nobody who leaves leaves a
  subscription, a session or a handler behind.

### 1.6 Balance (`balance/`)

* **State.** Overrides in memory and in the database, the change log, the usage
  buffer, cached statistics.
* **Operations.** ApplyHotUpdate, RevertHotUpdate, LoadOverridesFromDB;
  RecordCardUsage, RecordGameResult, FlushBuffer with retry, ComputeStats.
* **Hard.** Several writes per update with failures and crashes between them;
  loads at a restart that fail or miss a document; overlapping flushes and retried
  bulk inserts; slow computations that overwrite each other in the cache.
* **Correct when** memory and database agree after each completed operation and
  whole load, every override can be traced to a change, a usage record is never
  lost while the process lives and counted again only after a failure, and
  statistics are never more than the cache's life behind.

### 1.7 Cache tier (`cache/`, `redis/`)

A local copy with expiry before Redis. The game manager creates and closes it
and nothing reads or writes a value through it; of the Redis store only the
deletion of a game's state is called, which nobody reads. Neither can affect a
game, and neither is modelled.

### 1.8 AI player (`ai/`), stores, mains, UI, gateway

The AI chooses an action from floating-point features every 500 ms of its turn;
the MongoDB store is one database call per method; mains, configuration, the
presentation half of the Unity client and the Envoy gateway hold no logic of the
game.

PROJECT.json lists every component with its sources, what is modelled of it or
why it is not, and the hazards of each at their lines.

## 2. Plan

| # | module | models | composes / refines | status |
|---|--------|--------|--------------------|--------|
| 1 | `CardBattle` | battle rules, tick, what clients see | | done |
| 2 | `CardBattleProofs` | its theorems | extends 1 | eleven theorems |
| 3 | `Lockstep`, `LockstepProofs` | engine, its caller, numbered clients | | done, six theorems |
| 4 | `GameEnding`, `GameEndingProofs` | the end of a game: concession, monitor and shutdown racing; flush, payout, close; deadlock of the snapshot | abstracts 1 and 3 | done, four theorems |
| 5 | `Matchmaker`, `QueueProofs`, `MatchmakerProofs` | handlers, queues, match loop, AI fallback, cancellation, startGame, results, stop | implements 6 | done, five theorems, one of them the refinement |
| 6 | `Pairing` | what a caller is promised: paired once, with another, and both share the outcome | abstract | done |
| 7 | `Spectators`, `SpectatorsProofs` | handlers, sessions, eviction, playback, live stream, subscriptions to the recorder | | done, three theorems |
| 8 | `HotUpdate`, `HotUpdateProofs` | overrides in memory, database and log; failing writes, crash, restarts with failing loads, midnight | | done, three theorems |
| 9 | `StatsBuffer`, `StatsBufferProofs` | buffer, flushes, retries, stop and crash; cache of statistics | | done, six theorems |
| 10 | `FrameStreams` | subscribe, replace, unsubscribe, broadcast into bounded channels, close | | open |
| 11 | `AITurn` | the AI's loop against the instance | composes 3 | open |

Every safety property that holds on the runs is a theorem by now. Worth
proving next: what the open modules will promise, and an abstract specification,
as `Pairing` is for the matchmaker, of what a spectator is shown.

The runs keep two or three players, a few cards each, two or three frames and one
or two messages in flight: every hazard in PROJECT.json needs at most two actors
and one loss, failure or crossing.

## 3. `CardBattle`: the rules of one battle

**Correspondence.** One variable per component field the rules read or write
(the comments at VARIABLES name them). An operation of the instance is one
action for what it does itself, and leaves in `calls` the calls it makes in
sequence: hits, draws and the end of `startTurn`. `Resolve` takes them from the
head, one per step; a hit that kills puts the hits of the deathrattle in front,
which is the order of the code's recursion. `Idle` (no calls left) is the
release of `mu`, so nothing else starts in between.

| code | actions |
|------|---------|
| `CombatSystem.PlayCard` and its handlers | `PlayMinion`, `PlayWeapon`, `PlayDamageSpell`, `PlayHealSpell`, `PlayDrawSpell` |
| `CombatSystem.Attack` | `MinionAttack`, `HeroAttack` |
| `TurnSystem.EndTurn`, `startTurn` | `EndTurn`, then `DrawCard` and `StartMainPhase` |
| `applyConcede` | `Concede` |
| `dealDamage`, `triggerDeathrattle` | `HitHero`, `HitMinion`, `HitNothing` |
| `DrawSystem.DrawCard` | `DrawCard` |
| `World.Update` | `Tick` |
| frames received by a client | `Frame` |
| `StartGame` | `Init` |

**What clients may do.** The server checks little (an owner or a target is not
always looked at), so what the rules guarantee depends on what clients send.
`Rapid = FALSE` is the shipped client used at human speed: it acts on a hand it
was shown and after a tick. `Rapid = TRUE` also lets it act between ticks and on
an outdated hand. An attack by the hero is only sent by API clients; it is
included. In both a client plays cards it was once shown as its own and attacks
with minions of its own board: the server checks neither hand nor owner, so a
client of the API can do more (have a card of the other player's on its board,
say), and nothing here speaks of such clients. Runs and theorems say which of the
two they are about: `TypeOK`, `ManaFollowsTurns`, `ZonesBounded`, `DeadAreDying`,
`ReadyMinions`, `RunawayNeedsBothBoards`, `GameEndsForAReason` and
`FinishedIsFinal` hold for both and are proved for both; `OneZone`,
`StrayIdsAreDead`, `WeaponWorks` (proved for `Rapid = FALSE`) and
`DeadHeroEndsGame` are claims about settled clients and fail for rapid ones (a
card played twice from an outdated hand, a hero healed before the tick).

**Data.** Cards are model values; a template is the record of the fields the
rules read. Not modelled, as no shipped card or path produces them: armor,
frozen, windfury, buff spells, draw deathrattles. A stack overflow is `crashed`,
reached when deathrattles nest deeper than `MaxDepth`; the real bound is the
size of a goroutine's stack, and which minions can reach it does not depend on
the number.

**A fact of the model worth knowing.** `CardSystem.Update` removes dying cards
from the world before `CombatSystem.cleanupDyingEntities` looks for them, so the
latter never finds any: `Doomed = {}` is a lemma. Ids of dead minions therefore
stay on boards and keep their slots: a board can refuse minions while fewer than
`MaxBoard` live on it, although config.yaml:35 speaks of minions. A second fact:
the end of the game is looked for in the tick only, so a hero brought to zero can
be healed before it and play on.

## 4. `Lockstep`: the engine, its caller and the clients

A snapshot stands for its hash: frame number, state, actions of the frame; the
state is the number of actions accepted from each player. `Accept`/`Reject` are
`validateAndApplyAction` (one step: it runs under `mu`, though the engine's lock
is taken twice inside); `FillSequence` is `GetPlayerNextSeq`, which the RPC
handler calls first under a read lock of its own; `GenerateSnapshot` is
`takeSnapshot` with `GenerateSnapshot`; `ReceiveAck` takes only the engine's
lock, so it interleaves with everything; `Rollback(i)` is one of the goroutines
`onRollback` starts, run in any order. `Send` is the client's PlayCard, Attack
or EndTurn, `Show` the arrival of a frame, `Lose` a broken connection.

`rollbackInProgress` is set and cleared under `mu` and never seen set, and
`confirmedActions` is written and never read: both are left out. The shipped
client never fills in the hash of an acknowledgement, so desync and rollback are
reached only by API clients: that is `HashAcks`. Left out is also the other
goroutine of a mismatch, `onDesync`: `handleDesync` (game_instance.go:657) emits
an event without an entity, and the process dies when it is broadcast
(game_instance.go:419), as it does of a concession's (section 5). The model goes on
after a desync for any time, which allows more, and `EndGame` may stop it at any
point; what it says of rollbacks is what holds until that death. `RequestRollback`
has no caller. `takeSnapshot` is taken as completing; see section 12.

## 5. `GameEnding`: the end of a game

Three kinds of goroutine end a game, and more than one of them may be at it: the
RPC handler of a concession (`Concede` in server/game_server.go), the monitor
that polls `IsFinished`, and the manager when the server stops. All run
`HandleGameEndInternal`, which flushes the replay and counts the result; the
first two then write five documents (result, two statistics, two ratings), take
the game off the list and close the instance. The module has one program
counter, `at`, per such goroutine (an *ender*), over the stages

    mark -> named -> copy -> meta -> insert -> index -> usage   HandleGameEndInternal
    -> read (monitor only) -> write (5 times) -> remove -> close -> done

A concession runs the first line twice, once inside `applyConcede` with `mu`
held (`asked -> torn -> mark ... usage -> unlock`) and once in `MarkGameEnded`
(`lookup -> mark ...`).

| code | actions |
|------|---------|
| `processTick`, `endGame` | `TickEnds`, `TickNamesWinner` (state, then winner), `TickTimes` |
| `takeSnapshot`, `broadcastFrame` | `TakeSnapshot`, `BroadcastFrame` |
| `EmitEvent`, `listenEvents`, `broadcastEvent` | `Emit`, `Listen` |
| `GameServer.EndTurn` | `FindGame`, `EndTurn` |
| `GameServer.Concede`, `applyConcede`, `MarkGameEnded` | `AskConcede`, `RefuseConcede`, `ConcedeState`, `ConcedeWinner`, `Unlock`, `Lookup` |
| `monitorGame`, `handleGameEnd` | `Notice`, `ReadResult`, then the common stages |
| `GameManager.Close` | `Stop`, then the common stages |
| `HandleGameEndInternal`, `GetWinner` | `ReadWinner` (without `mu` but in a concession) |
| `MarkFinished`, `FlushToStore` | `MarkFinished`, `CopyActions`, `SaveMeta`, `SaveActions`, `SetFlushIndex` |
| `HandleGameEndInternal`, statistics | `RecordUsage` |
| updates of results and ratings | `IssueWrite` |
| `delete(gm.games, ...)`, `GameInstance.Close` | `Remove`, `Close` |

**Abstractions.** The battle ends at some tick, for either player, or by a
concession that may be refused (the reasons are `CardBattle`'s and
`Lockstep`'s). `EndTurn` stands for every operation that emits events. The lock
`mu` is a variable: who holds it for writing, with `mu = Free` the guard of
whatever takes it, for reading or writing. A panic of any goroutine is `dead`: it
ends the process, as the code has no recover there. The write to the replay
store is an unordered InsertMany under a unique index on (game, action index):
it stores what is new and reports an error if anything was a duplicate; with
`Flaky` it may also fail and store any part. `createIndexes` (replay_store.go:102)
ignores the error of creating that index; the model takes it as created, and
`FlushedIsStored` and `FlushNeverBack` rest on it. Errors of the other database writes
are ignored by the code and so by the model. Left out: flushes from
`RecordAction` (they need 100000 actions), the Redis copy of the state (nobody
reads it), a full event queue (1000 events), other games.

**What holds and what does not.** One winner is agreed on by all who pay
(`PayoutsAgree`), but a concession is *paid twice* when the monitor notices it
too, and its result is counted up to three times in the statistics; then the
second `Close` closes a closed channel and the process dies. That is why
`BoardEndIsPaid` speaks of games nobody conceded, and why `EndingCompletes`
lets the process die. The monitor may also read the winner between the two
assignments of `endGame` and pay a game "won" by nobody, and its duration
before it is set; `claim` records both, and `PayoutsAgree` allows the monitor
that one exception. A client need not be told of the end either:
`handleGameEnd` closes the streams without waiting for the event that announces
it, which may still be in `queued`. And a concession kills the process at its
event: `applyConcede` emits it without an entity and `broadcastEvent`
dereferences it (game_instance.go:419), so nobody is told; the event of a desync
has no entity either (section 4). No document of the repository promises otherwise, so these
are facts of the model and not findings.

## 6. `Matchmaker` and `Pairing`: who plays whom

**Correspondence.** What runs under `Matchmaker.mu` is one step, and what runs
outside of it is a step of its own: that is where the hazards are.

| code | actions |
|------|---------|
| `Matchmaker.FindMatch` | `Enqueue` (under the lock), `SendInQueue` (after it) |
| the stream handler in match_server.go | `Finish` (answered or closed), `GiveUp` (its client is gone: `CancelMatch`) |
| `CancelMatch` (RPC) | `Cancel` |
| `tryMatch`, `findMatchingPair`, `removeFromQueue` | `TryMatch`, one step for all queues, from `NewMatches` and `Waiting` |
| the time since `JoinedAt` | `Wait` |
| `startGame` | `StartGame` (the RPC returns, if it does), `StoreMatch`, `Tell` (once per side) |
| `SubmitMatchResult` | `SubmitMatchResult` |
| `Close`, after GracefulStop | `Close` |

An entry of a queue is its call, but the code removes entries by player id:
`RemoveFromQueue` takes the first of the player, whichever call it is of. That
is why a reconnecting player's new entry is cancelled by the end of its old
stream, and why the second AI candidate of one player removes the entry of the
first. `MATCHED` may reach a client before `IN_QUEUE`. A send on a closed channel
panics and nobody recovers: `panic` names the call. Channels have ten places;
that they are enough is `MatchedOncePerCall`.

**Patient players** make one call at a time and cancel only what they know to be
queued. Everything else a client may do is *hasty*. `OnlyHastyKill` says who can
make the process panic; `PatientIsAnswered` and `ImplementsPairing` are about
patient players and must hold whatever hasty ones do.

**A start that hangs.** `startGame` calls the game server with
`context.Background()` (matchmaker.go:263), so nothing makes a StartGame return. If
it never does, both sides have left the queue and wait until their clients give up.
`PatientIsAnswered` therefore has two parts, neither of which assumes that it
returns: a patient call always gets as far as a match whose StartGame is under way
(or ends before), and once the StartGame of its match has returned, with a game or
an error, it is answered.

**Refinement.** `Pairing` knows no queues: a call joins, leaves, is paired with
another player's call or an outsider, and both sides of a pair share the outcome.
`ImplementsPairing` is `Pairing!Spec` under the mapping `StatusOf`, `MateOf` of
the patient calls; a hasty opponent counts as an outsider, like an AI. Every
step of the code is a step of `Pairing` or changes neither: `TryMatch` is `Pair`
of several at once, `StoreMatch` or a failed `StartGame` is `Settle`.

**Left out.** Players' documents and ratings paid, Redis and `waitingGames`
(nobody reads them), names and match ids.

## 7. `Spectators`: sessions, playback and live stream of one game

**Correspondence.** A call of `JoinAsSpectator` has a handler (`rpc`), a session
and a StreamLoop goroutine (`loop`); the recorder is shared with the game.

| code | actions |
|------|---------|
| `RecordAction` | `Record` (append and copy the subscriptions), `SendAction` (to each, after the lock) |
| `MarkFinished`, `UnregisterLiveGame` | the same |
| `JoinAsSpectator` | `Arrive`, `JoinSpectator`, `Forward`, `Return` (deferred `LeaveSpectator`) |
| a client that goes | `GoAway` |
| `cleanupStaleSessions` | `Evict` |
| `BroadcastChat` | `Chat` |
| `StreamLoop` | `Find`, `GetLiveRecorder`, `Subscribe`, `Count`, `GetSegment` |
| `playbackActions`, `liveStream` | `Play`, `Played`, `Take`, `Show` |
| the deferred `Unsubscribe` | `Quit`, `Unsubscribe` |
| the spectators' delay | `Age` |

Actions are numbers; time is told by them too (`aged`, `current`). `sendFrame`
recovers from a closed stream, `RecordAction` does not: `dead = "closed"`.

**Facts of the model** (no document says otherwise). A join once the game is
finished passes a nil recorder on, and the process dies (`dead = "recorder"`). A
spectator who joins again under its id replaces its session without closing the
stream; the first handler to return closes the other one's session, and the
replaced handler hangs until its client goes (so `HandlersEnd` excepts it). An
eviction does not decrement the recorder's count and a second join counts twice,
so the counts only grow too large (`CountsNeverShort`). `playbackActions` does
not look at the delay, `SeekTo` always fails since it looks for an empty id, and
`IsPaused` is never set.

## 8. `HotUpdate`: overrides of card values

**Correspondence.** One template, as all updates hold one lock and templates
share nothing. An update is a record `op` that runs through `replace`, `insert`
and `commit`.

| code | actions |
|------|---------|
| `ApplyHotUpdate`, `RevertHotUpdate` | the same, to the first write |
| `overrideCol.ReplaceOne` | `Replace`, `ReplaceFails` (applied or not) |
| the change log's `InsertOne` | `Insert`, `InsertFails` |
| the update of `activeOverrides` | `Commit` |
| `NewHotUpdateManager`, `LoadOverridesFromDB`, `NewGameManager` after a crash | `Restart`: the outcomes of the two loads |
| the date | `Midnight` |

The memory is read by `GetActiveOverrides` and by the next update, which merges with
it. The registry reads it too, but no card is made through the registry (section
12), so neither it nor its getters are modelled.

**Restarts.** `NewHotUpdateManager` loads the documents, and `NewGameManager` loads
them once more. `Load` names what a load may come to for the one template: it is
found; the load is *cut*, that is, it ends without an error and without the document,
as `LoadOverridesFromDB` skips what it cannot decode and never asks for the
cursor's error (hot_update_manager.go:484-493); or it fails. If the first load
fails the server runs without a manager and serves no updates (`up` is FALSE) until
the next start; an error of the second is only logged. So a restart may silently
drop the overrides from the memory: `whole` tells whether one did. `RestartKeeps`
says what holds all the same: the document of what was settled stays, and the next
whole load brings it back, *unless an update comes first*: that is merged with the
empty memory, and its document replaces the one that was missed.

**Facts of the model.** A revert does not remove a field that the change had newly
set, and takes a value of 0 before for none; the revert of an older change takes
back later changes of other fields with it, as the log keeps all values there were
before. `RevertRestores` is about the last change only. After a failure or a crash
between the writes an override that no log mentions comes into force at the next
restart. An update for midnight replaces the one document: a restart before
midnight forgets the overrides in force, without a restart after it the memory
never changes, and the next immediate update drops what was scheduled; the
response gives now as the effective time in any case. `LogTellsAll` accounts for
each override active or stored by a change in the log, or by an update that failed
after storing its document (`orphans`, which only the model remembers), and
`NothingEarly` does the same before midnight with immediate changes. Listeners
only log.

## 9. `StatsBuffer`: card usage and its statistics

**Correspondence.** `flush` has one entry per goroutine in `FlushBuffer`; what
runs under `bufferMu` is one step.

| code | actions |
|------|---------|
| `RecordCardUsage`, `RecordGameResult` | the same: a record or a deck, and a flush by the one that fills the buffer |
| `flushLoop` | `Tick` |
| `FlushBuffer` | `Take`, `Insert` or `InsertFails` (any part stored, all put back) |
| `Close`, the end of main | `Close`, `Exit` |
| a crash and restart; a panic | `Crash`, `Unrated` |
| `ComputeStats`, `ComputeTierDistribution` | `GetBalanceStats`, `GetTierDistribution`, `Look`, `Query`, `Store` |
| the clock | `Pass` |

`InsertMany` stops at the first failure, so what it stores is a prefix; the model
lets it be any part, which allows more. A tier distribution computes once *ahead*,
as nothing is ever cached under the key it looks for, and then asks like everyone
else (`tiers`); whoever computes answers with its own result. Rates, tiers and
their order are left out: a result is the number of rows it counts.

**Facts of the model.** A record retried gets a new id, so a part stored before a
failure counts twice. A flush under way when the process ends takes its records
with it, as does a tick chosen together with `done`: `StopKeeps` says what is
left. A card with fewer than `MinSample` records has no tier and the tier
distribution dereferences nil for it. A result computed earlier may overwrite a
later one in the cache; the next answers are then behind those already given,
but never more than the time to live behind (`AnswersRecent`). The flush of
`RecordCardUsage` blocks the game's own goroutine for up to 30 s, and
`totalRecorded`, which nobody reads, adds the whole buffer with each game.

## 10. Runs

| run | model | question | result |
|-----|-------|----------|--------|
| `battle_settled` | settled clients; a deck of minions (taunt, deathrattles on both sides, charge) or of spells and weapons; 4 health, board and hand of 2, up to turn 5, fair | do minions keep their readiness rules, is each card in one zone and each stray id a dead minion's, is the hero's attack that of an unbroken weapon, does mana follow the turns, is the result final, does the recursion of deaths run away only between two rattling boards, does a dead hero end the game | holds |
| `battle_rapid` | rapid clients, a mix of all card types, up to turn 4 | do types, limits, marks and the reasons for the end survive outdated hands and refused plays | holds |
| `battle_taunt` | minions, as in `battle_settled` | must a taunt minion be attacked first | violated |
| `lockstep_reliable` | honest clients that await replies, one may concede; 3 frames, 2 + 1 requests | are histories windows, late acknowledgements harmless, numbers in step, all requests answered | holds |
| `lockstep_rollback` | one diverged client, lossy network, threshold 1 | is each action recorded once, the history bounded, a client out of step stuck for ever | holds |
| `ending` | both players may concede, the server may stop, writes to the replay store fail; fair | do all payouts agree, is an end on the board paid once and before the process can die of it, is what counts as flushed stored, does the index never go back, is a finished game delisted and closed unless the process dies | holds |
| `ending_snapshot` | `takeSnapshot` as written; fair | does a snapshot once begun make way for the next | violated |
| `matching` | patient players A (who may come back) and B, and C who may be queued twice, for an AI or in two queues; 2 queues, AI at age 1; fair | do the match loop and startGame only send to open channels unless a hasty player is concerned, does a started match stay known until it is paid, is `Pairing` implemented, is every patient call answered that the game server answers for | holds |
| `matching_rating` | three players with ratings 0, 100 and 400, AI at age 3 | is nobody paired beyond the configured rating difference | violated |
| `spectators` | two calls under one id, or one alone; 2 actions, channels of one place; fair | is no session's stream closed twice, does playback and live stream leave no gap, do counts never miss a session, do only leavers make the process die, are subscriptions and handlers ended | holds |
| `hot_update` | two fields, values 0 to 2, three updates, 3 changes, any number of restarts | does what was settled survive restarts and come back with a whole load, do the log and the failed updates explain what is active and stored, does nothing become active early, does a revert restore | holds |
| `stats` | 4 records and two failing inserts with a stop or a crash, or 2 records and two callers over two ticks of the clock; fair | is no record lost or counted again without a failure, does an orderly stop keep all, is an answer recent, is everything stored in the end | holds |

**Bounds.** Every counter the code leaves unbounded has a named bound in a guard:
`MaxTurn` (EndTurn), `MaxDepth` (nested deathrattles), `MaxFrame` (snapshots),
`MaxRequest` (numbered requests per client), `MaxAck` and `MaxRollback`
(acknowledgements and rollback goroutines under way). They are large enough for
the cases the properties are about: in the battle runs each player has at least
two turns, boards and hands fill up (a refused minion occurs thousands of times in
`battle_rapid`), decks run out and fatigue starts, a weapon breaks and is
replaced, and deathrattles of both sides meet; in the lockstep runs the history of
two overflows, a rollback reuses a frame number and a request is overtaken by a
snapshot. `Matchmaker`: `Crowds` names the sets of calls of one behaviour (a pair
with a third, a player queued twice, a player who comes back, one in two queues),
`MaxAge` the age of the AI fallback in tens of seconds, `MaxSubmitted` the
results. `Spectators`: `Crowds` again, `MaxActions` for calls alone under their id
and `MaxShared` for the two that share one; caps of one make every full channel
happen. `HotUpdate`: `MaxChanges` calls, of which one can fail between its writes,
one revert another, and one be for midnight. `StatsBuffer`: `Bounds` are the two
kinds of behaviour, failing inserts or readers; four records fill a buffer of
three and leave one that overtakes, two failures put records back in front of
newer ones, and with a time to live of one tick of two a computation can be
overtaken by a newer one. Costs, attack and health are scaled down so that a few
turns reach what a real game reaches in ten; health of 2 to 4 stands for 30, as
the rules compare health with zero and `MaxHealth` only.

**Deadlock** checking is off in all runs: a finished game stops, and so does a
bounded model.

**Fairness.** `CardBattle`: weak fairness of `Resolve` (the goroutine that holds
`mu` runs on) and of `Tick` (a ticker of 30 ms whose handler needs `mu`, which
every holder releases). `Lockstep`: weak fairness of handling a client's request
that has arrived (each RPC has a goroutine of its own), per player. No fairness
is assumed of clients, of the network or of snapshots. `Matchmaker`: handlers,
the ticker of the match loop, the startGame goroutines once their RPC has returned,
and the passing of time; nothing of clients, and nothing of the RPC's return, as its
context has no deadline. `Spectators`: handlers, stream loops
and the sends of RecordAction, the passing of time, and the eviction of sessions
of a finished game only. `StatsBuffer`: the ticker, every
flush that has begun (an insert has a deadline; the number of failures is bounded)
and the exit of a process that stops. `GameEnding`:
weak fairness, apart for each, of every ender past its first step, of the
handlers inside a concession, of the monitor's polling, of the tick and the
snapshot that hold `mu` and of the listener for each event: each is a goroutine
of its own that Go's scheduler runs when it can run, and every holder of `mu`
releases it. Ticks, requests, concessions and the stop of the server are not
fair: they need not happen. `MaxActions` bounds the actions recorded: with one,
the flushes of two enders copy the same range, and one of them finds it stored or
half way; ranges that overlap without being equal are the theorems' (section 13),
which hold for any number.

`Inv` is in each module the type invariant together with the safety properties
that are plainest to state; its conjuncts are named and commented apart: in
`CardBattle` `ZonesBounded` and `DeadAreDying`, in `Lockstep` `StoreBounded`, in
`GameEnding` `BoardEndIsPaid`, in `Matchmaker` `QueuedAreOpen`, in `Spectators`
`SessionsAreOpen` and `CountsNeverShort`, in `HotUpdate` `LogTellsAll` and
`NothingEarly`, in `StatsBuffer` `NothingLost` and `CopiesAreRetries`.

Every property of a passing run has a mutant in PROJECT.json, a plausible slip
in the modelled code under which TLC finds that property violated.

## 11. Where the code and its documents disagree

* **Taunt** (`battle_taunt`). `hasTaunt` (combat_system.go:468) looks for the
  minion component on the player entity, so nothing is ever protected, against
  card_templates.go:43 and the repository's own test.
* **Snapshots stop** (`ending_snapshot`). `takeSnapshot` read-locks through
  `broadcastFrame` the mutex it holds (game_instance.go:391), against the
  snapshot every 100 ms of config.yaml:51.
* **Rating window** (`matching_rating`). `findMatchingPair` falls back to the
  first two of the queue whatever their ratings (matchmaker.go:245), against
  `max_rating_diff: 300` (config.yaml:43).

## 12. Reading of the source

* As committed some files do not compile (two-result assertions on
  `GetComponent`, `var aiCandidates := ...` at matchmaker.go:133, and the packages
  `balance` and `systems` import each other). They are modelled as evidently
  intended: the first result of the call, asserted; the variable declared.
* `takeSnapshot` holds `mu` and calls `broadcastFrame`, which read-locks it: the
  goroutine would wait for itself at the first snapshot. `CardBattle` and
  `Lockstep` take it as completing, since otherwise nothing after the first tenth
  second of a game could be said. The hazard is
  listed, and `ending_snapshot` shows it; the other runs of `GameEnding`
  take the snapshot as completing too (`RelockBlocks = FALSE`).
* `NewGameInstance` gives the balance registry to its card system, but
  `StartGame` creates the decks with a card system of its own without one:
  overrides never reach a card of a game.
* The limits of config.yaml are not read by the code; it uses constants (a rating
  factor of 15 where the file says 32, a base rating of 1500 for 1000, an AI after
  30 s for 120 s).
* The shipped client sends no rating and never calls CancelMatch; nothing calls
  SubmitMatchResult, since the game server pays ratings itself. The three are
  modelled as the RPCs they are.
* turn_system_test.go is older than the code: it calls `EndTurn` without the player,
  and reads mana and hand from the player component, which has neither. Two of its
  expectations contradict the code, and the model follows the code. Lines 85-86 expect
  player 2 to have `MaxMana` and `Mana` of 2 after the first EndTurn, having had none
  (lines 48 and 51), where `startTurn` adds one crystal (turn_system.go:127):
  `ManaFollowsTurns` says 1 there and would fail if the code met the test. Line 56
  expects three cards in the first player's opening hand where the first turn draws a
  fourth (`Init` deals `Opening1` and then draws). Both show within one turn of the
  initial state, and no run is spent on them.

## 13. Proofs

Every property of a passing run that is not liveness is a theorem here, for every
value of the constants that the assumptions admit; where a theorem assumes more
(`Rapid = FALSE`, `Diverged = {}`, `Reliable`, `MaxDepth >= 2`), its statement says
so. The bounds of section 10 are arbitrary in the proofs.

`CardBattleProofs` proves, for all players, cards, templates, decks and limits
that satisfy `BattleAssumption` and `DecksAssumption` (owners match decks, decks
hold no card twice and are longer than the cards dealt, minions start with health and
weapons with durability, the opening hand is below the hand limit), for rapid as
well as settled clients unless noted:

| theorem | statement | argument |
|---------|-----------|----------|
| `TypesHold` | `Spec => []TypeOK` | `TypeInv`: `TypeOK` with `DrawsFor(calls)`, that only players are made to draw; without it `DrawCard` could index a hand by a card |
| `ManaIsAccounted` | `Spec => []ManaFollowsTurns` | inductive with `TypeInv`; the step that matters is `EndTurn`, by the parity of the turn |
| `GameEndsJustly` | `Spec => GameEndsForAReason` | an action property: only `Concede` and the tick change `status` |
| `FinishedStaysFinal` | `Spec => FinishedIsFinal` | needs `NoHitsLeft`: in a finished game no hit is among the calls left, because a game finishes only when none are, and only `EndTurn` adds calls then |
| `DeadAreMarked` | `Spec => []DeadAreDying` | inductive with `TypeInv`; healing cannot undo a death without leaving health above zero |
| `ZonesStayBounded` | `Spec => []ZonesBounded` | `ZonesInv` adds `Owned`: decks and hands hold only their player's cards, also what a client was shown |
| `LimitsHold` | `Spec => []Inv` | from `TypesHold`, `ZonesStayBounded` and `DeadAreMarked`; it is about players who play cards once shown to them and attack with their own minions, as all theorems here (section 3) |
| `OnlyRestedAttack` | `Spec => []ReadyMinions` | inductive with `TypeInv`; a minion comes onto a board unable to attack or charging, and is made ready only on the board, with its attacks reset |
| `RunawayTakesTwo` | `Spec => []RunawayNeedsBothBoards`, for `MaxDepth >= 2` | `RunawayInv` adds `AllNested`: a pending hit of a deathrattle is at a minion on a board, and one of depth two or more was caused by a rattling minion of the other board, which is still on it. A spell may hit a minion in a hand, so depth zero says nothing and two levels are needed |
| `CardsStayInOrder` | `Spec => []ZonesInOrder`, for `Rapid = FALSE` | `SettledInv`, below |
| `WeaponsKeepWorking` | `Spec => []WeaponWorks`, for `Rapid = FALSE` | `SettledInv` |

`SettledInv` is `ZonesInv` with `Quiet` (a settled state has no calls left and
nobody dying, so what a client acts on is what the server has) and, for each player:
`Apart` (deck, hand and board hold different cards, none of them the equipped
weapon), `Alive` (what is held is in the world, or a minion that has died),
`Equipped` (what is equipped is an unbroken weapon of the player's own, and the
source of the hero's attack) and `Unworn` (a card not yet played has the durability
it was created with). `WeaponWorks` needs all of them: without `Unworn` a weapon could
be equipped broken, without `Apart` the replaced weapon that is destroyed could be
the card still in a hand.

`GameEndingProofs` proves, for any set of players who may concede, with or
without a stop of the server, failing writes and the snapshot's deadlock, and
for any number of actions (`EndingAssumption` only says that the names of
players and goroutines differ):

| theorem | statement | argument |
|---------|-----------|----------|
| `PayoutsAreAgreed` | `Spec => []PayoutsAgree` | `PayInv`: the winner is assigned once, by the tick or by the one concession that finds the game in progress, and that one holds `mu` from before the game is finished until the winner is there, so a handler that has left `mu` has read it; `PayMove` is the lemma for the many steps that only move one ender on |
| `FlushNeverAhead` | `Spec => []FlushedIsStored` | `FlushInv`: a flush copies a range that starts at or before the index; the one that stored its range without a duplicate started exactly at it (the document at the index would be a duplicate otherwise) and is the only one about to move it |
| `FlushNeverSetBack` | `Spec => FlushNeverBack` | from `FlushInv`: at `index` the copied range is not empty and starts at the index |
| `BoardEndsArePaid` | `Spec => []Inv` | `EndInv`: `FlushInv` and `PayInv` with `StepsInStage` (an ender's writes go with its stage) and `MonitorAlone` (while no concession is accepted and the server runs, the others have not begun and no concession's event is queued: the monitor alone counts the game and closes the streams, as its last step) |

The proof shows what keeps the flushes in order: not the recorder's lock, which
is released during the writes, but the unique index on (game, action index), if it
could be created (section 5).

`StatsBufferProofs` proves, for any number of flushes, callers, records and
failures, and any buffer size and time to live (`StatsAssumption`):

| theorem | statement | argument |
|---------|-----------|----------|
| `RecordsAccountedFor` (`TypesHold`, `NothingIsLost`, `OnlyRetriesCopy`) | `Spec => []Inv` (`[]TypeOK`, `[]NothingLost`, `[]CopiesAreRetries`) | `BufferInv`: all three are inductive only together, and with `FlushesInOrder` (a flush that is not inserting holds nothing, and Close's is only under way while the process closes) and `OnlyMade` (a record not yet made has no copy); what carries the argument is that a record is in one place in memory, so that each insert or failure counts it once |
| `OrderlyStopKeeps` | `Spec => StopKeeps` | `StopInv`: while a stop is undisturbed nobody but Close flushes, and after its take the buffer stays empty |
| `AnswersAreRecent` | `Spec => []AnswersRecent` | `ReadInv`: a cached or computed result counts what was in the database when the clock left any time before its own, so a fresh result covers the time TTL before the request, also when an older computation has overwritten a newer one |

The last proof shows why the overwriting is harmless: the time of a result is
read before its query and kept with it, so an old result expires as an old one.

`LockstepProofs` proves, for any players, frames, requests, acknowledgements and
rollbacks under way, any length of the history and any threshold
(`LockstepAssumption`):

| theorem | statement | argument |
|---------|-----------|----------|
| `HistoryStaysBounded` | `Spec => []Inv` | `IInv`: `TypeOK` and `StoreBounded` with the two below |
| `RecordedOnce` | `Spec => []ActionsRecordedOnce` | `Recorded`: an accepted action is pending until it is in a snapshot, and no two snapshots ever made share an action, also when they share a frame number; a rollback forgets snapshots but not that their actions were taken |
| `WedgesArePermanent` | `Spec => WedgeIsPermanent` | `Sequenced`: what a client numbers is above zero, so the handler fills in the numbers of concessions only, and nothing the engine accepts is the request a client out of step would have to send |
| `HonestAcksAreNoDesync` | `Spec => []HonestAcksAgree`, for `Diverged = {}` | `Agreed`: without a rollback a frame number is given to one snapshot, so what is acknowledged, known or based upon is that snapshot |
| `HistoryStaysWindow` | `Spec => []HistoryIsWindow`, for `Diverged = {}` | `Window`: the order is that of the last frames, one after the other, so what is evicted is the oldest |
| `NumbersStayInStep` | `Spec => []NumbersInStep`, for `Reliable` and `Diverged = {}` | `InStep`: a client has at most one request under way, and it carries the number the engine waits for; by `Agreed` that request is valid, so it is accepted |

The assumptions of the last three are about clients and network, and without them
their statements fail: the hash of a diverged client has the engine roll back and
give a frame number again, and a client whose request is lost, overtaken or
rejected is out of step for ever, as `WedgesArePermanent` says.

`SpectatorsProofs` proves, for any calls, ids, actions, and channels of any size
(`SpectatorsAssumption`):

| theorem | statement | argument |
|---------|-----------|----------|
| `SessionsStayOpen` | `Spec => []Inv` | `IInv` adds `Joined`: a session and a loop belong to a call that joined under the same id, and a loop past its lookup has found a session |
| `OnlyDeparturesKill` | `Spec => []OnlyLeaversKill` | `Leaving`: a subscription is closed only by a loop that leaves, and a loop leaves only because a client is gone or the game is over |
| `NothingSkipped` | `Spec => []NoSkip` | `Followed`: the channel of a call alone under its id holds exactly the actions after `Upto`, and the playback goes at least that far (`Queued`); what is in the session's stream leads on without a gap from what was shown to the session's time (`Streamed`) |

The last proof shows why subscribing before looking up the count matters, and that
nothing else does: playback and live stream may then overlap in any way.

`HotUpdateProofs` proves, for any fields, values, updates and number of changes, with
failures and crashes anywhere (`HotUpdateAssumption`):

| theorem | statement | argument |
|---------|-----------|----------|
| `RestartsKeep` | `Spec => []RestartKeeps` | `Settled`: while settled the document is what became active, also when a load has missed it, and the memory is that unless one has; an update that has written is not settled and the document is its own |
| `LogAccounts` | `Spec => []Inv` | `Accounted`: every override in memory, stored or about to be is that of a logged change, of one that failed after storing, or of the update under way, at every stage of it |
| `RevertsRestore` | `Spec => RevertRestores` | `Identified`: ids are given once, and the log's entry of the last change has what that change replaced |

`MatchmakerProofs`, on the operators' lemmas in `QueueProofs`, proves, for any calls,
players, game types, ratings and patient players (`MatchmakerAssumption`):

| theorem | statement | argument |
|---------|-----------|----------|
| `QueuesStayOpen` | `Spec => []Inv` | `IInv`: `Inv` with the following |
| `PatientDoNotKill` | `Spec => []OnlyHastyKill` | `OneAtATime` and `Apart`: the one call of a patient player is queued, or cancelled, or in one match |
| `StartedMatchesAreKept` | `Spec => []StartedIsKept` | `Kept`: how far startGame is tells whether the match is stored and paid |
| `MatchesPerCall` | `Spec => []MatchedOncePerCall` | `Counted`: the matches with a call and the entries of its player are together no more than the calls that player has made. By player it is inductive; by call it is not, as the code removes entries by player |
| `MatchmakerImplementsPairing` | `Spec => ImplementsPairing` | refinement, step by step |

In the refinement `Reads` derives from `IInv` what the mapping makes of a call in
each place it can be in. Then each action maps to a step of `Pairing` or to a
stutter: `Enqueue` joins, cancelling leaves, storing or failing settles, `TryMatch`
pairs several at once (it is one step of `Pairing!Pair`, with the round's new matches
as the pairs), and what a hasty player does to its own calls stutters.

`QueueProofs` is about the recursive functions of the model: `NewMatches`, which
goes through the queues, and the removal by player. They are recursive functions
and no RECURSIVE operators, so they can be reasoned about; the induction is over
sets of numbers (`Induction`), from the well-foundedness of the strict subset
ordering on finite sets, as the library's induction theorems take an operator
parameter no prover here can instantiate. `Round` sums up one pass of the match
loop: both sides of a match were queued, each match takes an entry out and each
match with a call one of its player's, and a player's only entry is either left or
matched.

Each proof has one lemma per action and one step per conjunct the action can
disturb; the temporal step is by PTL from initiation, consecution and
implication.

Only model-checked: the liveness properties `DeadHeroEndsGame`, `RequestsAnswered`,
`EndingCompletes`, `PatientIsAnswered`, `NothingLeftBehind`, `WatchersSeeAll` and
`StoredInTheEnd`, since liveness under fairness and ENABLED are out of the
prover's reach. The three properties of section 11 are violated, so there is
nothing to prove of them.

## 14. Not modelled

Floating-point code (AI features, rates and tiers of statistics, the predicted
impact of an update, Elo expectation), the external inference runtime, pure
database and Redis calls and the cache nobody uses, configuration, generated
protocol code, the presentation half of the Unity client and the gateway. Of
modelled components: the frame streams of an instance, the AI's turn loop, the
replay player's reads of stored games, `ChangeLogStore` and `ClearCache`, which
nothing calls, and the players' documents of the matchmaker.
