----------------------------- MODULE Spectators -----------------------------
(***************************************************************************)
(* The spectators of one game: the JoinAsSpectator handlers, the sessions  *)
(* of SpectatorManager, the StreamLoop goroutine of each call, and what of *)
(* ReplayRecorder they share with the game that records its actions.       *)
(*                                                                         *)
(* An action is known by its number.  Actions arrive in order (the game    *)
(* records them under its own lock), so the time an action was recorded is *)
(* told by that number too: aged says which actions are older than the     *)
(* spectators' delay, and a session's CurrentTimeMs is the number of the   *)
(* last action at or before it.                                            *)
(*                                                                         *)
(* Left out: heartbeats, playback speed and the frames' other fields, the  *)
(* flush to the store, and IsPaused, which nothing sets.  SeekTo looks for *)
(* a session with an empty id, which JoinAsSpectator refuses, and fails.   *)
(***************************************************************************)
EXTENDS Integers, Sequences, FiniteSets, SequencesExt

CONSTANTS
  Call, Spectator,  \* the JoinAsSpectator calls, each made at most once
  Who,              \* the spectator id of each call
  Crowds,           \* bound: the calls of a behaviour are among one of these sets
  MaxActions,       \* bound on the actions recorded if no two of them share an id
  MaxShared,        \* and if two may
  StreamCap,        \* places in a session's Stream (256 in the code)
  SubCap,           \* places in a subscription (256 in the code)
  NoCall

ASSUME SpectatorsAssumption ==
  /\ Who \in [Call -> Spectator] /\ IsFiniteSet(Call) /\ NoCall \notin Call
  /\ Crowds \subseteq SUBSET Call /\ MaxActions \in Nat /\ MaxShared \in 0 .. MaxActions
  /\ StreamCap \in Nat \ {0} /\ SubCap \in Nat \ {0}

VARIABLES
  n,         \* the number of actions recorded
  aged,      \* how many of them are older than the delay
  sending,   \* the calls whose subscription RecordAction has yet to send n to
  live,      \* ReplayRecorder.isLive
  listed,    \* the recorder is in liveGamesCache
  rpc,       \* the stage of each JoinAsSpectator handler
  away,      \* the calls whose context is cancelled
  session,   \* sessions: the call whose session is registered under an id
  stream,    \* the frames in each session's Stream, as long as its handler
             \* reads them; 0 is not an action
  closed,    \* the calls whose Stream is closed
  current,   \* CurrentTimeMs of each call's session
  total,     \* sessionCount
  count,     \* ReplayRecorder.spectatorCount
  loop,      \* the StreamLoop of each call
  waiting,   \* the actions in the subscription of each loop
  subs,      \* the calls whose subscription is in eventSubs
  seen,      \* history: the actions each client of Alone has been shown, after
             \* the one it joined after
  lost,      \* history: the calls of Alone with a frame or an action dropped
             \* because a channel was full
  dead       \* why the process has died

recorder == <<n, aged, sending, live, listed>>
calls == <<rpc, away>>
sessions == <<session, closed, total, count>>
loops == <<loop, waiting, subs>>
vars == <<recorder, calls, sessions, stream, current, loops, seen, lost, dead>>

\* The calls whose id no other call uses.
Alone == {c \in Call : \A d \in Call \ {c} : Who[d] # Who[c]}
Shown(c, i) == seen' = IF c \in Alone THEN [seen EXCEPT ![c] = Append(@, i)] ELSE seen
Lost(S) == lost' = lost \cup (S \cap Alone)

\* The bounds: these calls have been made, and so many actions recorded.
Made == {c \in Call : rpc[c] # "idle"}
Admitted(S, k) ==
  /\ \E T \in Crowds : S \subseteq T
  /\ k <= IF S \subseteq Alone THEN MaxActions ELSE MaxShared

Alive == dead = "no"
Registered == {c \in Call : session[Who[c]] = c}
-----------------------------------------------------------------------------
\* Variants of the operators below, each with one plausible bug, for checking
\* that the properties notice it.
SkipOne(k) == k + 2
Forgotten(c, s) == session[s]
EndedEarly(c) == IF live THEN "leaving" ELSE "live"
HoldingOnly(c) == loop[c].pc = "holding" /\ ~(loop[c].next <= aged)
OneLate(i) == i < aged
-----------------------------------------------------------------------------
\* RecordAction appends under the recorder's lock and copies the subscriptions;
\* it sends to them one by one after the lock is released.  The last attack of
\* a game may be recorded after the game has been marked as finished.
Record ==
  /\ Alive /\ sending = {}
  /\ Admitted(Made, n + 1)
  /\ n' = n + 1
  /\ sending' = subs
  /\ UNCHANGED <<aged, live, listed, calls, sessions, stream, current, loops, seen, lost, dead>>

\* A full subscription loses the action; one that has been closed since panics.
SendAction(c) ==
  /\ Alive /\ c \in sending
  /\ sending' = sending \ {c}
  /\ IF c \notin subs
     THEN dead' = "closed" /\ UNCHANGED <<waiting, lost>>
     ELSE /\ IF Len(waiting[c]) < SubCap
             THEN waiting' = [waiting EXCEPT ![c] = Append(@, n)] /\ UNCHANGED lost
             ELSE Lost({c}) /\ UNCHANGED waiting
          /\ UNCHANGED dead
  /\ UNCHANGED <<n, aged, live, listed, calls, sessions, stream, current, loop, subs, seen>>

\* The delay of the next action has passed.
Age ==
  /\ Alive /\ aged < n
  /\ aged' = aged + 1
  /\ UNCHANGED <<n, sending, live, listed, calls, sessions, stream, current, loops, seen, lost, dead>>

\* HandleGameEndInternal: MarkFinished, then UnregisterLiveGame.
MarkFinished ==
  /\ Alive /\ live /\ live' = FALSE
  /\ UNCHANGED <<n, aged, sending, listed, calls, sessions, stream, current, loops, seen, lost, dead>>

UnregisterLiveGame ==
  /\ Alive /\ ~live /\ listed /\ listed' = FALSE
  /\ UNCHANGED <<n, aged, sending, live, calls, sessions, stream, current, loops, seen, lost, dead>>
-----------------------------------------------------------------------------
\* sendFrame: a full stream drops the frame, a closed one panics, which
\* sendFrame recovers from.
Offer(c, frame) ==
  IF c \in closed \/ rpc[c] = "done" THEN UNCHANGED <<stream, lost>>
  ELSE IF Len(stream[c]) < StreamCap
  THEN stream' = [stream EXCEPT ![c] = Append(@, frame)] /\ UNCHANGED lost
  ELSE Lost({c}) /\ UNCHANGED stream

\* JoinAsSpectator finds the recorder.  Without one it goes on if the store
\* knows the game, which it does once an action was flushed, and JoinSpectator
\* dereferences the recorder it has not got.
Arrive(c) ==
  /\ Alive /\ rpc[c] = "idle" /\ Admitted(Made \cup {c}, n)
  /\ \/ listed /\ rpc' = [rpc EXCEPT ![c] = "joining"] /\ UNCHANGED dead
     \/ ~listed /\ rpc' = [rpc EXCEPT ![c] = "done"] /\ UNCHANGED dead
     \/ ~listed /\ n > 0 /\ dead' = "recorder" /\ UNCHANGED rpc
  /\ UNCHANGED <<recorder, away, sessions, stream, current, loops, seen, lost>>

\* JoinSpectator counts a session even where it replaces another one, which
\* stays open.  A session of a finished game starts at its beginning.
JoinSpectator(c) ==
  LET start == IF live THEN aged ELSE 0
  IN /\ Alive /\ rpc[c] = "joining"
     /\ rpc' = [rpc EXCEPT ![c] = "open"]
     /\ session' = [session EXCEPT ![Who[c]] = c]
     /\ total' = total + 1 /\ count' = count + 1
     /\ current' = [current EXCEPT ![c] = start]
     /\ Shown(c, start)
     /\ loop' = [loop EXCEPT ![c].pc = "begin"]
     /\ UNCHANGED <<recorder, away, closed, stream, waiting, subs, lost, dead>>

\* The session registered under s once it is left or evicted.
Dropped(c, s) == NoCall

\* LeaveSpectator closes whichever session is registered under the id.
LeaveSpectator(s) ==
  IF session[s] = NoCall THEN UNCHANGED sessions
  ELSE /\ closed' = closed \cup {session[s]}
       /\ session' = [session EXCEPT ![s] = Dropped(session[s], s)]
       /\ total' = total - 1
       /\ count' = IF listed /\ count > 0 THEN count - 1 ELSE count

\* The handler forwards a frame to its client.
Forward(c) ==
  /\ Alive /\ rpc[c] = "open" /\ c \notin away /\ stream[c] # <<>>
  /\ stream' = [stream EXCEPT ![c] = Tail(@)]
  /\ IF stream[c][1] = 0 THEN UNCHANGED seen ELSE Shown(c, stream[c][1])
  /\ UNCHANGED <<recorder, calls, sessions, current, loops, lost, dead>>

\* The client goes away.
GoAway(c) ==
  /\ Alive /\ rpc[c] = "open" /\ c \notin away
  /\ away' = away \cup {c}
  /\ UNCHANGED <<recorder, rpc, sessions, stream, current, loops, seen, lost, dead>>

\* The handler returns when its client is gone, or its stream closed and read.
Return(c) ==
  /\ Alive /\ rpc[c] = "open"
  /\ c \in away \/ (c \in closed /\ stream[c] = <<>>)
  /\ rpc' = [rpc EXCEPT ![c] = "done"] /\ away' = away \cup {c}
  /\ LeaveSpectator(Who[c])
  /\ stream' = [stream EXCEPT ![c] = <<>>]
  /\ UNCHANGED <<recorder, current, loops, seen, lost, dead>>

\* cleanupStaleSessions: no action has been sent for half an hour.  That is
\* longer than a playback pauses between two actions.
Quiet(c) == loop[c].pc \notin {"begin", "found", "recorder", "subscribed", "counted", "playing"}

Evict(s) ==
  LET c == session[s]
  IN /\ Alive /\ c # NoCall
     /\ \A d \in Call : d = c \/ loop[d].into = c => Quiet(d)
     /\ closed' = closed \cup {c}
     /\ session' = [session EXCEPT ![s] = Dropped(c, s)]
     /\ total' = total - 1
     /\ UNCHANGED <<recorder, calls, count, stream, current, loops, seen, lost, dead>>

\* BroadcastChat, to every session registered.
Chat ==
  /\ Alive
  /\ \E c \in Registered : c \notin closed /\ Len(stream[c]) < StreamCap
  /\ stream' = [c \in Call |-> IF c \in Registered \ closed /\ Len(stream[c]) < StreamCap
                               THEN Append(stream[c], 0) ELSE stream[c]]
  /\ Lost({c \in Registered \ closed : Len(stream[c]) = StreamCap})
  /\ UNCHANGED <<recorder, calls, sessions, current, loops, seen, dead>>
-----------------------------------------------------------------------------
At(c, pc) == Alive /\ loop[c].pc = pc
Goto(c, pc) == loop' = [loop EXCEPT ![c].pc = pc]
quiet == <<recorder, calls, sessions, seen, dead>>

\* StreamLoop looks its session up by id: it may find the one of a later call.
Find(c) ==
  /\ At(c, "begin")
  /\ loop' = [loop EXCEPT ![c].into = session[Who[c]],
                          ![c].pc = IF session[Who[c]] = NoCall THEN "over" ELSE "found"]
  /\ UNCHANGED <<quiet, stream, current, waiting, subs, lost>>

GetLiveRecorder(c) ==
  /\ At(c, "found")
  /\ Goto(c, IF listed THEN "recorder" ELSE "over")
  /\ UNCHANGED <<quiet, stream, current, waiting, subs, lost>>

Subscribe(c) ==
  /\ At(c, "recorder")
  /\ Goto(c, "subscribed")
  /\ subs' = subs \cup {c}
  /\ UNCHANGED <<quiet, stream, current, waiting, lost>>

\* The initial snapshot is sent; SeekByTime gives the first action after the
\* session's time, GetActionsCount the last.
After(k) == k + 1

Count(c) ==
  LET d == loop[c].into
  IN /\ At(c, "subscribed")
     /\ Offer(d, 0)
     /\ loop' = [loop EXCEPT ![c].pc = "counted", ![c].next = After(current[d]), ![c].end = n]
     /\ UNCHANGED <<quiet, current, waiting, subs>>

\* To GetSegment an end of 0 is no end.
SegmentEnd(end) == IF end = 0 THEN n ELSE end

GetSegment(c) ==
  /\ At(c, "counted")
  /\ loop' = [loop EXCEPT ![c].pc = "playing", ![c].end = SegmentEnd(@)]
  /\ UNCHANGED <<quiet, stream, current, waiting, subs, lost>>

\* An action goes to the session's stream.
Push(c, i) ==
  /\ current' = [current EXCEPT ![loop[c].into] = i]
  /\ Offer(loop[c].into, i)

\* playbackActions does not look at the delay.
Play(c) ==
  /\ At(c, "playing") /\ loop[c].next <= loop[c].end
  /\ IF c \in away THEN Goto(c, "leaving") /\ UNCHANGED <<stream, current, lost>>
     ELSE Push(c, loop[c].next) /\ loop' = [loop EXCEPT ![c].next = @ + 1]
  /\ UNCHANGED <<quiet, waiting, subs>>

\* What follows the playback depends on the recorder then.
AfterPlayback(c) == IF live THEN "live" ELSE "leaving"

Played(c) ==
  /\ At(c, "playing") /\ loop[c].next > loop[c].end
  /\ Goto(c, AfterPlayback(c))
  /\ UNCHANGED <<quiet, stream, current, waiting, subs, lost>>

\* liveStream takes an action, waits for its delay to pass, and sends it.
Take(c) ==
  /\ At(c, "live") /\ waiting[c] # <<>>
  /\ loop' = [loop EXCEPT ![c].pc = "holding", ![c].next = waiting[c][1]]
  /\ waiting' = [waiting EXCEPT ![c] = Tail(@)]
  /\ UNCHANGED <<quiet, stream, current, subs, lost>>

Available(i) == i <= aged

Show(c) ==
  /\ At(c, "holding") /\ Available(loop[c].next)
  /\ Push(c, loop[c].next)
  /\ Goto(c, "live")
  /\ UNCHANGED <<quiet, waiting, subs>>

\* The context is looked at while waiting for an action or for its delay.
Interruptible(c) ==
  loop[c].pc = "live" \/ (loop[c].pc = "holding" /\ ~Available(loop[c].next))

Quit(c) ==
  /\ Alive /\ Interruptible(c) /\ c \in away
  /\ Goto(c, "leaving")
  /\ UNCHANGED <<quiet, stream, current, waiting, subs, lost>>

\* The deferred Unsubscribe closes the subscription.
Unsubscribe(c) ==
  /\ At(c, "leaving")
  /\ loop' = [loop EXCEPT ![c] = [pc |-> "over", into |-> NoCall, next |-> 0, end |-> 0]]
  /\ subs' = subs \ {c} /\ waiting' = [waiting EXCEPT ![c] = <<>>]
  /\ UNCHANGED <<quiet, stream, current, lost>>
-----------------------------------------------------------------------------
Init ==
  /\ n = 0 /\ aged = 0 /\ sending = {} /\ live = TRUE /\ listed = TRUE
  /\ rpc = [c \in Call |-> "idle"] /\ away = {}
  /\ session = [s \in Spectator |-> NoCall] /\ closed = {} /\ total = 0 /\ count = 0
  /\ stream = [c \in Call |-> <<>>] /\ current = [c \in Call |-> 0]
  /\ loop = [c \in Call |-> [pc |-> "none", into |-> NoCall, next |-> 0, end |-> 0]]
  /\ waiting = [c \in Call |-> <<>>] /\ subs = {}
  /\ seen = [c \in Call |-> <<>>] /\ lost = {} /\ dead = "no"

Start(c) == Find(c) \/ GetLiveRecorder(c) \/ Subscribe(c) \/ Count(c) \/ GetSegment(c)
StreamLoop(c) ==
  Start(c) \/ Play(c) \/ Played(c) \/ Take(c) \/ Show(c) \/ Quit(c) \/ Unsubscribe(c)
Handler(c) == JoinSpectator(c) \/ Forward(c) \/ Return(c)

Next ==
  \/ Record \/ Age \/ MarkFinished \/ UnregisterLiveGame \/ Chat
  \/ \E c \in Call : SendAction(c) \/ Arrive(c) \/ Handler(c) \/ GoAway(c) \/ StreamLoop(c)
  \/ \E s \in Spectator : Evict(s)

Spec == Init /\ [][Next]_vars

\* Handlers, loops and the game are goroutines and time passes.  The eviction is
\* a ticker; before the game ends the players may never pause for half an hour.
FairSpec ==
  /\ Spec /\ WF_vars(Age)
  /\ \A c \in Call : WF_vars(SendAction(c)) /\ WF_vars(Handler(c)) /\ WF_vars(StreamLoop(c))
  /\ \A s \in Spectator : WF_vars(~listed /\ Evict(s))
-----------------------------------------------------------------------------
Pc == {"none", "begin", "found", "recorder", "subscribed", "counted", "playing",
       "live", "holding", "leaving", "over"}

TypeOK ==
  /\ n \in 0 .. MaxActions /\ aged \in 0 .. n /\ sending \subseteq Call
  /\ live \in BOOLEAN /\ listed \in BOOLEAN
  /\ rpc \in [Call -> {"idle", "joining", "open", "done"}] /\ away \subseteq Call
  /\ session \in [Spectator -> Call \cup {NoCall}] /\ closed \subseteq Call
  /\ total \in Nat /\ count \in Nat
  /\ \A c \in Call : /\ stream[c] \in Seq(0 .. n) /\ Len(stream[c]) <= StreamCap
                     /\ waiting[c] \in Seq(1 .. n) /\ Len(waiting[c]) <= SubCap
                     /\ seen[c] \in Seq(0 .. n)
  /\ current \in [Call -> 0 .. n] /\ subs \subseteq Call /\ lost \subseteq Call
  /\ loop \in [Call -> [pc : Pc, into : Call \cup {NoCall}, next : Nat, end : 0 .. n]]
  /\ dead \in {"no", "closed", "recorder"}

\* Leaving, eviction and the calls that replace one another race to close a
\* session's stream: what is registered is open, so none is closed twice.
SessionsAreOpen == Registered \cap closed = {}

\* Playback and live stream overlap but leave no gap: whoever joins under an id
\* of its own sees every action after the time it joined at, in order, up to a
\* frame that a full channel has dropped.
NoSkip ==
  \A c \in Alone \ lost : \A i \in 1 .. Len(seen[c]) - 1 : seen[c][i + 1] <= seen[c][i] + 1

\* The counters may count sessions that are gone, but never miss one: neither
\* an eviction, which leaves the recorder's count alone, nor a call that takes
\* over an id, whose session the older call closes.
CountsNeverShort ==
  /\ total >= Cardinality(Registered)
  /\ listed => count >= Cardinality(Registered)

\* Joins, departures, evictions and calls that take an id over, in any order,
\* keep the types, the sessions open and the counters.
Inv == TypeOK /\ SessionsAreOpen /\ CountsNeverShort

\* A send to a closed subscription kills the process, but only where a client
\* has left or lost its session, or the game is over.
OnlyLeaversKill == dead = "closed" => away # {} \/ ~live

\* A client that is gone leaves no subscription behind, even if it goes before
\* its loop has begun or while it holds an action back.
SubscriptionsEnd == \A c \in Call : (c \in away) ~> (c \notin subs \/ ~Alive)

\* Nobody is left hanging on a finished game, unless a later call has taken its
\* id over: then its stream is never closed.
HandlersEnd ==
  \A c \in Call : (~listed /\ c \in Registered)
                   ~> (rpc[c] = "done" \/ c \notin Registered \cup closed \/ ~Alive)

\* Neither subscriptions nor handlers are left behind, whoever leaves, is
\* evicted or stays until the end.
NothingLeftBehind == SubscriptionsEnd /\ HandlersEnd

\* Whoever watches under an id of its own when an action is recorded is shown
\* it in the end, unless it leaves, is evicted or too slow.
WatchersSeeAll ==
  \A c \in Alone : \A i \in 1 .. MaxActions :
    (loop[c].pc = "live" /\ n >= i)
      ~> ((\E j \in DOMAIN seen[c] : seen[c][j] = i \/ (j = 1 /\ seen[c][j] > i))
          \/ c \in away \cup closed \cup lost \/ ~Alive)
=============================================================================
