----------------------------- MODULE Matchmaker -----------------------------
(***************************************************************************)
(* The matchmaker (backend/internal/matchmaking) and the stream handlers   *)
(* in front of it (server/match_server.go).                                *)
(*                                                                         *)
(* A FindMatch call puts an entry with a channel of its own into the queue *)
(* of its game type.  Handlers, the match loop, one startGame goroutine    *)
(* per match and the CancelMatch and SubmitMatchResult RPCs interleave;    *)
(* what one of them does under Matchmaker.mu is one step.                  *)
(*                                                                         *)
(* Entries are known here by their call, but the code removes them by      *)
(* player: the first entry of that player goes, whichever call it is of.   *)
(*                                                                         *)
(* Of what a channel holds only the answer matters, the message after      *)
(* which the handler returns (IN_GAME or CANCELLED); IN_QUEUE and MATCHED  *)
(* are forwarded on the way to it.  Sending either fails if it is closed.  *)
(*                                                                         *)
(* Left out: players' documents, which only the statistics read, Redis and *)
(* waitingGames, which nobody reads, names, difficulties and match ids.    *)
(***************************************************************************)
EXTENDS Integers, Sequences, FiniteSets, SequencesExt

CONSTANTS
  Player, GameType,
  Call,          \* the FindMatch calls, each made at most once
  Caller, Kind,  \* the player and the game type of each call
  Rating,        \* the rating it claims
  AgainstAI,     \* the calls that ask for an AI
  Patient,       \* the players with one call at a time, who do not cancel
                 \* before they are told that they are in the queue
  Crowds,        \* bound: the calls of a behaviour are among one of these sets
  MaxSubmitted,  \* bound: results are submitted of the matches up to this one
  MaxAge,        \* the age, in tens of seconds, at which an AI is given
  AI, NoCall

ASSUME MatchmakerAssumption ==
  /\ Caller \in [Call -> Player] /\ Kind \in [Call -> GameType]
  /\ Rating \in [Call -> Nat] /\ IsFiniteSet(Call) /\ IsFiniteSet(GameType)
  /\ AgainstAI \subseteq Call /\ Patient \subseteq Player
  /\ Crowds \subseteq SUBSET Call /\ MaxSubmitted \in Nat /\ MaxAge \in Nat \ {0}
  /\ AI \notin Call /\ NoCall \notin Call /\ AI # NoCall

VARIABLES
  at,        \* the stage of each FindMatch handler
  queue,     \* Matchmaker.queue: entries by game type
  age,       \* the time since JoinedAt of the entries queued, in tens of
             \* seconds, up to MaxAge
  answered,  \* the calls whose channel holds an answer
  closed,    \* the closed channels
  made,      \* the matches made, with the progress of their startGame
  matches,   \* Matchmaker.matches
  paid,      \* how often each match's result has been paid
  panic,     \* the call whose closed channel was sent to, and killed the process
  stopped    \* the server has stopped

channels == <<answered, closed>>
records == <<matches, paid>>
vars == <<at, queue, age, channels, made, records, panic, stopped>>

MatchId == 1 .. Cardinality(Call)

Alive == panic = NoCall /\ ~stopped
Queued == UNION {ToSet(queue[t]) : t \in GameType}
Distance(m, n) == IF m < n THEN n - m ELSE m - n
-----------------------------------------------------------------------------
\* Variants of the operators below, each with one plausible bug, for checking
\* that the properties notice it.
ToCloseAll(c) == {d \in Queued : Caller[d] = Caller[c]}
NeedsAIOnlyIfAsked(c) == c \in AgainstAI
TellingEarly(stage) == stage \in {"started", "stored", "failed"}
-----------------------------------------------------------------------------
\* removeFromQueue: the first entry of the player goes.
First(q, p) == SelectInSeq(q, LAMBDA c : Caller[c] = p)
RemoveFromQueue(q, p) == IF First(q, p) = 0 THEN q ELSE RemoveAt(q, First(q, p))

\* The channel CancelMatch closes: that of the entry it removes.
ToClose(c) == {c}

\* CancelMatch: the first entry of the player in any of the queues is removed
\* and its channel closed; Go's maps have no order.
CancelMatch(p) ==
  \/ /\ \A c \in Queued : Caller[c] # p
     /\ UNCHANGED <<queue, age, closed>>
  \/ \E t \in GameType :
       /\ First(queue[t], p) # 0
       /\ queue' = [queue EXCEPT ![t] = RemoveFromQueue(@, p)]
       /\ LET c == queue[t][First(queue[t], p)]
          IN  closed' = closed \cup ToClose(c) /\ age' = [age EXCEPT ![c] = 0]

\* A send on a closed channel panics, and nobody recovers.
Send(c) == panic' = IF c \in closed THEN c ELSE NoCall
-----------------------------------------------------------------------------
\* A patient player has no other call under way.
MayCall(c) ==
  /\ \E S \in Crowds : {d \in Call : at[d] # "idle"} \cup {c} \subseteq S
  /\ Caller[c] \in Patient =>
       \A d \in Call \ {c} : Caller[d] = Caller[c] => at[d] \in {"idle", "done"}

\* FindMatch queues the entry under the lock.
Enqueue(c) ==
  /\ Alive /\ at[c] = "idle" /\ MayCall(c)
  /\ at' = [at EXCEPT ![c] = "joining"]
  /\ queue' = [queue EXCEPT ![Kind[c]] = Append(@, c)]
  /\ UNCHANGED <<age, channels, made, records, panic, stopped>>

\* It says so after releasing it.
SendInQueue(c) ==
  /\ Alive /\ at[c] = "joining"
  /\ at' = [at EXCEPT ![c] = "open"]
  /\ Send(c)
  /\ UNCHANGED <<queue, age, channels, made, records, stopped>>

\* The handler forwards the answer and returns, or finds the channel closed and
\* empty.
Finish(c) ==
  /\ Alive /\ at[c] = "open" /\ c \in answered \cup closed
  /\ at' = [at EXCEPT ![c] = "done"]
  /\ UNCHANGED <<queue, age, channels, made, records, panic, stopped>>

\* The handler notices that its client has gone, by the context or by a message
\* that cannot be forwarded.
GiveUp(c) ==
  /\ Alive /\ at[c] = "open"
  /\ at' = [at EXCEPT ![c] = "done"]
  /\ CancelMatch(Caller[c])
  /\ UNCHANGED <<answered, made, records, panic, stopped>>

\* The RPC CancelMatch.
MayCancel(p) == p \in Patient => \E c \in Call : Caller[c] = p /\ at[c] = "open"

Cancel(p) ==
  /\ Alive /\ MayCancel(p)
  /\ \E c \in Queued : Caller[c] = p
  /\ CancelMatch(p)
  /\ UNCHANGED <<at, answered, made, records, panic, stopped>>
-----------------------------------------------------------------------------
\* Who is given an AI: who asked for one, or has waited for 30 seconds.
NeedsAI(c) == c \in AgainstAI \/ age[c] >= MaxAge

\* The rating difference allowed grows with the first player's wait.
Window(c) == 50 + 100 * age[c]

\* Two more variants with a bug: an index off by one, a side left in the queue.
NearItself(q) == {ij \in (DOMAIN q) \X (DOMAIN q) :
                    /\ ij[1] <= ij[2]
                    /\ Distance(Rating[q[ij[1]]], Rating[q[ij[2]]]) <= Window(q[ij[1]])}
Removed(q, c) == RemoveFromQueue(q, Caller[c])
WaitingStill(q, pair) == IF pair = <<>> THEN q ELSE Removed(q, pair[1])

\* findMatchingPair: the first pair within the window, or else the first two.
Near(q) == {ij \in (DOMAIN q) \X (DOMAIN q) :
              /\ ij[1] < ij[2]
              /\ Distance(Rating[q[ij[1]]], Rating[q[ij[2]]]) <= Window(q[ij[1]])}
Before(ij, kl) == ij[1] < kl[1] \/ (ij[1] = kl[1] /\ ij[2] <= kl[2])

FindMatchingPair(q) ==
  LET ij == IF Near(q) = {} THEN <<1, 2>>
            ELSE CHOOSE x \in Near(q) : \A y \in Near(q) : Before(x, y)
  IN  <<q[ij[1]], q[ij[2]]>>

\* What tryMatch makes of the queue q of one game type: the matches with an
\* AI, then at most one pair of those who are left.
Against(c, d) == [one |-> c, two |-> d, stage |-> "starting", told |-> 0]
Candidates(q) ==
  LET upto[i \in 0 .. Len(q)] ==
        IF i = 0 THEN <<>>
        ELSE IF NeedsAI(q[i]) THEN Append(upto[i - 1], q[i]) ELSE upto[i - 1]
  IN  upto[Len(q)]
RemoveEach(q, s) ==
  LET left[i \in 0 .. Len(s)] == IF i = 0 THEN q ELSE Removed(left[i - 1], s[i])
  IN  left[Len(s)]
WithoutAI(q) == RemoveEach(q, Candidates(q))
Paired(q) == IF Len(WithoutAI(q)) < 2 THEN <<>> ELSE FindMatchingPair(WithoutAI(q))
WithoutPair(q, pair) == RemoveEach(q, pair)

NewMatches(q) ==
  [i \in DOMAIN Candidates(q) |-> Against(Candidates(q)[i], AI)]
  \o (IF Paired(q) = <<>> THEN <<>> ELSE <<Against(Paired(q)[1], Paired(q)[2])>>)
Waiting(q) == WithoutPair(WithoutAI(q), Paired(q))

\* The calls on either side of a match: an AI's channel is read by nobody.
Sides(m) == {m.one, m.two} \cap Call

Hit(S) == IF S = {} THEN NoCall ELSE CHOOSE c \in S : TRUE

\* tryMatch.  The order of the game types only changes the names of matches.
Matchable == Alive /\ \E t \in GameType : NewMatches(queue[t]) # <<>>
AllNew == FlattenSeq([k \in 1 .. Cardinality(GameType) |->
                        NewMatches(queue[SetToSeq(GameType)[k]])])

TryMatch ==
  /\ Matchable
  /\ made' = made \o AllNew
  /\ queue' = [t \in GameType |-> Waiting(queue[t])]
  /\ age' = [c \in Call |-> IF \E t \in GameType : c \in ToSet(queue'[t]) THEN age[c] ELSE 0]
  /\ panic' = Hit((UNION {Sides(AllNew[i]) : i \in DOMAIN AllNew}) \cap closed)
  /\ UNCHANGED <<at, channels, records, stopped>>

\* Ten seconds pass.
Wait ==
  /\ Alive /\ \E c \in Queued : age[c] < MaxAge
  /\ age' = [c \in Call |-> IF c \in Queued /\ age[c] < MaxAge THEN age[c] + 1 ELSE age[c]]
  /\ UNCHANGED <<at, queue, channels, made, records, panic, stopped>>
-----------------------------------------------------------------------------
\* startGame: the StartGame RPC returns.
StartGame(i) ==
  /\ Alive /\ i \in DOMAIN made /\ made[i].stage = "starting"
  /\ \E stage \in {"started", "failed"} : made' = [made EXCEPT ![i].stage = stage]
  /\ UNCHANGED <<at, queue, age, channels, records, panic, stopped>>

\* After a success the match is stored under the lock.
StoreMatch(i) ==
  /\ Alive /\ i \in DOMAIN made /\ made[i].stage = "started"
  /\ made' = [made EXCEPT ![i].stage = "stored"]
  /\ matches' = matches \cup {i}
  /\ UNCHANGED <<at, queue, age, channels, paid, panic, stopped>>

\* Then, or after a failure, the two sides are told, one after the other.
Telling(stage) == stage \in {"stored", "failed"}

Tell(i) ==
  /\ Alive /\ i \in DOMAIN made /\ Telling(made[i].stage) /\ made[i].told < 2
  /\ LET side == IF made[i].told = 0 THEN made[i].one ELSE made[i].two
     IN  /\ made' = [made EXCEPT ![i].told = IF made[i].two = AI THEN 2 ELSE @ + 1]
         /\ answered' = answered \cup {side}
         /\ Send(side)
  /\ UNCHANGED <<at, queue, age, closed, records, stopped>>

\* SubmitMatchResult: the match is deleted and its players paid, under mu.
Remaining(i) == matches \ {i}

SubmitMatchResult(i) ==
  /\ Alive /\ i \in matches /\ i <= MaxSubmitted
  /\ matches' = Remaining(i)
  /\ paid' = [paid EXCEPT ![i] = @ + 1]
  /\ UNCHANGED <<at, queue, age, channels, made, panic, stopped>>

\* main: GracefulStop lets the handlers finish, then Close, then the process
\* ends.
Close ==
  /\ Alive /\ \A c \in Call : at[c] \in {"idle", "done"}
  /\ stopped' = TRUE
  /\ closed' = closed \cup Queued
  /\ queue' = [t \in GameType |-> <<>>]
  /\ UNCHANGED <<at, age, answered, made, records, panic>>
-----------------------------------------------------------------------------
Init ==
  /\ at = [c \in Call |-> "idle"]
  /\ queue = [t \in GameType |-> <<>>] /\ age = [c \in Call |-> 0]
  /\ answered = {} /\ closed = {}
  /\ made = <<>> /\ matches = {} /\ paid = [i \in MatchId |-> 0]
  /\ panic = NoCall /\ stopped = FALSE

Handler(c) == SendInQueue(c) \/ Finish(c)
Starter(i) == StoreMatch(i) \/ Tell(i)

Next ==
  \/ \E c \in Call : Enqueue(c) \/ Handler(c) \/ GiveUp(c)
  \/ \E p \in Player : Cancel(p)
  \/ TryMatch \/ Wait
  \/ \E i \in MatchId : StartGame(i) \/ Starter(i) \/ SubmitMatchResult(i)
  \/ Close

Spec == Init /\ [][Next]_vars

\* Handlers and startGame are goroutines, the match loop is a ticker and time
\* passes.  Clients need do nothing, and the RPC of StartGame need not return:
\* its context has no deadline.
TicksGoOn == []<>(~Matchable) \/ []<><<TryMatch>>_vars   \* WF_vars(TryMatch)
FairSpec ==
  /\ Spec
  /\ TicksGoOn /\ WF_vars(Wait)
  /\ \A c \in Call : WF_vars(Handler(c))
  /\ \A i \in MatchId : WF_vars(Starter(i))
-----------------------------------------------------------------------------
TypeOK ==
  /\ at \in [Call -> {"idle", "joining", "open", "done"}]
  /\ answered \subseteq Call /\ closed \subseteq Call
  /\ queue \in [GameType -> Seq(Call)]
  /\ \A t \in GameType : \A c \in ToSet(queue[t]) : Kind[c] = t
  /\ age \in [Call -> 0 .. MaxAge]
  /\ made \in Seq([one : Call, two : Call \cup {AI},
                   stage : {"starting", "started", "stored", "failed"}, told : 0 .. 2])
  /\ Len(made) <= Cardinality(Call)
  /\ matches \subseteq DOMAIN made /\ paid \in [MatchId -> Nat]
  /\ panic \in Call \cup {NoCall} /\ stopped \in BOOLEAN

\* The match loop sends to the entries it finds in the queue while it holds
\* the lock: their channels are open, and no entry is queued twice.
QueuedAreOpen ==
  /\ Queued \cap closed = {}
  /\ \A t \in GameType : IsInjective(queue[t])

\* Cancellations, the AI fallback and a player who comes back leave the types
\* and the channels of the queues as the match loop needs them.
Inv == TypeOK /\ QueuedAreOpen

\* CancelMatch, Close and the senders race for the channels.  Whoever makes one
\* call at a time and cancels only what it knows to be queued never has the
\* process killed, whatever other players do.
OnlyHastyKill == panic # NoCall => Caller[panic] \notin Patient

\* Whoever is told that its game has started finds the match with
\* GetMatchStatus, until the result is submitted, and that is paid once.
StartedIsKept ==
  /\ \A i \in DOMAIN made :
       made[i].told > 0 /\ made[i].stage # "failed" => i \in matches \/ paid[i] > 0
  /\ \A i \in MatchId : paid[i] <= IF i \in matches THEN 0 ELSE 1

\* Entries are removed by player, so one entry may be matched once for every
\* call of its player, but not more often.  With fewer than five calls of a
\* player at a time a channel's ten places suffice, and the match loop, which
\* sends while it holds the lock, never blocks.
MatchedOncePerCall ==
  \A c \in Call : Cardinality({i \in DOMAIN made : c \in Sides(made[i])})
                   <= Cardinality({d \in Call : at[d] # "idle" /\ Caller[d] = Caller[c]})

\* What a patient player's calls are promised: see Pairing.
PatientCalls == {c \in Call : Caller[c] \in Patient}
MatchesOf(c) == {i \in DOMAIN made : c \in Sides(made[i])}
TheMatch(c) == made[CHOOSE i \in MatchesOf(c) : TRUE]
StatusOf(c) ==
  IF at[c] = "idle" THEN "new"
  ELSE IF c \in Queued THEN "waiting"
  ELSE IF MatchesOf(c) = {} THEN "left"
  ELSE CASE TheMatch(c).stage = "stored" -> "playing"
         [] TheMatch(c).stage = "failed" -> "failed"
         [] OTHER -> "matched"
MateOf(c) ==
  IF MatchesOf(c) = {} THEN NoCall
  ELSE IF TheMatch(c).one # c THEN TheMatch(c).one
  ELSE TheMatch(c).two

Promise == INSTANCE Pairing WITH
  Call <- PatientCalls, Outsider <- AI,
  status <- [c \in PatientCalls |-> StatusOf(c)],
  mate <- [c \in PatientCalls |->
             IF MateOf(c) \in PatientCalls \cup {NoCall} THEN MateOf(c) ELSE AI]

\* Queues, removal by player and the races with cancellations implement Pairing
\* for patient players.
ImplementsPairing == Promise!Spec

\* A patient player's call always gets as far as the game server, or is cancelled
\* or ends with the process; and once the game server has answered for its match
\* so is the call.  A StartGame that never returns leaves both sides waiting.
Ended(c) == at[c] = "done" \/ panic # NoCall
AtGameServer(c) == \E i \in MatchesOf(c) : made[i].stage = "starting"
PatientIsAnswered ==
  \A c \in PatientCalls :
    /\ at[c] # "idle" ~> (Ended(c) \/ AtGameServer(c))
    /\ (MatchesOf(c) # {} /\ ~AtGameServer(c)) ~> Ended(c)

\* Nobody is paired with a player whose rating is further away than
\* max_rating_diff of config/config.yaml.
MaxRatingDiff == 300
RatingsAreClose ==
  \A i \in DOMAIN made :
    made[i].two \in Call => Distance(Rating[made[i].one], Rating[made[i].two]) <= MaxRatingDiff
=============================================================================
