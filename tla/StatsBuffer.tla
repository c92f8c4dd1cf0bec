---------------------------- MODULE StatsBuffer ----------------------------
(***************************************************************************)
(* StatsCollector (backend/internal/balance): the records of card usage,   *)
(* collected in a buffer and flushed to the database, and the statistics   *)
(* computed from the database and cached.                                  *)
(*                                                                         *)
(* A flush takes the whole buffer and inserts it without the lock, so that *)
(* several are under way at a time: the ticker's, those of games that have *)
(* filled the buffer, and the one of Close.  InsertMany may fail, or time  *)
(* out, with any part of the records inserted.                             *)
(*                                                                         *)
(* One template and one set of filters: each set of filters has an entry   *)
(* in the cache, and a template's records are counted by themselves.  Left *)
(* out: rates and their order, paging, totalRecorded, which nobody reads,  *)
(* and the records that get older than the range.                          *)
(***************************************************************************)
EXTENDS Integers, FiniteSets

CONSTANTS
  Workers,      \* bound: the flushes of games under way at a time
  Ticker,       \* flushLoop
  Closer,       \* Close
  Callers,      \* the RPCs that ask for statistics
  MaxBuffer,    \* maxBufferSize
  TTL,          \* cacheTTL, in ticks of the clock
  MinSample,    \* MinSampleSize
  Batches,      \* bound: the sizes of decks at the end of a game
  MaxRecords,   \* bound on the records made
  MaxTime,      \* bound on the clock
  Bounds        \* bounds of a behaviour: the records made, the inserts that
                \* fail, the callers that ask, the time, and whether the
                \* process may end

Flushers == Workers \cup {Ticker, Closer}
Record == 1 .. MaxRecords
Time == 0 .. MaxTime

ASSUME StatsAssumption ==
  /\ Ticker \notin Workers /\ Closer \notin Workers \cup {Ticker}
  /\ IsFiniteSet(Workers)
  /\ MaxBuffer \in Nat /\ TTL \in Nat \ {0} /\ MinSample \in Nat
  /\ Batches \subseteq Nat \ {0} /\ MaxRecords \in Nat /\ MaxTime \in Nat
  /\ Bounds \subseteq [records : 0 .. MaxRecords, failures : Nat, callers : SUBSET Callers,
                      time : Time, ends : BOOLEAN]

VARIABLES
  buffer,    \* the records in the buffer
  flush,     \* the calls of FlushBuffer
  copies,    \* how often card_usage holds each record
  rows,      \* the documents of card_usage
  proc,      \* "up", "closing", "exiting" or "gone"
  cache,     \* the statistics cached: how many rows, and when generated
  request,   \* what each caller is doing, and its last answer
  clock,
  bound,     \* the bounds of this behaviour
  \* history:
  n,         \* the records made
  failures,  \* the inserts that have failed
  lost,      \* the records that were in memory when the process ended
  crashed,   \* the process has died, and was started again
  calm,      \* nothing has come in between since Close was called
  rowsUntil  \* the rows when the clock left each time

writing == <<buffer, flush, copies, rows, proc, n, failures, lost, crashed, calm>>
reading == <<cache, request, clock, bound, rowsUntil>>
vars == <<writing, reading>>

Idle == [stage |-> "idle", records |-> {}]
NoCache == [known |-> FALSE, at |-> 0, rows |-> 0]
Asking(stage, tiers, since, at, k) ==
  [stage |-> stage, tiers |-> tiers, since |-> since, at |-> at, rows |-> k]
NoRequest == Asking("idle", "no", 0, 0, 0)
Up == proc # "gone"
InFlight == UNION {flush[f].records : f \in Flushers}
-----------------------------------------------------------------------------
\* Variants of the operators below, each with one plausible bug, for checking
\* that the properties notice it.
NotEmptied(f) == buffer
Dropped(f) == {}
Hurried == proc \in {"closing", "exiting"}
WhenDone(q) == clock
-----------------------------------------------------------------------------
\* Records enter the buffer under bufferMu; the call that fills it starts a
\* flush: RecordCardUsage (one record) in the game's own thread, and
\* RecordGameResult (a deck) in a new one.
Full(b) == Cardinality(b) >= MaxBuffer

Append(k) ==
  /\ Up /\ n + k <= bound.records
  /\ n' = n + k
  /\ buffer' = buffer \cup (n + 1 .. n + k)
  /\ calm' = (calm /\ proc = "up")
  /\ \/ ~Full(buffer') /\ UNCHANGED flush
     \/ /\ Full(buffer')
        /\ \E w \in Workers :
             /\ flush[w].stage = "idle"
             /\ flush' = [flush EXCEPT ![w].stage = "due"]
  /\ UNCHANGED <<copies, rows, proc, failures, lost, crashed, reading>>

RecordCardUsage == Append(1)
RecordGameResult == \E k \in Batches : Append(k)

\* The ticker; a tick that is ready when done is closed may still be chosen.
Tick ==
  /\ Up /\ flush[Ticker].stage = "idle"
  /\ flush' = [flush EXCEPT ![Ticker].stage = "due"]
  /\ calm' = (calm /\ proc = "up")
  /\ UNCHANGED <<buffer, copies, rows, proc, n, failures, lost, crashed, reading>>

\* FlushBuffer takes what there is,
Remaining(f) == {}
After(f) == IF f = Closer THEN "exiting" ELSE proc

Take(f) ==
  /\ flush[f].stage = "due" /\ Up
  /\ IF buffer = {}
     THEN flush' = [flush EXCEPT ![f] = Idle] /\ proc' = After(f)
     ELSE flush' = [flush EXCEPT ![f] = [stage |-> "insert", records |-> buffer]] /\ UNCHANGED proc
  /\ buffer' = Remaining(f)
  /\ UNCHANGED <<copies, rows, n, failures, lost, crashed, calm, reading>>

\* inserts it in the database,
Stored(S) == [r \in Record |-> IF r \in S THEN copies[r] + 1 ELSE copies[r]]

Insert(f) ==
  /\ flush[f].stage = "insert" /\ Up
  /\ copies' = Stored(flush[f].records)
  /\ rows' = rows + Cardinality(flush[f].records)
  /\ flush' = [flush EXCEPT ![f] = Idle]
  /\ proc' = After(f)
  /\ UNCHANGED <<buffer, n, failures, lost, crashed, calm, reading>>

\* and after an error puts all of it back, with the part that was inserted.
PutBack(f) == flush[f].records

InsertFails(f) ==
  /\ flush[f].stage = "insert" /\ Up /\ failures < bound.failures
  /\ failures' = failures + 1
  /\ \E S \in SUBSET flush[f].records :
       copies' = Stored(S) /\ rows' = rows + Cardinality(S)
  /\ buffer' = PutBack(f) \cup buffer
  /\ flush' = [flush EXCEPT ![f] = Idle]
  /\ proc' = After(f)
  /\ calm' = (calm /\ proc = "up")
  /\ UNCHANGED <<n, lost, crashed, reading>>

\* Close is called when no RPC is left.  It flushes and disconnects, which lets
\* an insert finish or fail; the process ends without a wait for other flushes.
Close ==
  /\ proc = "up" /\ bound.ends /\ \A c \in Callers : request[c].stage = "idle"
  /\ proc' = "closing"
  /\ flush' = [flush EXCEPT ![Closer].stage = "due"]
  /\ calm' = (\A f \in Flushers : flush[f].stage = "idle")
  /\ UNCHANGED <<buffer, copies, rows, n, failures, lost, crashed, reading>>

Done == proc = "exiting"

Exit ==
  /\ Done
  /\ proc' = "gone"
  /\ lost' = lost \cup buffer \cup InFlight
  /\ UNCHANGED <<buffer, flush, copies, rows, n, failures, crashed, calm, reading>>
-----------------------------------------------------------------------------
\* The process dies, and is started again: the memory is empty.  Bound: once.
Die ==
  /\ crashed' = TRUE /\ proc' = "up" /\ calm' = TRUE
  /\ lost' = lost \cup buffer \cup InFlight
  /\ buffer' = {} /\ flush' = [f \in Flushers |-> Idle]
  /\ cache' = NoCache /\ request' = [c \in Callers |-> NoRequest]
  /\ UNCHANGED <<copies, rows, n, failures, clock, bound, rowsUntil>>

Crash == Up /\ ~crashed /\ bound.ends /\ Die

Pass ==
  /\ Up /\ clock < bound.time
  /\ clock' = clock + 1
  /\ rowsUntil' = [rowsUntil EXCEPT ![clock] = rows]
  /\ UNCHANGED <<writing, cache, request, bound>>
-----------------------------------------------------------------------------
\* ComputeStats and ComputeTierDistribution.  The second always computes ahead,
\* since it looks for its own key in the cache, under which nothing is ever
\* stored; then it asks ComputeStats like everyone.
Tiers == {"no", "ahead", "yes"}

GetBalanceStats(c) ==
  /\ proc = "up" /\ c \in bound.callers /\ request[c].stage = "idle"
  /\ request' = [request EXCEPT ![c] = Asking("look", "no", clock, 0, 0)]
  /\ UNCHANGED <<writing, cache, clock, bound, rowsUntil>>

GetTierDistribution(c) ==
  /\ proc = "up" /\ c \in bound.callers /\ request[c].stage = "idle"
  /\ request' = [request EXCEPT ![c] = Asking("query", "ahead", clock, clock, 0)]
  /\ UNCHANGED <<writing, cache, clock, bound, rowsUntil>>

Answered(q, k) == Asking("idle", "no", q.since, 0, k)

\* An entry of the cache is good for TTL.
Fresh == cache.known /\ clock - cache.at < TTL

\* A template with few records has no tier; the tier distribution has no place
\* for it, dereferences nil and ends the process.
Rated(k) == k = 0 \/ k >= MinSample

Look(c) ==
  /\ Up /\ request[c].stage = "look"
  /\ IF Fresh
     THEN /\ request[c].tiers = "yes" => Rated(cache.rows)
          /\ request' = [request EXCEPT ![c] = Answered(@, cache.rows)]
     ELSE request' = [request EXCEPT ![c] = Asking("query", @.tiers, @.since, clock, 0)]
  /\ UNCHANGED <<writing, cache, clock, bound, rowsUntil>>

Unrated(c) ==
  /\ request[c].tiers = "yes"
  /\ \/ request[c].stage = "look" /\ Fresh /\ ~Rated(cache.rows)
     \/ request[c].stage = "store" /\ ~Rated(request[c].rows)
  /\ Up /\ ~crashed /\ Die

\* computeAndCache: the time is read before the query,
Query(c) ==
  /\ Up /\ request[c].stage = "query"
  /\ \/ request' = [request EXCEPT ![c] = Asking("store", @.tiers, @.since, @.at, rows)]
     \/ request' = [request EXCEPT ![c] = NoRequest]
  /\ UNCHANGED <<writing, cache, clock, bound, rowsUntil>>

\* and the result stored whatever others have stored meanwhile.  The answer is
\* the result itself.
Generated(q) == q.at

Store(c) ==
  /\ Up /\ request[c].stage = "store"
  /\ request[c].tiers = "yes" => Rated(request[c].rows)
  /\ cache' = [known |-> TRUE, at |-> Generated(request[c]), rows |-> request[c].rows]
  /\ request' = [request EXCEPT ![c] = IF @.tiers = "ahead"
                                     THEN Asking("look", "yes", @.since, 0, 0)
                                     ELSE Answered(@, @.rows)]
  /\ UNCHANGED <<writing, clock, bound, rowsUntil>>
-----------------------------------------------------------------------------
Init ==
  /\ buffer = {} /\ flush = [f \in Flushers |-> Idle]
  /\ copies = [r \in Record |-> 0] /\ rows = 0 /\ proc = "up"
  /\ cache = NoCache /\ request = [c \in Callers |-> NoRequest] /\ clock = 0
  /\ n = 0 /\ failures = 0 /\ lost = {} /\ crashed = FALSE /\ calm = TRUE
  /\ rowsUntil = [t \in Time |-> 0] /\ bound \in Bounds

FlushStep(f) == Take(f) \/ Insert(f) \/ InsertFails(f)
Ask(c) == GetBalanceStats(c) \/ GetTierDistribution(c)
Answer(c) == Look(c) \/ Unrated(c) \/ Query(c) \/ Store(c)

Next ==
  \/ RecordCardUsage \/ RecordGameResult \/ Tick \/ Close \/ Exit \/ Crash \/ Pass
  \/ \E f \in Flushers : FlushStep(f)
  \/ \E c \in Callers : Ask(c) \/ Answer(c)

Spec == Init /\ [][Next]_vars

\* The ticker ticks, a flush goes on, with a deadline for its insert, and so
\* does a process that stops.
FairSpec ==
  /\ Spec /\ WF_vars(Tick) /\ WF_vars(Exit)
  /\ \A f \in Flushers : WF_vars(FlushStep(f))
-----------------------------------------------------------------------------
Held == buffer \cup InFlight

TypeOK ==
  /\ buffer \subseteq Record
  /\ flush \in [Flushers -> [stage : {"idle", "due", "insert"}, records : SUBSET Record]]
  /\ copies \in [Record -> Nat] /\ rows \in Nat
  /\ proc \in {"up", "closing", "exiting", "gone"}
  /\ cache \in [known : BOOLEAN, at : Time, rows : Nat]
  /\ request \in [Callers -> [stage : {"idle", "look", "query", "store"}, tiers : Tiers,
                              since : Time, at : Time, rows : Nat]]
  /\ clock \in Time /\ n \in 0 .. MaxRecords /\ failures \in 0 .. bound.failures
  /\ bound \in Bounds
  /\ lost \subseteq Record /\ crashed \in BOOLEAN /\ calm \in BOOLEAN
  /\ rowsUntil \in [Time -> Nat]

\* However many flushes overlap and fail, a record is stored, or in memory, or
\* was in memory when the process ended.
NothingLost == \A r \in 1 .. n : copies[r] > 0 \/ r \in Held \/ r \in lost

\* A record is in one place in memory, and is stored once, and once more for
\* each insert that has failed: only failures make the statistics count it
\* again.
CopiesAreRetries ==
  /\ \A f, g \in Flushers : f # g => flush[f].records \cap flush[g].records = {}
  /\ buffer \cap InFlight = {}
  /\ \A r \in Record : copies[r] <= failures + (IF r \in Held THEN 0 ELSE 1)

\* Overlapping flushes, failed inserts, a stop and a crash keep the types and
\* account for every record; only together are the three inductive.
Inv == TypeOK /\ NothingLost /\ CopiesAreRetries

\* An answer, computed or cached, counts everything that was in the database
\* TTL before the request, however slow computations overlap and overwrite
\* each other's results.
AnswersRecent ==
  \A c \in Callers :
    request[c].stage = "idle" /\ request[c].since >= TTL
      => request[c].rows >= rowsUntil[request[c].since - TTL]

\* An orderly stop loses nothing, if no flush was under way when it began, no
\* insert has failed since, no tick came and nothing was recorded.
StopKeeps == [][proc # "gone" /\ proc' = "gone" /\ calm => lost' = lost]_vars

\* A database that recovers gets every record, unless the process ends before.
StoredInTheEnd == \A r \in Record : (r \in Held) ~> (copies[r] > 0 \/ r \in lost)
=============================================================================
