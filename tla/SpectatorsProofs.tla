-------------------------- MODULE SpectatorsProofs --------------------------
(***************************************************************************)
(* Proofs about spectators: for any number of calls, ids, actions and      *)
(* places in the channels, no stream is closed twice, the counters miss no *)
(* session, only departures and the end of the game endanger the process,  *)
(* and playback and live stream leave no gap between them.                 *)
(***************************************************************************)
EXTENDS Spectators, SequenceTheorems, FiniteSetTheorems, TLAPS

Entered == {"open", "done"}
Busy == {"found", "recorder", "subscribed", "counted", "playing", "live", "holding"}

\* Sessions and loops are of calls that have joined under the same id, and a
\* loop that is past its lookup has found one.
Joined ==
  /\ stream \in [Call -> Seq(Nat)] /\ waiting \in [Call -> Seq(Nat)] /\ seen \in [Call -> Seq(Nat)]
  /\ \A s \in Spectator :
       session[s] # NoCall => Who[session[s]] = s /\ rpc[session[s]] \in Entered
  /\ \A c \in closed : rpc[c] \in Entered
  /\ sending # {} => n > 0
  /\ \A c \in Call :
       /\ loop[c].into # NoCall => Who[loop[c].into] = Who[c] /\ rpc[loop[c].into] \in Entered
       /\ loop[c].pc \in Busy => loop[c].into # NoCall
       /\ rpc[c] \notin Entered => stream[c] = <<>> /\ seen[c] = <<>> /\ loop[c].pc = "none"
       /\ loop[c].pc = "holding" => loop[c].next \in 1 .. n

\* A subscription is closed only by a loop that is leaving, and a loop leaves
\* because of a client that is gone or of the end of the game.
Departed == away # {} \/ ~live
Leaving ==
  /\ \A c \in Call : loop[c].pc = "leaving" => Departed
  /\ sending \ subs # {} => Departed
  /\ dead = "closed" => Departed

IInv == Inv /\ Joined /\ Leaving
-----------------------------------------------------------------------------
\* A longer game has the earlier actions as well.
LEMMA Longer ==
  ASSUME NEW j \in Nat, NEW k \in Nat, j <= k
  PROVE  /\ \A s \in Seq(0 .. j) : s \in Seq(0 .. k)
         /\ \A s \in Seq(1 .. j) : s \in Seq(1 .. k)
  BY SeqMonotonic

\* Reading from a channel, and writing to it.
LEMMA Read ==
  ASSUME NEW S, NEW s \in Seq(S), s # <<>>
  PROVE  s[1] \in S /\ Tail(s) \in Seq(S) /\ Len(Tail(s)) = Len(s) - 1 /\ Len(s) \in Nat
  BY HeadTailProperties, LenProperties, EmptySeq, ElementOfSeq

\* Appending to a sequence.
LEMMA Written ==
  ASSUME NEW S, NEW s \in Seq(S), NEW x \in S
  PROVE  Append(s, x) \in Seq(S) /\ Len(Append(s, x)) = Len(s) + 1 /\ Len(s) \in Nat
  BY AppendProperties, LenProperties

\* Numbers of actions, and the sequences of them.
LEMMA NumberType ==
  ASSUME TypeOK
  PROVE  /\ n \in Nat /\ aged \in Nat /\ aged <= n /\ \A i : i \in 0 .. n => i \in Nat
         /\ \A c \in Call : stream[c] \in Seq(0 .. n) /\ waiting[c] \in Seq(1 .. n)
                            /\ seen[c] \in Seq(0 .. n)
  BY SpectatorsAssumption DEF TypeOK

\* What a stream, a subscription and a client hold.
Channels(s, w, v, k) ==
  \A c \in Call : /\ s[c] \in Seq(0 .. k) /\ Len(s[c]) <= StreamCap
                  /\ w[c] \in Seq(1 .. k) /\ Len(w[c]) <= SubCap
                  /\ v[c] \in Seq(0 .. k)

\* A frame offered to a stream.
LEMMA OfferType ==
  ASSUME TypeOK, Joined, NEW c \in Call, NEW i \in 0 .. n, Offer(c, i)
  PROVE  /\ lost' \subseteq Call /\ stream' \in [Call -> Seq(Nat)]
         /\ \A d \in Call : stream'[d] \in Seq(0 .. n) /\ Len(stream'[d]) <= StreamCap
         /\ \A d \in Call : d # c => stream'[d] = stream[d]
  <1>0. /\ lost \subseteq Call /\ stream \in [Call -> Seq(Nat)] /\ i \in Nat
        /\ \A d \in Call : stream[d] \in Seq(0 .. n) /\ Len(stream[d]) <= StreamCap
    BY NumberType DEF TypeOK, Joined
  <1>1. CASE UNCHANGED stream
    BY <1>0, <1>1 DEF Offer, Lost
  <1>2. CASE stream' = [stream EXCEPT ![c] = Append(@, i)] /\ Len(stream[c]) < StreamCap /\ lost' = lost
    <2>1. Append(stream[c], i) \in Seq(0 .. n) /\ Append(stream[c], i) \in Seq(Nat)
          /\ Len(Append(stream[c], i)) = Len(stream[c]) + 1 /\ Len(stream[c]) \in Nat
      BY <1>0, Written
    <2>2. /\ stream'[c] = Append(stream[c], i) /\ stream' \in [Call -> Seq(Nat)]
          /\ \A d \in Call : d # c => stream'[d] = stream[d]
      BY <1>0, <1>2, <2>1
    <2>3. Len(stream[c]) + 1 <= StreamCap
      BY <1>2, <2>1, SpectatorsAssumption
    <2> QED
      BY <1>0, <1>2, <2>1, <2>2, <2>3
  <1> QED
    BY <1>1, <1>2 DEF Offer

\* The channels stay within their bounds when only one kind of them changes.
LEMMA ChannelsType == TypeOK => Channels(stream, waiting, seen, n)
  BY DEF TypeOK, Channels

\* A frame shown to a watcher.
LEMMA ShownType ==
  ASSUME TypeOK, Joined, NEW c \in Call, NEW i \in 0 .. n, Shown(c, i)
  PROVE  /\ seen' \in [Call -> Seq(Nat)] /\ \A d \in Call : seen'[d] \in Seq(0 .. n)
         /\ \A d \in Call : d # c => seen'[d] = seen[d]
  <1>0. seen \in [Call -> Seq(Nat)] /\ i \in Nat /\ \A d \in Call : seen[d] \in Seq(0 .. n)
    BY NumberType DEF Joined
  <1>1. CASE seen' = seen
    BY <1>0, <1>1
  <1>2. CASE seen' = [seen EXCEPT ![c] = Append(@, i)]
    <2>1. Append(seen[c], i) \in Seq(0 .. n) /\ Append(seen[c], i) \in Seq(Nat)
      BY <1>0, Written
    <2> QED
      BY <1>0, <1>2, <2>1
  <1> QED
    BY <1>1, <1>2 DEF Shown

\* A session that goes is one session less.
LEMMA RegisteredFinite ==
  ASSUME TypeOK
  PROVE  IsFiniteSet(Registered) /\ Cardinality(Registered) \in Nat
  BY SpectatorsAssumption, FS_Subset, FS_CardinalityType DEF Registered

\* A session that ends is one less.
LEMMA DropsOne ==
  ASSUME TypeOK, Joined, NEW s \in Spectator, session[s] # NoCall,
         session' = [session EXCEPT ![s] = NoCall]
  PROVE  /\ session[s] \in Registered /\ Registered' = Registered \ {session[s]}
         /\ Cardinality(Registered') = Cardinality(Registered) - 1
         /\ Cardinality(Registered) > 0
  <1>1. session[s] \in Registered /\ Who[session[s]] = s
    BY DEF TypeOK, Joined, Registered
  <1>2. \A c \in Call : Who[c] \in Spectator /\ c # NoCall
    BY SpectatorsAssumption
  <1>3. \A c \in Call : c \in Registered' <=> c \in Registered /\ c # session[s]
    BY <1>1, <1>2 DEF TypeOK, Registered
  <1>4. Registered' = Registered \ {session[s]}
    BY <1>3 DEF Registered
  <1>5. IsFiniteSet(Registered) /\ Cardinality(Registered) \in Nat /\ IsFiniteSet(Registered')
        /\ Cardinality(Registered') \in Nat
    BY <1>4, RegisteredFinite, FS_RemoveElement, FS_CardinalityType
  <1> QED
    BY <1>1, <1>4, <1>5, FS_RemoveElement

\* A session that begins is at most one more.
LEMMA AddsAtMostOne ==
  ASSUME TypeOK, NEW c \in Call, session' = [session EXCEPT ![Who[c]] = c]
  PROVE  /\ Registered' \subseteq Registered \cup {c}
         /\ Cardinality(Registered') <= Cardinality(Registered) + 1
         /\ Cardinality(Registered') \in Nat
  <1>1. \A d \in Call : Who[d] \in Spectator
    BY SpectatorsAssumption
  <1>2. Registered' \subseteq Registered \cup {c}
    BY <1>1 DEF TypeOK, Registered
  <1>3. IsFiniteSet(Registered) /\ Cardinality(Registered) \in Nat
    BY RegisteredFinite
  <1>4. /\ IsFiniteSet(Registered \cup {c}) /\ Cardinality(Registered \cup {c}) \in Nat
        /\ Cardinality(Registered \cup {c}) <= Cardinality(Registered) + 1
    <2>1. /\ IsFiniteSet(Registered \cup {c})
          /\ Cardinality(Registered \cup {c}) =
               IF c \in Registered THEN Cardinality(Registered) ELSE Cardinality(Registered) + 1
      BY <1>3, FS_AddElement
    <2> QED
      BY <1>3, <2>1
  <1> QED
    BY <1>2, <1>3, <1>4, FS_Subset, FS_CardinalityType

\* Leaving, as a handler does.
LEMMA LeavesOne ==
  ASSUME Inv, Joined, NEW s \in Spectator, LeaveSpectator(s), listed' = listed
  PROVE  /\ session' \in [Spectator -> Call \cup {NoCall}] /\ closed' \subseteq Call
         /\ closed \subseteq closed'
         /\ total' \in Nat /\ count' \in Nat /\ SessionsAreOpen' /\ CountsNeverShort'
         /\ \A r \in Spectator : session'[r] # NoCall => session'[r] = session[r]
         /\ \A c \in closed' : rpc[c] \in Entered
  <1>0. /\ session \in [Spectator -> Call \cup {NoCall}] /\ closed \subseteq Call
        /\ total \in Nat /\ count \in Nat /\ TypeOK /\ NoCall \notin Call
    BY SpectatorsAssumption DEF Inv, TypeOK
  <1>1. CASE session[s] = NoCall
    BY <1>0, <1>1
    DEF LeaveSpectator, sessions, Inv, SessionsAreOpen, CountsNeverShort, Registered, Joined
  <1>2. CASE session[s] # NoCall
    <2>1. /\ closed' = closed \cup {session[s]} /\ session' = [session EXCEPT ![s] = NoCall]
          /\ total' = total - 1
          /\ count' = IF listed /\ count > 0 THEN count - 1 ELSE count
      BY <1>2 DEF LeaveSpectator, Dropped
    <2>2. /\ Registered' = Registered \ {session[s]}
          /\ Cardinality(Registered') = Cardinality(Registered) - 1
          /\ Cardinality(Registered) > 0 /\ Cardinality(Registered) \in Nat
      BY <1>0, <1>2, <2>1, DropsOne, RegisteredFinite
    <2>3. session[s] \in Call /\ rpc[session[s]] \in Entered
      BY <1>0, <1>2 DEF Joined
    <2>4. total' \in Nat /\ count' \in Nat /\ CountsNeverShort'
      BY <1>0, <2>1, <2>2 DEF Inv, CountsNeverShort
    <2>5. SessionsAreOpen'
      BY <2>1, <2>2 DEF Inv, SessionsAreOpen
    <2> QED
      BY <1>0, <2>1, <2>3, <2>4, <2>5 DEF Joined
  <1> QED
    BY <1>1, <1>2
-----------------------------------------------------------------------------
\* The invariant holds at the start.
LEMMA InitIInv == Init => IInv
  <1> SUFFICES ASSUME Init PROVE IInv
    OBVIOUS
  <1>0. StreamCap \in Nat /\ SubCap \in Nat /\ MaxActions \in Nat /\ NoCall \notin Call
        /\ Who \in [Call -> Spectator]
    BY SpectatorsAssumption
  <1>1. TypeOK
    <2>1. loop \in [Call -> [pc : Pc, into : Call \cup {NoCall}, next : Nat, end : 0 .. n]]
      BY DEF Init, Pc
    <2>2. \A c \in Call : /\ stream[c] \in Seq(0 .. n) /\ Len(stream[c]) <= StreamCap
                          /\ waiting[c] \in Seq(1 .. n) /\ Len(waiting[c]) <= SubCap
                          /\ seen[c] \in Seq(0 .. n)
      BY <1>0 DEF Init
    <2>3. n \in 0 .. MaxActions /\ aged \in 0 .. n /\ total \in Nat /\ count \in Nat
      BY <1>0 DEF Init
    <2> QED
      BY <2>1, <2>2, <2>3 DEF Init, TypeOK
  <1>2. Registered = {}
    BY <1>0 DEF Init, Registered
  <1>3. SessionsAreOpen /\ CountsNeverShort
    BY <1>2, FS_EmptySet DEF Init, SessionsAreOpen, CountsNeverShort
  <1>4. Joined
    BY DEF Init, Joined, Entered, Busy
  <1>5. Leaving
    BY DEF Init, Leaving
  <1> QED
    BY <1>1, <1>3, <1>4, <1>5 DEF IInv, Inv

\* The sessions, when neither they nor the recorder's listing change.
LEMMA SessionsKept ==
  ASSUME Inv, UNCHANGED <<sessions, listed>>
  PROVE  /\ SessionsAreOpen' /\ CountsNeverShort'
         /\ session' \in [Spectator -> Call \cup {NoCall}] /\ closed' \subseteq Call
         /\ total' \in Nat /\ count' \in Nat
  BY DEF Inv, TypeOK, SessionsAreOpen, CountsNeverShort, Registered, sessions

\* What the steps of the recorder and of the handlers keep.
LEMMA RecorderNext ==
  ASSUME Inv, Joined,
         Record \/ Age \/ MarkFinished \/ UnregisterLiveGame \/ \E c \in Call : SendAction(c)
  PROVE  Inv' /\ Joined'
  <1>0. TypeOK /\ SessionsAreOpen /\ CountsNeverShort
    BY DEF Inv
  <1>a. MaxActions \in Nat /\ MaxShared \in 0 .. MaxActions /\ n \in Nat /\ aged \in 0 .. n
    BY <1>0, SpectatorsAssumption DEF TypeOK
  <1>1. CASE Record
    <2>1. /\ n' = n + 1 /\ sending' = subs /\ Admitted(Made, n + 1)
          /\ UNCHANGED <<aged, live, listed, calls, sessions, stream, current, loops, seen, lost, dead>>
      BY <1>1 DEF Record
    <2>2. n' \in 0 .. MaxActions /\ aged' \in 0 .. n'
      BY <1>a, <2>1 DEF Admitted
    <2>3. Channels(stream, waiting, seen, n')
      BY <1>0, <1>a, <2>1, Longer DEF TypeOK, Channels
    <2>4. /\ current \in [Call -> 0 .. n']
          /\ loop \in [Call -> [pc : Pc, into : Call \cup {NoCall}, next : Nat, end : 0 .. n']]
      <3>1. \A i \in 0 .. n : i \in 0 .. n'
        BY <1>a, <2>1
      <3> QED
        BY <1>0, <3>1 DEF TypeOK
    <2>5. TypeOK'
      BY <1>0, <2>1, <2>2, <2>3, <2>4 DEF TypeOK, Channels, calls, sessions, loops
    <2>6. Joined'
      BY <1>a, <2>1 DEF Joined, calls, sessions, loops
    <2> QED
      BY <2>1, <2>5, <2>6, SessionsKept DEF Inv
  <1>2. CASE Age
    <2>1. aged' \in 0 .. n'
      BY <1>a, <1>2 DEF Age
    <2>2. TypeOK'
      BY <1>0, <1>2, <2>1 DEF Age, TypeOK, calls, sessions, loops
    <2>3. Joined'
      BY <1>2 DEF Age, Joined, calls, sessions, loops
    <2> QED
      BY <1>2, <2>2, <2>3, SessionsKept DEF Inv, Age
  <1>3. CASE MarkFinished
    <2>1. TypeOK' /\ Joined'
      BY <1>0, <1>3 DEF MarkFinished, TypeOK, Joined, calls, sessions, loops
    <2> QED
      BY <1>3, <2>1, SessionsKept DEF Inv, MarkFinished
  <1>4. CASE UnregisterLiveGame
    <2>1. TypeOK' /\ Joined'
      BY <1>0, <1>4 DEF UnregisterLiveGame, TypeOK, Joined, calls, sessions, loops
    <2>2. SessionsAreOpen' /\ CountsNeverShort'
      BY <1>0, <1>4 DEF UnregisterLiveGame, SessionsAreOpen, CountsNeverShort, Registered, sessions
    <2> QED
      BY <2>1, <2>2 DEF Inv
  <1>5. ASSUME NEW c \in Call, SendAction(c) PROVE Inv' /\ Joined'
    <2>1. /\ sending' = sending \ {c}
          /\ UNCHANGED <<n, aged, live, listed, calls, sessions, stream, current, loop, subs, seen>>
      BY <1>5 DEF SendAction
    <2>2. /\ waiting' \in [Call -> Seq(Nat)] /\ lost' \subseteq Call
          /\ dead' \in {"no", "closed", "recorder"}
          /\ \A d \in Call : waiting'[d] \in Seq(1 .. n) /\ Len(waiting'[d]) <= SubCap
      <3>0. /\ waiting \in [Call -> Seq(Nat)] /\ lost \subseteq Call
            /\ dead \in {"no", "closed", "recorder"}
            /\ \A d \in Call : waiting[d] \in Seq(1 .. n) /\ Len(waiting[d]) <= SubCap
        BY <1>0 DEF TypeOK, Joined
      <3>1. CASE waiting' = waiting
        BY <1>5, <3>0, <3>1 DEF SendAction, Lost
      <3>2. CASE waiting' # waiting
        <4>1. /\ Len(waiting[c]) < SubCap /\ waiting' = [waiting EXCEPT ![c] = Append(@, n)]
              /\ lost' = lost /\ dead' = dead
          BY <1>5, <3>2 DEF SendAction
        <4>2. n \in 1 .. n
          BY <1>a, <1>5 DEF SendAction, Joined
        <4>3. /\ Append(waiting[c], n) \in Seq(1 .. n) /\ Append(waiting[c], n) \in Seq(Nat)
              /\ Len(Append(waiting[c], n)) = Len(waiting[c]) + 1 /\ Len(waiting[c]) \in Nat
          BY <1>a, <3>0, <4>2, Written
        <4>4. Len(waiting[c]) + 1 <= SubCap
          BY <4>1, <4>3, SpectatorsAssumption
        <4> QED
          BY <3>0, <4>1, <4>3, <4>4
      <3> QED
        BY <3>1, <3>2
    <2>3. TypeOK'
      BY <1>0, <2>1, <2>2 DEF TypeOK, calls, sessions
    <2>4. Joined'
      BY <2>1, <2>2 DEF Joined, calls, sessions
    <2> QED
      BY <2>1, <2>3, <2>4, SessionsKept DEF Inv
  <1> QED
    BY <1>1, <1>2, <1>3, <1>4, <1>5

\* The steps of a handler and its client keep Inv and Joined.
LEMMA HandlerNext ==
  ASSUME Inv, Joined, NEW c \in Call, Arrive(c) \/ Handler(c) \/ GoAway(c)
  PROVE  Inv' /\ Joined'
  <1>0. TypeOK /\ SessionsAreOpen /\ CountsNeverShort /\ NoCall \notin Call /\ Who[c] \in Spectator
    BY SpectatorsAssumption DEF Inv
  <1>a. /\ stream \in [Call -> Seq(Nat)] /\ rpc \in [Call -> {"idle", "joining", "open", "done"}]
        /\ stream[c] \in Seq(0 .. n) /\ Len(stream[c]) <= StreamCap
        /\ n \in Nat /\ aged \in Nat /\ aged \in 0 .. n /\ 0 \in 0 .. n
    BY <1>0, NumberType DEF TypeOK, Joined
  <1>1. CASE Arrive(c)
    <2>1. /\ rpc[c] = "idle" /\ rpc' \in [Call -> {"idle", "joining", "open", "done"}]
          /\ \A d \in Call : d # c => rpc'[d] = rpc[d]
          /\ dead' \in {"no", "closed", "recorder"}
          /\ UNCHANGED <<recorder, away, sessions, stream, current, loops, seen, lost>>
      BY <1>0, <1>a, <1>1 DEF Arrive, TypeOK
    <2>2. TypeOK'
      BY <1>0, <2>1 DEF TypeOK, recorder, sessions, loops
    <2>3. rpc[c] \notin Entered
      BY <2>1 DEF Entered
    <2>4. \A d \in Call : rpc[d] \in Entered => rpc'[d] \in Entered
      BY <2>1, <2>3
    <2>5. \A d \in Call : rpc'[d] \notin Entered => rpc[d] \notin Entered
      BY <2>4
    <2>6. Joined'
      BY <1>0, <2>1, <2>4, <2>5 DEF Joined, TypeOK, recorder, sessions, loops
    <2> QED
      BY <2>1, <2>2, <2>6, SessionsKept DEF Inv, recorder
  <1>2. CASE JoinSpectator(c)
    <2> DEFINE start == IF live THEN aged ELSE 0
    <2>1. /\ rpc[c] = "joining" /\ rpc' = [rpc EXCEPT ![c] = "open"]
          /\ session' = [session EXCEPT ![Who[c]] = c]
          /\ total' = total + 1 /\ count' = count + 1
          /\ current' = [current EXCEPT ![c] = start] /\ Shown(c, start)
          /\ loop' = [loop EXCEPT ![c].pc = "begin"]
          /\ UNCHANGED <<recorder, away, closed, stream, waiting, subs, lost, dead>>
      BY <1>2 DEF JoinSpectator
    <2>2. start \in 0 .. n
      BY <1>a
    <2> HIDE DEF start
    <2>3. /\ seen' \in [Call -> Seq(Nat)] /\ \A d \in Call : seen'[d] \in Seq(0 .. n)
          /\ \A d \in Call : d # c => seen'[d] = seen[d]
      BY <1>0, <2>1, <2>2, ShownType
    <2>4. /\ loop' \in [Call -> [pc : Pc, into : Call \cup {NoCall}, next : Nat, end : 0 .. n]]
          /\ loop'[c].pc = "begin" /\ loop'[c].into = loop[c].into
          /\ \A d \in Call : d # c => loop'[d] = loop[d]
      BY <1>0, <2>1, ZenonT(40) DEF TypeOK, Pc
    <2>5. session' \in [Spectator -> Call \cup {NoCall}] /\ current' \in [Call -> 0 .. n]
          /\ rpc' \in [Call -> {"idle", "joining", "open", "done"}]
      BY <1>0, <1>a, <2>1, <2>2 DEF TypeOK
    <2>6. TypeOK'
      <3>1. Channels(stream', waiting', seen', n')
        BY <1>0, <2>1, <2>3 DEF TypeOK, Channels, recorder
      <3>2. total' \in Nat /\ count' \in Nat /\ away' \subseteq Call
        BY <1>0, <2>1 DEF TypeOK
      <3>3. n' = n /\ UNCHANGED <<aged, sending, live, listed, closed, subs, lost, dead>>
        BY <2>1 DEF recorder
      <3> QED
        BY <1>0, <2>4, <2>5, <3>1, <3>2, <3>3 DEF TypeOK, Channels
    <2>7. c \notin closed
      BY <2>1 DEF Joined, Entered
    <2>8. /\ Registered' \subseteq Registered \cup {c}
          /\ Cardinality(Registered') <= Cardinality(Registered) + 1
          /\ Cardinality(Registered') \in Nat
      BY <1>0, <2>1, AddsAtMostOne
    <2>9. SessionsAreOpen'
      BY <1>0, <2>1, <2>7, <2>8 DEF SessionsAreOpen
    <2>10. CountsNeverShort'
      <3>1. /\ total \in Nat /\ count \in Nat /\ total >= Cardinality(Registered)
            /\ listed' => count >= Cardinality(Registered)
        BY <1>0, <2>1 DEF CountsNeverShort, TypeOK, recorder
      <3>2. Cardinality(Registered) \in Nat
        BY <1>0, RegisteredFinite
      <3> QED
        BY <2>1, <2>8, <3>1, <3>2 DEF CountsNeverShort
    <2>11. rpc'[c] = "open" /\ \A d \in Call : d # c => rpc'[d] = rpc[d]
      BY <1>a, <2>1
    <2>12. \A s \in Spectator : session'[s] # NoCall =>
             Who[session'[s]] = s /\ rpc'[session'[s]] \in Entered
      <3> SUFFICES ASSUME NEW s \in Spectator, session'[s] # NoCall
                   PROVE  Who[session'[s]] = s /\ rpc'[session'[s]] \in Entered
        OBVIOUS
      <3>1. CASE s = Who[c]
        BY <1>0, <2>1, <2>11, <3>1 DEF TypeOK, Entered
      <3>2. CASE s # Who[c]
        BY <1>0, <2>1, <2>11, <3>2 DEF TypeOK, Joined, Entered
      <3> QED
        BY <3>1, <3>2
    <2>13. \A d \in Call : rpc[d] \in Entered => rpc'[d] \in Entered
      BY <2>1, <2>11 DEF Entered
    <2>14. \A d \in closed' : rpc'[d] \in Entered
      BY <1>0, <2>1, <2>13 DEF Joined, TypeOK
    <2>15. ASSUME NEW d \in Call
           PROVE  /\ loop'[d].into # NoCall => Who[loop'[d].into] = Who[d] /\ rpc'[loop'[d].into] \in Entered
                  /\ loop'[d].pc \in Busy => loop'[d].into # NoCall
                  /\ rpc'[d] \notin Entered => stream'[d] = <<>> /\ seen'[d] = <<>> /\ loop'[d].pc = "none"
                  /\ loop'[d].pc = "holding" => loop'[d].next \in 1 .. n'
      <3>1. loop[d].into \in Call \cup {NoCall}
        BY <1>0 DEF TypeOK
      <3>2. loop'[d].into # NoCall => Who[loop'[d].into] = Who[d] /\ rpc'[loop'[d].into] \in Entered
        <4>1. loop'[d].into = loop[d].into
          BY <2>4
        <4>2. loop[d].into # NoCall => Who[loop[d].into] = Who[d] /\ rpc[loop[d].into] \in Entered
          BY DEF Joined
        <4> QED
          BY <2>13, <3>1, <4>1, <4>2
      <3>3. CASE d = c
        BY <2>4, <2>11, <3>2, <3>3 DEF Busy, Entered
      <3>4. CASE d # c
        BY <2>1, <2>3, <2>4, <2>11, <3>2, <3>4 DEF Joined, recorder
      <3> QED
        BY <3>3, <3>4
    <2>16. Joined'
      BY <2>1, <2>3, <2>12, <2>14, <2>15 DEF Joined, recorder
    <2> QED
      BY <2>6, <2>9, <2>10, <2>16 DEF Inv
  <1>3. CASE Forward(c)
    <2>1. /\ rpc[c] = "open" /\ stream[c] # <<>> /\ stream' = [stream EXCEPT ![c] = Tail(@)]
          /\ seen' = seen \/ Shown(c, stream[c][1])
          /\ UNCHANGED <<recorder, calls, sessions, current, loops, lost, dead>>
      BY <1>3 DEF Forward
    <2>2. stream[c][1] \in 0 .. n /\ Tail(stream[c]) \in Seq(0 .. n)
          /\ Len(Tail(stream[c])) = Len(stream[c]) - 1 /\ Len(stream[c]) \in Nat
      BY <1>a, <2>1, Read
    <2>a. Tail(stream[c]) \in Seq(Nat) /\ Len(Tail(stream[c])) <= StreamCap
      BY <1>a, <2>1, <2>2, Read, SpectatorsAssumption
    <2>3. /\ seen' \in [Call -> Seq(Nat)] /\ \A d \in Call : seen'[d] \in Seq(0 .. n)
          /\ \A d \in Call : d # c => seen'[d] = seen[d]
      <3>1. CASE seen' = seen
        BY <1>0, <3>1 DEF TypeOK, Joined
      <3>2. CASE Shown(c, stream[c][1])
        BY <1>0, <2>2, <3>2, ShownType
      <3> QED
        BY <2>1, <3>1, <3>2
    <2>4. /\ stream' \in [Call -> Seq(Nat)] /\ \A d \in Call : d # c => stream'[d] = stream[d]
          /\ stream'[c] = Tail(stream[c])
      BY <1>a, <2>1, <2>a
    <2>5. \A d \in Call : stream'[d] \in Seq(0 .. n) /\ Len(stream'[d]) <= StreamCap
      BY <1>0, <2>2, <2>a, <2>4 DEF TypeOK
    <2>6. TypeOK'
      BY <1>0, <2>1, <2>3, <2>5 DEF TypeOK, recorder, calls, sessions, loops
    <2>7. rpc[c] \in Entered
      BY <2>1 DEF Entered
    <2>8. Joined'
      BY <2>1, <2>3, <2>4, <2>7 DEF Joined, recorder, calls, sessions, loops
    <2> QED
      BY <2>1, <2>6, <2>8, SessionsKept DEF Inv, recorder
  <1>4. CASE Return(c)
    <2>1. /\ rpc[c] = "open" /\ rpc' = [rpc EXCEPT ![c] = "done"] /\ away' = away \cup {c}
          /\ LeaveSpectator(Who[c]) /\ stream' = [stream EXCEPT ![c] = <<>>]
          /\ UNCHANGED <<recorder, current, loops, seen, lost, dead>>
      BY <1>4 DEF Return
    <2>2. /\ session' \in [Spectator -> Call \cup {NoCall}] /\ closed' \subseteq Call
          /\ total' \in Nat /\ count' \in Nat /\ SessionsAreOpen' /\ CountsNeverShort'
          /\ \A r \in Spectator : session'[r] # NoCall => session'[r] = session[r]
          /\ \A d \in closed' : rpc[d] \in Entered
      BY <1>0, <2>1, LeavesOne DEF recorder
    <2>3. /\ stream' \in [Call -> Seq(Nat)] /\ \A d \in Call : d # c => stream'[d] = stream[d]
          /\ stream'[c] = <<>> /\ Len(stream'[c]) = 0
      BY <1>a, <2>1
    <2>4. \A d \in Call : stream'[d] \in Seq(0 .. n) /\ Len(stream'[d]) <= StreamCap
      <3>1. stream'[c] \in Seq(0 .. n) /\ Len(stream'[c]) <= StreamCap
        BY <2>3, EmptySeq, SpectatorsAssumption
      <3> QED
        BY <1>0, <2>3, <3>1 DEF TypeOK
    <2>5. rpc' \in [Call -> {"idle", "joining", "open", "done"}]
          /\ rpc'[c] = "done" /\ \A d \in Call : d # c => rpc'[d] = rpc[d]
      BY <1>a, <2>1
    <2>6. TypeOK'
      BY <1>0, <2>1, <2>2, <2>4, <2>5 DEF TypeOK, recorder, loops
    <2>7. \A d \in Call : rpc[d] \in Entered <=> rpc'[d] \in Entered
      BY <2>1, <2>5 DEF Entered
    <2>8. Joined'
      <3>1. \A s \in Spectator : session'[s] # NoCall =>
              Who[session'[s]] = s /\ rpc'[session'[s]] \in Entered
        BY <1>0, <2>2, <2>7 DEF Joined, TypeOK
      <3>2. \A d \in closed' : rpc'[d] \in Entered
        BY <2>2, <2>7
      <3>3. ASSUME NEW d \in Call
            PROVE  /\ loop[d].into # NoCall => Who[loop[d].into] = Who[d] /\ rpc'[loop[d].into] \in Entered
                   /\ rpc'[d] \notin Entered => stream'[d] = <<>> /\ seen[d] = <<>> /\ loop[d].pc = "none"
        <4>1. loop[d].into \in Call \cup {NoCall}
          BY <1>0 DEF TypeOK
        <4> QED
          BY <2>3, <2>7, <4>1 DEF Joined
      <3> QED
        BY <2>1, <2>3, <3>1, <3>2, <3>3 DEF Joined, recorder, loops
    <2> QED
      BY <2>2, <2>6, <2>8 DEF Inv
  <1>5. CASE GoAway(c)
    <2>1. TypeOK' /\ Joined'
      BY <1>0, <1>5 DEF GoAway, TypeOK, Joined, recorder, sessions, loops
    <2> QED
      BY <1>5, <2>1, SessionsKept DEF Inv, GoAway, recorder
  <1> QED
    BY <1>1, <1>2, <1>3, <1>4, <1>5 DEF Handler

\* A chat message goes to sessions with a place left.
LEMMA ChatNext ==
  ASSUME Inv, Joined, Chat
  PROVE  Inv' /\ Joined'
  <1>0. TypeOK /\ n \in Nat /\ 0 \in 0 .. n /\ stream \in [Call -> Seq(Nat)]
    BY NumberType DEF Inv, Joined
  <1>1. /\ stream' = [c \in Call |-> IF c \in Registered \ closed /\ Len(stream[c]) < StreamCap
                                     THEN Append(stream[c], 0) ELSE stream[c]]
        /\ Lost({c \in Registered \ closed : Len(stream[c]) = StreamCap})
        /\ UNCHANGED <<recorder, calls, sessions, current, loops, seen, dead>>
    BY DEF Chat
  <1>2. ASSUME NEW c \in Call
        PROVE  /\ stream'[c] \in Seq(0 .. n) /\ stream'[c] \in Seq(Nat) /\ Len(stream'[c]) <= StreamCap
               /\ rpc[c] \notin Entered => stream'[c] = stream[c]
    <2>1. stream[c] \in Seq(0 .. n) /\ stream[c] \in Seq(Nat) /\ Len(stream[c]) <= StreamCap
      BY <1>0 DEF TypeOK
    <2>2. CASE stream'[c] = stream[c]
      BY <2>1, <2>2
    <2>3. CASE c \in Registered /\ Len(stream[c]) < StreamCap /\ stream'[c] = Append(stream[c], 0)
      <3>1. /\ Append(stream[c], 0) \in Seq(0 .. n) /\ Append(stream[c], 0) \in Seq(Nat)
            /\ Len(Append(stream[c], 0)) = Len(stream[c]) + 1 /\ Len(stream[c]) \in Nat
        BY <1>0, <2>1, Written
      <3>2. Len(stream[c]) + 1 <= StreamCap
        BY <2>3, <3>1, SpectatorsAssumption
      <3>3. rpc[c] \in Entered
        <4>1. Who[c] \in Spectator /\ session[Who[c]] = c /\ c # NoCall
          BY <2>3, SpectatorsAssumption DEF Registered
        <4> QED
          BY <4>1 DEF Joined
      <3> QED
        BY <2>3, <3>1, <3>2, <3>3
    <2> QED
      BY <1>1, <2>2, <2>3
  <1>3. stream' \in [Call -> Seq(Nat)]
    BY <1>0, <1>1, <1>2
  <1>4. lost' \subseteq Call
    BY <1>0, <1>1 DEF Lost, TypeOK, Registered
  <1>5. TypeOK'
    BY <1>0, <1>1, <1>2, <1>4 DEF TypeOK, recorder, calls, sessions, loops
  <1>6. Joined'
    BY <1>1, <1>2, <1>3 DEF Joined, recorder, calls, sessions, loops
  <1> QED
    BY <1>1, <1>5, <1>6, SessionsKept DEF Inv, recorder

\* An eviction leaves the recorder's count alone.
LEMMA EvictNext ==
  ASSUME Inv, Joined, NEW s \in Spectator, Evict(s)
  PROVE  Inv' /\ Joined'
  <1>0. TypeOK /\ SessionsAreOpen /\ CountsNeverShort /\ NoCall \notin Call
    BY SpectatorsAssumption DEF Inv
  <1>1. /\ session[s] # NoCall /\ closed' = closed \cup {session[s]}
        /\ session' = [session EXCEPT ![s] = NoCall] /\ total' = total - 1
        /\ UNCHANGED <<recorder, calls, count, stream, current, loops, seen, lost, dead>>
    BY DEF Evict, Dropped
  <1>2. /\ session[s] \in Registered /\ Registered' = Registered \ {session[s]}
        /\ Cardinality(Registered') = Cardinality(Registered) - 1
        /\ Cardinality(Registered) > 0 /\ Cardinality(Registered) \in Nat
    BY <1>0, <1>1, DropsOne, RegisteredFinite
  <1>3. session[s] \in Call /\ rpc[session[s]] \in Entered
    BY <1>0, <1>1 DEF Joined, TypeOK
  <1>4. total' \in Nat /\ CountsNeverShort'
    BY <1>0, <1>1, <1>2 DEF CountsNeverShort, TypeOK, recorder
  <1>5. SessionsAreOpen'
    BY <1>0, <1>1, <1>2 DEF SessionsAreOpen
  <1>6. session' \in [Spectator -> Call \cup {NoCall}] /\ closed' \subseteq Call
        /\ \A r \in Spectator : session'[r] # NoCall => session'[r] = session[r]
    BY <1>0, <1>1, <1>3 DEF TypeOK
  <1>7. TypeOK'
    BY <1>0, <1>1, <1>4, <1>6 DEF TypeOK, recorder, calls, loops
  <1>8. Joined'
    BY <1>1, <1>3, <1>6 DEF Joined, recorder, calls, loops
  <1> QED
    BY <1>4, <1>5, <1>7, <1>8 DEF Inv

\* What a step of a loop changes: its own state, its subscription, and the
\* stream of the session it has found.
LoopType == [pc : Pc, into : Call \cup {NoCall}, next : Nat, end : 0 .. n]

\* So do the steps of a stream loop.
LEMMA LoopNext ==
  ASSUME Inv, Joined, NEW c \in Call, StreamLoop(c)
  PROVE  Inv' /\ Joined'
  <1>0. /\ TypeOK /\ NoCall \notin Call /\ loop \in [Call -> LoopType] /\ n \in Nat
        /\ waiting \in [Call -> Seq(Nat)] /\ subs \subseteq Call /\ 0 \in 0 .. n
        /\ stream \in [Call -> Seq(Nat)] /\ lost \subseteq Call /\ current \in [Call -> 0 .. n]
        /\ \A d \in Call : /\ waiting[d] \in Seq(1 .. n) /\ Len(waiting[d]) <= SubCap
                           /\ stream[d] \in Seq(0 .. n) /\ Len(stream[d]) <= StreamCap
    BY SpectatorsAssumption, NumberType DEF Inv, TypeOK, Joined, LoopType
  <1>a. UNCHANGED quiet
    BY DEF StreamLoop, Start, Find, GetLiveRecorder, Subscribe, Count, GetSegment, Play, Played,
           Take, Show, Quit, Unsubscribe
  <1>b. ASSUME NEW l \in LoopType, loop' = [loop EXCEPT ![c] = l],
               l.into # NoCall => Who[l.into] = Who[c] /\ rpc[l.into] \in Entered,
               l.pc \in Busy => l.into # NoCall,
               rpc[c] \in Entered,
               l.pc = "holding" => l.next \in 1 .. n,
               waiting' \in [Call -> Seq(Nat)], subs' \subseteq Call,
               \A d \in Call : waiting'[d] \in Seq(1 .. n) /\ Len(waiting'[d]) <= SubCap,
               stream' \in [Call -> Seq(Nat)], lost' \subseteq Call, current' \in [Call -> 0 .. n],
               \A d \in Call : stream'[d] \in Seq(0 .. n) /\ Len(stream'[d]) <= StreamCap,
               \A d \in Call : rpc[d] \notin Entered => stream'[d] = stream[d]
        PROVE  Inv' /\ Joined'
    <2>1. loop' \in [Call -> LoopType] /\ loop'[c] = l /\ \A d \in Call : d # c => loop'[d] = loop[d]
      BY <1>0, <1>b
    <2>2. n' = n /\ UNCHANGED <<recorder, calls, sessions, seen, dead>>
      BY <1>a DEF quiet, recorder
    <2>3. Channels(stream', waiting', seen, n)
      BY <1>0, <1>b DEF Channels, TypeOK
    <2>4. TypeOK'
      BY <1>0, <1>b, <2>1, <2>2, <2>3 DEF TypeOK, LoopType, Channels, recorder, calls, sessions
    <2>5. Joined'
      <3>1. ASSUME NEW d \in Call
            PROVE  /\ loop'[d].into # NoCall => Who[loop'[d].into] = Who[d] /\ rpc[loop'[d].into] \in Entered
                   /\ loop'[d].pc \in Busy => loop'[d].into # NoCall
                   /\ rpc[d] \notin Entered => stream'[d] = <<>> /\ seen[d] = <<>> /\ loop'[d].pc = "none"
                   /\ loop'[d].pc = "holding" => loop'[d].next \in 1 .. n
        BY <1>b, <2>1 DEF Joined
      <3> QED
        BY <1>b, <2>2, <3>1 DEF Joined, recorder, calls, sessions
    <2> QED
      BY <2>2, <2>4, <2>5, SessionsKept DEF Inv, recorder
  <1>c. /\ loop[c] \in LoopType /\ loop[c].into \in Call \cup {NoCall} /\ loop[c].next \in Nat
        /\ loop[c].end \in 0 .. n
        /\ loop[c].into # NoCall => Who[loop[c].into] = Who[c] /\ rpc[loop[c].into] \in Entered
        /\ loop[c].pc \in Busy => loop[c].into \in Call
        /\ loop[c].pc # "none" => rpc[c] \in Entered
    BY <1>0 DEF Joined, LoopType
  <1>1. CASE Find(c)
    <2> DEFINE d == session[Who[c]]
               l == [loop[c] EXCEPT !.into = d, !.pc = IF d = NoCall THEN "over" ELSE "found"]
    <2>1. d \in Call \cup {NoCall} /\ (d # NoCall => Who[d] = Who[c] /\ rpc[d] \in Entered)
      BY <1>0, SpectatorsAssumption DEF TypeOK, Joined
    <2>2. /\ l \in LoopType /\ l.into = d /\ l.pc = (IF d = NoCall THEN "over" ELSE "found")
      BY <1>c, <2>1 DEF LoopType, Pc
    <2>3. loop' = [loop EXCEPT ![c] = l] /\ loop[c].pc = "begin"
          /\ UNCHANGED <<stream, current, waiting, subs, lost>>
      BY <1>0, <1>1 DEF Find, At, LoopType
    <2> HIDE DEF d, l
    <2> QED
      BY <1>0, <1>b, <1>c, <2>1, <2>2, <2>3 DEF Busy
  <1>d. ASSUME NEW pc \in Pc, pc # "holding", pc \in Busy => loop[c].pc \in Busy, loop[c].pc # "none",
               Goto(c, pc), subs' \subseteq Call, UNCHANGED <<stream, current, waiting, lost>>
        PROVE  Inv' /\ Joined'
    <2> DEFINE l == [loop[c] EXCEPT !.pc = pc]
    <2>1. l \in LoopType /\ l.into = loop[c].into /\ l.pc = pc
      BY <1>c DEF LoopType
    <2>2. loop' = [loop EXCEPT ![c] = l]
      BY <1>0, <1>d DEF Goto, LoopType
    <2> HIDE DEF l
    <2> QED
      BY <1>0, <1>b, <1>c, <1>d, <2>1, <2>2
  <1>2. CASE GetLiveRecorder(c)
    BY <1>0, <1>2, <1>d DEF GetLiveRecorder, At, Busy, Pc
  <1>3. CASE Subscribe(c)
    <2>1. subs' \subseteq Call
      BY <1>0, <1>3 DEF Subscribe
    <2> QED
      BY <1>3, <1>d, <2>1 DEF Subscribe, At, Busy, Pc
  <1>4. CASE Count(c)
    <2> DEFINE d == loop[c].into
               l == [loop[c] EXCEPT !.pc = "counted", !.next = After(current[d]), !.end = n]
    <2>1. loop[c].pc = "subscribed" /\ d \in Call /\ rpc[d] \in Entered
      BY <1>0, <1>4, <1>c DEF Count, At, Busy
    <2>2. After(current[d]) \in Nat /\ n \in 0 .. n
      BY <1>0, <2>1 DEF After
    <2>3. l \in LoopType /\ l.into = d /\ l.pc = "counted"
      <3>1. "counted" \in Pc
        BY DEF Pc
      <3> QED
        BY <1>c, <2>2, <3>1 DEF LoopType
    <2>4. loop' = [loop EXCEPT ![c] = l] /\ Offer(d, 0) /\ UNCHANGED <<current, waiting, subs>>
      BY <1>0, <1>4 DEF Count, LoopType
    <2>5. /\ lost' \subseteq Call /\ stream' \in [Call -> Seq(Nat)]
          /\ \A e \in Call : stream'[e] \in Seq(0 .. n) /\ Len(stream'[e]) <= StreamCap
          /\ \A e \in Call : e # d => stream'[e] = stream[e]
      BY <1>0, <2>1, <2>4, OfferType
    <2> HIDE DEF l
    <2> QED
      BY <1>0, <1>b, <1>c, <2>1, <2>3, <2>4, <2>5
  <1>5. CASE GetSegment(c)
    <2> DEFINE l == [loop[c] EXCEPT !.pc = "playing", !.end = SegmentEnd(@)]
    <2>1. l \in LoopType /\ l.into = loop[c].into /\ l.pc = "playing"
      <3>1. "playing" \in Pc /\ SegmentEnd(loop[c].end) \in 0 .. n
        BY <1>0, <1>c DEF Pc, SegmentEnd
      <3> QED
        BY <1>c, <3>1 DEF LoopType
    <2>2. loop' = [loop EXCEPT ![c] = l] /\ loop[c].pc = "counted"
          /\ UNCHANGED <<stream, current, waiting, subs, lost>>
      BY <1>0, <1>5 DEF GetSegment, At, LoopType
    <2> HIDE DEF l
    <2> QED
      BY <1>0, <1>b, <1>c, <2>1, <2>2 DEF Busy
  <1>e. ASSUME NEW l \in LoopType, loop' = [loop EXCEPT ![c] = l], l.into = loop[c].into,
               l.pc # "holding", loop[c].pc \in {"playing", "holding"}, NEW i \in 0 .. n, Push(c, i),
               UNCHANGED <<waiting, subs>>
        PROVE  Inv' /\ Joined'
    <2>1. loop[c].into \in Call /\ rpc[loop[c].into] \in Entered
      BY <1>0, <1>c, <1>e DEF Busy
    <2>2. current' \in [Call -> 0 .. n]
      BY <1>0, <1>e DEF Push
    <2>3. /\ lost' \subseteq Call /\ stream' \in [Call -> Seq(Nat)]
          /\ \A e \in Call : stream'[e] \in Seq(0 .. n) /\ Len(stream'[e]) <= StreamCap
          /\ \A e \in Call : e # loop[c].into => stream'[e] = stream[e]
      BY <1>0, <1>e, <2>1, OfferType DEF Push
    <2> QED
      BY <1>0, <1>b, <1>c, <1>e, <2>1, <2>2, <2>3
  <1>6. CASE Play(c)
    <2>1. CASE c \in away
      BY <1>0, <1>6, <1>d, <2>1 DEF Play, At, Busy, Pc
    <2>2. CASE c \notin away
      <3> DEFINE l == [loop[c] EXCEPT !.next = @ + 1]
      <3>1. l \in LoopType /\ l.into = loop[c].into /\ l.pc = loop[c].pc /\ loop[c].pc = "playing"
        BY <1>6, <1>c DEF LoopType, Play, At
      <3>2. loop' = [loop EXCEPT ![c] = l] /\ Push(c, loop[c].next) /\ UNCHANGED <<waiting, subs>>
        BY <1>0, <1>6, <2>2 DEF Play, LoopType
      <3>3. loop[c].next \in 0 .. n
        BY <1>0, <1>6, <1>c DEF Play
      <3> HIDE DEF l
      <3> QED
        BY <1>e, <3>1, <3>2, <3>3
    <2> QED
      BY <2>1, <2>2
  <1>7. CASE Played(c)
    BY <1>0, <1>7, <1>d DEF Played, AfterPlayback, At, Busy, Pc
  <1>8. CASE Take(c)
    <2> DEFINE l == [loop[c] EXCEPT !.pc = "holding", !.next = waiting[c][1]]
    <2>1. /\ waiting[c] # <<>> /\ loop[c].pc = "live" /\ loop' = [loop EXCEPT ![c] = l]
          /\ waiting' = [waiting EXCEPT ![c] = Tail(@)] /\ UNCHANGED <<stream, current, subs, lost>>
      BY <1>0, <1>8 DEF Take, At, LoopType
    <2>2. waiting[c][1] \in 1 .. n /\ Tail(waiting[c]) \in Seq(1 .. n)
          /\ Len(Tail(waiting[c])) = Len(waiting[c]) - 1 /\ Len(waiting[c]) \in Nat
      BY <1>0, <2>1, Read
    <2>3. Tail(waiting[c]) \in Seq(Nat) /\ Len(Tail(waiting[c])) <= SubCap
      BY <1>0, <2>1, <2>2, Read, SpectatorsAssumption
    <2>4. l \in LoopType /\ l.into = loop[c].into /\ l.pc = "holding" /\ l.next = waiting[c][1]
      <3>1. "holding" \in Pc /\ waiting[c][1] \in Nat
        BY <1>0, <2>2 DEF Pc
      <3> QED
        BY <1>c, <3>1 DEF LoopType
    <2>5. waiting' \in [Call -> Seq(Nat)]
          /\ \A d \in Call : waiting'[d] \in Seq(1 .. n) /\ Len(waiting'[d]) <= SubCap
      BY <1>0, <2>1, <2>2, <2>3
    <2> HIDE DEF l
    <2> QED
      BY <1>0, <1>b, <1>c, <2>1, <2>2, <2>4, <2>5 DEF Busy
  <1>9. CASE Show(c)
    <2> DEFINE l == [loop[c] EXCEPT !.pc = "live"]
    <2>1. l \in LoopType /\ l.into = loop[c].into /\ l.pc = "live" /\ loop[c].pc = "holding"
      BY <1>9, <1>c DEF LoopType, Pc, Show, At
    <2>2. loop' = [loop EXCEPT ![c] = l] /\ Push(c, loop[c].next) /\ UNCHANGED <<waiting, subs>>
      BY <1>0, <1>9 DEF Show, Goto, LoopType
    <2>3. loop[c].next \in 0 .. n
      BY <1>0, <2>1 DEF Joined
    <2> HIDE DEF l
    <2> QED
      BY <1>e, <2>1, <2>2, <2>3
  <1>10. CASE Quit(c)
    BY <1>0, <1>10, <1>d DEF Quit, Interruptible, Busy, Pc
  <1>11. CASE Unsubscribe(c)
    <2> DEFINE l == [pc |-> "over", into |-> NoCall, next |-> 0, end |-> 0]
    <2>1. l \in LoopType /\ l.into = NoCall /\ l.pc = "over"
      BY <1>0 DEF LoopType, Pc
    <2>2. /\ loop' = [loop EXCEPT ![c] = l] /\ loop[c].pc = "leaving"
          /\ subs' = subs \ {c} /\ waiting' = [waiting EXCEPT ![c] = <<>>]
          /\ UNCHANGED <<stream, current, lost>>
      BY <1>11 DEF Unsubscribe, At
    <2>3. /\ waiting' \in [Call -> Seq(Nat)] /\ Len(<<>>) = 0
          /\ \A d \in Call : waiting'[d] = IF d = c THEN <<>> ELSE waiting[d]
      BY <1>0, <2>2
    <2>4. \A d \in Call : waiting'[d] \in Seq(1 .. n) /\ Len(waiting'[d]) <= SubCap
      BY <1>0, <2>3, EmptySeq, SpectatorsAssumption
    <2> HIDE DEF l
    <2> QED
      BY <1>0, <1>b, <1>c, <2>1, <2>2, <2>3, <2>4 DEF Busy
  <1> QED
    BY <1>1, <1>2, <1>3, <1>4, <1>5, <1>6, <1>7, <1>8, <1>9, <1>10, <1>11 DEF StreamLoop, Start
-----------------------------------------------------------------------------
\* Every step keeps Leaving.
LEMMA LeavingNext == IInv /\ [Next]_vars => Leaving'
  <1> SUFFICES ASSUME TypeOK, Leaving, [Next]_vars PROVE Leaving'
    BY DEF IInv, Inv
  <1> USE DEF Leaving
  <1>0. loop \in [Call -> LoopType]
    BY DEF TypeOK, LoopType
  <1>1. CASE Record
    BY <1>1 DEF Record, Departed, calls, loops
  <1>2. CASE Age \/ MarkFinished \/ UnregisterLiveGame \/ Chat \/ UNCHANGED vars
    BY <1>2 DEF Age, MarkFinished, UnregisterLiveGame, Chat, vars, Departed, recorder, calls, loops
  <1>3. ASSUME NEW c \in Call, SendAction(c) PROVE Leaving'
    <2>1. Departed' = Departed /\ UNCHANGED <<loop, subs>> /\ sending' = sending \ {c}
      BY <1>3 DEF SendAction, Departed, calls
    <2>2. dead' = dead \/ c \in sending \ subs
      BY <1>3 DEF SendAction
    <2> QED
      BY <2>1, <2>2
  <1>4. ASSUME NEW c \in Call, Arrive(c) \/ Forward(c) \/ GoAway(c) PROVE Leaving'
    BY <1>4 DEF Arrive, Forward, GoAway, Departed, recorder, calls, loops
  <1>5. ASSUME NEW c \in Call, Return(c) PROVE Leaving'
    BY <1>5 DEF Return, Departed, recorder, loops
  <1>6. ASSUME NEW c \in Call, JoinSpectator(c) PROVE Leaving'
    <2>1. \A d \in Call : loop'[d].pc = "leaving" => loop[d].pc = "leaving"
      BY <1>0, <1>6 DEF JoinSpectator, LoopType
    <2> QED
      BY <1>6, <2>1 DEF JoinSpectator, Departed, recorder
  <1>7. ASSUME NEW s \in Spectator, Evict(s) PROVE Leaving'
    BY <1>7 DEF Evict, Departed, recorder, calls, loops
  <1>8. ASSUME NEW c \in Call, StreamLoop(c) PROVE Leaving'
    <2>1. UNCHANGED <<sending, dead>> /\ Departed' = Departed
      BY <1>8 DEF StreamLoop, Start, Find, GetLiveRecorder, Subscribe, Count, GetSegment, Play,
                  Played, Take, Show, Quit, Unsubscribe, quiet, recorder, calls, Departed
    <2>2. ASSUME NEW pc, pc = "leaving" => Departed, Goto(c, pc)
          PROVE  \A d \in Call : loop'[d].pc = "leaving" => Departed
      BY <1>0, <2>2 DEF Goto, LoopType
    <2>3. \A d \in Call : loop'[d].pc = "leaving" => Departed
      <3>a. ASSUME NEW l, l.pc # "leaving", loop' = [loop EXCEPT ![c] = l]
            PROVE  \A d \in Call : loop'[d].pc = "leaving" => Departed
        BY <1>0, <3>a
      <3>1. CASE Find(c)
        BY <1>0, <3>1 DEF Find, LoopType
      <3>7. CASE Count(c)
        BY <1>0, <3>7 DEF Count, LoopType
      <3>8. CASE GetSegment(c)
        BY <1>0, <3>8 DEF GetSegment, LoopType
      <3>9. CASE Take(c)
        BY <1>0, <3>9 DEF Take, LoopType
      <3>10. CASE Unsubscribe(c)
        <4>1. PICK l : l = [pc |-> "over", into |-> NoCall, next |-> 0, end |-> 0]
          OBVIOUS
        <4> QED
          BY <3>10, <3>a, <4>1 DEF Unsubscribe
      <3>2. CASE GetLiveRecorder(c)
        BY <2>2, <3>2 DEF GetLiveRecorder
      <3>3. CASE Subscribe(c) \/ Show(c)
        BY <2>2, <3>3 DEF Subscribe, Show
      <3>4. CASE Play(c)
        <4>1. CASE c \in away
          BY <2>2, <3>4, <4>1 DEF Play, Departed
        <4>2. CASE c \notin away
          BY <1>0, <3>4, <4>2 DEF Play, LoopType
        <4> QED
          BY <4>1, <4>2
      <3>5. CASE Played(c)
        BY <2>2, <3>5 DEF Played, AfterPlayback, Departed
      <3>6. CASE Quit(c)
        BY <2>2, <3>6 DEF Quit, Departed
      <3> QED
        BY <1>8, <3>1, <3>2, <3>3, <3>4, <3>5, <3>6, <3>7, <3>8, <3>9, <3>10
        DEF StreamLoop, Start
    <2>4. subs \subseteq subs' \/ Departed
      BY <1>8 DEF StreamLoop, Start, Find, GetLiveRecorder, Subscribe, Count, GetSegment, Play,
                  Played, Take, Show, Quit, Unsubscribe, At
    <2> QED
      BY <2>1, <2>3, <2>4
  <1> QED
    BY <1>1, <1>2, <1>3, <1>4, <1>5, <1>6, <1>7, <1>8 DEF Next, Handler

\* Every step keeps the invariant.
LEMMA StepIInv == IInv /\ [Next]_vars => IInv'
  <1> SUFFICES ASSUME IInv, [Next]_vars PROVE IInv'
    OBVIOUS
  <1>1. Inv /\ Joined
    BY DEF IInv
  <1>2. ASSUME UNCHANGED vars PROVE Inv' /\ Joined'
    <2>1. UNCHANGED <<sessions, listed>>
      BY <1>2 DEF vars, recorder
    <2>2. TypeOK' /\ Joined'
      BY <1>1, <1>2 DEF vars, Inv, TypeOK, Joined, recorder, calls, sessions, loops
    <2> QED
      BY <1>1, <2>1, <2>2, SessionsKept DEF Inv
  <1>3. ASSUME Next PROVE Inv' /\ Joined'
    <2>1. CASE Record \/ Age \/ MarkFinished \/ UnregisterLiveGame \/ \E c \in Call : SendAction(c)
      BY <1>1, <2>1, RecorderNext
    <2>2. CASE Chat
      BY <1>1, <2>2, ChatNext
    <2>3. ASSUME NEW c \in Call, Arrive(c) \/ Handler(c) \/ GoAway(c) PROVE Inv' /\ Joined'
      BY <1>1, <2>3, HandlerNext
    <2>4. ASSUME NEW c \in Call, StreamLoop(c) PROVE Inv' /\ Joined'
      BY <1>1, <2>4, LoopNext
    <2>5. ASSUME NEW s \in Spectator, Evict(s) PROVE Inv' /\ Joined'
      BY <1>1, <2>5, EvictNext
    <2> QED
      BY <1>3, <2>1, <2>2, <2>3, <2>4, <2>5 DEF Next
  <1> QED
    BY <1>2, <1>3, LeavingNext DEF IInv

\* So it holds throughout.
LEMMA Invariance == Spec => []IInv
  BY InitIInv, StepIInv, PTL DEF Spec

\* Calls that join, take an id over, leave and are evicted never close a
\* session's stream twice, and the counters never miss a session.
THEOREM SessionsStayOpen == Spec => []Inv
  <1>1. IInv => Inv
    BY DEF IInv
  <1> QED
    BY <1>1, Invariance, PTL

\* The process is in danger only once a client has left or the game is over.
THEOREM OnlyDeparturesKill == Spec => []OnlyLeaversKill
  <1>1. IInv => OnlyLeaversKill
    BY DEF IInv, Leaving, Departed, OnlyLeaversKill
  <1> QED
    BY <1>1, Invariance, PTL
-----------------------------------------------------------------------------
\* Frames that lead on from action x to action y: none of the actions among
\* them is more than one after the action before it, and 0 is no action.
Shows(x, q, y) ==
  \E e \in [0 .. Len(q) -> Nat] :
    /\ e[0] = x /\ e[Len(q)] = y
    /\ \A j \in 1 .. Len(q) : IF q[j] = 0 THEN e[j] = e[j - 1]
                              ELSE q[j] <= e[j - 1] + 1 /\ e[j] = q[j]

\* Shows, from the actions shown after each element.
LEMMA ShowsWitness ==
  ASSUME NEW x, NEW y, NEW q, NEW k, Len(q) = k, NEW e \in [0 .. k -> Nat], e[0] = x, e[k] = y,
         \A j \in 1 .. k : IF q[j] = 0 THEN e[j] = e[j - 1]
                           ELSE q[j] <= e[j - 1] + 1 /\ e[j] = q[j]
  PROVE  Shows(x, q, y)
  BY DEF Shows

\* Nothing to show.
LEMMA ShowsNothing == \A x \in Nat : Shows(x, <<>>, x)
  <1> TAKE x \in Nat
  <1> DEFINE e == [j \in 0 .. 0 |-> x]
  <1>1. Len(<<>>) = 0 /\ e \in [0 .. 0 -> Nat] /\ e[0] = x
    OBVIOUS
  <1>2. \A j \in 1 .. 0 : FALSE
    OBVIOUS
  <1> HIDE DEF e
  <1> QED
    BY <1>1, <1>2 DEF Shows

\* One more element at the end that leaves no gap.
LEMMA ShowsMore ==
  ASSUME NEW x \in Nat, NEW y \in Nat, NEW q \in Seq(Nat), Shows(x, q, y), NEW i \in Nat, i <= y + 1
  PROVE  Shows(x, Append(q, i), IF i = 0 THEN y ELSE i)
  <1>1. PICK e \in [0 .. Len(q) -> Nat] :
          /\ e[0] = x /\ e[Len(q)] = y
          /\ \A j \in 1 .. Len(q) : IF q[j] = 0 THEN e[j] = e[j - 1]
                                    ELSE q[j] <= e[j - 1] + 1 /\ e[j] = q[j]
    BY DEF Shows
  <1>2. PICK z \in Nat : z = IF i = 0 THEN y ELSE i
    OBVIOUS
  <1>3. /\ Len(Append(q, i)) = Len(q) + 1 /\ Append(q, i)[Len(q) + 1] = i
        /\ \A j \in 1 .. Len(q) : Append(q, i)[j] = q[j]
        /\ Len(q) \in Nat
    BY AppendProperties, LenProperties
  <1> DEFINE d == [j \in 0 .. Len(q) + 1 |-> IF j = Len(q) + 1 THEN z ELSE e[j]]
  <1>4. /\ d \in [0 .. Len(q) + 1 -> Nat] /\ d[0] = x /\ d[Len(q) + 1] = z /\ d[Len(q)] = y
        /\ \A j \in 0 .. Len(q) : d[j] = e[j]
    BY <1>1, <1>2, <1>3
  <1> HIDE DEF d
  <1>5. ASSUME NEW j \in 1 .. Len(q) + 1
        PROVE  IF Append(q, i)[j] = 0 THEN d[j] = d[j - 1]
               ELSE Append(q, i)[j] <= d[j - 1] + 1 /\ d[j] = Append(q, i)[j]
    <2>1. CASE j = Len(q) + 1
      BY <1>2, <1>3, <1>4, <2>1
    <2>2. CASE j # Len(q) + 1
      <3>1. j \in 1 .. Len(q) /\ j - 1 \in 0 .. Len(q) /\ j \in 0 .. Len(q)
        BY <1>3, <2>2
      <3> QED
        BY <1>1, <1>3, <1>4, <3>1
    <2> QED
      BY <2>1, <2>2
  <1> QED
    <2>1. PICK r, k : r = Append(q, i) /\ k = Len(q) + 1
      OBVIOUS
    <2>2. Len(r) = k /\ d \in [0 .. k -> Nat] /\ d[0] = x /\ d[k] = z
      BY <1>3, <1>4, <2>1
    <2>3. \A j \in 1 .. k : IF r[j] = 0 THEN d[j] = d[j - 1]
                            ELSE r[j] <= d[j - 1] + 1 /\ d[j] = r[j]
      BY <1>5, <2>1
    <2>4. Shows(x, r, z)
      BY <2>2, <2>3, ShowsWitness
    <2> QED
      BY <1>2, <2>1, <2>4

\* The rest once the first element has been shown.
LEMMA ShowsRest ==
  ASSUME NEW x \in Nat, NEW y \in Nat, NEW q \in Seq(Nat), Shows(x, q, y), q # <<>>
  PROVE  IF q[1] = 0 THEN Shows(x, Tail(q), y)
         ELSE q[1] <= x + 1 /\ Shows(q[1], Tail(q), y)
  <1>1. PICK e \in [0 .. Len(q) -> Nat] :
          /\ e[0] = x /\ e[Len(q)] = y
          /\ \A j \in 1 .. Len(q) : IF q[j] = 0 THEN e[j] = e[j - 1]
                                    ELSE q[j] <= e[j - 1] + 1 /\ e[j] = q[j]
    BY DEF Shows
  <1>2. /\ Len(Tail(q)) = Len(q) - 1 /\ \A j \in 1 .. Len(q) - 1 : Tail(q)[j] = q[j + 1]
        /\ Len(q) \in Nat \ {0} /\ q[1] \in Nat
    BY HeadTailProperties, EmptySeq, ElementOfSeq
  <1> DEFINE d == [j \in 0 .. Len(q) - 1 |-> e[j + 1]]
  <1>3. /\ d \in [0 .. Len(q) - 1 -> Nat] /\ d[0] = e[1] /\ d[Len(q) - 1] = y
        /\ \A j \in 0 .. Len(q) - 1 : d[j] = e[j + 1]
    BY <1>1, <1>2
  <1> HIDE DEF d
  <1>4. ASSUME NEW j \in 1 .. Len(q) - 1
        PROVE  IF Tail(q)[j] = 0 THEN d[j] = d[j - 1]
               ELSE Tail(q)[j] <= d[j - 1] + 1 /\ d[j] = Tail(q)[j]
    <2>1. j + 1 \in 1 .. Len(q) /\ j - 1 \in 0 .. Len(q) - 1 /\ j \in 0 .. Len(q) - 1 /\ j \in Nat
      BY <1>2
    <2>2. d[j] = e[j + 1] /\ d[j - 1] = e[j] /\ Tail(q)[j] = q[j + 1] /\ (j + 1) - 1 = j
      BY <1>2, <1>3, <2>1
    <2> QED
      BY <1>1, <2>1, <2>2
  <1>5. Shows(e[1], Tail(q), y)
    <2>1. PICK r, k : r = Tail(q) /\ k = Len(q) - 1
      OBVIOUS
    <2>2. Len(r) = k /\ d \in [0 .. k -> Nat] /\ d[0] = e[1] /\ d[k] = y
      BY <1>2, <1>3, <2>1
    <2>3. \A j \in 1 .. k : IF r[j] = 0 THEN d[j] = d[j - 1]
                            ELSE r[j] <= d[j - 1] + 1 /\ d[j] = r[j]
      BY <1>4, <2>1
    <2>4. Shows(e[1], r, y)
      BY <2>2, <2>3, ShowsWitness
    <2> QED
      BY <2>1, <2>4
  <1>6. 1 \in 1 .. Len(q) /\ 1 - 1 = 0
    BY <1>2
  <1>7. IF q[1] = 0 THEN e[1] = x ELSE q[1] <= x + 1 /\ e[1] = q[1]
    BY <1>1, <1>6
  <1> QED
    BY <1>5, <1>7
-----------------------------------------------------------------------------
\* What a client has been shown has no gap, and its stream leads on from there
\* to the session's time.
Streamed(c) ==
  /\ \A i \in 1 .. Len(seen[c]) - 1 : seen[c][i + 1] <= seen[c][i] + 1
  /\ rpc[c] = "open" => seen[c] # <<>>
  /\ seen[c] # <<>> =>
       \E y \in Nat : /\ Shows(seen[c][Len(seen[c])], stream[c], y)
                      /\ rpc[c] = "open" /\ c \notin closed => y = current[c]

\* The last action that will not come by the subscription.
Upto(c) == (IF c \in sending THEN n - 1 ELSE n) - Len(waiting[c])

\* The subscription has the actions after that one, all of them and in order,
\* and the playback goes at least as far.
Queued(c) ==
  LET l == loop[c]
  IN /\ l.pc \in {"none", "begin", "found", "recorder"} =>
          c \notin subs /\ c \notin sending /\ waiting[c] = <<>>
     /\ l.pc \in {"subscribed", "counted", "playing", "live", "holding"} =>
          c \in subs /\ \A i \in 1 .. Len(waiting[c]) : waiting[c][i] = Upto(c) + i
     /\ l.pc \in {"counted", "playing"} => l.next = current[c] + 1
     /\ l.pc = "counted" => l.end = 0 \/ Upto(c) <= l.end
     /\ l.pc = "playing" => Upto(c) <= l.end
     /\ l.pc = "live" => Upto(c) <= current[c]
     /\ l.pc = "holding" => Upto(c) = l.next /\ l.next <= current[c] + 1

Followed == \A c \in Alone \ lost : Streamed(c) /\ Queued(c)
-----------------------------------------------------------------------------
\* A step that leaves a call's stream and watcher alone.
LEMMA StreamedKept ==
  ASSUME NEW c, Streamed(c), seen'[c] = seen[c], stream'[c] = stream[c], rpc'[c] = rpc[c],
         current'[c] = current[c], c \in closed => c \in closed'
  PROVE  Streamed(c)'
  BY DEF Streamed

\* A step that leaves a call's channel and loop alone.
LEMMA QueuedKept ==
  ASSUME NEW c, Queued(c), loop'[c] = loop[c], waiting'[c] = waiting[c], n' = n,
         current'[c] = current[c], c \in subs' <=> c \in subs, c \in sending' <=> c \in sending
  PROVE  Queued(c)'
  BY DEF Queued, Upto

\* A call whose id is its own has its session and its loop to itself.
LEMMA AloneByItself ==
  ASSUME TypeOK, Joined, NEW c \in Alone
  PROVE  /\ c \in Call /\ c # NoCall /\ Who[c] \in Spectator
         /\ \A s \in Spectator : session[s] = c => s = Who[c]
         /\ session[Who[c]] \in {c, NoCall}
         /\ \A d \in Call : loop[d].into = c => d = c
         /\ loop[c].into \in {c, NoCall}
         /\ loop[c].pc \in Busy => loop[c].into = c
  <1>1. c \in Call /\ c # NoCall /\ Who[c] \in Spectator /\ \A d \in Call : d # c => Who[d] # Who[c]
    BY SpectatorsAssumption DEF Alone
  <1>2. session[Who[c]] \in Call \cup {NoCall} /\ loop[c].into \in Call \cup {NoCall}
    BY <1>1 DEF TypeOK
  <1> QED
    BY <1>1, <1>2 DEF Joined

\* The types of all a call alone under its id has.
LEMMA AloneType ==
  ASSUME TypeOK, Joined, NEW c \in Call
  PROVE  /\ seen[c] \in Seq(Nat) /\ stream[c] \in Seq(Nat) /\ waiting[c] \in Seq(Nat)
         /\ current[c] \in Nat /\ n \in Nat /\ Len(waiting[c]) \in Nat /\ Upto(c) \in Int
         /\ loop[c].next \in Nat /\ loop[c].end \in Nat
  <1>1. seen[c] \in Seq(Nat) /\ stream[c] \in Seq(Nat) /\ waiting[c] \in Seq(Nat)
    BY DEF Joined
  <1>2. current[c] \in Nat /\ n \in Nat /\ loop[c].next \in Nat /\ loop[c].end \in Nat
    BY SpectatorsAssumption DEF TypeOK
  <1>3. Len(waiting[c]) \in Nat
    BY <1>1, LenProperties
  <1> QED
    BY <1>1, <1>2, <1>3 DEF Upto

\* A frame offered to the stream of such a call leads on, or is lost.
LEMMA StreamedOffer ==
  ASSUME TypeOK, Joined, NEW c \in Alone, c \notin lost', Streamed(c), rpc[c] \in Entered,
         NEW i \in Nat, i <= current[c] + 1, Offer(c, i), UNCHANGED <<seen, rpc, closed>>,
         current'[c] = IF i = 0 THEN current[c] ELSE i
  PROVE  Streamed(c)'
  <1>0. /\ c \in Call /\ current[c] \in Nat /\ stream[c] \in Seq(Nat) /\ seen[c] \in Seq(Nat)
        /\ stream \in [Call -> Seq(Nat)]
    BY AloneByItself, AloneType DEF Joined
  <1>1. CASE c \in closed \/ rpc[c] = "done"
    <2>1. stream' = stream
      BY <1>1 DEF Offer
    <2> QED
      BY <1>1, <2>1 DEF Streamed
  <1>2. CASE c \notin closed /\ rpc[c] # "done"
    <2>1. rpc[c] = "open" /\ seen[c] # <<>>
      BY <1>2 DEF Entered, Streamed
    <2>2. stream' = [stream EXCEPT ![c] = Append(@, i)]
      BY <1>2 DEF Offer, Lost
    <2>3. PICK x \in Nat : x = seen[c][Len(seen[c])]
      <3>1. Len(seen[c]) \in 1 .. Len(seen[c])
        BY <1>0, <2>1, EmptySeq
      <3> QED
        BY <1>0, <3>1, ElementOfSeq
    <2>4. Shows(x, stream[c], current[c])
      BY <1>2, <2>1, <2>3 DEF Streamed
    <2>5. Shows(x, Append(stream[c], i), current'[c])
      BY <1>0, <2>4, ShowsMore
    <2>6. stream'[c] = Append(stream[c], i) /\ current'[c] \in Nat
      BY <1>0, <2>2
    <2> QED
      BY <2>3, <2>5, <2>6 DEF Streamed
  <1> QED
    BY <1>1, <1>2

\* The client is shown the next frame of its stream.
LEMMA StreamedForward ==
  ASSUME TypeOK, Joined, NEW c \in Alone, Streamed(c), Forward(c)
  PROVE  Streamed(c)'
  <1>0. /\ c \in Call /\ current[c] \in Nat /\ stream[c] \in Seq(Nat) /\ seen[c] \in Seq(Nat)
        /\ stream \in [Call -> Seq(Nat)] /\ seen \in [Call -> Seq(Nat)]
    BY AloneByItself, AloneType DEF Joined
  <1>1. /\ rpc[c] = "open" /\ stream[c] # <<>> /\ stream' = [stream EXCEPT ![c] = Tail(@)]
        /\ IF stream[c][1] = 0 THEN seen' = seen ELSE seen' = [seen EXCEPT ![c] = Append(@, stream[c][1])]
        /\ UNCHANGED <<rpc, closed, current>>
    BY DEF Forward, Shown, calls, sessions
  <1>2. seen[c] # <<>> /\ stream'[c] = Tail(stream[c])
    BY <1>0, <1>1 DEF Streamed
  <1>3. PICK x \in Nat, y \in Nat :
          /\ x = seen[c][Len(seen[c])] /\ Shows(x, stream[c], y)
          /\ c \notin closed => y = current[c]
    <2>1. Len(seen[c]) \in 1 .. Len(seen[c])
      BY <1>0, <1>2, EmptySeq
    <2> QED
      BY <1>0, <1>1, <1>2, <2>1, ElementOfSeq DEF Streamed
  <1>4. IF stream[c][1] = 0 THEN Shows(x, Tail(stream[c]), y)
        ELSE stream[c][1] <= x + 1 /\ Shows(stream[c][1], Tail(stream[c]), y)
    BY <1>0, <1>1, <1>3, ShowsRest
  <1>5. CASE stream[c][1] = 0
    BY <1>1, <1>2, <1>3, <1>4, <1>5 DEF Streamed
  <1>6. CASE stream[c][1] # 0
    <2>1. stream[c][1] \in Nat
      BY <1>0, <1>1, Read
    <2>2. seen'[c] = Append(seen[c], stream[c][1])
      BY <1>0, <1>1, <1>6
    <2>3. /\ Len(seen'[c]) = Len(seen[c]) + 1 /\ seen'[c][Len(seen[c]) + 1] = stream[c][1]
          /\ \A i \in 1 .. Len(seen[c]) : seen'[c][i] = seen[c][i]
          /\ Len(seen[c]) \in Nat \ {0} /\ seen'[c] # <<>>
      BY <1>0, <1>2, <2>1, <2>2, AppendProperties, EmptySeq, SMTT(30)
    <2>4. ASSUME NEW i \in 1 .. Len(seen'[c]) - 1 PROVE seen'[c][i + 1] <= seen'[c][i] + 1
      <3>1. CASE i = Len(seen[c])
        BY <1>3, <1>4, <1>6, <2>3, <3>1
      <3>2. CASE i # Len(seen[c])
        <4>1. i \in 1 .. Len(seen[c]) - 1 /\ i \in 1 .. Len(seen[c]) /\ i + 1 \in 1 .. Len(seen[c])
          BY <2>3, <3>2
        <4> QED
          BY <2>3, <4>1 DEF Streamed
      <3> QED
        BY <3>1, <3>2
    <2>5. Shows(seen'[c][Len(seen'[c])], stream'[c], y)
      BY <1>2, <1>4, <1>6, <2>3
    <2> QED
      BY <1>1, <1>3, <2>3, <2>4, <2>5 DEF Streamed
  <1> QED
    BY <1>5, <1>6

\* One action is recorded, and sent to one subscription after the other.
LEMMA QueuedRecord ==
  ASSUME TypeOK, Joined, NEW c \in Alone, Queued(c), Record
  PROVE  Queued(c)'
  <1>0. c \in Call /\ n \in Nat /\ Len(waiting[c]) \in Nat
    BY AloneByItself, AloneType
  <1>1. /\ sending = {} /\ sending' = subs /\ n' = n + 1
        /\ UNCHANGED <<loop, waiting, subs, current>>
    BY DEF Record, loops
  <1>2. c \in subs => Upto(c)' = Upto(c)
    BY <1>0, <1>1 DEF Upto
  <1> QED
    BY <1>1, <1>2 DEF Queued

\* A send of RecordAction that is not dropped keeps Queued.
LEMMA QueuedSend ==
  ASSUME TypeOK, Joined, NEW c \in Alone, c \notin lost', Queued(c), SendAction(c)
  PROVE  Queued(c)'
  <1>0. /\ c \in Call /\ n \in Nat /\ Len(waiting[c]) \in Nat /\ waiting[c] \in Seq(Nat)
        /\ waiting \in [Call -> Seq(Nat)]
    BY AloneByItself, AloneType DEF Joined
  <1>1. c \in sending /\ sending' = sending \ {c} /\ UNCHANGED <<n, current, loop, subs>>
    BY DEF SendAction
  <1>2. CASE c \notin subs
    <2>1. waiting' = waiting
      BY <1>2 DEF SendAction
    <2> QED
      BY <1>1, <1>2, <2>1 DEF Queued
  <1>3. CASE c \in subs
    <2>1. waiting' = [waiting EXCEPT ![c] = Append(@, n)]
      BY <1>3 DEF SendAction, Lost
    <2>2. waiting'[c] = Append(waiting[c], n)
      BY <1>0, <2>1
    <2>3. /\ Len(waiting'[c]) = Len(waiting[c]) + 1 /\ waiting'[c][Len(waiting[c]) + 1] = n
          /\ \A i \in 1 .. Len(waiting[c]) : waiting'[c][i] = waiting[c][i]
      BY <1>0, <2>2, AppendProperties
    <2>4. Upto(c)' = Upto(c) /\ Upto(c) + Len(waiting'[c]) = n
      BY <1>0, <1>1, <2>3 DEF Upto
    <2>5. ASSUME \A i \in 1 .. Len(waiting[c]) : waiting[c][i] = Upto(c) + i,
                 NEW i \in 1 .. Len(waiting'[c])
          PROVE  waiting'[c][i] = Upto(c)' + i
      <3>1. CASE i = Len(waiting[c]) + 1
        BY <2>3, <2>4, <3>1
      <3>2. CASE i # Len(waiting[c]) + 1
        <4>1. i \in 1 .. Len(waiting[c])
          BY <1>0, <2>3, <3>2
        <4> QED
          BY <2>3, <2>4, <2>5, <4>1
      <3> QED
        BY <3>1, <3>2
    <2> QED
      BY <1>1, <1>3, <2>4, <2>5 DEF Queued
  <1> QED
    BY <1>2, <1>3

\* The loop of such a call itself.
LEMMA FollowedLoop ==
  ASSUME TypeOK, Joined, NEW c \in Alone, c \notin lost', Streamed(c), Queued(c), StreamLoop(c)
  PROVE  Streamed(c)' /\ Queued(c)'
  <1>0. /\ c \in Call /\ n \in Nat /\ loop \in [Call -> LoopType] /\ current[c] \in Nat
        /\ loop[c].into \in {c, NoCall} /\ loop[c].next \in Nat /\ loop[c].end \in Nat
        /\ loop[c].pc \in Busy => loop[c].into = c
        /\ Len(waiting[c]) \in Nat /\ Upto(c) \in Int /\ waiting[c] \in Seq(Nat)
        /\ waiting \in [Call -> Seq(Nat)] /\ current \in [Call -> Nat]
    <2>1. current \in [Call -> Nat]
      BY NumberType DEF TypeOK
    <2> QED
      BY <2>1, AloneByItself, AloneType DEF Joined, TypeOK, LoopType
  <1>1. UNCHANGED <<n, sending, seen, rpc, closed>>
    BY DEF StreamLoop, Start, Find, GetLiveRecorder, Subscribe, Count, GetSegment, Play, Played,
           Take, Show, Quit, Unsubscribe, quiet, recorder, calls, sessions
  <1>2. loop[c].pc # "none" => rpc[c] \in Entered
    BY <1>0 DEF Joined
  <1>a. ASSUME UNCHANGED <<stream, current>> PROVE Streamed(c)'
    BY <1>1, <1>a, StreamedKept
  <1>b. ASSUME NEW pc, Goto(c, pc) PROVE loop'[c].pc = pc /\ loop'[c].next = loop[c].next
                                         /\ loop'[c].end = loop[c].end
    BY <1>0, <1>b DEF Goto, LoopType
  <1>c. ASSUME UNCHANGED waiting PROVE Upto(c)' = Upto(c)
    BY <1>1, <1>c DEF Upto
  <1>3. CASE Find(c)
    <2>1. /\ loop[c].pc = "begin" /\ loop'[c].pc \in {"found", "over"}
          /\ UNCHANGED <<stream, current, waiting, subs>>
      BY <1>0, <1>3 DEF Find, At, LoopType
    <2> QED
      BY <1>1, <1>a, <2>1 DEF Queued
  <1>4. CASE GetLiveRecorder(c)
    <2>1. /\ loop[c].pc = "found" /\ loop'[c].pc \in {"recorder", "over"}
          /\ UNCHANGED <<stream, current, waiting, subs>>
      BY <1>4, <1>b DEF GetLiveRecorder, At
    <2> QED
      BY <1>1, <1>a, <2>1 DEF Queued
  <1>5. CASE Subscribe(c)
    <2>1. /\ loop[c].pc = "recorder" /\ loop'[c].pc = "subscribed" /\ subs' = subs \cup {c}
          /\ UNCHANGED <<stream, current, waiting>>
      BY <1>5, <1>b DEF Subscribe, At
    <2>2. Len(<<>>) = 0 /\ \A i \in 1 .. 0 : FALSE
      OBVIOUS
    <2> QED
      BY <1>1, <1>a, <2>1, <2>2 DEF Queued
  <1>6. CASE Count(c)
    <2>1. loop[c].pc = "subscribed" /\ loop[c].into = c
      BY <1>0, <1>6 DEF Count, At, Busy
    <2>2. /\ Offer(c, 0) /\ loop'[c].pc = "counted" /\ loop'[c].next = current[c] + 1
          /\ loop'[c].end = n /\ UNCHANGED <<current, waiting, subs>>
      BY <1>0, <1>6, <2>1 DEF Count, After, LoopType
    <2>3. Streamed(c)'
      BY <1>0, <1>1, <1>2, <2>1, <2>2, StreamedOffer
    <2>4. Upto(c)' = Upto(c) /\ Upto(c) <= n
      BY <1>0, <1>c, <2>2 DEF Upto
    <2> QED
      BY <2>1, <2>2, <2>3, <2>4 DEF Queued
  <1>7. CASE GetSegment(c)
    <2>1. /\ loop[c].pc = "counted" /\ loop'[c].pc = "playing" /\ loop'[c].next = loop[c].next
          /\ loop'[c].end = (IF loop[c].end = 0 THEN n ELSE loop[c].end)
          /\ UNCHANGED <<stream, current, waiting, subs>>
      BY <1>0, <1>7 DEF GetSegment, At, SegmentEnd, LoopType
    <2>2. Upto(c)' = Upto(c) /\ Upto(c) <= n
      BY <1>0, <1>c, <2>1 DEF Upto
    <2> QED
      BY <1>a, <2>1, <2>2 DEF Queued
  <1>8. CASE Play(c)
    <2>1. loop[c].pc = "playing" /\ loop[c].into = c /\ UNCHANGED <<waiting, subs>>
      BY <1>0, <1>8 DEF Play, At, Busy
    <2>2. CASE c \in away
      <3>1. loop'[c].pc = "leaving" /\ UNCHANGED <<stream, current>>
        BY <1>8, <1>b, <2>2 DEF Play
      <3> QED
        BY <1>a, <3>1 DEF Queued
    <2>3. CASE c \notin away
      <3>1. /\ Offer(c, loop[c].next) /\ current' = [current EXCEPT ![c] = loop[c].next]
            /\ loop'[c].pc = "playing" /\ loop'[c].next = loop[c].next + 1
            /\ loop'[c].end = loop[c].end
        BY <1>0, <1>8, <2>1, <2>3 DEF Play, Push, LoopType
      <3>2. loop[c].next = current[c] + 1 /\ current'[c] = loop[c].next
        BY <1>0, <2>1, <3>1 DEF Queued
      <3>3. Streamed(c)'
        BY <1>0, <1>1, <1>2, <2>1, <3>1, <3>2, StreamedOffer, SMTT(30)
      <3> QED
        BY <1>0, <1>c, <2>1, <3>1, <3>2, <3>3 DEF Queued
    <2> QED
      BY <2>2, <2>3
  <1>9. CASE Played(c)
    <2>1. /\ loop[c].pc = "playing" /\ loop[c].next > loop[c].end
          /\ loop'[c].pc \in {"live", "leaving"} /\ UNCHANGED <<stream, current, waiting, subs>>
      BY <1>9, <1>b DEF Played, AfterPlayback, At
    <2>2. Upto(c)' <= current'[c]
      BY <1>0, <1>c, <2>1 DEF Queued
    <2> QED
      BY <1>a, <1>c, <2>1, <2>2 DEF Queued
  <1>10. CASE Take(c)
    <2>1. /\ loop[c].pc = "live" /\ waiting[c] # <<>> /\ loop'[c].pc = "holding"
          /\ loop'[c].next = waiting[c][1] /\ waiting' = [waiting EXCEPT ![c] = Tail(@)]
          /\ UNCHANGED <<stream, current, subs>>
      BY <1>0, <1>10 DEF Take, At, LoopType
    <2>2. /\ waiting'[c] = Tail(waiting[c]) /\ Len(waiting'[c]) = Len(waiting[c]) - 1
          /\ Len(waiting[c]) \in Nat \ {0}
          /\ \A i \in 1 .. Len(waiting[c]) - 1 : waiting'[c][i] = waiting[c][i + 1]
      BY <1>0, <2>1, HeadTailProperties, EmptySeq
    <2>3. Upto(c)' = Upto(c) + 1
      BY <1>0, <1>1, <2>2 DEF Upto
    <2>4. \A i \in 1 .. Len(waiting[c]) : waiting[c][i] = Upto(c) + i
      BY <2>1 DEF Queued
    <2>5. waiting[c][1] = Upto(c) + 1
      BY <2>2, <2>4
    <2>6. \A i \in 1 .. Len(waiting'[c]) : waiting'[c][i] = Upto(c)' + i
      <3> TAKE i \in 1 .. Len(waiting'[c])
      <3>1. i \in 1 .. Len(waiting[c]) - 1 /\ i + 1 \in 1 .. Len(waiting[c]) /\ i \in Nat
        BY <2>2
      <3> QED
        BY <1>0, <2>2, <2>3, <2>4, <3>1
    <2>7. c \in subs /\ Upto(c) <= current[c]
      BY <2>1 DEF Queued
    <2>8. loop'[c].next = Upto(c)' /\ loop'[c].next <= current[c] + 1
      BY <1>0, <2>1, <2>3, <2>5, <2>7
    <2> QED
      BY <1>a, <2>1, <2>6, <2>7, <2>8 DEF Queued
  <1>11. CASE Show(c)
    <2>1. loop[c].pc = "holding" /\ loop[c].into = c /\ UNCHANGED <<waiting, subs>>
          /\ loop'[c].pc = "live"
      BY <1>0, <1>11, <1>b DEF Show, At, Busy
    <2>2. /\ Offer(c, loop[c].next) /\ current' = [current EXCEPT ![c] = loop[c].next]
      BY <1>11, <2>1 DEF Show, Push
    <2>3. /\ Upto(c) = loop[c].next /\ loop[c].next <= current[c] + 1
          /\ current'[c] = loop[c].next /\ loop[c].next # 0
      BY <1>0, <2>1, <2>2 DEF Queued, Joined
    <2>4. Streamed(c)'
      BY <1>0, <1>1, <1>2, <2>1, <2>2, <2>3, StreamedOffer
    <2> QED
      BY <1>0, <1>c, <2>1, <2>3, <2>4 DEF Queued
  <1>12. CASE Quit(c)
    <2>1. loop'[c].pc = "leaving" /\ UNCHANGED <<stream, current>>
      BY <1>12, <1>b DEF Quit
    <2> QED
      BY <1>a, <2>1 DEF Queued
  <1>13. CASE Unsubscribe(c)
    <2>1. loop'[c].pc = "over" /\ UNCHANGED <<stream, current>>
      BY <1>0, <1>13 DEF Unsubscribe
    <2> QED
      BY <1>a, <2>1 DEF Queued
  <1> QED
    BY <1>3, <1>4, <1>5, <1>6, <1>7, <1>8, <1>9, <1>10, <1>11, <1>12, <1>13 DEF StreamLoop, Start

\* A loop of another call.
LEMMA FollowedOther ==
  ASSUME TypeOK, Joined, NEW c \in Alone, Streamed(c), Queued(c),
         NEW d \in Call, d # c, StreamLoop(d)
  PROVE  Streamed(c)' /\ Queued(c)'
  <1>0. /\ c \in Call /\ loop[d].into # c /\ loop \in [Call -> LoopType] /\ subs \subseteq Call
        /\ waiting \in [Call -> Seq(Nat)] /\ current \in [Call -> 0 .. n]
        /\ stream \in [Call -> Seq(Nat)]
    BY AloneByItself DEF Joined, TypeOK, LoopType
  <1>1. UNCHANGED <<n, sending, seen, rpc, closed>>
    BY DEF StreamLoop, Start, Find, GetLiveRecorder, Subscribe, Count, GetSegment, Play, Played,
           Take, Show, Quit, Unsubscribe, quiet, recorder, calls, sessions
  <1>2. \A e, i : Offer(e, i) /\ e # c => stream'[c] = stream[c]
    BY <1>0 DEF Offer
  <1>3. \A i : Push(d, i) => stream'[c] = stream[c] /\ current'[c] = current[c]
    BY <1>0, <1>2 DEF Push
  <1>4. stream'[c] = stream[c] /\ current'[c] = current[c]
    <2>1. CASE Play(d) \/ Show(d)
      BY <1>3, <2>1 DEF Play, Show
    <2>2. CASE Count(d)
      BY <1>0, <1>2, <2>2 DEF Count
    <2> QED
      BY <2>1, <2>2 DEF StreamLoop, Start, Find, GetLiveRecorder, Subscribe, GetSegment, Played,
                        Take, Quit, Unsubscribe
  <1>5. loop'[c] = loop[c]
    BY <1>0 DEF StreamLoop, Start, Find, GetLiveRecorder, Subscribe, Count, GetSegment, Play, Played,
                Take, Show, Quit, Unsubscribe, Goto
  <1>6. waiting'[c] = waiting[c] /\ (c \in subs' <=> c \in subs)
    BY <1>0 DEF StreamLoop, Start, Find, GetLiveRecorder, Subscribe, Count, GetSegment, Play, Played,
                Take, Show, Quit, Unsubscribe
  <1> QED
    BY <1>1, <1>4, <1>5, <1>6, StreamedKept, QueuedKept

\* Every step keeps Followed.
LEMMA FollowedNext == IInv /\ Followed /\ [Next]_vars => Followed'
  <1> SUFFICES ASSUME TypeOK, Inv, Joined, Followed, [Next]_vars, NEW c \in Alone, c \notin lost'
               PROVE  Streamed(c)' /\ Queued(c)'
    BY DEF IInv, Inv, Followed
  <1>0. /\ c \in Call /\ loop \in [Call -> LoopType] /\ Who[c] \in Spectator
        /\ stream \in [Call -> Seq(Nat)] /\ seen \in [Call -> Seq(Nat)]
        /\ waiting \in [Call -> Seq(Nat)] /\ current \in [Call -> 0 .. n] /\ n \in Nat
        /\ rpc \in [Call -> {"idle", "joining", "open", "done"}]
    BY AloneByItself, NumberType DEF Joined, TypeOK, LoopType
  <1>1. c \notin lost
    BY DEF Next, Record, SendAction, Age, MarkFinished, UnregisterLiveGame, Arrive, Handler,
           JoinSpectator, Forward, Return, GoAway, Evict, Chat, StreamLoop, Start, Find,
           GetLiveRecorder, Subscribe, Count, GetSegment, Play, Played, Take, Show, Quit,
           Unsubscribe, Push, Offer, Lost, vars
  <1>2. Streamed(c) /\ Queued(c)
    BY <1>1 DEF Followed
  <1>3. CASE Record
    <2>1. Streamed(c)'
      BY <1>2, <1>3, StreamedKept DEF Record, calls, sessions
    <2> QED
      BY <1>2, <1>3, <2>1, QueuedRecord
  <1>4. CASE Age \/ MarkFinished \/ UnregisterLiveGame \/ UNCHANGED vars
    <2>1. UNCHANGED <<n, sending, seen, stream, rpc, current, closed, loop, waiting, subs>>
      BY <1>4 DEF Age, MarkFinished, UnregisterLiveGame, vars, recorder, calls, sessions, loops
    <2> QED
      BY <1>2, <2>1, StreamedKept, QueuedKept
  <1>5. ASSUME NEW d \in Call, SendAction(d) PROVE Streamed(c)' /\ Queued(c)'
    <2>1. /\ UNCHANGED <<n, seen, stream, rpc, current, closed, loop, subs>>
          /\ sending' = sending \ {d}
      BY <1>5 DEF SendAction, calls, sessions
    <2>2. d # c => waiting'[c] = waiting[c]
      BY <1>0, <1>5 DEF SendAction
    <2> QED
      BY <1>2, <1>5, <2>1, <2>2, StreamedKept, QueuedKept, QueuedSend
  <1>6. ASSUME NEW d \in Call, Arrive(d) PROVE Streamed(c)' /\ Queued(c)'
    <2>1. /\ UNCHANGED <<n, sending, seen, stream, current, closed, loop, waiting, subs>>
          /\ rpc[d] = "idle" /\ (d # c => rpc'[c] = rpc[c]) /\ rpc'[d] # "open"
      BY <1>0, <1>6 DEF Arrive, recorder, sessions, loops
    <2>2. Queued(c)'
      BY <1>2, <2>1, QueuedKept
    <2>3. d = c => seen[c] = <<>>
      BY <2>1 DEF Joined, Entered
    <2>4. CASE d = c
      BY <1>2, <2>1, <2>2, <2>3, <2>4 DEF Streamed
    <2> QED
      BY <1>2, <2>1, <2>2, <2>4, StreamedKept
  <1>7. ASSUME NEW d \in Call, JoinSpectator(d) PROVE Streamed(c)' /\ Queued(c)'
    <2> DEFINE start == IF live THEN aged ELSE 0
    <2>1. /\ rpc[d] = "joining" /\ rpc' = [rpc EXCEPT ![d] = "open"]
          /\ current' = [current EXCEPT ![d] = start] /\ Shown(d, start)
          /\ loop' = [loop EXCEPT ![d].pc = "begin"]
          /\ UNCHANGED <<n, sending, closed, stream, waiting, subs>>
      BY <1>7 DEF JoinSpectator, recorder
    <2>2. start \in Nat /\ start \in 0 .. n
      BY <1>0, NumberType
    <2> HIDE DEF start
    <2>3. CASE d # c
      <3>1. rpc'[c] = rpc[c] /\ current'[c] = current[c] /\ loop'[c] = loop[c] /\ seen'[c] = seen[c]
        BY <1>0, <2>1, <2>3 DEF Shown
      <3> QED
        BY <1>2, <2>1, <3>1, StreamedKept, QueuedKept
    <2>4. CASE d = c
      <3>1. stream[c] = <<>> /\ seen[c] = <<>> /\ loop[c].pc = "none"
        BY <2>1, <2>4 DEF Joined, Entered
      <3>2. seen'[c] = Append(<<>>, start) /\ current'[c] = start /\ loop'[c].pc = "begin"
        BY <1>0, <2>1, <2>2, <2>4, <3>1 DEF Shown, LoopType
      <3>3. Len(seen'[c]) = 1 /\ seen'[c][1] = start
        BY <3>2
      <3>4. Shows(start, stream'[c], start)
        BY <2>1, <2>2, <3>1, ShowsNothing
      <3>5. Streamed(c)'
        BY <2>2, <3>2, <3>3, <3>4 DEF Streamed
      <3>6. Queued(c)'
        BY <1>2, <2>1, <3>1, <3>2 DEF Queued
      <3> QED
        BY <3>5, <3>6
    <2> QED
      BY <2>3, <2>4
  <1>8. ASSUME NEW d \in Call, Forward(d) PROVE Streamed(c)' /\ Queued(c)'
    <2>1. UNCHANGED <<n, sending, rpc, current, closed, loop, waiting, subs>>
      BY <1>8 DEF Forward, recorder, calls, sessions, loops
    <2>2. d # c => seen'[c] = seen[c] /\ stream'[c] = stream[c]
      BY <1>0, <1>8 DEF Forward, Shown
    <2>3. Queued(c)'
      BY <1>2, <2>1, QueuedKept
    <2>4. CASE d = c
      BY <1>2, <1>8, <2>3, <2>4, StreamedForward
    <2> QED
      BY <1>2, <2>1, <2>2, <2>3, <2>4, StreamedKept
  <1>9. ASSUME NEW d \in Call, GoAway(d) PROVE Streamed(c)' /\ Queued(c)'
    <2>1. UNCHANGED <<n, sending, seen, stream, rpc, current, closed, loop, waiting, subs>>
      BY <1>9 DEF GoAway, recorder, sessions, loops
    <2> QED
      BY <1>2, <2>1, StreamedKept, QueuedKept
  <1>10. ASSUME NEW d \in Call, Return(d) PROVE Streamed(c)' /\ Queued(c)'
    <2>1. /\ UNCHANGED <<n, sending, seen, current, loop, waiting, subs>> /\ closed \subseteq closed'
          /\ rpc' = [rpc EXCEPT ![d] = "done"] /\ stream' = [stream EXCEPT ![d] = <<>>]
      BY <1>10 DEF Return, LeaveSpectator, recorder, loops, sessions
    <2>2. Queued(c)'
      BY <1>2, <2>1, QueuedKept
    <2>3. CASE d # c
      BY <1>0, <1>2, <2>1, <2>2, <2>3, StreamedKept
    <2>4. CASE d = c
      <3>1. rpc'[c] = "done" /\ stream'[c] = <<>>
        BY <1>0, <2>1, <2>4
      <3>2. seen[c] # <<>> => seen[c][Len(seen[c])] \in Nat
        BY <1>0, EmptySeq, ElementOfSeq
      <3>3. seen[c] # <<>> => Shows(seen[c][Len(seen[c])], <<>>, seen[c][Len(seen[c])])
        BY <3>2, ShowsNothing
      <3> QED
        BY <1>2, <2>1, <2>2, <3>1, <3>2, <3>3 DEF Streamed
    <2> QED
      BY <2>3, <2>4
  <1>11. CASE Chat
    <2>1. /\ UNCHANGED <<n, sending, seen, rpc, current, closed, loop, waiting, subs>>
          /\ stream' = [d \in Call |-> IF d \in Registered \ closed /\ Len(stream[d]) < StreamCap
                                       THEN Append(stream[d], 0) ELSE stream[d]]
      BY <1>11 DEF Chat, recorder, calls, sessions, loops
    <2>2. Queued(c)'
      BY <1>2, <2>1, QueuedKept
    <2>3. CASE stream'[c] = stream[c]
      BY <1>2, <2>1, <2>2, <2>3, StreamedKept
    <2>4. CASE stream'[c] = Append(stream[c], 0)
      <3>1. ASSUME NEW x \in Nat, NEW y \in Nat, Shows(x, stream[c], y)
            PROVE  Shows(x, Append(stream[c], 0), y)
        BY <1>0, <3>1, ShowsMore
      <3>2. seen[c] # <<>> => seen[c][Len(seen[c])] \in Nat
        BY <1>0, EmptySeq, ElementOfSeq
      <3> QED
        BY <1>2, <2>1, <2>2, <2>4, <3>1, <3>2 DEF Streamed
    <2> QED
      BY <1>0, <2>1, <2>3, <2>4
  <1>12. ASSUME NEW s \in Spectator, Evict(s) PROVE Streamed(c)' /\ Queued(c)'
    <2>1. /\ UNCHANGED <<n, sending, seen, stream, rpc, current, loop, waiting, subs>>
          /\ closed \subseteq closed'
      BY <1>12 DEF Evict, recorder, calls, loops
    <2> QED
      BY <1>2, <2>1, StreamedKept, QueuedKept
  <1>13. ASSUME NEW d \in Call, StreamLoop(d) PROVE Streamed(c)' /\ Queued(c)'
    BY <1>2, <1>13, FollowedLoop, FollowedOther
  <1> QED
    BY <1>3, <1>4, <1>5, <1>6, <1>7, <1>8, <1>9, <1>10, <1>11, <1>12, <1>13 DEF Next, Handler

\* Whoever joins under an id of its own is shown all actions from then on, in
\* order, though playback and live stream overlap, until a channel is full.
THEOREM NothingSkipped == Spec => []NoSkip
  <1>1. Init => Followed
    <2> SUFFICES ASSUME Init, NEW c \in Alone PROVE Streamed(c) /\ Queued(c)
      BY DEF Followed
    <2>1. c \in Call /\ Len(<<>>) = 0
      BY DEF Alone
    <2>2. /\ seen[c] = <<>> /\ rpc[c] = "idle" /\ loop[c].pc = "none" /\ subs = {} /\ sending = {}
          /\ waiting[c] = <<>>
      BY <2>1 DEF Init
    <2> QED
      BY <2>1, <2>2 DEF Streamed, Queued
  <1>2. Followed => NoSkip
    BY DEF Followed, Streamed, NoSkip
  <1> QED
    BY <1>1, <1>2, FollowedNext, Invariance, PTL DEF Spec
=============================================================================
