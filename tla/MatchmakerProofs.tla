-------------------------- MODULE MatchmakerProofs --------------------------
(***************************************************************************)
(* Proofs about Matchmaker: its invariants hold for any calls, players and *)
(* game types, and for patient players it implements Pairing.              *)
(***************************************************************************)
EXTENDS QueueProofs

Called == {c \in Call : at[c] # "idle"}

\* Entries, channels, matches and answers are of calls that were made, and a
\* call is in at most one place at a time.
Counted ==
  /\ Queued \subseteq Called /\ closed \subseteq Called
  /\ \A i \in DOMAIN made : Sides(made[i]) \subseteq Called
  /\ \A c \in answered : With(made, c) # {}
  /\ Len(made) + Cardinality(Queued) <= Cardinality(Called)
  /\ \A c \in Call :
       Cardinality(With(made, c)) + Cardinality(Of(Queued, Caller[c]))
         <= Cardinality(Of(Called, Caller[c]))

\* How far startGame is tells whether the match is stored and paid.
Kept ==
  /\ \A i \in DOMAIN made :
       /\ made[i].stage \in {"starting", "started"} =>
            made[i].told = 0 /\ i \notin matches /\ paid[i] = 0
       /\ made[i].stage = "stored" => paid[i] = IF i \in matches THEN 0 ELSE 1
       /\ made[i].stage = "failed" => i \notin matches /\ paid[i] = 0
       /\ made[i].told = 1 => made[i].two \in Call
       /\ made[i].one # made[i].two
  /\ \A i \in MatchId \ DOMAIN made : paid[i] = 0

\* A patient player has one call at a time, which is queued, or cancelled, or
\* in one match.
Active(c) == at[c] \in {"joining", "open"}
OneAtATime ==
  \A c, d \in PatientCalls : Caller[c] = Caller[d] /\ Active(c) /\ Active(d) => c = d
Apart ==
  \A c \in PatientCalls :
    /\ c \in Queued => Active(c) /\ With(made, c) = {}
    /\ c \in closed => at[c] \in {"open", "done"} /\ With(made, c) = {}
    /\ \A i, j \in With(made, c) : i = j

IInv == Inv /\ Counted /\ Kept /\ OneAtATime /\ Apart /\ OnlyHastyKill
-----------------------------------------------------------------------------
(* What the operations make of the queues and the matches. *)

Match == [one : Call, two : Call \cup {AI},
          stage : {"starting", "started", "stored", "failed"}, told : 0 .. 2]

\* The queues, with their entries on their own game type's.
Sorted(q) ==
  /\ q \in [GameType -> Line]
  /\ \A t \in GameType : \A c \in ToSet(q[t]) : Kind[c] = t

\* The queues hold finitely many calls, each in the queue of its game type.
LEMMA QueueIsSorted ==
  ASSUME Inv
  PROVE  Sorted(queue) /\ Queued \in SUBSET Call /\ IsFiniteSet(Queued)
  <1>1. \A t \in GameType : queue[t] \in Seq(Call) /\ queue[t] \in Line
    BY DEF Inv, TypeOK, QueuedAreOpen, Line
  <1>2. queue \in [GameType -> Line]
    BY <1>1 DEF Inv, TypeOK
  <1>3. Queued \in SUBSET Call
    BY <1>1, LineIsSet DEF Queued
  <1> QED
    BY <1>2, <1>3, CallsFinite DEF Sorted, Inv, TypeOK

\* The next queues, from what is known of them.
LEMMA SortedNext ==
  ASSUME Sorted(queue')
  PROVE  /\ queue' \in [GameType -> Seq(Call)]
         /\ \A t \in GameType : \A c \in ToSet(queue'[t]) : Kind[c] = t
         /\ \A t \in GameType : IsInjective(queue'[t])
  <1>1. \A t \in GameType : queue'[t] \in Seq(Call) /\ IsInjective(queue'[t])
    BY DEF Sorted, Line
  <1> QED
    BY <1>1 DEF Sorted

\* Enqueue adds an entry to the queue of its type.
LEMMA Enqueued ==
  ASSUME IInv, NEW c \in Call, Enqueue(c)
  PROVE  /\ Sorted(queue') /\ c \notin Queued /\ c \notin Called
         /\ Queued' = Queued \cup {c}
  <1> DEFINE t == Kind[c]
  <1>1. t \in GameType
    BY MatchmakerAssumption
  <1>2. c \notin Called /\ c \notin Queued
    BY DEF Enqueue, Called, IInv, Counted
  <1>3. Sorted(queue)
    BY QueueIsSorted DEF IInv
  <1>4. c \in Call \ ToSet(queue[t]) /\ queue[t] \in Line
    BY <1>1, <1>2, <1>3 DEF Queued, Sorted
  <1>5. /\ Append(queue[t], c) \in Line
        /\ ToSet(Append(queue[t], c)) = ToSet(queue[t]) \cup {c}
    BY <1>4, AppendToLine
  <1>6. queue' = [queue EXCEPT ![t] = Append(queue[t], c)]
    BY DEF Enqueue
  <1>7. queue' \in [GameType -> Line]
    BY <1>1, <1>3, <1>5, <1>6 DEF Sorted
  <1>8. \A u \in GameType : ToSet(queue'[u]) = ToSet(queue[u]) \cup (IF u = t THEN {c} ELSE {})
    BY <1>1, <1>3, <1>5, <1>6 DEF Sorted
  <1>9. Sorted(queue')
    BY <1>3, <1>7, <1>8 DEF Sorted
  <1>10. Queued' = Queued \cup {c}
    BY <1>1, <1>8 DEF Queued
  <1> QED
    BY <1>2, <1>9, <1>10

\* CancelMatch takes out one entry of the player, if there is one.
Cancels(p) ==
  \/ Of(Queued, p) = {} /\ UNCHANGED <<queue, age, closed>>
  \/ \E c \in Queued :
       /\ Caller[c] = p /\ closed' = closed \cup {c} /\ Queued' = Queued \ {c}
       /\ Sorted(queue') /\ age' = [age EXCEPT ![c] = 0]

\* CancelMatch removes at most one call, of that player.
LEMMA Cancelled ==
  ASSUME Inv, NEW p, CancelMatch(p)
  PROVE  Cancels(p)
  <1>1. Sorted(queue) /\ Queued \in SUBSET Call
    BY QueueIsSorted
  <1>2. CASE /\ \A c \in Queued : Caller[c] # p
             /\ UNCHANGED <<queue, age, closed>>
    BY <1>2 DEF Cancels, Of
  <1>3. ASSUME NEW t \in GameType, First(queue[t], p) # 0,
               queue' = [queue EXCEPT ![t] = RemoveFromQueue(@, p)],
               closed' = closed \cup ToClose(queue[t][First(queue[t], p)]),
               age' = [age EXCEPT ![queue[t][First(queue[t], p)]] = 0]
        PROVE  Cancels(p)
    <2> DEFINE q == queue[t]
               k == First(q, p)
               c == q[k]
    <2>1. q \in Line /\ q \in Seq(Call)
      BY <1>1 DEF Sorted, Line
    <2>2. k \in DOMAIN q /\ Caller[c] = p
      BY <1>3, <2>1, FirstFound
    <2>3. RemoveAt(q, k) \in Line /\ ToSet(RemoveAt(q, k)) = ToSet(q) \ {c}
      <3> HIDE DEF k, q
      <3> QED
        BY <2>1, <2>2, RemoveAtSet
    <2>4. RemoveFromQueue(q, p) = RemoveAt(q, k)
      BY <1>3 DEF RemoveFromQueue
    <2>5. c \in ToSet(q) /\ Kind[c] = t
      BY <1>1, <2>2 DEF ToSet, Sorted
    <2>6. \A u \in GameType : queue'[u] = IF u = t THEN RemoveAt(q, k) ELSE queue[u]
      BY <1>1, <1>3, <2>4 DEF Sorted
    <2>7. queue' \in [GameType -> Line]
      BY <1>1, <1>3, <2>3, <2>4 DEF Sorted
    <2>8. \A u \in GameType : ToSet(queue'[u]) = ToSet(queue[u]) \ {c}
      <3> SUFFICES ASSUME NEW u \in GameType, u # t PROVE c \notin ToSet(queue[u])
        BY <2>3, <2>6
      <3> QED
        BY <1>1, <2>5 DEF Sorted
    <2>9. Sorted(queue')
      BY <1>1, <2>7, <2>8 DEF Sorted
    <2>10. Queued' = Queued \ {c} /\ c \in Queued
      BY <2>5, <2>8 DEF Queued
    <2>11. closed' = closed \cup {c} /\ age' = [age EXCEPT ![c] = 0]
      BY <1>3 DEF ToClose
    <2> HIDE DEF c
    <2> QED
      BY <2>2, <2>9, <2>10, <2>11 DEF Cancels
  <1> QED
    BY <1>2, <1>3 DEF CancelMatch

\* A round of tryMatch sends to open channels only.
LEMMA Tried ==
  ASSUME Inv, TryMatch
  PROVE  /\ Sorted(queue') /\ Round(Queued, AllNew, Queued')
         /\ made' = made \o AllNew /\ panic' = NoCall
  <1>1. Sorted(queue) /\ Queued \in SUBSET Call
    BY QueueIsSorted
  <1>2. \A t \in GameType : queue[t] \in Line
    BY <1>1 DEF Sorted
  <1>3. queue' = [t \in GameType |-> Waiting(queue[t])] /\ made' = made \o AllNew
    BY DEF TryMatch
  <1>4. \A t \in GameType :
          Waiting(queue[t]) \in Line /\ ToSet(Waiting(queue[t])) \subseteq ToSet(queue[t])
    BY <1>2, RoundMade DEF Round
  <1>5. Sorted(queue')
    BY <1>1, <1>3, <1>4 DEF Sorted
  <1>6. Queued' = UNION {ToSet(Waiting(queue[t])) : t \in GameType}
    BY <1>3 DEF Queued
  <1>7. /\ queue \in [GameType -> Seq(Call)]
        /\ \A t \in GameType : /\ IsInjective(queue[t])
                               /\ \A c \in ToSet(queue[t]) : Kind[c] = t
    BY DEF Inv, TypeOK, QueuedAreOpen
  <1>8. Round(Queued, AllNew, Queued')
    BY <1>6, <1>7, RoundOfAll
  <1>9. (UNION {Sides(AllNew[i]) : i \in DOMAIN AllNew}) \cap closed = {}
    BY <1>8 DEF Round, Inv, QueuedAreOpen
  <1>10. panic' = NoCall
    BY <1>9 DEF TryMatch, Hit
  <1> QED
    BY <1>3, <1>5, <1>8, <1>10

\* startGame changes the progress of a match and not its sides.
SameSides ==
  /\ DOMAIN made' = DOMAIN made /\ Len(made') = Len(made) /\ made' \in Seq(Match)
  /\ \A i \in DOMAIN made : made'[i].one = made[i].one /\ made'[i].two = made[i].two

\* The matches made are a sequence of matches, no more than there are calls.
LEMMA MadeIsSeq ==
  ASSUME Inv
  PROVE  /\ made \in Seq(Match) /\ DOMAIN made = 1 .. Len(made) /\ Len(made) \in Nat
         /\ \A i \in DOMAIN made : made[i] \in Match
         /\ Len(made) <= Cardinality(Call) /\ Cardinality(Call) \in Nat
         /\ DOMAIN made \subseteq MatchId
  <1>1. made \in Seq(Match) /\ Len(made) <= Cardinality(Call)
    BY DEF Inv, TypeOK, Match
  <1>2. Cardinality(Call) \in Nat
    BY CallsFinite
  <1> HIDE DEF Match
  <1>3. \A i \in DOMAIN made : made[i] \in Match
    BY <1>1
  <1> QED
    BY <1>1, <1>2, <1>3 DEF MatchId

\* A match that changes keeps its sides.
LEMMA OneChanged ==
  ASSUME Inv, NEW i \in DOMAIN made, NEW m \in Match,
         m.one = made[i].one, m.two = made[i].two, made' = [made EXCEPT ![i] = m]
  PROVE  SameSides
  <1>1. /\ made \in Seq(Match) /\ DOMAIN made = 1 .. Len(made) /\ Len(made) \in Nat
    BY MadeIsSeq
  <1> HIDE DEF Match
  <1>2. DOMAIN made' = DOMAIN made /\ made' \in [1 .. Len(made) -> Match]
    BY <1>1
  <1>3. made' \in Seq(Match) /\ Len(made') = Len(made)
    BY <1>1, <1>2
  <1>4. \A j \in DOMAIN made : made'[j] = IF j = i THEN m ELSE made[j]
    BY <1>1
  <1> QED
    BY <1>2, <1>3, <1>4 DEF SameSides

\* StartGame settles one starting match and leaves the others alone.
LEMMA StartGameFacts ==
  ASSUME Inv, NEW i, StartGame(i)
  PROVE  /\ SameSides /\ i \in DOMAIN made /\ made[i].stage = "starting"
         /\ \E s \in {"started", "failed"} :
              made' = [made EXCEPT ![i].stage = s]
         /\ \A j \in DOMAIN made :
              /\ made'[j].told = made[j].told
              /\ j # i => made'[j] = made[j]
         /\ made'[i].stage \in {"started", "failed"}
  <1>1. PICK s \in {"started", "failed"} : made' = [made EXCEPT ![i].stage = s]
    BY DEF StartGame
  <1>2. i \in DOMAIN made /\ made[i].stage = "starting"
    BY DEF StartGame
  <1> DEFINE m == [made[i] EXCEPT !.stage = s]
  <1>3. made[i] \in Match
    BY <1>2, MadeIsSeq
  <1>4. m \in Match /\ m.one = made[i].one /\ m.two = made[i].two /\ m.told = made[i].told
        /\ m.stage = s
    BY <1>3 DEF Match
  <1>5. made' = [made EXCEPT ![i] = m]
    BY <1>1
  <1>6. \A j \in DOMAIN made : made'[j] = IF j = i THEN m ELSE made[j]
    BY <1>2, <1>5, MadeIsSeq
  <1> HIDE DEF m
  <1> QED
    BY <1>1, <1>2, <1>4, <1>5, <1>6, OneChanged

\* StoreMatch stores one started match and leaves the others alone.
LEMMA StoreMatchFacts ==
  ASSUME Inv, NEW i, StoreMatch(i)
  PROVE  /\ SameSides /\ i \in DOMAIN made /\ made[i].stage = "started"
         /\ \A j \in DOMAIN made :
              /\ made'[j].told = made[j].told
              /\ j # i => made'[j] = made[j]
         /\ made'[i].stage = "stored"
  <1>1. made' = [made EXCEPT ![i].stage = "stored"]
    BY DEF StoreMatch
  <1>2. i \in DOMAIN made /\ made[i].stage = "started"
    BY DEF StoreMatch
  <1> DEFINE m == [made[i] EXCEPT !.stage = "stored"]
  <1>3. made[i] \in Match
    BY <1>2, MadeIsSeq
  <1>4. m \in Match /\ m.one = made[i].one /\ m.two = made[i].two /\ m.told = made[i].told
        /\ m.stage = "stored"
    BY <1>3 DEF Match
  <1>5. made' = [made EXCEPT ![i] = m]
    BY <1>1
  <1>6. \A j \in DOMAIN made : made'[j] = IF j = i THEN m ELSE made[j]
    BY <1>2, <1>5, MadeIsSeq
  <1> HIDE DEF m
  <1> QED
    BY <1>1, <1>2, <1>4, <1>5, <1>6, OneChanged

\* The side told is a call.
LEMMA TellFacts ==
  ASSUME Inv, Kept, NEW i, Tell(i)
  PROVE  /\ SameSides /\ i \in DOMAIN made /\ made[i].stage \in {"stored", "failed"}
         /\ \A j \in DOMAIN made :
              /\ made'[j].stage = made[j].stage
              /\ j # i => made'[j] = made[j]
         /\ made'[i].told = 1 => made[i].two # AI
         /\ \E c \in Sides(made[i]) : answered' = answered \cup {c} /\ Send(c)
  <1>1. i \in DOMAIN made /\ made[i].stage \in {"stored", "failed"} /\ made[i].told < 2
    BY DEF Tell, Telling
  <1> DEFINE t == IF made[i].two = AI THEN 2 ELSE made[i].told + 1
             m == [made[i] EXCEPT !.told = t]
             side == IF made[i].told = 0 THEN made[i].one ELSE made[i].two
  <1>2. made' = [made EXCEPT ![i].told = t] /\ answered' = answered \cup {side} /\ Send(side)
    BY DEF Tell
  <1>3. made[i] \in Match
    BY <1>1, MadeIsSeq
  <1>4. t \in 0 .. 2 /\ (t = 1 => made[i].two # AI)
    BY <1>1, <1>3 DEF Match
  <1>5. m \in Match /\ m.one = made[i].one /\ m.two = made[i].two /\ m.told = t
        /\ m.stage = made[i].stage
    BY <1>3, <1>4 DEF Match
  <1>6. made' = [made EXCEPT ![i] = m]
    BY <1>2
  <1>7. \A j \in DOMAIN made : made'[j] = IF j = i THEN m ELSE made[j]
    BY <1>1, <1>6, MadeIsSeq
  <1>8. side \in Sides(made[i])
    <2>1. made[i].told = 1 => made[i].two \in Call
      BY <1>1 DEF Kept
    <2>2. made[i].one \in Call /\ made[i].told \in 0 .. 2
      BY <1>3 DEF Match
    <2> QED
      BY <1>1, <2>1, <2>2 DEF Sides
  <1> HIDE DEF m, t, side
  <1> QED
    BY <1>1, <1>2, <1>4, <1>5, <1>6, <1>7, <1>8, OneChanged

\* Matches that keep their sides concern the same calls.
LEMMA SidesSame ==
  ASSUME Inv, SameSides
  PROVE  /\ \A i \in DOMAIN made : Sides(made'[i]) = Sides(made[i])
         /\ \A c : With(made', c) = With(made, c)
  BY DEF SameSides, Sides, With

-----------------------------------------------------------------------------
(* Inv is preserved. *)

\* The rest of the type invariant, for the operations that leave made alone.
LEMMA TypeOfQueue ==
  ASSUME IInv, [Next]_vars, Sorted(queue'), at' \in [Call -> {"idle", "joining", "open", "done"}],
         closed' \subseteq Call, age' \in [Call -> 0 .. MaxAge],
         panic' \in Call \cup {NoCall}, stopped' \in BOOLEAN,
         UNCHANGED <<answered, made, matches, paid>>
  PROVE  TypeOK'
  <1>1. /\ queue' \in [GameType -> Seq(Call)]
        /\ \A t \in GameType : \A c \in ToSet(queue'[t]) : Kind[c] = t
    BY SortedNext
  <1> QED
    BY <1>1 DEF IInv, Inv, TypeOK

\* The types, when only matches and answers change.
LEMMA TypeOfMade ==
  ASSUME IInv, made' \in Seq(Match), Len(made') <= Cardinality(Call),
         UNCHANGED <<at, queue, age, closed, stopped>>,
         answered' \subseteq Call, panic' \in Call \cup {NoCall},
         matches' \subseteq DOMAIN made', paid' \in [MatchId -> Nat]
  PROVE  TypeOK'
  BY DEF IInv, Inv, TypeOK, Match, MatchId

\* Every step keeps the types.
LEMMA TypeStep ==
  ASSUME IInv, [Next]_vars
  PROVE  TypeOK'
  <1> Inv /\ TypeOK
    BY DEF IInv, Inv
  <1> USE MatchmakerAssumption
  <1>0. Sorted(queue) /\ Queued \in SUBSET Call
    BY QueueIsSorted
  <1>1. ASSUME NEW c \in Call, Enqueue(c) PROVE TypeOK'
    <2>1. Sorted(queue')
      BY <1>1, Enqueued
    <2> QED
      BY <1>1, <2>1, TypeOfQueue DEF Enqueue, TypeOK, channels, records
  <1>2. ASSUME NEW c \in Call, SendInQueue(c) PROVE TypeOK'
    BY <1>0, <1>2, TypeOfQueue DEF SendInQueue, Send, TypeOK, channels, records, Sorted
  <1>3. ASSUME NEW c \in Call, Finish(c) PROVE TypeOK'
    BY <1>0, <1>3, TypeOfQueue DEF Finish, TypeOK, channels, records, Sorted
  <1>4. ASSUME NEW p, CancelMatch(p), at' \in [Call -> {"idle", "joining", "open", "done"}],
               UNCHANGED <<answered, made, records, panic, stopped>>
        PROVE TypeOK'
    <2>1. Cancels(p)
      BY <1>4, Cancelled
    <2>2. CASE UNCHANGED <<queue, age, closed>>
      BY <1>0, <1>4, <2>2, TypeOfQueue DEF Sorted, TypeOK, records
    <2>3. ASSUME NEW c \in Queued, closed' = closed \cup {c}, Sorted(queue'),
                 age' = [age EXCEPT ![c] = 0]
          PROVE TypeOK'
      <3>1. 0 \in 0 .. MaxAge
        OBVIOUS
      <3>2. closed' \subseteq Call /\ age' \in [Call -> 0 .. MaxAge]
        BY <1>0, <2>3, <3>1 DEF TypeOK
      <3>3. panic' \in Call \cup {NoCall} /\ stopped' \in BOOLEAN
        BY <1>4 DEF TypeOK
      <3> QED
        BY <1>4, <2>3, <3>2, <3>3, TypeOfQueue DEF records
    <2> QED
      BY <2>1, <2>2, <2>3 DEF Cancels
  <1>5. ASSUME NEW c \in Call, GiveUp(c) PROVE TypeOK'
    BY <1>4, <1>5, SMTT(30) DEF GiveUp, TypeOK
  <1>6. ASSUME NEW p \in Player, Cancel(p) PROVE TypeOK'
    BY <1>4, <1>6 DEF Cancel, TypeOK
  <1>7. CASE TryMatch
    <2>1. /\ Sorted(queue') /\ Round(Queued, AllNew, Queued')
          /\ made' = made \o AllNew /\ panic' = NoCall
      BY <1>7, Tried
    <2>2. /\ AllNew \in Seq(Fresh)
          /\ Len(AllNew) + Cardinality(Queued') <= Cardinality(Queued)
          /\ Queued' \subseteq Queued
      BY <2>1 DEF Round
    <2>3. AllNew \in Seq(Match) /\ made \in Seq(Match) /\ Len(made) \in Nat
      <3>1. Fresh \subseteq Match
        BY DEF Fresh, Match
      <3> HIDE DEF Fresh, Match
      <3>2. \A i \in DOMAIN AllNew : AllNew[i] \in Match
        BY <2>2, <3>1
      <3> QED
        BY <2>2, <3>2, MadeIsSeq
    <2>4. /\ made' \in Seq(Match) /\ Len(made') = Len(made) + Len(AllNew)
          /\ DOMAIN made \subseteq DOMAIN made'
      BY <2>1, <2>3, WithConcat
    <2>5. Len(made') <= Cardinality(Call)
      <3>1. Queued' \in SUBSET Call /\ Called \in SUBSET Call
        BY <1>0, <2>2 DEF Called
      <3>2. /\ Cardinality(Called) <= Cardinality(Call)
            /\ Cardinality(Queued) \in Nat /\ Cardinality(Queued') \in Nat
            /\ Cardinality(Called) \in Nat /\ Cardinality(Call) \in Nat
        BY <1>0, <3>1, CallsFinite, FS_Subset
      <3>3. Len(made) + Cardinality(Queued) <= Cardinality(Called)
        BY DEF IInv, Counted
      <3>4. Len(AllNew) \in Nat
        BY <2>3
      <3> QED
        BY <2>2, <2>3, <2>4, <3>2, <3>3, <3>4
    <2>6. age' \in [Call -> 0 .. MaxAge]
      BY <1>7 DEF TryMatch, TypeOK
    <2>7. /\ queue' \in [GameType -> Seq(Call)]
          /\ \A t \in GameType : \A c \in ToSet(queue'[t]) : Kind[c] = t
      BY <2>1, SortedNext
    <2> QED
      BY <1>7, <2>1, <2>4, <2>5, <2>6, <2>7 DEF TryMatch, TypeOK, Match, channels, records
  <1>8. CASE Wait
    <2>1. age' \in [Call -> 0 .. MaxAge]
      BY <1>8 DEF Wait, TypeOK
    <2> QED
      BY <1>0, <1>8, <2>1, TypeOfQueue DEF Wait, TypeOK, channels, records, Sorted
  <1>9. ASSUME NEW i, SameSides, matches' \subseteq DOMAIN made',
               answered' \subseteq Call, panic' \in Call \cup {NoCall},
               UNCHANGED <<at, queue, age, closed, paid, stopped>>
        PROVE  TypeOK'
    <2>1. made' \in Seq(Match) /\ Len(made') <= Cardinality(Call)
      BY <1>9, MadeIsSeq DEF SameSides
    <2>2. paid' \in [MatchId -> Nat]
      BY <1>9 DEF TypeOK
    <2> QED
      BY <1>9, <2>1, <2>2, TypeOfMade
  <1>10. ASSUME NEW i \in MatchId, StartGame(i) PROVE TypeOK'
    <2>1. SameSides
      BY <1>10, StartGameFacts
    <2> QED
      BY <1>9, <1>10, <2>1 DEF StartGame, SameSides, TypeOK, channels, records
  <1>11. ASSUME NEW i \in MatchId, StoreMatch(i) PROVE TypeOK'
    <2>1. SameSides /\ i \in DOMAIN made
      BY <1>11, StoreMatchFacts
    <2> QED
      BY <1>9, <1>11, <2>1 DEF StoreMatch, SameSides, TypeOK, channels
  <1>12. ASSUME NEW i \in MatchId, Tell(i) PROVE TypeOK'
    <2>1. SameSides /\ \E c \in Sides(made[i]) : answered' = answered \cup {c} /\ Send(c)
      BY <1>12, TellFacts DEF IInv
    <2>2. answered' \subseteq Call /\ panic' \in Call \cup {NoCall}
      BY <2>1 DEF Sides, Send, TypeOK
    <2> QED
      BY <1>9, <1>12, <2>1, <2>2 DEF Tell, SameSides, TypeOK, records
  <1>13. ASSUME NEW i \in MatchId, SubmitMatchResult(i) PROVE TypeOK'
    <2>1. paid' \in [MatchId -> Nat] /\ matches' \subseteq DOMAIN made
      BY <1>13 DEF SubmitMatchResult, Remaining, TypeOK
    <2> QED
      BY <1>13, <2>1, TypeOfMade DEF SubmitMatchResult, TypeOK, Match, channels
  <1>14. CASE Close
    <2>1. Sorted(queue')
      <3>1. <<>> \in Line /\ ToSet(<<>>) = {}
        BY DEF Line, IsInjective, ToSet
      <3> QED
        BY <1>14, <3>1 DEF Close, Sorted
    <2> QED
      BY <1>0, <1>14, <2>1, TypeOfQueue DEF Close, TypeOK, channels, records
  <1>15. CASE UNCHANGED vars
    BY <1>0, <1>15, TypeOfQueue DEF vars, channels, records, TypeOK, Sorted
  <1> QED
    BY <1>1, <1>2, <1>3, <1>5, <1>6, <1>7, <1>8, <1>10, <1>11, <1>12, <1>13, <1>14, <1>15
    DEF Next, Handler, Starter

\* Channels of calls in the queue stay open.
LEMMA OpenStep ==
  ASSUME IInv, [Next]_vars
  PROVE  QueuedAreOpen'
  <1> Inv /\ QueuedAreOpen
    BY DEF IInv, Inv
  <1>1. ASSUME UNCHANGED <<queue, closed>> PROVE QueuedAreOpen'
    BY <1>1 DEF QueuedAreOpen, Queued
  <1>2. ASSUME NEW c \in Call, Enqueue(c) PROVE QueuedAreOpen'
    <2>1. /\ Sorted(queue') /\ c \notin Called /\ Queued' = Queued \cup {c}
      BY <1>2, Enqueued
    <2>2. c \notin closed /\ closed' = closed
      BY <1>2, <2>1 DEF Enqueue, channels, IInv, Counted
    <2> QED
      BY <2>1, <2>2, SortedNext DEF QueuedAreOpen
  <1>3. ASSUME NEW p, CancelMatch(p) PROVE QueuedAreOpen'
    <2>1. Cancels(p)
      BY <1>3, Cancelled
    <2>2. ASSUME NEW c \in Queued, closed' = closed \cup {c}, Queued' = Queued \ {c},
                 Sorted(queue')
          PROVE QueuedAreOpen'
      BY <2>2, SortedNext DEF QueuedAreOpen
    <2> QED
      BY <1>1, <2>1, <2>2 DEF Cancels
  <1>4. CASE TryMatch
    <2>1. Sorted(queue') /\ Queued' \subseteq Queued
      BY <1>4, Tried DEF Round
    <2>2. closed' = closed
      BY <1>4 DEF TryMatch, channels
    <2> QED
      BY <2>1, <2>2, SortedNext DEF QueuedAreOpen
  <1>5. CASE Close
    <2>1. \A t \in GameType : queue'[t] = <<>>
      BY <1>5 DEF Close
    <2>2. ToSet(<<>>) = {} /\ IsInjective(<<>>)
      BY DEF ToSet, IsInjective
    <2> QED
      BY <2>1, <2>2 DEF QueuedAreOpen, Queued
  <1> QED
    BY <1>1, <1>2, <1>3, <1>4, <1>5 DEF Next, Handler, Starter, SendInQueue, Finish,
       GiveUp, Cancel, Wait, StartGame, StoreMatch, Tell, SubmitMatchResult, vars, channels

-----------------------------------------------------------------------------
(* Counted, Kept, OneAtATime and Apart are preserved, and nobody patient is *)
(* sent to on a closed channel.                                             *)

\* Fewer entries, no more calls and the same matches.
LEMMA CountedFewer ==
  ASSUME IInv, Queued' \subseteq Queued, closed' \subseteq Called, Called' = Called,
         made' = made, answered' = answered
  PROVE  Counted'
  <1> Counted /\ Inv
    BY DEF IInv
  <1>1. Queued \in SUBSET Call /\ Called \in SUBSET Call
    BY QueueIsSorted DEF Called
  <1>2. Cardinality(Queued') <= Cardinality(Queued)
    BY <1>1, CallsFinite, FS_Subset
  <1>3. ASSUME NEW c \in Call
        PROVE  Cardinality(Of(Queued', Caller[c])) <= Cardinality(Of(Queued, Caller[c]))
    <2>1. /\ Of(Queued', Caller[c]) \subseteq Of(Queued, Caller[c])
          /\ Of(Queued, Caller[c]) \in SUBSET Call
      BY <1>1 DEF Of
    <2> QED
      BY <2>1, CallsFinite, FS_Subset
  <1>4. /\ Cardinality(Queued) \in Nat /\ Cardinality(Queued') \in Nat
        /\ Cardinality(Called) \in Nat /\ Len(made) \in Nat
    BY <1>1, CallsFinite, MadeIsSeq
  <1>5. Len(made') + Cardinality(Queued') <= Cardinality(Called')
    BY <1>2, <1>4 DEF Counted
  <1>6. ASSUME NEW c \in Call
        PROVE  Cardinality(With(made', c)) + Cardinality(Of(Queued', Caller[c]))
                 <= Cardinality(Of(Called', Caller[c]))
    <2>1. /\ Of(Queued, Caller[c]) \in SUBSET Call /\ Of(Queued', Caller[c]) \in SUBSET Call
          /\ Of(Called, Caller[c]) \in SUBSET Call
      BY <1>1 DEF Of
    <2>2. /\ Cardinality(Of(Queued, Caller[c])) \in Nat
          /\ Cardinality(Of(Queued', Caller[c])) \in Nat
          /\ Cardinality(Of(Called, Caller[c])) \in Nat
      BY <2>1, CallsFinite
    <2>3. Cardinality(With(made, c)) \in Nat
      BY MadeIsSeq, WithFinite
    <2>4. Cardinality(With(made, c)) + Cardinality(Of(Queued, Caller[c]))
            <= Cardinality(Of(Called, Caller[c]))
      BY DEF Counted
    <2> QED
      BY <1>3, <2>2, <2>3, <2>4
  <1>7. Queued' \subseteq Called'
    BY DEF Counted
  <1>8. /\ \A i \in DOMAIN made' : Sides(made'[i]) \subseteq Called'
        /\ \A c \in answered' : With(made', c) # {}
    BY DEF Counted
  <1> QED
    BY <1>5, <1>6, <1>7, <1>8 DEF Counted

\* A new entry is of a call made just now.
LEMMA CountedEnqueue ==
  ASSUME IInv, NEW c \in Call, Enqueue(c)
  PROVE  Counted'
  <1> Counted /\ Inv
    BY DEF IInv
  <1>1. Queued \in SUBSET Call /\ Called \in SUBSET Call
    BY QueueIsSorted DEF Called
  <1>2. c \notin Queued /\ c \notin Called /\ Queued' = Queued \cup {c}
    BY Enqueued
  <1>3. Called' = Called \cup {c} /\ made' = made /\ closed' = closed /\ answered' = answered
    BY DEF Enqueue, Called, channels, IInv, Inv, TypeOK
  <1>4. /\ Cardinality(Queued') = Cardinality(Queued) + 1
        /\ Cardinality(Called') = Cardinality(Called) + 1
        /\ Cardinality(Queued) \in Nat /\ Cardinality(Called) \in Nat
    BY <1>1, <1>2, <1>3, CallsFinite, FS_AddElement
  <1>5. Len(made') + Cardinality(Queued') <= Cardinality(Called')
    <2>1. Len(made) + Cardinality(Queued) <= Cardinality(Called) /\ Len(made) \in Nat
      BY MadeIsSeq DEF Counted
    <2> QED
      BY <1>3, <1>4, <2>1
  <1>6. ASSUME NEW d \in Call
        PROVE  Cardinality(With(made', d)) + Cardinality(Of(Queued', Caller[d]))
                 <= Cardinality(Of(Called', Caller[d]))
    <2> DEFINE p == Caller[d]
    <2>1. Of(Queued, p) \in SUBSET Call /\ Of(Called, p) \in SUBSET Call
      BY <1>1 DEF Of
    <2>2. /\ Cardinality(Of(Queued, p)) \in Nat /\ Cardinality(Of(Called, p)) \in Nat
          /\ IsFiniteSet(Of(Queued, p)) /\ IsFiniteSet(Of(Called, p))
      BY <2>1, CallsFinite
    <2>3. /\ Cardinality(With(made, d)) + Cardinality(Of(Queued, p)) <= Cardinality(Of(Called, p))
          /\ Cardinality(With(made, d)) \in Nat
      BY MadeIsSeq, WithFinite DEF Counted
    <2>4. CASE Caller[c] = p
      <3>1. /\ Of(Queued', p) = Of(Queued, p) \cup {c} /\ c \notin Of(Queued, p)
            /\ Of(Called', p) = Of(Called, p) \cup {c} /\ c \notin Of(Called, p)
        BY <1>2, <1>3, <2>4 DEF Of
      <3> HIDE DEF p
      <3>2. /\ Cardinality(Of(Queued', p)) = Cardinality(Of(Queued, p)) + 1
            /\ Cardinality(Of(Called', p)) = Cardinality(Of(Called, p)) + 1
        BY <2>2, <3>1, FS_AddElement
      <3>3. Cardinality(With(made', d)) + Cardinality(Of(Queued', p))
              <= Cardinality(Of(Called', p))
        BY <1>3, <2>2, <2>3, <3>2
      <3> QED
        BY <3>3 DEF p
    <2>5. CASE Caller[c] # p
      <3>1. Of(Queued', p) = Of(Queued, p) /\ Of(Called', p) = Of(Called, p)
        BY <1>2, <1>3, <2>5 DEF Of
      <3> QED
        BY <1>3, <2>3, <3>1
    <2> QED
      BY <2>4, <2>5
  <1>7. Queued' \subseteq Called' /\ closed' \subseteq Called'
    BY <1>2, <1>3 DEF Counted
  <1>8. /\ \A i \in DOMAIN made' : Sides(made'[i]) \subseteq Called'
        /\ \A d \in answered' : With(made', d) # {}
    BY <1>3 DEF Counted
  <1> QED
    BY <1>5, <1>6, <1>7, <1>8 DEF Counted

\* What made is after a round.
LEMMA TriedMade ==
  ASSUME Inv, TryMatch
  PROVE  /\ made \in Seq(Match) /\ AllNew \in Seq(Match) /\ made \o AllNew \in Seq(Match)
         /\ Len(made \o AllNew) = Len(made) + Len(AllNew)
         /\ DOMAIN made \subseteq DOMAIN (made \o AllNew)
         /\ \A i \in DOMAIN (made \o AllNew) :
              \/ i \in DOMAIN made /\ (made \o AllNew)[i] = made[i]
              \/ i \notin DOMAIN made /\ \E j \in DOMAIN AllNew : (made \o AllNew)[i] = AllNew[j]
         /\ \A j \in DOMAIN AllNew : AllNew[j] \in Fresh
         /\ \A c : /\ With(made, c) \subseteq With(made \o AllNew, c)
                   /\ With(AllNew, c) = {} => With(made \o AllNew, c) = With(made, c)
                   /\ Cardinality(With(made \o AllNew, c))
                        <= Cardinality(With(made, c)) + Cardinality(With(AllNew, c))
                   /\ With(AllNew, c) # {} => With(made \o AllNew, c) # {}
                   /\ Cardinality(With(made, c)) \in Nat
                   /\ Cardinality(With(AllNew, c)) \in Nat
                   /\ Cardinality(With(made \o AllNew, c)) \in Nat
                   /\ IsFiniteSet(With(made \o AllNew, c))
  <1>1. AllNew \in Seq(Fresh)
    BY Tried DEF Round
  <1>2. \A j \in DOMAIN AllNew : AllNew[j] \in Fresh
    BY <1>1
  <1>3. Fresh \subseteq Match
    BY DEF Fresh, Match
  <1> HIDE DEF Fresh, Match
  <1>4. AllNew \in Seq(Match) /\ made \in Seq(Match)
    BY <1>1, <1>2, <1>3, MadeIsSeq
  <1> DEFINE R == made \o AllNew
  <1>5. /\ R \in Seq(Match)
        /\ Len(R) = Len(made) + Len(AllNew)
        /\ DOMAIN made \subseteq DOMAIN R
        /\ \A i \in DOMAIN R :
             \/ i \in DOMAIN made /\ R[i] = made[i]
             \/ i \notin DOMAIN made /\ \E j \in DOMAIN AllNew : R[i] = AllNew[j]
    BY <1>4, WithConcat
  <1>6. ASSUME NEW c
        PROVE  /\ With(made, c) \subseteq With(R, c)
               /\ With(AllNew, c) = {} => With(R, c) = With(made, c)
               /\ Cardinality(With(R, c))
                    <= Cardinality(With(made, c)) + Cardinality(With(AllNew, c))
               /\ With(AllNew, c) # {} => With(R, c) # {}
    BY <1>4, WithConcat
  <1>7. ASSUME NEW c
        PROVE  /\ Cardinality(With(made, c)) \in Nat
               /\ Cardinality(With(AllNew, c)) \in Nat
               /\ Cardinality(With(R, c)) \in Nat
               /\ IsFiniteSet(With(R, c))
    <2> HIDE DEF R
    <2> QED
      BY <1>4, <1>5, WithFinite
  <1> QED
    BY <1>2, <1>4, <1>5, <1>6, <1>7

\* The match loop moves calls from the queues to the matches.
LEMMA CountedTryMatch ==
  ASSUME IInv, TryMatch
  PROVE  Counted'
  <1> Counted /\ Inv
    BY DEF IInv
  <1>1. Queued \in SUBSET Call /\ Called \in SUBSET Call
    BY QueueIsSorted DEF Called
  <1>2. Round(Queued, AllNew, Queued') /\ made' = made \o AllNew
    BY Tried
  <1>3. /\ Queued' \subseteq Queued
        /\ \A i \in DOMAIN AllNew : Sides(AllNew[i]) \subseteq Queued
        /\ Len(AllNew) + Cardinality(Queued') <= Cardinality(Queued)
    BY <1>2 DEF Round
  <1>4. Called' = Called /\ closed' = closed /\ answered' = answered
    BY DEF TryMatch, Called, channels
  <1>5. Len(made') + Cardinality(Queued') <= Cardinality(Called')
    <2>1. Len(made') = Len(made) + Len(AllNew) /\ Len(made) \in Nat /\ Len(AllNew) \in Nat
      BY <1>2, TriedMade
    <2>2. /\ Cardinality(Queued) \in Nat /\ Cardinality(Queued') \in Nat
          /\ Cardinality(Called) \in Nat
      BY <1>1, <1>3, CallsFinite
    <2>3. Len(made) + Cardinality(Queued) <= Cardinality(Called)
      BY DEF Counted
    <2> QED
      BY <1>3, <1>4, <2>1, <2>2, <2>3
  <1>6. ASSUME NEW c \in Call
        PROVE  Cardinality(With(made', c)) + Cardinality(Of(Queued', Caller[c]))
                 <= Cardinality(Of(Called', Caller[c]))
    <2> DEFINE p == Caller[c]
    <2>1. /\ Of(Queued, p) \in SUBSET Call /\ Of(Called, p) \in SUBSET Call
          /\ Of(Queued', p) \subseteq Of(Queued, p)
      BY <1>1, <1>3 DEF Of
    <2>2. /\ Cardinality(Of(Queued, p)) \in Nat /\ Cardinality(Of(Called, p)) \in Nat
          /\ Cardinality(Of(Queued', p)) \in Nat
          /\ Cardinality(Of(Queued', p)) <= Cardinality(Of(Queued, p))
      BY <2>1, CallsFinite, FS_Subset
    <2>3. Cardinality(With(made, c)) + Cardinality(Of(Queued, p)) <= Cardinality(Of(Called, p))
      BY DEF Counted
    <2>4. /\ Cardinality(With(made', c))
               <= Cardinality(With(made, c)) + Cardinality(With(AllNew, c))
          /\ Cardinality(With(made, c)) \in Nat /\ Cardinality(With(AllNew, c)) \in Nat
          /\ Cardinality(With(made', c)) \in Nat
      BY <1>2, TriedMade
    <2>5. Cardinality(With(AllNew, c)) + Cardinality(Of(Queued', p)) <= Cardinality(Of(Queued, p))
      <3>1. CASE c \in Queued
        BY <1>2, <3>1 DEF Round
      <3>2. CASE c \notin Queued
        <4>1. With(AllNew, c) = {}
          BY <1>3, <3>2 DEF With
        <4>2. Cardinality(With(AllNew, c)) = 0
          BY <4>1, FS_EmptySet
        <4> HIDE DEF p
        <4> QED
          BY <2>2, <4>2
      <3> QED
        BY <3>1, <3>2
    <2>6. Of(Called', p) = Of(Called, p)
      BY <1>4
    <2> HIDE DEF p
    <2>7. Cardinality(With(made', c)) + Cardinality(Of(Queued', p)) <= Cardinality(Of(Called', p))
      BY <2>2, <2>3, <2>4, <2>5, <2>6
    <2> QED
      BY <2>7 DEF p
  <1>7. \A i \in DOMAIN made' : Sides(made'[i]) \subseteq Called'
    <2> SUFFICES ASSUME NEW i \in DOMAIN made' PROVE Sides(made'[i]) \subseteq Called
      BY <1>4
    <2>1. CASE i \in DOMAIN made /\ made'[i] = made[i]
      BY <2>1 DEF Counted
    <2>2. ASSUME NEW j \in DOMAIN AllNew, made'[i] = AllNew[j] PROVE Sides(made'[i]) \subseteq Called
      BY <1>3, <2>2 DEF Counted
    <2> QED
      BY <1>2, <2>1, <2>2, TriedMade
  <1>8. \A c \in answered' : With(made', c) # {}
    BY <1>2, <1>4, TriedMade DEF Counted
  <1>9. Queued' \subseteq Called' /\ closed' \subseteq Called'
    BY <1>3, <1>4 DEF Counted
  <1> QED
    BY <1>5, <1>6, <1>7, <1>8, <1>9 DEF Counted

\* A step of startGame only answers the sides of a match.
LEMMA CountedMade ==
  ASSUME IInv, SameSides, UNCHANGED <<at, queue, closed>>,
         \/ answered' = answered
         \/ \E i \in DOMAIN made : \E c \in Sides(made[i]) : answered' = answered \cup {c}
  PROVE  Counted'
  <1> Counted /\ Inv
    BY DEF IInv
  <1>1. /\ \A i \in DOMAIN made : Sides(made'[i]) = Sides(made[i])
        /\ \A c : With(made', c) = With(made, c)
        /\ DOMAIN made' = DOMAIN made /\ Len(made') = Len(made)
    BY SidesSame DEF SameSides
  <1>2. Queued' = Queued /\ Called' = Called
    BY DEF Queued, Called
  <1>3. \A c \in answered' : With(made, c) # {}
    BY DEF Counted, With
  <1> QED
    BY <1>1, <1>2, <1>3 DEF Counted

\* Every step keeps Counted.
LEMMA CountedStep ==
  ASSUME IInv, [Next]_vars
  PROVE  Counted'
  <1> Counted /\ Inv
    BY DEF IInv
  <1>1. ASSUME UNCHANGED <<queue, closed, made, answered>>, Called' = Called PROVE Counted'
    <2>1. Queued' = Queued
      BY <1>1 DEF Queued
    <2> QED
      BY <1>1, <2>1, CountedFewer DEF Counted
  <1>2. ASSUME NEW c \in Call, SendInQueue(c) PROVE Counted'
    BY <1>1, <1>2 DEF SendInQueue, channels, Called, Inv, TypeOK
  <1>3. ASSUME NEW c \in Call, Finish(c) PROVE Counted'
    BY <1>1, <1>3 DEF Finish, channels, Called, Inv, TypeOK
  <1>4. ASSUME NEW p, CancelMatch(p), Called' = Called, UNCHANGED <<answered, made>>
        PROVE Counted'
    <2>1. Cancels(p)
      BY <1>4, Cancelled
    <2>2. ASSUME NEW c \in Queued, closed' = closed \cup {c}, Queued' = Queued \ {c}
          PROVE Counted'
      BY <1>4, <2>2, CountedFewer DEF Counted
    <2> QED
      BY <1>1, <1>4, <2>1, <2>2 DEF Cancels
  <1>5. ASSUME NEW c \in Call, GiveUp(c) PROVE Counted'
    BY <1>4, <1>5 DEF GiveUp, Called, Inv, TypeOK
  <1>6. ASSUME NEW p \in Player, Cancel(p) PROVE Counted'
    BY <1>4, <1>6 DEF Cancel, Called
  <1>7. CASE Wait
    BY <1>1, <1>7 DEF Wait, channels, Called
  <1>8. ASSUME NEW i \in MatchId, StartGame(i) PROVE Counted'
    BY <1>8, StartGameFacts, CountedMade DEF StartGame, channels
  <1>9. ASSUME NEW i \in MatchId, StoreMatch(i) PROVE Counted'
    BY <1>9, StoreMatchFacts, CountedMade DEF StoreMatch, channels
  <1>10. ASSUME NEW i \in MatchId, Tell(i) PROVE Counted'
    <2>1. /\ SameSides /\ i \in DOMAIN made
          /\ \E c \in Sides(made[i]) : answered' = answered \cup {c}
      BY <1>10, TellFacts DEF IInv
    <2> QED
      BY <1>10, <2>1, CountedMade DEF Tell
  <1>11. ASSUME NEW i \in MatchId, SubmitMatchResult(i) PROVE Counted'
    BY <1>1, <1>11 DEF SubmitMatchResult, channels, Called
  <1>12. CASE Close
    <2>1. Queued' = {}
      <3>1. ToSet(<<>>) = {} /\ \A t \in GameType : queue'[t] = <<>>
        BY <1>12 DEF ToSet, Close
      <3> QED
        BY <3>1 DEF Queued
    <2>2. closed' \subseteq Called /\ Called' = Called
      BY <1>12 DEF Close, Counted, Called
    <2> QED
      BY <1>12, <2>1, <2>2, CountedFewer DEF Close
  <1>13. CASE UNCHANGED vars
    BY <1>1, <1>13 DEF vars, channels, Called
  <1> QED
    BY <1>2, <1>3, <1>5, <1>6, <1>7, <1>8, <1>9, <1>10, <1>11, <1>12, <1>13,
       CountedEnqueue, CountedTryMatch
    DEF Next, Handler, Starter

\* The matches the loop makes have settled nothing yet.
LEMMA KeptTryMatch ==
  ASSUME IInv, TryMatch
  PROVE  Kept'
  <1> Inv /\ TypeOK /\ Kept
    BY DEF IInv, Inv
  <1>1. Round(Queued, AllNew, Queued') /\ made' = made \o AllNew
    BY Tried
  <1>2. TypeOK'
    BY TypeStep DEF Next
  <1>3. DOMAIN made' \subseteq MatchId
    <2>1. made' \in Seq(Match) /\ Len(made') <= Cardinality(Call)
      BY <1>2 DEF TypeOK, Match
    <2>2. Cardinality(Call) \in Nat
      BY CallsFinite
    <2> HIDE DEF Match
    <2> QED
      BY <2>1, <2>2 DEF MatchId
  <1>4. matches' = matches /\ paid' = paid /\ matches \subseteq DOMAIN made
    BY DEF TryMatch, records, TypeOK
  <1>5. DOMAIN made \subseteq DOMAIN made'
    BY <1>1, TriedMade
  <1>6. ASSUME NEW i \in DOMAIN made'
        PROVE  /\ made'[i].stage \in {"starting", "started"} =>
                    made'[i].told = 0 /\ i \notin matches /\ paid[i] = 0
               /\ made'[i].stage = "stored" => paid[i] = IF i \in matches THEN 0 ELSE 1
               /\ made'[i].stage = "failed" => i \notin matches /\ paid[i] = 0
               /\ made'[i].told = 1 => made'[i].two \in Call
               /\ made'[i].one # made'[i].two
    <2>1. CASE i \in DOMAIN made /\ made'[i] = made[i]
      BY <2>1 DEF Kept
    <2>2. CASE i \notin DOMAIN made /\ \E j \in DOMAIN AllNew : made'[i] = AllNew[j]
      <3>1. PICK j \in DOMAIN AllNew : made'[i] = AllNew[j]
        BY <2>2
      <3>2. AllNew[j] \in Fresh /\ AllNew[j].one # AllNew[j].two
        BY <1>1, TriedMade DEF Round
      <3>3. made'[i].stage = "starting" /\ made'[i].told = 0 /\ made'[i].one # made'[i].two
        BY <3>1, <3>2 DEF Fresh
      <3>4. i \notin matches /\ paid[i] = 0
        BY <1>3, <1>4, <2>2 DEF Kept
      <3> QED
        BY <3>3, <3>4
    <2> QED
      BY <1>1, <2>1, <2>2, TriedMade
  <1> QED
    BY <1>4, <1>5, <1>6 DEF Kept

\* Every step keeps Kept.
LEMMA KeptStep ==
  ASSUME IInv, [Next]_vars
  PROVE  Kept'
  <1> Inv /\ TypeOK /\ Kept
    BY DEF IInv, Inv
  <1>1. ASSUME UNCHANGED <<made, matches, paid>> PROVE Kept'
    BY <1>1 DEF Kept
  <1>2. ASSUME NEW i \in MatchId, StartGame(i) PROVE Kept'
    <2>1. /\ SameSides /\ i \in DOMAIN made /\ made[i].stage = "starting"
          /\ \A j \in DOMAIN made :
               /\ made'[j].told = made[j].told
               /\ j # i => made'[j] = made[j]
          /\ made'[i].stage \in {"started", "failed"}
      BY <1>2, StartGameFacts
    <2>2. matches' = matches /\ paid' = paid
      BY <1>2 DEF StartGame, records
    <2> QED
      BY <2>1, <2>2 DEF Kept, SameSides
  <1>3. ASSUME NEW i \in MatchId, StoreMatch(i) PROVE Kept'
    <2>1. /\ SameSides /\ i \in DOMAIN made /\ made[i].stage = "started"
          /\ \A j \in DOMAIN made :
               /\ made'[j].told = made[j].told
               /\ j # i => made'[j] = made[j]
          /\ made'[i].stage = "stored"
      BY <1>3, StoreMatchFacts
    <2>2. matches' = matches \cup {i} /\ paid' = paid
      BY <1>3 DEF StoreMatch
    <2> QED
      BY <2>1, <2>2 DEF Kept, SameSides
  <1>4. ASSUME NEW i \in MatchId, Tell(i) PROVE Kept'
    <2>1. /\ SameSides /\ i \in DOMAIN made /\ made[i].stage \in {"stored", "failed"}
          /\ \A j \in DOMAIN made :
               /\ made'[j].stage = made[j].stage
               /\ j # i => made'[j] = made[j]
          /\ made'[i].told = 1 => made[i].two # AI
      BY <1>4, TellFacts
    <2>2. matches' = matches /\ paid' = paid
      BY <1>4 DEF Tell, records
    <2>3. made[i].two \in Call \cup {AI}
      BY <2>1, MadeIsSeq DEF Match
    <2> QED
      BY <2>1, <2>2, <2>3 DEF Kept, SameSides
  <1>5. ASSUME NEW i \in MatchId, SubmitMatchResult(i) PROVE Kept'
    <2>1. i \in DOMAIN made /\ made[i].stage = "stored" /\ paid[i] = 0 /\ i \in matches
      <3>1. i \in DOMAIN made /\ i \in matches /\ made[i] \in Match
        BY <1>5, MadeIsSeq DEF SubmitMatchResult, TypeOK
      <3> QED
        BY <3>1 DEF Kept, Match
    <2>2. /\ matches' = matches \ {i} /\ made' = made
          /\ \A j \in MatchId : paid'[j] = IF j = i THEN 1 ELSE paid[j]
      BY <1>5, <2>1 DEF SubmitMatchResult, Remaining, TypeOK
    <2>3. DOMAIN made \subseteq MatchId
      BY MadeIsSeq
    <2> QED
      BY <2>1, <2>2, <2>3 DEF Kept
  <1> QED
    BY <1>1, <1>2, <1>3, <1>4, <1>5, KeptTryMatch DEF Next, Handler, Starter, Enqueue,
       SendInQueue, Finish, GiveUp, Cancel, Wait, Close, vars, records

\* Every step keeps patient players to one call at a time.
LEMMA OneAtATimeStep ==
  ASSUME IInv, [Next]_vars
  PROVE  OneAtATime'
  <1> Inv /\ TypeOK /\ OneAtATime
    BY DEF IInv, Inv
  <1>1. ASSUME \A c \in Call : Active(c)' => Active(c) PROVE OneAtATime'
    BY <1>1 DEF OneAtATime, PatientCalls
  <1>2. ASSUME NEW c \in Call, Enqueue(c) PROVE OneAtATime'
    <2>1. /\ MayCall(c) /\ at[c] = "idle"
          /\ \A d \in Call : at'[d] = IF d = c THEN "joining" ELSE at[d]
      BY <1>2 DEF Enqueue, TypeOK
    <2> SUFFICES ASSUME NEW d \in PatientCalls, NEW e \in PatientCalls,
                        Caller[d] = Caller[e], Active(d)', Active(e)', d # e
                 PROVE  FALSE
      BY DEF OneAtATime, PatientCalls
    <2>2. d \in Call /\ e \in Call /\ Caller[d] \in Patient
      BY DEF PatientCalls
    <2>3. CASE d = c
      BY <2>1, <2>2, <2>3 DEF MayCall, Active
    <2>4. CASE e = c
      BY <2>1, <2>2, <2>4 DEF MayCall, Active
    <2>5. CASE d # c /\ e # c
      BY <2>1, <2>2, <2>5 DEF OneAtATime, Active
    <2> QED
      BY <2>3, <2>4, <2>5
  <1>3. ASSUME NEW c \in Call, SendInQueue(c) \/ Finish(c) \/ GiveUp(c) PROVE OneAtATime'
    BY <1>1, <1>3 DEF SendInQueue, Finish, GiveUp, TypeOK, Active
  <1>4. ASSUME at' = at PROVE OneAtATime'
    BY <1>1, <1>4 DEF Active
  <1> QED
    BY <1>2, <1>3, <1>4 DEF Next, Handler, Starter, Cancel, TryMatch, Wait, StartGame,
       StoreMatch, Tell, SubmitMatchResult, Close, vars

\* What a round means for a call of a patient player.
LEMMA TriedPatient ==
  ASSUME IInv, TryMatch, NEW c \in PatientCalls
  PROVE  /\ Queued' \subseteq Queued
         /\ c \notin Queued => With(made', c) = With(made, c)
         /\ c \in Queued' => With(made', c) = {}
         /\ c \in Queued /\ c \notin Queued' => With(made', c) # {}
         /\ \A i, j \in With(made', c) : i = j
         /\ c \in Queued => With(made, c) = {}
  <1> Inv /\ Apart /\ OneAtATime
    BY DEF IInv
  <1> DEFINE p == Caller[c]
  <1>1. Round(Queued, AllNew, Queued') /\ made' = made \o AllNew
    BY Tried
  <1>2. /\ Queued' \subseteq Queued
        /\ \A i \in DOMAIN AllNew : Sides(AllNew[i]) \subseteq Queued
    BY <1>1 DEF Round
  <1>3. CASE c \notin Queued
    <2>1. With(AllNew, c) = {}
      BY <1>2, <1>3 DEF With
    <2>2. With(made', c) = With(made, c)
      BY <1>1, <2>1, TriedMade
    <2> QED
      BY <1>2, <1>3, <2>2 DEF Apart
  <1>4. CASE c \in Queued
    <2>1. Of(Queued, p) = {c}
      <3>1. ASSUME NEW d \in Queued, Caller[d] = p PROVE d = c
        <4>1. d \in PatientCalls
          BY <3>1, QueueIsSorted DEF PatientCalls
        <4>2. Active(c) /\ Active(d)
          BY <1>4, <3>1, <4>1 DEF Apart
        <4> QED
          BY <3>1, <4>1, <4>2 DEF OneAtATime
      <3> QED
        BY <1>4, <3>1 DEF Of
    <2>2. /\ Cardinality(With(AllNew, c)) + Cardinality(Of(Queued', p))
               <= Cardinality(Of(Queued, p))
          /\ c \in Queued' \/ With(AllNew, c) # {}
      BY <1>1, <1>4, <2>1 DEF Round
    <2>3. With(made, c) = {} /\ Cardinality({}) = 0
      BY <1>4, FS_EmptySet DEF Apart
    <2>4. /\ Cardinality(With(AllNew, c)) \in Nat /\ Cardinality(With(made', c)) \in Nat
          /\ IsFiniteSet(With(made', c))
          /\ Cardinality(With(made', c)) <= Cardinality(With(AllNew, c))
          /\ With(AllNew, c) # {} => With(made', c) # {}
      <3>1. /\ Cardinality(With(made', c))
                 <= Cardinality(With(made, c)) + Cardinality(With(AllNew, c))
            /\ Cardinality(With(AllNew, c)) \in Nat /\ Cardinality(With(made', c)) \in Nat
            /\ IsFiniteSet(With(made', c))
            /\ With(AllNew, c) # {} => With(made', c) # {}
        BY <1>1, TriedMade
      <3>2. Cardinality(With(made, c)) = 0
        BY <2>3
      <3> QED
        BY <3>1, <3>2
    <2>5. Cardinality({c}) = 1
      BY FS_Singleton
    <2>6. Cardinality(Of(Queued', p)) \in Nat
      <3>1. Of(Queued', p) \in SUBSET Call
        BY <1>2, QueueIsSorted DEF Of
      <3> QED
        BY <3>1, CallsFinite
    <2>7. ASSUME c \in Queued' PROVE With(made', c) = {}
      <3>1. Of(Queued', p) = {c}
        BY <1>2, <2>1, <2>7 DEF Of
      <3>2. Cardinality(With(AllNew, c)) + Cardinality({c}) <= Cardinality({c})
        BY <2>1, <2>2, <3>1
      <3>3. Cardinality(With(made', c)) = 0
        BY <2>4, <2>5, <3>2
      <3> QED
        BY <2>4, <3>3, FS_EmptySet
    <2>8. Cardinality(With(made', c)) <= 1
      <3>1. Cardinality(With(AllNew, c)) + Cardinality(Of(Queued', p)) <= 1
        BY <2>1, <2>2, <2>5
      <3> HIDE DEF p
      <3> QED
        BY <2>4, <2>6, <3>1
    <2>9. \A i, j \in With(made', c) : i = j
      BY <2>4, <2>8, AtMostOne
    <2> QED
      BY <1>2, <1>4, <2>2, <2>3, <2>4, <2>7, <2>9
  <1> QED
    BY <1>3, <1>4

\* A patient player's entry is the one that is cancelled.
LEMMA CancelledPatient ==
  ASSUME IInv, NEW p \in Patient, NEW c \in Queued, Caller[c] = p
  PROVE  c \in PatientCalls /\ Active(c) /\ \A d \in Call : Caller[d] = p /\ Active(d) => d = c
  <1>1. c \in Call
    BY QueueIsSorted DEF IInv
  <1>2. c \in PatientCalls
    BY <1>1 DEF PatientCalls
  <1>3. Active(c)
    BY <1>2 DEF IInv, Apart
  <1> QED
    BY <1>2, <1>3 DEF IInv, OneAtATime, PatientCalls

\* Every step keeps a patient call in one place.
LEMMA ApartStep ==
  ASSUME IInv, [Next]_vars
  PROVE  Apart'
  <1> Inv /\ TypeOK /\ Apart /\ OneAtATime /\ QueuedAreOpen /\ Counted
    BY DEF IInv, Inv
  <1>0. Queued \in SUBSET Call
    BY QueueIsSorted
  <1>1. ASSUME UNCHANGED <<queue, closed, made>>,
               \A c \in PatientCalls :
                 /\ c \in Queued => Active(c)'
                 /\ at[c] \in {"open", "done"} => at'[c] \in {"open", "done"}
        PROVE  Apart'
    BY <1>1 DEF Apart, Queued, PatientCalls
  <1>2. ASSUME NEW c \in Call, Enqueue(c) PROVE Apart'
    <2>1. /\ at[c] = "idle" /\ made' = made /\ closed' = closed
          /\ \A d \in Call : at'[d] = IF d = c THEN "joining" ELSE at[d]
      BY <1>2 DEF Enqueue, channels, TypeOK
    <2>2. Queued' = Queued \cup {c} /\ c \notin Called
      BY <1>2, Enqueued
    <2>3. With(made, c) = {} /\ c \notin closed
      BY <2>2 DEF Counted, With
    <2> SUFFICES ASSUME NEW d \in PatientCalls
                 PROVE  /\ d \in Queued' => Active(d)' /\ With(made', d) = {}
                        /\ d \in closed' => at'[d] \in {"open", "done"} /\ With(made', d) = {}
                        /\ \A i, j \in With(made', d) : i = j
      BY DEF Apart, PatientCalls
    <2>4. d \in Call
      BY DEF PatientCalls
    <2> QED
      BY <2>1, <2>2, <2>3, <2>4 DEF Apart, Active
  <1>3. ASSUME NEW c \in Call, SendInQueue(c) PROVE Apart'
    <2>1. \A d \in Call : at'[d] = IF d = c THEN "open" ELSE at[d]
      BY <1>3 DEF SendInQueue, TypeOK
    <2>2. \A d \in PatientCalls : d \in Call /\ (d \in Queued => Active(d))
      BY DEF Apart, PatientCalls
    <2> QED
      BY <1>1, <1>3, <2>1, <2>2 DEF SendInQueue, channels, Active
  <1>4. ASSUME NEW c \in Call, Finish(c) PROVE Apart'
    <2>1. /\ \A d \in Call : at'[d] = IF d = c THEN "done" ELSE at[d]
          /\ c \in answered \cup closed
      BY <1>4 DEF Finish, TypeOK
    <2>2. ASSUME NEW d \in PatientCalls, d \in Queued PROVE Active(d) /\ d # c
      BY <2>1, <2>2 DEF Apart, Counted, QueuedAreOpen
    <2>3. \A d \in PatientCalls : d \in Call
      BY DEF PatientCalls
    <2> QED
      BY <1>1, <1>4, <2>1, <2>2, <2>3 DEF Finish, channels, Active
  \* An entry d is taken out, and its channel closed, after which it is open or
  \* done.
  <1>5. ASSUME NEW d \in Queued, Queued' = Queued \ {d}, closed' = closed \cup {d},
               made' = made,
               \A e \in PatientCalls :
                 /\ e \in Queued' => at'[e] = at[e]
                 /\ e \in closed => at'[e] \in {"open", "done"}
                 /\ e = d => at'[e] \in {"open", "done"}
        PROVE  Apart'
    <2> SUFFICES ASSUME NEW e \in PatientCalls
                 PROVE  /\ e \in Queued' => Active(e)' /\ With(made', e) = {}
                        /\ e \in closed' => at'[e] \in {"open", "done"} /\ With(made', e) = {}
                        /\ \A i, j \in With(made', e) : i = j
      BY DEF Apart, PatientCalls
    <2> QED
      BY <1>5 DEF Apart, Active
  <1>6. ASSUME NEW c \in Call, GiveUp(c) PROVE Apart'
    <2>1. /\ at[c] = "open" /\ made' = made
          /\ \A d \in Call : at'[d] = IF d = c THEN "done" ELSE at[d]
      BY <1>6 DEF GiveUp, TypeOK
    <2>2. Cancels(Caller[c])
      BY <1>6, Cancelled DEF GiveUp
    <2>3. \A d \in PatientCalls : d \in Call
      BY DEF PatientCalls
    <2>4. CASE Of(Queued, Caller[c]) = {} /\ UNCHANGED <<queue, age, closed>>
      <3>1. c \notin Queued
        BY <2>4 DEF Of
      <3> QED
        BY <1>1, <2>1, <2>3, <2>4, <3>1 DEF Apart, Active
    <2>5. ASSUME NEW d \in Queued, Caller[d] = Caller[c], closed' = closed \cup {d},
                 Queued' = Queued \ {d}
          PROVE Apart'
      <3>1. ASSUME c \in PatientCalls PROVE c = d
        <4>1. d \in PatientCalls
          BY <1>0, <2>5, <3>1 DEF PatientCalls
        <4> QED
          BY <2>1, <2>5, <3>1, <4>1 DEF Apart, OneAtATime, Active
      <3>2. ASSUME NEW e \in PatientCalls
            PROVE  /\ e \in Queued' => at'[e] = at[e]
                   /\ e \in closed => at'[e] \in {"open", "done"}
                   /\ e = d => at'[e] \in {"open", "done"}
        <4>1. e \in Queued' => e # c
          BY <2>5, <3>1
        <4>2. e = d => e = c
          <5>1. e = d => c \in PatientCalls
            BY <2>5, <3>2 DEF PatientCalls
          <5> QED
            BY <3>1, <5>1
        <4> QED
          BY <2>1, <2>3, <4>1, <4>2 DEF Apart
      <3> QED
        BY <1>5, <2>1, <2>5, <3>2
    <2> QED
      BY <2>2, <2>4, <2>5 DEF Cancels
  <1>7. ASSUME NEW p \in Player, Cancel(p) PROVE Apart'
    <2>1. at' = at /\ made' = made /\ MayCancel(p) /\ CancelMatch(p)
      BY <1>7 DEF Cancel
    <2>2. Cancels(p)
      BY <2>1, Cancelled
    <2>3. CASE UNCHANGED <<queue, age, closed>>
      BY <1>1, <2>1, <2>3 DEF Apart, Active
    <2>4. ASSUME NEW d \in Queued, Caller[d] = p, closed' = closed \cup {d},
                 Queued' = Queued \ {d}
          PROVE Apart'
      <3>1. ASSUME d \in PatientCalls PROVE at[d] = "open"
        <4>1. p \in Patient
          BY <2>4, <3>1 DEF PatientCalls
        <4>2. PICK f \in Call : Caller[f] = p /\ at[f] = "open"
          BY <2>1, <4>1 DEF MayCancel
        <4>3. f = d
          BY <2>4, <4>1, <4>2, CancelledPatient DEF Active
        <4> QED
          BY <4>2, <4>3
      <3> QED
        BY <1>5, <2>1, <2>4, <3>1 DEF Apart
    <2> QED
      BY <2>2, <2>3, <2>4 DEF Cancels
  <1>8. CASE TryMatch
    <2>1. at' = at /\ closed' = closed
      BY <1>8 DEF TryMatch, channels
    <2> SUFFICES ASSUME NEW d \in PatientCalls
                 PROVE  /\ d \in Queued' => Active(d)' /\ With(made', d) = {}
                        /\ d \in closed' => at'[d] \in {"open", "done"} /\ With(made', d) = {}
                        /\ \A i, j \in With(made', d) : i = j
      BY DEF Apart, PatientCalls
    <2>2. /\ Queued' \subseteq Queued
          /\ d \notin Queued => With(made', d) = With(made, d)
          /\ d \in Queued' => With(made', d) = {}
          /\ \A i, j \in With(made', d) : i = j
      BY <1>8, TriedPatient
    <2>3. d \in Queued' => Active(d)'
      BY <2>1, <2>2 DEF Apart, Active
    <2>4. d \in closed' => at'[d] \in {"open", "done"} /\ With(made', d) = {}
      BY <2>1, <2>2 DEF Apart, QueuedAreOpen
    <2> QED
      BY <2>2, <2>3, <2>4
  <1>9. ASSUME SameSides, UNCHANGED <<at, queue, closed>> PROVE Apart'
    <2>1. \A c : With(made', c) = With(made, c)
      BY <1>9, SidesSame
    <2> QED
      BY <1>9, <2>1 DEF Apart, Queued, Active, PatientCalls
  <1>10. ASSUME NEW i \in MatchId, StartGame(i) \/ Starter(i) PROVE Apart'
    <2>1. SameSides
      BY <1>10, StartGameFacts, StoreMatchFacts, TellFacts DEF Starter, IInv
    <2> QED
      BY <1>9, <1>10, <2>1 DEF Starter, StartGame, StoreMatch, Tell, channels
  <1>11. CASE Close
    <2>1. /\ \A c \in Call : at[c] \in {"idle", "done"}
          /\ closed' = closed \cup Queued /\ at' = at /\ made' = made
      BY <1>11 DEF Close
    <2>2. Queued' = {}
      <3>1. ToSet(<<>>) = {} /\ \A t \in GameType : queue'[t] = <<>>
        BY <1>11 DEF ToSet, Close
      <3> QED
        BY <3>1 DEF Queued
    <2>3. \A c \in PatientCalls : c \notin Queued
      BY <2>1 DEF Apart, Active, PatientCalls
    <2> QED
      BY <2>1, <2>2, <2>3 DEF Apart, PatientCalls
  <1>12. ASSUME UNCHANGED <<at, queue, closed, made>> PROVE Apart'
    BY <1>1, <1>12 DEF Apart, Active
  <1> QED
    BY <1>2, <1>3, <1>4, <1>6, <1>7, <1>8, <1>10, <1>11, <1>12 DEF Next, Handler, Wait,
       SubmitMatchResult, vars, channels

\* Every step keeps OnlyHastyKill.
LEMMA KillStep ==
  ASSUME IInv, [Next]_vars
  PROVE  OnlyHastyKill'
  <1> Inv /\ TypeOK /\ Apart /\ OnlyHastyKill
    BY DEF IInv, Inv
  <1>1. ASSUME panic' = panic PROVE OnlyHastyKill'
    BY <1>1 DEF OnlyHastyKill
  <1>2. ASSUME NEW c \in Call, SendInQueue(c) PROVE OnlyHastyKill'
    <2>1. at[c] = "joining" /\ Send(c)
      BY <1>2 DEF SendInQueue
    <2>2. c \in closed => c \notin PatientCalls
      BY <2>1 DEF Apart
    <2> QED
      BY <2>1, <2>2 DEF Send, OnlyHastyKill, PatientCalls
  <1>3. CASE TryMatch
    BY <1>3, Tried DEF OnlyHastyKill
  <1>4. ASSUME NEW i \in MatchId, Tell(i) PROVE OnlyHastyKill'
    <2>1. i \in DOMAIN made /\ \E c \in Sides(made[i]) : Send(c)
      BY <1>4, TellFacts DEF IInv
    <2>2. PICK c \in Sides(made[i]) : Send(c)
      BY <2>1
    <2>3. c \in Call /\ i \in With(made, c)
      BY <2>1 DEF Sides, With
    <2>4. c \in closed => c \notin PatientCalls
      BY <2>3 DEF Apart
    <2> QED
      BY <2>2, <2>3, <2>4 DEF Send, OnlyHastyKill, PatientCalls
  <1> QED
    BY <1>1, <1>2, <1>3, <1>4 DEF Next, Handler, Starter, Enqueue, Finish, GiveUp, Cancel,
       Wait, StartGame, StoreMatch, SubmitMatchResult, Close, vars
-----------------------------------------------------------------------------
\* The invariant holds at the start.
LEMMA InitInv ==
  ASSUME Init
  PROVE  IInv
  <1> USE MatchmakerAssumption DEF Init
  <1>1. Queued = {} /\ \A t \in GameType : IsInjective(queue[t])
    <2>1. ToSet(<<>>) = {} /\ IsInjective(<<>>)
      BY DEF ToSet, IsInjective
    <2> QED
      BY <2>1 DEF Queued
  <1>2. DOMAIN made = {} /\ Len(made) = 0 /\ \A c : With(made, c) = {}
    BY DEF With
  <1>3. Cardinality(Call) \in Nat /\ Cardinality({}) = 0
    BY CallsFinite, FS_EmptySet
  <1>4. TypeOK
    <2>1. /\ queue \in [GameType -> Seq(Call)]
          /\ \A t \in GameType : \A c \in ToSet(queue[t]) : Kind[c] = t
      BY DEF ToSet
    <2>2. Len(made) <= Cardinality(Call) /\ matches \subseteq DOMAIN made
      BY <1>2, <1>3
    <2>3. made \in Seq([one : Call, two : Call \cup {AI},
                        stage : {"starting", "started", "stored", "failed"}, told : 0 .. 2])
      OBVIOUS
    <2>4. age \in [Call -> 0 .. MaxAge] /\ paid \in [MatchId -> Nat]
      OBVIOUS
    <2> QED
      BY <2>1, <2>2, <2>3, <2>4 DEF TypeOK
  <1>5. QueuedAreOpen
    BY <1>1 DEF QueuedAreOpen
  <1>6. Counted
    <2>1. ASSUME NEW c \in Call
          PROVE  Cardinality(With(made, c)) + Cardinality(Of(Queued, Caller[c]))
                   <= Cardinality(Of(Called, Caller[c]))
      <3>1. Of(Queued, Caller[c]) = {} /\ Of(Called, Caller[c]) = {} /\ With(made, c) = {}
        BY <1>1, <1>2 DEF Of, Called
      <3>2. /\ Cardinality(With(made, c)) = 0 /\ Cardinality(Of(Queued, Caller[c])) = 0
            /\ Cardinality(Of(Called, Caller[c])) = 0
        BY ONLY <1>3, <3>1
      <3> QED
        BY ONLY <3>2
    <2>2. Called = {}
      BY DEF Called
    <2> QED
      BY <1>1, <1>2, <1>3, <2>1, <2>2 DEF Counted
  <1>7. Kept
    BY <1>2 DEF Kept
  <1>8. OneAtATime /\ Apart /\ OnlyHastyKill
    BY <1>1, <1>2 DEF OneAtATime, Apart, OnlyHastyKill, Active, PatientCalls
  <1> QED
    BY <1>4, <1>5, <1>6, <1>7, <1>8 DEF IInv, Inv

\* The invariant that the theorems rest on.
THEOREM Invariance == Spec => []IInv
  <1>1. Init => IInv
    BY InitInv
  <1>2. IInv /\ [Next]_vars => IInv'
    BY TypeStep, OpenStep, CountedStep, KeptStep, OneAtATimeStep, ApartStep, KillStep
    DEF IInv, Inv
  <1> QED
    BY <1>1, <1>2, PTL DEF Spec

\* The match loop sends to open channels only, whatever handlers, RPCs and
\* startGame do between two of its rounds, and no call is queued twice.
THEOREM QueuesStayOpen == Spec => []Inv
  <1>1. IInv => Inv
    BY DEF IInv
  <1> QED
    BY <1>1, Invariance, PTL

\* The process is never killed for a player who makes one call at a time and
\* cancels only what it knows to be queued, whatever the others do.
THEOREM PatientDoNotKill == Spec => []OnlyHastyKill
  <1>1. IInv => OnlyHastyKill
    BY DEF IInv
  <1> QED
    BY <1>1, Invariance, PTL

\* A match whose sides are told that it started is found by GetMatchStatus until
\* its result is submitted, which pays it once.
THEOREM StartedMatchesAreKept == Spec => []StartedIsKept
  <1>1. IInv => StartedIsKept
    <2> SUFFICES ASSUME IInv PROVE StartedIsKept
      OBVIOUS
    <2>0. Kept /\ Inv
      BY DEF IInv
    <2>1. ASSUME NEW i \in DOMAIN made, made[i].told > 0, made[i].stage # "failed"
          PROVE  i \in matches \/ paid[i] > 0
      <3>1. made[i].stage = "stored"
        BY <2>0, <2>1, MadeIsSeq DEF Kept, Match
      <3> QED
        BY <2>0, <3>1 DEF Kept
    <2>2. ASSUME NEW i \in MatchId
          PROVE  paid[i] <= IF i \in matches THEN 0 ELSE 1
      <3>1. CASE i \in DOMAIN made
        <4>1. made[i].stage \in {"starting", "started", "stored", "failed"}
          BY <2>0, <3>1, MadeIsSeq DEF Match
        <4> QED
          BY <2>0, <3>1, <4>1 DEF Kept
      <3>2. CASE i \notin DOMAIN made
        BY <2>0, <2>2, <3>2 DEF Kept, Inv, TypeOK
      <3> QED
        BY <3>1, <3>2
    <2> QED
      BY <2>1, <2>2 DEF StartedIsKept
  <1> QED
    BY <1>1, Invariance, PTL

\* Although entries are removed by player, a call is matched no more often than
\* its player has called.
THEOREM MatchesPerCall == Spec => []MatchedOncePerCall
  <1>1. IInv => MatchedOncePerCall
    <2> SUFFICES ASSUME IInv, NEW c \in Call
                 PROVE  Cardinality(With(made, c)) <= Cardinality(Of(Called, Caller[c]))
      BY DEF MatchedOncePerCall, With, Of, Called
    <2>1. Inv /\ Counted
      BY DEF IInv
    <2>2. Of(Queued, Caller[c]) \in SUBSET Call /\ Of(Called, Caller[c]) \in SUBSET Call
      BY <2>1, QueueIsSorted DEF Of, Called
    <2>3. /\ Cardinality(Of(Queued, Caller[c])) \in Nat
          /\ Cardinality(Of(Called, Caller[c])) \in Nat /\ Cardinality(With(made, c)) \in Nat
      BY <2>1, <2>2, CallsFinite, MadeIsSeq, WithFinite
    <2>4. Cardinality(With(made, c)) + Cardinality(Of(Queued, Caller[c]))
            <= Cardinality(Of(Called, Caller[c]))
      BY <2>1 DEF Counted
    <2> QED
      BY <2>3, <2>4
  <1> QED
    BY <1>1, Invariance, PTL

-----------------------------------------------------------------------------
(* Matchmaker implements Pairing for patient players.                      *)

\* What Pairing sees of a match that has come to a stage, and of a mate.
StageStatus(stage) ==
  CASE stage = "stored" -> "playing" [] stage = "failed" -> "failed" [] OTHER -> "matched"
Other(m, c) == IF m.one # c THEN m.one ELSE m.two
Mate(c) == IF MateOf(c) \in PatientCalls \cup {NoCall} THEN MateOf(c) ELSE AI

\* A patient player's call is in one place, where its status and its mate are
\* read off.
Reads ==
  \A c \in PatientCalls :
    /\ at[c] = "idle" => StatusOf(c) = "new" /\ With(made, c) = {}
    /\ c \in Queued => StatusOf(c) = "waiting" /\ at[c] # "idle" /\ With(made, c) = {}
    /\ at[c] # "idle" /\ c \notin Queued /\ With(made, c) = {} => StatusOf(c) = "left"
    /\ With(made, c) = {} => Mate(c) = NoCall
    /\ \A i \in With(made, c) :
         /\ c \notin Queued /\ StatusOf(c) = StageStatus(made[i].stage)
         /\ MateOf(c) = Other(made[i], c)

\* What the invariant says of the mapping, state by state.
LEMMA Reading == IInv => Reads
  <1> SUFFICES ASSUME IInv, NEW c \in PatientCalls
               PROVE  /\ at[c] = "idle" => StatusOf(c) = "new" /\ With(made, c) = {}
                      /\ c \in Queued =>
                           StatusOf(c) = "waiting" /\ at[c] # "idle" /\ With(made, c) = {}
                      /\ at[c] # "idle" /\ c \notin Queued /\ With(made, c) = {} =>
                           StatusOf(c) = "left"
                      /\ With(made, c) = {} => Mate(c) = NoCall
                      /\ \A i \in With(made, c) :
                           /\ c \notin Queued /\ StatusOf(c) = StageStatus(made[i].stage)
                           /\ MateOf(c) = Other(made[i], c)
    BY DEF Reads
  <1>1. MatchesOf(c) = With(made, c) /\ c \in Call
    BY DEF MatchesOf, With, PatientCalls
  <1>2. /\ c \in Queued => Active(c) /\ With(made, c) = {}
        /\ \A i, j \in With(made, c) : i = j
    BY DEF IInv, Apart
  <1>3. With(made, c) # {} => at[c] # "idle"
    BY DEF IInv, Counted, With, Called
  <1>4. ASSUME NEW i \in With(made, c)
        PROVE  /\ c \notin Queued /\ StatusOf(c) = StageStatus(made[i].stage)
               /\ MateOf(c) = Other(made[i], c)
    <2>1. TheMatch(c) = made[i]
      BY <1>1, <1>2, <1>4 DEF TheMatch
    <2>2. at[c] # "idle" /\ c \notin Queued /\ MatchesOf(c) # {}
      BY <1>1, <1>2, <1>3, <1>4
    <2>3. StatusOf(c) = StageStatus(made[i].stage)
      BY <2>1, <2>2 DEF StatusOf, StageStatus
    <2> QED
      BY <2>1, <2>2, <2>3 DEF MateOf, Other
  <1>5. With(made, c) = {} => Mate(c) = NoCall
    BY <1>1 DEF MateOf, Mate
  <1>6. /\ at[c] = "idle" => StatusOf(c) = "new"
        /\ at[c] # "idle" /\ c \in Queued => StatusOf(c) = "waiting"
        /\ at[c] # "idle" /\ c \notin Queued /\ With(made, c) = {} => StatusOf(c) = "left"
    BY <1>1 DEF StatusOf
  <1> QED
    BY <1>2, <1>3, <1>4, <1>5, <1>6 DEF Active

\* And of the next state.
LEMMA ReadingNext == IInv' => Reads'
  BY Reading, PTL

\* The steps of Pairing, call by call.
LEMMA Stutters ==
  ASSUME \A d \in PatientCalls : StatusOf(d)' = StatusOf(d) /\ Mate(d)' = Mate(d)
  PROVE  UNCHANGED Promise!vars
  BY DEF Promise!vars, Mate

\* One call from new to waiting is a step of Pairing.
LEMMA Joins ==
  ASSUME NEW c \in PatientCalls, StatusOf(c) = "new",
         \A d \in PatientCalls : /\ StatusOf(d)' = IF d = c THEN "waiting" ELSE StatusOf(d)
                                 /\ Mate(d)' = Mate(d)
  PROVE  Promise!Next
  <1>1. Promise!Join(c)
    BY DEF Promise!Join, Promise!Become, Mate
  <1> QED
    BY <1>1 DEF Promise!Next

\* One call from waiting to left is a step of Pairing.
LEMMA Leaves ==
  ASSUME NEW c \in PatientCalls, StatusOf(c) = "waiting",
         \A d \in PatientCalls : /\ StatusOf(d)' = IF d = c THEN "left" ELSE StatusOf(d)
                                 /\ Mate(d)' = Mate(d)
  PROVE  Promise!Next
  <1>1. Promise!Leave(c)
    BY DEF Promise!Leave, Promise!Become, Mate
  <1> QED
    BY <1>1 DEF Promise!Next

\* A match that starts or fails for both its sides is a step of Pairing.
LEMMA Settles ==
  ASSUME NEW c \in PatientCalls, StatusOf(c) = "matched", NEW s \in {"playing", "failed"},
         \A d \in PatientCalls :
           /\ StatusOf(d)' = IF d \in {c, Mate(c)} THEN s ELSE StatusOf(d)
           /\ Mate(d)' = Mate(d)
  PROVE  Promise!Next
  <1>1. Promise!Settle(c, s)
    BY DEF Promise!Settle, Promise!Become, Mate
  <1> QED
    BY <1>1 DEF Promise!Next

\* Several waiting calls paired among themselves or with outsiders are a step of Pairing.
LEMMA Pairs ==
  ASSUME NEW S \in SUBSET PatientCalls, S # {}, \A c \in S : StatusOf(c) = "waiting",
         \A d \in PatientCalls :
           /\ StatusOf(d)' = IF d \in S THEN "matched" ELSE StatusOf(d)
           /\ d \notin S => Mate(d)' = Mate(d),
         \A c \in S :
           \/ Mate(c)' = AI
           \/ /\ Mate(c)' \in S /\ \A d \in S : d = Mate(c)' => Mate(d)' = c
              /\ Caller[Mate(c)'] # Caller[c]
  PROVE  Promise!Next
  <1>1. Promise!Pair(S)
    BY DEF Promise!Pair, Promise!Become, Mate
  <1>2. S \in SUBSET {c \in PatientCalls : [d \in PatientCalls |-> StatusOf(d)][c] = "waiting"}
    OBVIOUS
  <1> QED
    BY <1>1, <1>2 DEF Promise!Next

\* A step that leaves a call where it is leaves its mate, and its status if its
\* match has come no further.
LEMMA MateSame ==
  ASSUME Reads, Reads', NEW c \in PatientCalls, With(made', c) = With(made, c),
         \A i \in With(made, c) : made'[i].one = made[i].one /\ made'[i].two = made[i].two
  PROVE  Mate(c)' = Mate(c)
  <1>1. CASE With(made, c) = {}
    BY <1>1 DEF Reads, PatientCalls
  <1>2. ASSUME NEW i \in With(made, c) PROVE Mate(c)' = Mate(c)
    <2>1. MateOf(c) = Other(made[i], c) /\ MateOf(c)' = Other(made'[i], c)
      BY <1>2 DEF Reads, PatientCalls
    <2>2. MateOf(c)' = MateOf(c)
      BY <1>2, <2>1 DEF Other
    <2> QED
      BY <2>2 DEF Mate, PatientCalls
  <1> QED
    BY <1>1, <1>2

\* A call keeps its status when its queue entry and the stage of its match do not change.
LEMMA StatusSame ==
  ASSUME Reads, Reads', NEW c \in PatientCalls, With(made', c) = With(made, c),
         at'[c] = "idle" <=> at[c] = "idle", c \in Queued' <=> c \in Queued,
         \A i \in With(made, c) : StageStatus(made'[i].stage) = StageStatus(made[i].stage)
  PROVE  StatusOf(c)' = StatusOf(c)
  <1>1. CASE With(made, c) = {}
    BY <1>1 DEF Reads, PatientCalls
  <1>2. ASSUME NEW i \in With(made, c) PROVE StatusOf(c)' = StatusOf(c)
    BY <1>2 DEF Reads, PatientCalls
  <1> QED
    BY <1>1, <1>2

\* A step that changes neither matches nor queues is a stutter of Pairing.
LEMMA SameFate ==
  ASSUME Reads, Reads', made' = made,
         \A c \in PatientCalls : /\ at'[c] = "idle" <=> at[c] = "idle"
                                 /\ c \in Queued' <=> c \in Queued
  PROVE  UNCHANGED Promise!vars
  <1>1. ASSUME NEW c \in PatientCalls
        PROVE  StatusOf(c)' = StatusOf(c) /\ Mate(c)' = Mate(c)
    BY MateSame, StatusSame
  <1> QED
    BY <1>1, Stutters

\* FindMatch is a Join, or a stutter for a hasty call.
LEMMA SimulatesEnqueue ==
  ASSUME IInv, IInv', NEW c \in Call, Enqueue(c)
  PROVE  Promise!Next \/ UNCHANGED Promise!vars
  <1>1. Reads /\ Reads'
    BY Reading, ReadingNext
  <1>2. /\ at[c] = "idle" /\ made' = made
        /\ \A d \in Call : at'[d] = IF d = c THEN "joining" ELSE at[d]
    BY DEF Enqueue, IInv, Inv, TypeOK
  <1>3. Queued' = Queued \cup {c} /\ \A d \in PatientCalls : d \in Call
    BY Enqueued DEF PatientCalls
  <1>4. CASE c \notin PatientCalls
    BY <1>1, <1>2, <1>3, <1>4, SameFate
  <1>5. CASE c \in PatientCalls
    <2>1. StatusOf(c) = "new" /\ StatusOf(c)' = "waiting"
      BY <1>1, <1>2, <1>3, <1>5 DEF Reads, PatientCalls
    <2>2. \A d \in PatientCalls : Mate(d)' = Mate(d)
      BY <1>1, <1>2, MateSame
    <2>3. ASSUME NEW d \in PatientCalls, d # c PROVE StatusOf(d)' = StatusOf(d)
      BY <1>1, <1>2, <1>3, <2>3, StatusSame
    <2> QED
      BY <1>5, <2>1, <2>2, <2>3, Joins
  <1> QED
    BY <1>4, <1>5

\* A cancellation is a Leave, or a stutter.
LEMMA SimulatesCancel ==
  ASSUME IInv, IInv', NEW p, Cancels(p), made' = made,
         \A c \in PatientCalls : at'[c] = "idle" <=> at[c] = "idle"
  PROVE  Promise!Next \/ UNCHANGED Promise!vars
  <1>1. Reads /\ Reads'
    BY Reading, ReadingNext
  <1>2. CASE UNCHANGED <<queue, age, closed>>
    <2>1. Queued' = Queued
      BY <1>2 DEF Queued
    <2> QED
      BY <1>1, <2>1, SameFate
  <1>3. ASSUME NEW c \in Queued, Queued' = Queued \ {c}
        PROVE  Promise!Next \/ UNCHANGED Promise!vars
    <2>1. CASE c \notin PatientCalls
      BY <1>1, <1>3, <2>1, SameFate
    <2>2. CASE c \in PatientCalls
      <3>1. StatusOf(c) = "waiting" /\ StatusOf(c)' = "left"
        BY <1>1, <1>3, <2>2 DEF Reads, PatientCalls
      <3>2. \A d \in PatientCalls : Mate(d)' = Mate(d)
        BY <1>1, MateSame
      <3>3. ASSUME NEW d \in PatientCalls, d # c PROVE StatusOf(d)' = StatusOf(d)
        BY <1>1, <1>3, <3>3, StatusSame
      <3> QED
        BY <2>2, <3>1, <3>2, <3>3, Leaves
    <2> QED
      BY <2>1, <2>2
  <1> QED
    BY <1>2, <1>3 DEF Cancels

\* The patient calls that a round matches are paired together, or with
\* outsiders.
LEMMA SimulatesTryMatch ==
  ASSUME IInv, IInv', TryMatch
  PROVE  Promise!Next \/ UNCHANGED Promise!vars
  <1> DEFINE S == {c \in PatientCalls : c \in Queued /\ c \notin Queued'}
  <1>0. Inv /\ Apart /\ OneAtATime /\ Reads /\ Reads'
    BY Reading, ReadingNext DEF IInv
  <1>1. Round(Queued, AllNew, Queued') /\ made' = made \o AllNew /\ at' = at
    BY <1>0, Tried DEF TryMatch
  <1>2. \A i \in DOMAIN made : made'[i] = made[i]
    <2>1. \A i \in DOMAIN (made \o AllNew) :
            \/ i \in DOMAIN made /\ (made \o AllNew)[i] = made[i]
            \/ i \notin DOMAIN made /\ \E j \in DOMAIN AllNew : (made \o AllNew)[i] = AllNew[j]
      BY <1>0, TriedMade
    <2>2. DOMAIN made \subseteq DOMAIN (made \o AllNew)
      BY <1>0, TriedMade
    <2> QED
      BY <1>1, <2>1, <2>2
  <1>3. ASSUME NEW c \in PatientCalls, c \notin S
        PROVE  StatusOf(c)' = StatusOf(c) /\ Mate(c)' = Mate(c)
    <2>1. /\ With(made', c) = With(made, c)
          /\ c \in Queued' <=> c \in Queued
      BY <1>3, TriedPatient
    <2>2. \A i \in With(made, c) : made'[i] = made[i]
      BY <1>2 DEF With
    <2> QED
      BY <1>0, <1>1, <2>1, <2>2, MateSame, StatusSame
  <1>4. ASSUME NEW c \in S
        PROVE  /\ StatusOf(c) = "waiting" /\ StatusOf(c)' = "matched"
               /\ \/ Mate(c)' = AI
                  \/ /\ Mate(c)' \in S /\ \A d \in S : d = Mate(c)' => Mate(d)' = c
                     /\ Caller[Mate(c)'] # Caller[c]
    <2>0. c \in PatientCalls /\ c \in Queued /\ c \notin Queued'
      OBVIOUS
    <2> HIDE DEF S
    <2>1. With(made', c) # {} /\ With(made, c) = {}
      BY <2>0, TriedPatient
    <2>2. PICK i \in With(made', c) : TRUE
      BY <2>1
    <2>3. i \in DOMAIN made' /\ c \in Sides(made'[i]) /\ i \notin DOMAIN made
      BY <1>2, <2>1, <2>2 DEF With
    <2>4. PICK j \in DOMAIN AllNew : made'[i] = AllNew[j]
      BY <1>0, <1>1, <2>3, TriedMade
    <2>5. /\ made'[i] \in Fresh /\ Sides(made'[i]) \subseteq Queued
          /\ made'[i].one # made'[i].two
      BY <1>0, <1>1, <2>4, TriedMade DEF Round
    <2>6. /\ StatusOf(c)' = StageStatus(made'[i].stage)
          /\ MateOf(c)' = Other(made'[i], c)
      BY <1>0, <2>0, <2>2 DEF Reads, PatientCalls
    <2>7. StatusOf(c) = "waiting" /\ StatusOf(c)' = "matched"
      BY <1>0, <2>0, <2>5, <2>6 DEF Reads, Fresh, StageStatus
    <2> PICK d : d = Other(made'[i], c)
      OBVIOUS
    <2>8. Mate(c)' = IF d \in PatientCalls \cup {NoCall} THEN d ELSE AI
      BY <2>6 DEF Mate, PatientCalls
    <2>9. d \in Call \cup {AI} /\ d # c
      BY <2>3, <2>5 DEF Fresh, Other, Sides
    <2>10. CASE d \notin PatientCalls
      BY <2>7, <2>8, <2>9, <2>10, MatchmakerAssumption
    <2>11. CASE d \in PatientCalls
      <3>1. d \in Call /\ Mate(c)' = d
        BY <2>8, <2>11 DEF PatientCalls
      <3>2. d \in Sides(made'[i]) /\ c \in {made'[i].one, made'[i].two}
            /\ Other(made'[i], d) = c
        BY <2>3, <2>5, <2>9, <3>1 DEF Sides, Other
      <3>3. i \in With(made', d) /\ d \in Queued
        BY <2>3, <2>5, <3>2 DEF With
      <3>4. d \notin Queued' /\ MateOf(d)' = c
        BY <1>0, <2>11, <3>2, <3>3 DEF Reads, PatientCalls
      <3>5. d \in S /\ Mate(d)' = c
        BY <2>0, <2>11, <3>3, <3>4 DEF S, Mate, PatientCalls
      <3>6. Caller[d] # Caller[c]
        BY <1>0, <2>0, <2>9, <2>11, <3>3 DEF Apart, OneAtATime
      <3>7. \A e \in S : e = Mate(c)' => Mate(e)' = c
        BY <3>1, <3>5
      <3> QED
        BY <2>7, <3>1, <3>5, <3>6, <3>7
    <2> QED
      BY <2>10, <2>11
  <1>5. CASE S = {}
    <2> HIDE DEF S
    <2> QED
      BY <1>3, <1>5, Stutters
  <1>6. CASE S # {}
    <2>1. S \in SUBSET PatientCalls
      OBVIOUS
    <2> HIDE DEF S
    <2> QED
      BY <1>3, <1>4, <1>6, <2>1, Pairs
  <1> QED
    BY <1>5, <1>6

\* A match that comes to its end settles the patient calls on its sides.
LEMMA SimulatesStarter ==
  ASSUME IInv, IInv', SameSides, UNCHANGED <<at, queue>>, NEW i \in DOMAIN made,
         \A j \in DOMAIN made : j # i => made'[j] = made[j],
         \/ StageStatus(made'[i].stage) = StageStatus(made[i].stage)
         \/ /\ StageStatus(made[i].stage) = "matched"
            /\ StageStatus(made'[i].stage) \in {"playing", "failed"}
  PROVE  Promise!Next \/ UNCHANGED Promise!vars
  <1>0. Inv /\ Reads /\ Reads' /\ Queued' = Queued
    BY Reading, ReadingNext DEF IInv, Queued
  <1>1. \A c : With(made', c) = With(made, c)
    BY <1>0, SidesSame
  <1>2. \A d \in PatientCalls : Mate(d)' = Mate(d)
    BY <1>0, <1>1, MateSame DEF SameSides, With
  <1>3. ASSUME NEW d \in PatientCalls,
               \/ i \notin With(made, d)
               \/ StageStatus(made'[i].stage) = StageStatus(made[i].stage)
        PROVE  StatusOf(d)' = StatusOf(d)
    <2>1. \A j \in With(made, d) : StageStatus(made'[j].stage) = StageStatus(made[j].stage)
      BY <1>3 DEF With
    <2> QED
      BY <1>0, <1>1, <2>1, StatusSame
  <1>4. CASE \/ StageStatus(made'[i].stage) = StageStatus(made[i].stage)
             \/ \A d \in PatientCalls : i \notin With(made, d)
    BY <1>2, <1>3, <1>4, Stutters
  <1>5. ASSUME NEW c \in PatientCalls, i \in With(made, c),
               StageStatus(made[i].stage) = "matched",
               StageStatus(made'[i].stage) \in {"playing", "failed"}
        PROVE  Promise!Next
    <2> DEFINE s == StageStatus(made'[i].stage)
    <2>1. StatusOf(c) = "matched" /\ MateOf(c) = Other(made[i], c)
      BY <1>0, <1>5 DEF Reads
    <2>2. ASSUME NEW d \in PatientCalls
          PROVE  d \in {c, Mate(c)} <=> i \in With(made, d)
      <3>1. d \in Call /\ c \in Call /\ c \in {made[i].one, made[i].two}
        BY <1>5 DEF PatientCalls, With, Sides
      <3>2. i \in With(made, d) <=> d \in {made[i].one, made[i].two}
        BY <3>1 DEF With, Sides
      <3>3. d = Mate(c) <=> d = MateOf(c)
        BY <3>1, MatchmakerAssumption DEF Mate
      <3> QED
        BY <1>5, <2>1, <3>1, <3>2, <3>3 DEF Other
    <2>3. ASSUME NEW d \in PatientCalls, i \in With(made, d)
          PROVE  StatusOf(d)' = s
      BY <1>0, <1>1, <2>3 DEF Reads, PatientCalls
    <2>4. \A d \in PatientCalls :
            /\ StatusOf(d)' = IF d \in {c, Mate(c)} THEN s ELSE StatusOf(d)
            /\ Mate(d)' = Mate(d)
      BY <1>2, <1>3, <2>2, <2>3
    <2>5. s \in {"playing", "failed"}
      BY <1>5
    <2> HIDE DEF s
    <2> QED
      BY <1>5, <2>1, <2>4, <2>5, Settles
  <1> QED
    BY <1>4, <1>5

\* Every step of Matchmaker is a step of Pairing or a stutter.
LEMMA SimulatesStep ==
  IInv /\ IInv' /\ [Next]_vars => Promise!Next \/ UNCHANGED Promise!vars
  <1> DEFINE Simulated == Promise!Next \/ UNCHANGED Promise!vars
  <1> SUFFICES ASSUME IInv, IInv', [Next]_vars PROVE Simulated
    OBVIOUS
  <1>0. Inv /\ TypeOK /\ Reads /\ Reads' /\ \A c \in PatientCalls : c \in Call
    BY Reading, ReadingNext DEF IInv, Inv, PatientCalls
  <1>1. ASSUME NEW c \in Call, Enqueue(c) PROVE Simulated
    BY <1>1, SimulatesEnqueue
  <1>2. ASSUME UNCHANGED <<queue, made>>,
               \A c \in Call : at'[c] = "idle" <=> at[c] = "idle"
        PROVE  Simulated
    <2>1. Queued' = Queued
      BY <1>2 DEF Queued
    <2> QED
      BY <1>0, <1>2, <2>1, SameFate
  <1>3. ASSUME NEW c \in Call, Handler(c) PROVE Simulated
    <2> HIDE DEF Simulated
    <2> QED
      BY <1>0, <1>2, <1>3 DEF Handler, SendInQueue, Finish, TypeOK
  <1>4. ASSUME NEW c \in Call, GiveUp(c) PROVE Simulated
    <2>1. Cancels(Caller[c]) /\ made' = made
      BY <1>0, <1>4, Cancelled DEF GiveUp
    <2>2. \A d \in PatientCalls : at'[d] = "idle" <=> at[d] = "idle"
      BY <1>0, <1>4 DEF GiveUp, TypeOK
    <2> QED
      BY <2>1, <2>2, SimulatesCancel
  <1>5. ASSUME NEW p \in Player, Cancel(p) PROVE Simulated
    <2>1. Cancels(p) /\ made' = made /\ at' = at
      BY <1>0, <1>5, Cancelled DEF Cancel
    <2> QED
      BY <2>1, SimulatesCancel
  <1>6. CASE TryMatch
    BY <1>6, SimulatesTryMatch
  <1>7. ASSUME NEW i \in MatchId, StartGame(i) PROVE Simulated
    <2>1. /\ SameSides /\ i \in DOMAIN made /\ made[i].stage = "starting"
          /\ \A j \in DOMAIN made : j # i => made'[j] = made[j]
          /\ made'[i].stage \in {"started", "failed"}
      BY <1>0, <1>7, StartGameFacts
    <2>2. \/ StageStatus(made'[i].stage) = StageStatus(made[i].stage)
          \/ /\ StageStatus(made[i].stage) = "matched"
             /\ StageStatus(made'[i].stage) \in {"playing", "failed"}
      BY <2>1 DEF StageStatus
    <2>3. UNCHANGED <<at, queue>>
      BY <1>7 DEF StartGame
    <2> QED
      BY <2>1, <2>2, <2>3, SimulatesStarter
  <1>8. ASSUME NEW i \in MatchId, StoreMatch(i) PROVE Simulated
    <2>1. /\ SameSides /\ i \in DOMAIN made /\ made[i].stage = "started"
          /\ \A j \in DOMAIN made : j # i => made'[j] = made[j]
          /\ made'[i].stage = "stored"
      BY <1>0, <1>8, StoreMatchFacts
    <2>2. /\ StageStatus(made[i].stage) = "matched"
          /\ StageStatus(made'[i].stage) \in {"playing", "failed"}
      BY <2>1 DEF StageStatus
    <2>3. UNCHANGED <<at, queue>>
      BY <1>8 DEF StoreMatch
    <2> QED
      BY <2>1, <2>2, <2>3, SimulatesStarter
  <1>9. ASSUME NEW i \in MatchId, Tell(i) PROVE Simulated
    <2>1. /\ SameSides /\ i \in DOMAIN made
          /\ \A j \in DOMAIN made : /\ made'[j].stage = made[j].stage
                                    /\ j # i => made'[j] = made[j]
      BY <1>0, <1>9, TellFacts DEF IInv
    <2>2. StageStatus(made'[i].stage) = StageStatus(made[i].stage)
      BY <2>1
    <2>3. UNCHANGED <<at, queue>>
      BY <1>9 DEF Tell
    <2> QED
      BY <2>1, <2>2, <2>3, SimulatesStarter
  <1>10. CASE Close
    <2>1. /\ \A c \in Call : at[c] \in {"idle", "done"}
          /\ at' = at /\ made' = made
      BY <1>10 DEF Close
    <2>2. Queued' = {}
      <3>1. ToSet(<<>>) = {} /\ \A t \in GameType : queue'[t] = <<>>
        BY <1>10 DEF ToSet, Close
      <3> QED
        BY <3>1 DEF Queued
    <2>3. \A c \in PatientCalls : c \notin Queued
      BY <1>0, <2>1 DEF IInv, Apart, Active
    <2> QED
      BY <1>0, <2>1, <2>2, <2>3, SameFate
  <1>11. ASSUME UNCHANGED <<at, queue, made>> PROVE Simulated
    <2> HIDE DEF Simulated
    <2> QED
      BY <1>2, <1>11
  <1> HIDE DEF Simulated
  <1> QED
    BY <1>1, <1>3, <1>4, <1>5, <1>6, <1>7, <1>8, <1>9, <1>10, <1>11 DEF Next, Starter, Wait,
       SubmitMatchResult, vars

\* Queues, removal by player, the loop, startGame and the races with
\* cancellations implement Pairing for patient players: a call waits, is paired
\* once, with a call that is paired with it, or is given up, and both sides of a
\* pair share its fate.
THEOREM MatchmakerImplementsPairing == Spec => ImplementsPairing
  <1>1. Init => Promise!Init
    <2> SUFFICES ASSUME Init PROVE Promise!Init
      OBVIOUS
    <2>1. Reads /\ \A c \in PatientCalls : at[c] = "idle"
      BY InitInv, Reading DEF Init, PatientCalls
    <2>2. \A c \in PatientCalls : StatusOf(c) = "new" /\ Mate(c) = NoCall
      BY <2>1 DEF Reads
    <2> QED
      BY <2>2 DEF Promise!Init, Mate
  <1>2. IInv /\ IInv' /\ [Next]_vars => [Promise!Next]_(Promise!vars)
    BY SimulatesStep
  <1> QED
    BY <1>1, <1>2, Invariance, PTL DEF Spec, ImplementsPairing, Promise!Spec
=============================================================================
