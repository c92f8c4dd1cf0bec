-------------------------- MODULE StatsBufferProofs --------------------------
(***************************************************************************)
(* Proofs about the buffer of card usage: whatever flushes overlap and     *)
(* fail, no record is lost while the process lives, none is counted again  *)
(* without a failed insert, and an orderly stop keeps what a failed insert *)
(* or a late tick does not take away.  And about the cache: however slow   *)
(* computations overwrite each other, answers are at most TTL behind.      *)
(***************************************************************************)
EXTENDS StatsBuffer, FiniteSetTheorems, TLAPS

\* What a flush that is not inserting holds, and when Close's is under way.
FlushesInOrder ==
  /\ \A f \in Flushers : flush[f].stage # "insert" => flush[f].records = {}
  /\ flush[Closer].stage # "idle" => proc = "closing"

\* No record is known before it is made.
OnlyMade ==
  /\ buffer \subseteq 1 .. n
  /\ \A f \in Flushers : flush[f].records \subseteq 1 .. n
  /\ \A r \in Record : r > n => copies[r] = 0

\* The types, in two halves: a step seldom changes both.
WriteType ==
  /\ buffer \subseteq Record
  /\ flush \in [Flushers -> [stage : {"idle", "due", "insert"}, records : SUBSET Record]]
  /\ copies \in [Record -> Nat] /\ rows \in Nat
  /\ proc \in {"up", "closing", "exiting", "gone"}
  /\ n \in 0 .. MaxRecords /\ failures \in 0 .. bound.failures
  /\ lost \subseteq Record /\ crashed \in BOOLEAN /\ calm \in BOOLEAN

ReadType ==
  /\ cache \in [known : BOOLEAN, at : Time, rows : Nat]
  /\ request \in [Callers -> [stage : {"idle", "look", "query", "store"}, tiers : Tiers,
                              since : Time, at : Time, rows : Nat]]
  /\ clock \in Time /\ bound \in Bounds
  /\ rowsUntil \in [Time -> Nat]

BufferInv == TypeOK /\ FlushesInOrder /\ OnlyMade /\ NothingLost /\ CopiesAreRetries
-----------------------------------------------------------------------------
\* The types of the buffer and those of the cache.
LEMMA Types == TypeOK <=> WriteType /\ ReadType
  BY DEF TypeOK, WriteType, ReadType

\* And in the next state.
LEMMA TypesNext == TypeOK' <=> WriteType' /\ ReadType'
  BY DEF TypeOK, WriteType, ReadType

\* Sets of records are finite.
LEMMA RecordsAreFinite == \A S \in SUBSET Record : Cardinality(S) \in Nat
  <1>1. IsFiniteSet(Record)
    BY FS_Interval, StatsAssumption DEF Record
  <1> QED
    BY <1>1, FS_Subset, FS_CardinalityType

\* Who holds a record.
LEMMA HeldBy == \A r : r \in Held <=> (r \in buffer \/ \E f \in Flushers : r \in flush[f].records)
  BY DEF Held, InFlight

\* And in the next state.
LEMMA HeldNext == \A r : r \in Held' <=> (r \in buffer' \/ \E f \in Flushers : r \in flush'[f].records)
  BY DEF Held, InFlight

\* Which flush holds a record.
LEMMA InFlightBy == \A r : r \in InFlight <=> \E f \in Flushers : r \in flush[f].records
  BY DEF InFlight

\* And in the next state.
LEMMA InFlightNext == \A r : r \in InFlight' <=> \E f \in Flushers : r \in flush'[f].records
  BY DEF InFlight

\* The bounds of a behaviour.
LEMMA BoundsHold ==
  ASSUME TypeOK
  PROVE  /\ bound.records \in 0 .. MaxRecords /\ bound.failures \in Nat
         /\ bound.time \in Time /\ bound.callers \subseteq Callers
  BY StatsAssumption DEF TypeOK

\* Nothing is recorded at the start.
LEMMA BufferInit == Init => BufferInv
  <1> SUFFICES ASSUME Init PROVE BufferInv
    OBVIOUS
  <1> USE DEF Init, Idle, NoCache, NoRequest, Asking
  <1>1. bound.failures \in Nat
    BY StatsAssumption
  <1>2. WriteType
    <2>1. n \in 0 .. MaxRecords /\ failures \in 0 .. bound.failures /\ rows \in Nat
      BY <1>1, StatsAssumption
    <2>2. flush \in [Flushers -> [stage : {"idle", "due", "insert"}, records : SUBSET Record]]
      OBVIOUS
    <2>3. copies \in [Record -> Nat]
      OBVIOUS
    <2> QED
      BY <2>1, <2>2, <2>3 DEF WriteType
  <1>8. 0 \in Time
    BY StatsAssumption DEF Time
  <1>9. ReadType
    BY <1>8 DEF ReadType, Tiers
  <1>3. Closer \in Flushers
    BY DEF Flushers
  <1>4. FlushesInOrder
    BY <1>3 DEF FlushesInOrder
  <1>5. OnlyMade
    BY DEF OnlyMade
  <1>6. NothingLost
    BY DEF NothingLost
  <1>7. CopiesAreRetries
    BY DEF CopiesAreRetries, Record
  <1> QED
    BY <1>2, <1>9, Types, <1>4, <1>5, <1>6, <1>7 DEF BufferInv
-----------------------------------------------------------------------------
\* Steps that move no record between memory and database.
LEMMA RecordsStay ==
  ASSUME BufferInv, UNCHANGED <<buffer, copies, n, failures>>, lost \subseteq lost',
         \A f \in Flushers : flush'[f].records = flush[f].records
  PROVE  OnlyMade' /\ NothingLost' /\ CopiesAreRetries'
  <1>1. \A r : r \in Held' <=> r \in Held
    BY HeldBy, HeldNext
  <1>2. \A r : r \in InFlight' <=> r \in InFlight
    BY InFlightBy, InFlightNext
  <1>3. OnlyMade'
    BY DEF BufferInv, OnlyMade
  <1>4. NothingLost'
    BY <1>1 DEF BufferInv, NothingLost
  <1>5. CopiesAreRetries'
    BY <1>1, <1>2 DEF BufferInv, CopiesAreRetries
  <1> QED
    BY <1>3, <1>4, <1>5

\* Steps of the clock and of the readers.
LEMMA ReadersElsewhere ==
  ASSUME BufferInv, UNCHANGED <<writing, bound>>, ReadType'
  PROVE  BufferInv'
  <1>1. WriteType'
    BY Types DEF BufferInv, WriteType, writing
  <1>2. FlushesInOrder'
    BY DEF BufferInv, FlushesInOrder, writing
  <1>3. OnlyMade' /\ NothingLost' /\ CopiesAreRetries'
    BY RecordsStay DEF writing
  <1> QED
    BY <1>1, <1>2, <1>3, TypesNext DEF BufferInv

\* Steps of the writers.
LEMMA ReadTypeKept ==
  ASSUME BufferInv, UNCHANGED reading
  PROVE  ReadType'
  BY Types DEF BufferInv, ReadType, reading

\* New records join the buffer.
LEMMA BufferAppend ==
  ASSUME BufferInv, NEW k \in Nat \ {0}, Append(k)
  PROVE  BufferInv'
  <1> USE DEF Append
  <1>0. WriteType /\ bound.records \in 0 .. MaxRecords /\ MaxRecords \in Nat /\ bound' = bound
    BY Types, BoundsHold, StatsAssumption DEF BufferInv, reading
  <1>1. n \in Nat /\ n' = n + k /\ n' <= MaxRecords /\ n' \in 0 .. MaxRecords
    BY <1>0 DEF WriteType
  <1>2. \A f \in Flushers : flush'[f].records = flush[f].records /\ (flush'[f].stage # flush[f].stage
          => f \in Workers /\ flush[f].stage = "idle" /\ flush'[f].stage = "due")
    BY <1>0 DEF WriteType
  <1>3. flush' \in [Flushers -> [stage : {"idle", "due", "insert"}, records : SUBSET Record]]
    BY <1>0 DEF WriteType
  <1>4. buffer' = buffer \cup (n + 1 .. n + k) /\ UNCHANGED <<copies, failures, lost, proc, rows, crashed>>
    OBVIOUS
  <1>5. WriteType'
    <2>1. buffer' \subseteq Record
      BY <1>0, <1>1, <1>4 DEF WriteType, Record
    <2>2. calm' \in BOOLEAN
      OBVIOUS
    <2> QED
      BY <1>0, <1>1, <1>3, <1>4, <2>1, <2>2 DEF WriteType
  <1>6. FlushesInOrder'
    <2>1. Closer \in Flushers /\ Closer \notin Workers
      BY StatsAssumption DEF Flushers
    <2> QED
      BY <1>2, <1>4, <2>1 DEF BufferInv, FlushesInOrder
  <1>7. OnlyMade'
    <2>1. buffer' \subseteq 1 .. n'
      BY <1>1, <1>4 DEF BufferInv, OnlyMade
    <2>2. \A f \in Flushers : flush'[f].records \subseteq 1 .. n'
      BY <1>1, <1>2 DEF BufferInv, OnlyMade
    <2>3. \A r \in Record : r > n' => copies'[r] = 0
      BY <1>1, <1>4 DEF BufferInv, OnlyMade, Record
    <2> QED
      BY <2>1, <2>2, <2>3 DEF OnlyMade
  <1>8. \A r : r \in Held' <=> (r \in Held \/ r \in n + 1 .. n + k)
    BY <1>2, <1>4, HeldBy, HeldNext
  <1>9. \A r : r \in InFlight' <=> r \in InFlight
    BY <1>2, InFlightBy, InFlightNext
  <1>10. NothingLost'
    <2> SUFFICES ASSUME NEW r \in 1 .. n'
                 PROVE  copies[r] > 0 \/ r \in Held' \/ r \in lost
      BY <1>4 DEF NothingLost
    <2>1. CASE r \in 1 .. n
      BY <2>1, <1>8 DEF BufferInv, NothingLost
    <2>2. CASE r \in n + 1 .. n + k
      BY <2>2, <1>8
    <2> QED
      BY <2>1, <2>2, <1>1
  <1>11. CopiesAreRetries'
    <2>1. \A f, g \in Flushers : f # g => flush'[f].records \cap flush'[g].records = {}
      BY <1>2 DEF BufferInv, CopiesAreRetries
    <2>2. buffer' \cap InFlight' = {}
      <3>1. InFlight \cap (n + 1 .. n + k) = {}
        BY <1>1, InFlightBy DEF BufferInv, OnlyMade
      <3> QED
        BY <3>1, <1>4, <1>9 DEF BufferInv, CopiesAreRetries
    <2>3. ASSUME NEW r \in Record
          PROVE  copies'[r] <= failures' + (IF r \in Held' THEN 0 ELSE 1)
      <3>1. CASE r \in n + 1 .. n + k
        <4>1. copies[r] = 0 /\ failures \in Nat
          BY <3>1, <1>0, <1>1, BoundsHold DEF BufferInv, OnlyMade, WriteType
        <4> QED
          BY <4>1, <1>4
      <3>2. CASE r \notin n + 1 .. n + k
        BY <3>2, <1>4, <1>8 DEF BufferInv, CopiesAreRetries
      <3> QED
        BY <3>1, <3>2
    <2> QED
      BY <2>1, <2>2, <2>3 DEF CopiesAreRetries
  <1>12. ReadType'
    BY ReadTypeKept
  <1> QED
    BY <1>5, <1>6, <1>7, <1>10, <1>11, <1>12, TypesNext DEF BufferInv

\* A tick starts a flush.
LEMMA BufferTick ==
  ASSUME BufferInv, Tick
  PROVE  BufferInv'
  <1> USE DEF Tick
  <1>1. WriteType /\ bound' = bound
    BY Types DEF BufferInv, reading
  <1>2. Ticker \in Flushers /\ Closer \in Flushers /\ Ticker # Closer
    BY StatsAssumption DEF Flushers
  <1>3. WriteType'
    BY <1>1, <1>2 DEF WriteType
  <1>4. \A f \in Flushers : flush'[f].records = flush[f].records
    BY <1>1 DEF WriteType
  <1>5. FlushesInOrder'
    BY <1>1, <1>2 DEF BufferInv, FlushesInOrder, WriteType
  <1> QED
    BY <1>3, <1>4, <1>5, RecordsStay, ReadTypeKept, TypesNext DEF BufferInv

\* So does Close.
LEMMA BufferClose ==
  ASSUME BufferInv, Close
  PROVE  BufferInv'
  <1> USE DEF Close
  <1>1. WriteType /\ bound' = bound
    BY Types DEF BufferInv, reading
  <1>2. Closer \in Flushers
    BY DEF Flushers
  <1>3. flush[Closer].stage = "idle"
    BY DEF BufferInv, FlushesInOrder
  <1>4. WriteType'
    <2>1. calm' \in BOOLEAN
      OBVIOUS
    <2>2. flush' \in [Flushers -> [stage : {"idle", "due", "insert"}, records : SUBSET Record]]
      BY <1>1, <1>2 DEF WriteType
    <2> QED
      BY <1>1, <2>1, <2>2 DEF WriteType
  <1>5. \A f \in Flushers : flush'[f].records = flush[f].records
    BY <1>1 DEF WriteType
  <1>6. FlushesInOrder'
    BY <1>1, <1>2, <1>3 DEF BufferInv, FlushesInOrder, WriteType
  <1> QED
    BY <1>4, <1>5, <1>6, RecordsStay, ReadTypeKept, TypesNext DEF BufferInv

\* An orderly exit has flushed.
LEMMA BufferExit ==
  ASSUME BufferInv, Exit
  PROVE  BufferInv'
  <1> USE DEF Exit
  <1>1. WriteType /\ bound' = bound
    BY Types DEF BufferInv, reading
  <1>2. InFlight \subseteq Record
    BY <1>1, InFlightBy DEF WriteType
  <1>3. WriteType'
    BY <1>1, <1>2 DEF WriteType
  <1>4. FlushesInOrder'
    BY DEF BufferInv, FlushesInOrder, Done
  <1> QED
    BY <1>3, <1>4, RecordsStay, ReadTypeKept, TypesNext DEF BufferInv

\* A flush takes the buffer: its records stay in memory.
LEMMA BufferTake ==
  ASSUME BufferInv, NEW f \in Flushers, Take(f)
  PROVE  BufferInv'
  <1> USE DEF Take
  <1>1. WriteType /\ bound' = bound
    BY Types DEF BufferInv, reading
  <1>2. flush[f].records = {} /\ Closer \in Flushers
    BY DEF BufferInv, FlushesInOrder, Flushers
  <1>3. /\ buffer' = {} /\ flush'[f].records = buffer
        /\ \A g \in Flushers \ {f} : flush'[g] = flush[g]
    <2>1. CASE buffer = {}
      BY <2>1, <1>1 DEF WriteType, Remaining, Idle
    <2>2. CASE buffer # {}
      BY <2>2, <1>1 DEF WriteType, Remaining
    <2> QED
      BY <2>1, <2>2
  <1>4. /\ flush' \in [Flushers -> [stage : {"idle", "due", "insert"}, records : SUBSET Record]]
        /\ flush'[f].stage = "insert" \/ (flush'[f].records = {} /\ flush'[f].stage = "idle")
    BY <1>1 DEF WriteType, Idle
  <1>5. WriteType'
    BY <1>1, <1>3, <1>4 DEF WriteType, After
  <1>6. FlushesInOrder'
    <2>1. \A g \in Flushers : flush'[g].stage # "insert" => flush'[g].records = {}
      BY <1>3, <1>4 DEF BufferInv, FlushesInOrder
    <2>2. flush'[Closer].stage # "idle" => proc' = "closing"
      <3>1. CASE f = Closer
        BY <3>1, <1>1, <1>2, <1>4 DEF BufferInv, FlushesInOrder, WriteType, Idle
      <3>2. CASE f # Closer
        BY <3>2, <1>2, <1>3 DEF BufferInv, FlushesInOrder, After
      <3> QED
        BY <3>1, <3>2
    <2> QED
      BY <2>1, <2>2 DEF FlushesInOrder
  <1>7. \A r : r \in InFlight' <=> (r \in InFlight \/ r \in buffer)
    BY <1>2, <1>3, InFlightBy, InFlightNext
  <1>8. \A r : r \in Held' <=> r \in Held
    BY <1>3, <1>7 DEF Held
  <1>9. OnlyMade'
    BY <1>3 DEF BufferInv, OnlyMade
  <1>10. NothingLost'
    BY <1>8 DEF BufferInv, NothingLost
  <1>11. CopiesAreRetries'
    <2>1. \A g \in Flushers \ {f} : flush[g].records \cap buffer = {}
      BY InFlightBy DEF BufferInv, CopiesAreRetries
    <2>2. \A g, h \in Flushers : g # h => flush'[g].records \cap flush'[h].records = {}
      BY <1>3, <2>1 DEF BufferInv, CopiesAreRetries
    <2> QED
      BY <1>3, <1>8, <2>2 DEF BufferInv, CopiesAreRetries
  <1> QED
    BY <1>5, <1>6, <1>9, <1>10, <1>11, ReadTypeKept, TypesNext DEF BufferInv

\* What becomes of a flush that has ended.
LEMMA FlushEnds ==
  ASSUME BufferInv, NEW f \in Flushers, flush' = [flush EXCEPT ![f] = Idle], proc' = After(f)
  PROVE  /\ flush' \in [Flushers -> [stage : {"idle", "due", "insert"}, records : SUBSET Record]]
         /\ flush'[f].records = {} /\ \A g \in Flushers \ {f} : flush'[g] = flush[g]
         /\ proc' \in {"up", "closing", "exiting", "gone"}
         /\ FlushesInOrder'
  <1>1. WriteType /\ Closer \in Flushers
    BY Types DEF BufferInv, Flushers
  <1>2. /\ flush' \in [Flushers -> [stage : {"idle", "due", "insert"}, records : SUBSET Record]]
        /\ flush'[f].records = {} /\ flush'[f].stage = "idle"
        /\ \A g \in Flushers \ {f} : flush'[g] = flush[g]
    BY <1>1 DEF WriteType, Idle
  <1>3. proc' \in {"up", "closing", "exiting", "gone"}
    BY <1>1 DEF WriteType, After
  <1>4. FlushesInOrder'
    BY <1>1, <1>2 DEF BufferInv, FlushesInOrder, After
  <1> QED
    BY <1>2, <1>3, <1>4

\* What an insert adds to the database.
LEMMA StoredCopies ==
  ASSUME TypeOK, NEW S \in SUBSET Record
  PROVE  /\ Stored(S) \in [Record -> Nat] /\ rows + Cardinality(S) \in Nat
         /\ \A r \in Record : Stored(S)[r] = IF r \in S THEN copies[r] + 1 ELSE copies[r]
  BY RecordsAreFinite, Types DEF Stored, WriteType

\* An insert counts each of its records once, and forgets them.
LEMMA BufferInsert ==
  ASSUME BufferInv, NEW f \in Flushers, Insert(f)
  PROVE  BufferInv'
  <1> USE DEF Insert
  <1> DEFINE S == flush[f].records
  <1>1. WriteType /\ bound' = bound /\ S \in SUBSET Record /\ TypeOK
    BY Types DEF BufferInv, reading, WriteType
  <1>2. /\ copies' \in [Record -> Nat] /\ rows' \in Nat
        /\ \A r \in Record : copies'[r] = IF r \in S THEN copies[r] + 1 ELSE copies[r]
    BY <1>1, StoredCopies
  <1>3. WriteType'
    BY <1>1, <1>2, FlushEnds DEF WriteType
  <1>4. FlushesInOrder'
    BY FlushEnds
  <1>5. flush'[f].records = {} /\ \A g \in Flushers \ {f} : flush'[g] = flush[g]
    BY FlushEnds
  <1>6. \A g \in Flushers \ {f} : flush[g].records \cap S = {}
    BY DEF BufferInv, CopiesAreRetries
  <1>7. buffer \cap S = {} /\ \A r \in S : r \in InFlight
    BY InFlightBy DEF BufferInv, CopiesAreRetries
  <1>8. \A r : r \in InFlight' <=> (r \in InFlight /\ r \notin S)
    BY <1>5, <1>6, InFlightBy, InFlightNext
  <1>9. \A r : r \in Held' <=> (r \in Held /\ r \notin S)
    BY <1>7, <1>8 DEF Held
  <1>10. OnlyMade'
    <2>1. \A r \in Record : r > n => r \notin S
      BY <1>1 DEF BufferInv, OnlyMade, WriteType, Record
    <2> QED
      BY <1>2, <1>5, <2>1 DEF BufferInv, OnlyMade
  <1>11. NothingLost'
    <2> SUFFICES ASSUME NEW r \in 1 .. n
                 PROVE  copies'[r] > 0 \/ r \in Held' \/ r \in lost
      BY DEF NothingLost
    <2>1. r \in Record /\ copies[r] \in Nat
      BY <1>1, StatsAssumption DEF WriteType, Record
    <2>2. copies'[r] >= copies[r] /\ (r \in S => copies'[r] > 0)
      BY <1>2, <2>1
    <2> QED
      BY <1>2, <1>9, <2>1, <2>2 DEF BufferInv, NothingLost
  <1>12. CopiesAreRetries'
    <2>1. \A g, h \in Flushers : g # h => flush'[g].records \cap flush'[h].records = {}
      BY <1>5 DEF BufferInv, CopiesAreRetries
    <2>2. buffer' \cap InFlight' = {}
      BY <1>8 DEF BufferInv, CopiesAreRetries
    <2>3. ASSUME NEW r \in Record
          PROVE  copies'[r] <= failures' + (IF r \in Held' THEN 0 ELSE 1)
      <3>1. copies[r] \in Nat /\ failures \in Nat /\ failures' = failures
        BY <1>1, BoundsHold DEF WriteType
      <3>2. copies[r] <= failures + (IF r \in Held THEN 0 ELSE 1)
        BY DEF BufferInv, CopiesAreRetries
      <3>3. CASE r \in S
        <4>1. r \in Held /\ r \notin Held'
          BY <3>3, <1>7, <1>9 DEF Held
        <4> QED
          BY <3>1, <3>2, <3>3, <4>1, <1>2
      <3>4. CASE r \notin S
        BY <3>1, <3>2, <3>4, <1>2, <1>9
      <3> QED
        BY <3>3, <3>4
    <2> QED
      BY <2>1, <2>2, <2>3 DEF CopiesAreRetries
  <1> QED
    BY <1>3, <1>4, <1>10, <1>11, <1>12, ReadTypeKept, TypesNext DEF BufferInv

\* After an error the records are back in memory, and may be stored once more.
LEMMA BufferInsertFails ==
  ASSUME BufferInv, NEW f \in Flushers, InsertFails(f)
  PROVE  BufferInv'
  <1> USE DEF InsertFails
  <1> DEFINE R == flush[f].records
  <1>1. WriteType /\ bound' = bound /\ R \in SUBSET Record /\ TypeOK
    BY Types DEF BufferInv, reading, WriteType
  <1>2. PICK S \in SUBSET R : copies' = Stored(S) /\ rows' = rows + Cardinality(S)
    OBVIOUS
  <1>3. /\ copies' \in [Record -> Nat] /\ rows' \in Nat
        /\ \A r \in Record : copies'[r] = IF r \in S THEN copies[r] + 1 ELSE copies[r]
    <2>1. S \in SUBSET Record
      BY <1>1, <1>2
    <2> QED
      BY <1>1, <1>2, <2>1, StoredCopies
  <1>4. failures \in Nat /\ failures' = failures + 1 /\ failures' \in 0 .. bound'.failures
    BY <1>1, BoundsHold DEF WriteType
  <1>5. buffer' = R \cup buffer
    BY DEF PutBack
  <1>6. WriteType'
    <2>1. calm' \in BOOLEAN
      OBVIOUS
    <2> QED
      BY <1>1, <1>3, <1>4, <1>5, <2>1, FlushEnds DEF WriteType
  <1>7. FlushesInOrder'
    BY FlushEnds
  <1>8. flush'[f].records = {} /\ \A g \in Flushers \ {f} : flush'[g] = flush[g]
    BY FlushEnds
  <1>9. \A g \in Flushers \ {f} : flush[g].records \cap R = {}
    BY DEF BufferInv, CopiesAreRetries
  <1>10. \A r : r \in InFlight' <=> (r \in InFlight /\ r \notin R)
    BY <1>8, <1>9, InFlightBy, InFlightNext
  <1>11. \A r \in R : r \in InFlight
    BY InFlightBy
  <1>12. \A r : r \in Held' <=> r \in Held
    BY <1>5, <1>10, <1>11 DEF Held
  <1>13. OnlyMade'
    <2>1. \A r \in Record : r > n => r \notin S
      BY <1>1, <1>2 DEF BufferInv, OnlyMade, WriteType, Record
    <2> QED
      BY <1>3, <1>5, <1>8, <2>1 DEF BufferInv, OnlyMade
  <1>14. NothingLost'
    <2> SUFFICES ASSUME NEW r \in 1 .. n
                 PROVE  copies'[r] > 0 \/ r \in Held' \/ r \in lost
      BY DEF NothingLost
    <2>1. r \in Record /\ copies[r] \in Nat
      BY <1>1, StatsAssumption DEF WriteType, Record
    <2>2. copies'[r] >= copies[r]
      BY <1>3, <2>1
    <2> QED
      BY <1>3, <1>12, <2>1, <2>2 DEF BufferInv, NothingLost
  <1>15. CopiesAreRetries'
    <2>1. \A g, h \in Flushers : g # h => flush'[g].records \cap flush'[h].records = {}
      BY <1>8 DEF BufferInv, CopiesAreRetries
    <2>2. buffer' \cap InFlight' = {}
      BY <1>5, <1>10 DEF BufferInv, CopiesAreRetries
    <2>3. ASSUME NEW r \in Record
          PROVE  copies'[r] <= failures' + (IF r \in Held' THEN 0 ELSE 1)
      <3>1. copies[r] \in Nat /\ copies'[r] \in Nat /\ copies'[r] <= copies[r] + 1
        BY <1>1, <1>3 DEF WriteType
      <3>2. copies[r] <= failures + (IF r \in Held THEN 0 ELSE 1)
        BY DEF BufferInv, CopiesAreRetries
      <3>3. failures \in Nat /\ failures' = failures + 1
        BY <1>4
      <3> QED
        BY <3>1, <3>2, <3>3, <1>12
    <2> QED
      BY <2>1, <2>2, <2>3 DEF CopiesAreRetries
  <1> QED
    BY <1>6, <1>7, <1>13, <1>14, <1>15, ReadTypeKept, TypesNext DEF BufferInv

\* The process dies: what was in memory is lost, and known to be.
LEMMA BufferDie ==
  ASSUME BufferInv, Die
  PROVE  BufferInv'
  <1> USE DEF Die
  <1>1. WriteType /\ ReadType
    BY Types DEF BufferInv
  <1>2. flush' \in [Flushers -> [stage : {"idle", "due", "insert"}, records : SUBSET Record]]
    BY DEF Idle
  <1>3. \A f \in Flushers : flush'[f].stage = "idle" /\ flush'[f].records = {}
    BY DEF Idle
  <1>4. InFlight \subseteq Record
    BY <1>1, InFlightBy DEF WriteType
  <1>5. WriteType'
    BY <1>1, <1>2, <1>4 DEF WriteType
  <1>6. 0 \in Time
    BY StatsAssumption DEF Time
  <1>7. ReadType'
    BY <1>1, <1>6 DEF ReadType, NoCache, NoRequest, Asking, Tiers
  <1>8. FlushesInOrder'
    BY <1>3 DEF FlushesInOrder, Flushers
  <1>9. OnlyMade'
    BY <1>3 DEF BufferInv, OnlyMade
  <1>10. \A r : r \notin Held' /\ r \notin InFlight'
    BY <1>3, HeldNext, InFlightNext
  <1>11. NothingLost'
    BY DEF BufferInv, NothingLost, Held
  <1>12. CopiesAreRetries'
    <2> SUFFICES ASSUME NEW r \in Record
                 PROVE  copies[r] <= failures + 1
      BY <1>3, <1>10 DEF CopiesAreRetries
    <2>1. copies[r] \in Nat /\ failures \in Nat
      BY <1>1, BoundsHold DEF WriteType, BufferInv
    <2> QED
      BY <2>1 DEF BufferInv, CopiesAreRetries
  <1> QED
    BY <1>5, <1>7, <1>8, <1>9, <1>11, <1>12, TypesNext DEF BufferInv
-----------------------------------------------------------------------------
\* The steps of the readers and the clock.
LEMMA ReadersType ==
  ASSUME BufferInv,
         \/ Pass
         \/ \E c \in Callers : Ask(c) \/ Look(c) \/ Query(c) \/ Store(c)
  PROVE  ReadType' /\ UNCHANGED <<writing, bound>>
  <1>1. WriteType /\ ReadType /\ MaxTime \in Nat /\ 0 \in Time
    BY Types, StatsAssumption DEF BufferInv, Time
  <1>2. CASE Pass
    <2>1. clock' \in Time
      BY <1>1, <1>2, BoundsHold DEF BufferInv, ReadType, Pass, Time
    <2>2. rows \in Nat
      BY <1>1 DEF WriteType
    <2> QED
      BY <1>1, <1>2, <2>1, <2>2 DEF ReadType, Pass
  <1> DEFINE Request == [stage : {"idle", "look", "query", "store"}, tiers : Tiers,
                         since : Time, at : Time, rows : Nat]
  <1>3. \A s \in {"idle", "look", "query", "store"}, t \in Tiers, u, v \in Time, k \in Nat :
          Asking(s, t, u, v, k) \in Request
    BY DEF Asking
  <1>4. ASSUME NEW c \in Callers, NEW q \in Request, request' = [request EXCEPT ![c] = q],
               UNCHANGED <<writing, clock, bound, rowsUntil>>, 
               cache' \in [known : BOOLEAN, at : Time, rows : Nat]
        PROVE  ReadType' /\ UNCHANGED <<writing, bound>>
    BY <1>1, <1>4 DEF ReadType
  <1>5. ASSUME NEW c \in Callers, Ask(c) \/ Look(c) \/ Query(c) \/ Store(c)
        PROVE  ReadType' /\ UNCHANGED <<writing, bound>>
    <2>1. /\ request[c].tiers \in Tiers /\ request[c].since \in Time /\ request[c].at \in Time
          /\ request[c].rows \in Nat /\ cache.rows \in Nat /\ clock \in Time /\ rows \in Nat
          /\ cache \in [known : BOOLEAN, at : Time, rows : Nat]
          /\ 0 \in Nat /\ 0 \in Time /\ "no" \in Tiers /\ "ahead" \in Tiers /\ "yes" \in Tiers
      BY <1>1 DEF WriteType, ReadType, Tiers
    <2>2. CASE Ask(c)
      <3>2. Asking("look", "no", clock, 0, 0) \in Request
        BY <2>1, <1>3
      <3>3. Asking("query", "ahead", clock, clock, 0) \in Request
        BY <2>1, <1>3
      <3>4. CASE GetBalanceStats(c)
        BY <2>1, <3>2, <3>4, <1>4 DEF GetBalanceStats
      <3>5. CASE GetTierDistribution(c)
        BY <2>1, <3>3, <3>5, <1>4 DEF GetTierDistribution
      <3> QED
        BY <2>2, <3>4, <3>5 DEF Ask
    <2>3. CASE Look(c)
      <3>1. Answered(request[c], cache.rows) \in Request
        BY <2>1, <1>3 DEF Answered
      <3>2. Asking("query", request[c].tiers, request[c].since, clock, 0) \in Request
        BY <2>1, <1>3
      <3>3. CASE Fresh
        BY <2>1, <2>3, <3>1, <3>3, <1>4 DEF Look
      <3>4. CASE ~Fresh
        BY <2>1, <2>3, <3>2, <3>4, <1>4 DEF Look
      <3> QED
        BY <3>3, <3>4
    <2>4. CASE Query(c)
      <3>1. Asking("store", request[c].tiers, request[c].since, request[c].at, rows) \in Request
        BY <2>1, <1>3
      <3>2. NoRequest \in Request
        BY <2>1, <1>3 DEF NoRequest
      <3> QED
        BY <2>1, <2>4, <3>1, <3>2, <1>4 DEF Query
    <2>5. CASE Store(c)
      <3>1. cache' \in [known : BOOLEAN, at : Time, rows : Nat]
        BY <2>1, <2>5 DEF Store, Generated
      <3>2. Answered(request[c], request[c].rows) \in Request
        BY <2>1, <1>3 DEF Answered
      <3>3. Asking("look", "yes", request[c].since, 0, 0) \in Request
        BY <2>1, <1>3
      <3>4. CASE request[c].tiers = "ahead"
        BY <2>5, <3>1, <3>3, <3>4, <1>4 DEF Store
      <3>5. CASE request[c].tiers # "ahead"
        BY <2>5, <3>1, <3>2, <3>5, <1>4 DEF Store
      <3> QED
        BY <3>4, <3>5
    <2> QED
      BY <1>5, <2>2, <2>3, <2>4, <2>5
  <1> QED
    BY <1>2, <1>5

\* Every step keeps BufferInv.
LEMMA BufferStep == BufferInv /\ [Next]_vars => BufferInv'
  <1> SUFFICES ASSUME BufferInv, [Next]_vars PROVE BufferInv'
    OBVIOUS
  <1>1. ASSUME RecordCardUsage \/ RecordGameResult PROVE BufferInv'
    BY <1>1, BufferAppend, StatsAssumption DEF RecordCardUsage, RecordGameResult
  <1>2. ASSUME NEW f \in Flushers, FlushStep(f) PROVE BufferInv'
    BY <1>2, BufferTake, BufferInsert, BufferInsertFails DEF FlushStep
  <1>3. ASSUME Pass \/ \E c \in Callers : Ask(c) \/ Look(c) \/ Query(c) \/ Store(c)
        PROVE  BufferInv'
    BY <1>3, ReadersType, ReadersElsewhere
  <1>4. ASSUME Crash \/ \E c \in Callers : Unrated(c) PROVE BufferInv'
    BY <1>4, BufferDie DEF Crash, Unrated
  <1>5. CASE UNCHANGED vars
    <2>1. ReadType' /\ UNCHANGED <<writing, bound>>
      BY <1>5, ReadTypeKept DEF vars, reading
    <2> QED
      BY <2>1, ReadersElsewhere
  <1> QED
    BY <1>1, <1>2, <1>3, <1>4, <1>5, BufferTick, BufferClose, BufferExit DEF Next, Answer

\* So it holds throughout.
LEMMA BufferInvariant == Spec => []BufferInv
  BY BufferInit, BufferStep, PTL DEF Spec

\* Every state component keeps its type.
THEOREM TypesHold == Spec => []TypeOK
  <1>1. BufferInv => TypeOK
    BY DEF BufferInv
  <1> QED
    BY <1>1, BufferInvariant, PTL

\* No record made is ever lost but with the process, whichever of FlushBuffer's
\* calls overlap and whatever part of their inserts fails.
THEOREM NothingIsLost == Spec => []NothingLost
  <1>1. BufferInv => NothingLost
    BY DEF BufferInv
  <1> QED
    BY <1>1, BufferInvariant, PTL

\* FlushBuffer stores a record twice only after an insert has failed.
THEOREM OnlyRetriesCopy == Spec => []CopiesAreRetries
  <1>1. BufferInv => CopiesAreRetries
    BY DEF BufferInv
  <1> QED
    BY <1>1, BufferInvariant, PTL

\* So every record is accounted for: none is lost and none stored again without
\* a failure.
THEOREM RecordsAccountedFor == Spec => []Inv
  <1>1. TypeOK /\ NothingLost /\ CopiesAreRetries => Inv
    BY DEF Inv
  <1> QED
    BY <1>1, TypesHold, NothingIsLost, OnlyRetriesCopy, PTL
-----------------------------------------------------------------------------
\* An orderly stop in which nothing has come in between: nobody but Close
\* flushes, and what is left in the buffer is Close's to take.
StopInv ==
  /\ calm /\ proc \in {"closing", "exiting"} =>
       \A f \in Flushers \ {Closer} : flush[f].stage = "idle"
  /\ calm /\ proc = "closing" /\ flush[Closer].stage = "insert" => buffer = {}
  /\ calm /\ proc = "exiting" => buffer = {}

\* No stop is under way at the start.
LEMMA StopInit == Init => StopInv
  BY DEF Init, StopInv

\* Every step keeps StopInv.
LEMMA StopStep == BufferInv /\ StopInv /\ [Next]_vars => StopInv'
  <1> SUFFICES ASSUME BufferInv, StopInv, [Next]_vars PROVE StopInv'
    OBVIOUS
  <1>1. Closer \in Flushers /\ WriteType
    BY Types DEF Flushers, BufferInv
  <1>2. ASSUME UNCHANGED writing PROVE StopInv'
    BY <1>2 DEF StopInv, writing
  <1>3. ASSUME NEW k \in Nat, Append(k) PROVE StopInv'
    BY <1>3 DEF StopInv, Append
  <1>4. ASSUME Tick PROVE StopInv'
    BY <1>4 DEF StopInv, Tick
  <1>5. ASSUME Close PROVE StopInv'
    BY <1>1, <1>5 DEF StopInv, Close, WriteType
  <1>6. ASSUME Exit PROVE StopInv'
    BY <1>6 DEF StopInv, Exit
  <1>7. ASSUME Die PROVE StopInv'
    BY <1>7 DEF StopInv, Die
  <1>8. ASSUME NEW f \in Flushers, Take(f) PROVE StopInv'
    <2>1. CASE f = Closer
      <3>1. buffer' = {} /\ calm' = calm /\ \A g \in Flushers \ {f} : flush'[g] = flush[g]
        BY <1>1, <1>8 DEF Take, Remaining, WriteType
      <3>2. proc = "closing"
        BY <1>8, <2>1 DEF Take, BufferInv, FlushesInOrder
      <3> QED
        BY <2>1, <3>1, <3>2 DEF StopInv
    <2>2. CASE f # Closer
      <3>1. ~(calm /\ proc \in {"closing", "exiting"})
        BY <1>8, <2>2 DEF Take, StopInv
      <3>2. calm' = calm /\ proc' = proc
        BY <1>8, <2>2 DEF Take, After
      <3> QED
        BY <3>1, <3>2 DEF StopInv
    <2> QED
      BY <2>1, <2>2
  <1>9. ASSUME NEW f \in Flushers, Insert(f) PROVE StopInv'
    <2>1. CASE f = Closer
      <3>1. proc = "closing" /\ flush[Closer].stage = "insert" /\ UNCHANGED <<buffer, calm>>
            /\ \A g \in Flushers \ {f} : flush'[g] = flush[g]
            /\ proc' = "exiting"
        BY <1>1, <1>9, <2>1 DEF Insert, BufferInv, FlushesInOrder, WriteType, After
      <3> QED
        BY <2>1, <3>1 DEF StopInv
    <2>2. CASE f # Closer
      <3>1. ~(calm /\ proc \in {"closing", "exiting"})
        BY <1>9, <2>2 DEF Insert, StopInv
      <3>2. calm' = calm /\ proc' = proc
        BY <1>9, <2>2 DEF Insert, After
      <3> QED
        BY <3>1, <3>2 DEF StopInv
    <2> QED
      BY <2>1, <2>2
  <1>10. ASSUME NEW f \in Flushers, InsertFails(f) PROVE StopInv'
    <2>1. CASE f = Closer
      <3>1. proc = "closing"
        BY <1>10, <2>1 DEF InsertFails, BufferInv, FlushesInOrder
      <3> QED
        BY <1>10, <3>1 DEF InsertFails, StopInv
    <2>2. CASE f # Closer
      BY <1>10, <2>2 DEF InsertFails, After, StopInv
    <2> QED
      BY <2>1, <2>2
  <1>11. ASSUME NEW c \in Callers, Look(c) \/ Query(c) \/ Store(c) \/ Ask(c) PROVE UNCHANGED writing
    BY <1>11 DEF Look, Query, Store, Ask, GetBalanceStats, GetTierDistribution
  <1>12. ASSUME Pass \/ UNCHANGED vars PROVE UNCHANGED writing
    BY <1>12 DEF Pass, vars
  <1> QED
    BY <1>2, <1>3, <1>4, <1>5, <1>6, <1>7, <1>8, <1>9, <1>10, <1>11, <1>12, StatsAssumption
       DEF Next, RecordCardUsage, RecordGameResult, FlushStep, Crash, Answer, Unrated

\* What StatsCollector's Close keeps: every record, unless a flush was under way
\* already, an insert fails, a last tick comes or records still arrive.
THEOREM OrderlyStopKeeps == Spec => StopKeeps
  <1>1. BufferInv /\ StopInv /\ [Next]_vars => [proc # "gone" /\ proc' = "gone" /\ calm => lost' = lost]_vars
    <2> SUFFICES ASSUME BufferInv, StopInv, Next, proc # "gone", proc' = "gone", calm
                 PROVE  lost' = lost
      OBVIOUS
    <2>1. Exit
      <3>1. \A f \in Flushers : ~FlushStep(f)
        BY DEF FlushStep, Take, Insert, InsertFails, After
      <3>2. \A c \in Callers : ~Ask(c) /\ ~Answer(c)
        BY DEF Ask, Answer, GetBalanceStats, GetTierDistribution, Look, Unrated, Query, Store,
               Die, writing
      <3> QED
        BY <3>1, <3>2 DEF Next, RecordCardUsage, RecordGameResult, Append, Tick, Close, Crash,
                          Die, Pass, writing
    <2>2. buffer = {} /\ \A f \in Flushers : flush[f].stage = "idle"
      BY <2>1 DEF Exit, Done, StopInv, BufferInv, FlushesInOrder
    <2>3. InFlight = {}
      BY <2>2, InFlightBy DEF BufferInv, FlushesInOrder
    <2> QED
      BY <2>1, <2>2, <2>3 DEF Exit
  <1> QED
    BY <1>1, BufferInvariant, StopInit, StopStep, PTL DEF Spec, StopKeeps
-----------------------------------------------------------------------------
\* A result known at time `at` counts what was in the database when the clock
\* left any earlier time.
CountsUntil(at, k) == \A t \in Time : t < at => rowsUntil[t] <= k

RequestOK(q) ==
  /\ q.since <= clock /\ q.at <= clock
  /\ q.stage \in {"query", "store"} => q.since <= q.at
  /\ q.stage = "store" => CountsUntil(q.at, q.rows)
  /\ q.stage = "idle" /\ q.since >= TTL => q.rows >= rowsUntil[q.since - TTL]

CacheOK == cache.known => cache.at <= clock /\ CountsUntil(cache.at, cache.rows)

ReadInv ==
  /\ \A t \in Time : rowsUntil[t] <= rows
  /\ CacheOK
  /\ \A c \in Callers : RequestOK(request[c])

\* Times are numbers.
LEMMA TimeIsNat == Time \subseteq Nat /\ 0 \in Time /\ TTL \in Nat \ {0}
  BY StatsAssumption DEF Time

\* A result that is no older than a request answers it.
LEMMA RecentEnough ==
  ASSUME TypeOK, NEW since \in Time, NEW at \in Time, NEW k \in Nat, since >= TTL,
         since - TTL < at, CountsUntil(at, k)
  PROVE  k >= rowsUntil[since - TTL]
  <1>1. since - TTL \in Time
    BY StatsAssumption DEF Time
  <1>2. rowsUntil[since - TTL] \in Nat
    BY <1>1, Types DEF ReadType
  <1>3. rowsUntil[since - TTL] <= k
    BY <1>1 DEF CountsUntil
  <1> QED
    BY <1>2, <1>3

\* A caller without a request.
LEMMA NoRequestOK == clock \in Nat => RequestOK(NoRequest)
  <1>1. NoRequest.since = 0 /\ NoRequest.at = 0 /\ NoRequest.stage = "idle"
    BY DEF NoRequest, Asking
  <1> QED
    BY <1>1, TimeIsNat DEF RequestOK

\* Nothing is cached at the start.
LEMMA ReadInit == Init => ReadInv
  <1> SUFFICES ASSUME Init PROVE ReadInv
    OBVIOUS
  <1>1. \A c \in Callers : RequestOK(request[c])
    BY NoRequestOK DEF Init
  <1>2. \A t \in Time : rowsUntil[t] <= rows
    BY DEF Init
  <1>3. CacheOK
    BY DEF Init, NoCache, CacheOK
  <1> QED
    BY <1>1, <1>2, <1>3 DEF ReadInv

\* The steps that only let the database grow.
LEMMA ReadWritersElsewhere ==
  ASSUME BufferInv, ReadInv, UNCHANGED reading, rows' \in Nat, rows <= rows'
  PROVE  ReadInv'
  <1>1. \A t \in Time : rowsUntil[t] \in Nat /\ rows \in Nat
    BY Types DEF BufferInv, WriteType, ReadType
  <1>2. \A t \in Time : rowsUntil'[t] <= rows'
    BY <1>1 DEF ReadInv, reading
  <1> QED
    BY <1>2 DEF ReadInv, reading, RequestOK, CacheOK, CountsUntil

\* The steps of one caller, by what becomes of its request and of the cache.
LEMMA ReadCaller ==
  ASSUME BufferInv, ReadInv, NEW c \in Callers, NEW q, request' = [request EXCEPT ![c] = q],
         UNCHANGED <<rows, clock, rowsUntil>>, RequestOK(q), CacheOK'
  PROVE  ReadInv'
  <1>1. request'[c] = q /\ \A d \in Callers \ {c} : request'[d] = request[d]
    BY Types DEF BufferInv, ReadType
  <1>2. \A d \in Callers : RequestOK(request[d])'
    BY <1>1 DEF ReadInv, RequestOK, CountsUntil
  <1>3. \A t \in Time : rowsUntil'[t] <= rows'
    BY DEF ReadInv
  <1> QED
    BY <1>2, <1>3 DEF ReadInv

\* The passing of time keeps ReadInv.
LEMMA ReadPass ==
  ASSUME BufferInv, ReadInv, Pass
  PROVE  ReadInv'
  <1> USE DEF Pass
  <1>1. ReadType /\ rows \in Nat /\ clock \in Time /\ clock' = clock + 1 /\ clock \in Nat
    BY Types, TimeIsNat DEF BufferInv, ReadType, WriteType
  <1>2. \A t \in Time : t < clock => rowsUntil'[t] = rowsUntil[t]
    BY <1>1, TimeIsNat DEF ReadType
  <1>3. \A t \in Time : rowsUntil'[t] <= rows'
    BY <1>1 DEF ReadInv, ReadType, writing
  <1>4. ASSUME NEW u \in Time, NEW k, u <= clock, CountsUntil(u, k)
        PROVE  CountsUntil(u, k)'
    BY <1>1, <1>2, <1>4, TimeIsNat DEF CountsUntil
  <1>5. CacheOK'
    <2>1. cache.at \in Time /\ cache.at \in Nat
      BY <1>1, TimeIsNat DEF ReadType
    <2> QED
      BY <1>1, <1>4, <2>1 DEF ReadInv, CacheOK
  <1>6. ASSUME NEW c \in Callers
        PROVE  RequestOK(request[c])'
    <2> DEFINE q == request[c]
    <2>1. q.at \in Time /\ q.at \in Nat /\ q.since \in Nat /\ q.since \in Time
      BY <1>1, TimeIsNat DEF ReadType
    <2>2. RequestOK(q) /\ request' = request
      BY DEF ReadInv
    <2>3. q.since <= clock' /\ q.at <= clock'
      BY <1>1, <2>1, <2>2 DEF RequestOK
    <2>4. q.stage = "store" => CountsUntil(q.at, q.rows)'
      BY <1>4, <2>1, <2>2 DEF RequestOK
    <2>5. ASSUME q.since >= TTL
          PROVE  rowsUntil'[q.since - TTL] = rowsUntil[q.since - TTL]
      <3>1. q.since - TTL \in Time /\ q.since - TTL < clock
        BY <1>1, <2>1, <2>2, <2>5, StatsAssumption DEF Time, RequestOK
      <3> QED
        BY <1>2, <3>1
    <2> QED
      BY <2>2, <2>3, <2>4, <2>5 DEF RequestOK
  <1> QED
    BY <1>3, <1>5, <1>6 DEF ReadInv

\* So does the end of the process.
LEMMA ReadDie ==
  ASSUME BufferInv, ReadInv, Die
  PROVE  ReadInv'
  <1> USE DEF Die
  <1>1. clock \in Nat /\ clock' = clock
    BY Types, TimeIsNat DEF BufferInv, ReadType
  <1>2. \A c \in Callers : RequestOK(request[c])'
    BY <1>1, NoRequestOK DEF RequestOK, CountsUntil
  <1>3. CacheOK'
    BY DEF NoCache, CacheOK
  <1>4. \A t \in Time : rowsUntil'[t] <= rows'
    BY DEF ReadInv
  <1> QED
    BY <1>2, <1>3, <1>4 DEF ReadInv

\* Every step keeps ReadInv.
LEMMA ReadStep == BufferInv /\ ReadInv /\ [Next]_vars => ReadInv'
  <1> SUFFICES ASSUME BufferInv, ReadInv, [Next]_vars PROVE ReadInv'
    OBVIOUS
  <1>1. WriteType /\ ReadType /\ rows \in Nat
    BY Types DEF BufferInv, WriteType
  <1>2. ASSUME UNCHANGED reading, UNCHANGED rows PROVE ReadInv'
    BY <1>1, <1>2, ReadWritersElsewhere
  <1>3. ASSUME NEW f \in Flushers, FlushStep(f) PROVE ReadInv'
    <2>1. flush[f].records \in SUBSET Record
      BY <1>1 DEF WriteType
    <2>2. ASSUME NEW S \in SUBSET flush[f].records, rows' = rows + Cardinality(S)
          PROVE  rows' \in Nat /\ rows <= rows'
      BY <1>1, <2>1, <2>2, RecordsAreFinite
    <2>3. CASE Take(f)
      BY <2>3, <1>2 DEF Take
    <2>4. CASE Insert(f)
      BY <2>4, <2>2, ReadWritersElsewhere DEF Insert
    <2>5. CASE InsertFails(f)
      BY <2>5, <2>2, ReadWritersElsewhere DEF InsertFails
    <2> QED
      BY <1>3, <2>3, <2>4, <2>5 DEF FlushStep
  <1>4. ASSUME NEW c \in Callers, Ask(c) \/ Look(c) \/ Query(c) \/ Store(c)
        PROVE  ReadInv'
    <2>1. /\ request[c].since \in Nat /\ request[c].at \in Nat /\ request[c].rows \in Nat
          /\ request[c].since \in Time /\ request[c].at \in Time /\ cache.at \in Time
          /\ clock \in Nat /\ cache.rows \in Nat /\ cache.at \in Nat
          /\ TTL \in Nat \ {0} /\ 0 \in Nat
      BY <1>1, TimeIsNat DEF ReadType
    <2>2. RequestOK(request[c]) /\ CacheOK
      BY DEF ReadInv
    <2>3. CASE Ask(c)
      <3>1. UNCHANGED <<rows, clock, rowsUntil, cache>>
        BY <2>3 DEF Ask, GetBalanceStats, GetTierDistribution, writing
      <3>2. CacheOK'
        BY <2>2, <3>1 DEF CacheOK, CountsUntil
      <3>3. RequestOK(Asking("look", "no", clock, 0, 0))
        BY <2>1 DEF RequestOK, Asking
      <3>4. RequestOK(Asking("query", "ahead", clock, clock, 0))
        BY <2>1 DEF RequestOK, Asking
      <3>5. CASE GetBalanceStats(c)
        BY <3>1, <3>2, <3>3, <3>5, ReadCaller DEF GetBalanceStats
      <3>6. CASE GetTierDistribution(c)
        BY <3>1, <3>2, <3>4, <3>6, ReadCaller DEF GetTierDistribution
      <3> QED
        BY <2>3, <3>5, <3>6 DEF Ask
    <2>4. CASE Look(c)
      <3>1. UNCHANGED <<rows, clock, rowsUntil, cache>>
        BY <2>4 DEF Look, writing
      <3>2. CacheOK'
        BY <2>2, <3>1 DEF CacheOK, CountsUntil
      <3>3. CASE Fresh
        <4>1. ASSUME request[c].since >= TTL
              PROVE  cache.rows >= rowsUntil[request[c].since - TTL]
          <5>1. cache.known /\ clock - cache.at < TTL
            BY <3>3 DEF Fresh
          <5>2. request[c].since - TTL < cache.at
            BY <2>1, <2>2, <5>1 DEF RequestOK
          <5> QED
            BY <2>1, <2>2, <4>1, <5>1, <5>2, RecentEnough DEF BufferInv, CacheOK
        <4>2. RequestOK(Answered(request[c], cache.rows))
          BY <2>1, <2>2, <4>1 DEF RequestOK, Answered, Asking
        <4> QED
          BY <2>4, <3>1, <3>2, <3>3, <4>2, ReadCaller DEF Look
      <3>4. CASE ~Fresh
        <4>1. RequestOK(Asking("query", request[c].tiers, request[c].since, clock, 0))
          BY <2>1, <2>2 DEF RequestOK, Asking
        <4> QED
          BY <2>4, <3>1, <3>2, <3>4, <4>1, ReadCaller DEF Look
      <3> QED
        BY <3>3, <3>4
    <2>5. CASE Query(c)
      <3>1. UNCHANGED <<rows, clock, rowsUntil, cache>>
        BY <2>5 DEF Query, writing
      <3>2. CacheOK'
        BY <2>2, <3>1 DEF CacheOK, CountsUntil
      <3>3. RequestOK(NoRequest)
        BY <2>1, NoRequestOK
      <3>4. RequestOK(Asking("store", request[c].tiers, request[c].since, request[c].at, rows))
        <4>1. request[c].since <= request[c].at
          BY <2>2, <2>5 DEF Query, RequestOK
        <4>2. CountsUntil(request[c].at, rows)
          BY DEF CountsUntil, ReadInv
        <4> QED
          BY <2>1, <2>2, <4>1, <4>2 DEF RequestOK, Asking
      <3> QED
        BY <2>5, <3>1, <3>2, <3>3, <3>4, ReadCaller DEF Query
    <2>6. CASE Store(c)
      <3>1. /\ request[c].since <= request[c].at
            /\ CountsUntil(request[c].at, request[c].rows)
        BY <2>2, <2>6 DEF Store, RequestOK
      <3>2. UNCHANGED <<rows, clock, rowsUntil>>
        BY <2>6 DEF Store, writing
      <3>3. CacheOK'
        BY <2>2, <2>6, <3>1, <3>2 DEF Store, Generated, CacheOK, CountsUntil, RequestOK
      <3>4. CASE request[c].tiers = "ahead"
        <4>1. RequestOK(Asking("look", "yes", request[c].since, 0, 0))
          BY <2>1, <2>2 DEF RequestOK, Asking
        <4> QED
          BY <2>6, <3>2, <3>3, <3>4, <4>1, ReadCaller DEF Store
      <3>5. CASE request[c].tiers # "ahead"
        <4>1. ASSUME request[c].since >= TTL
              PROVE  request[c].rows >= rowsUntil[request[c].since - TTL]
          <5>1. request[c].since - TTL < request[c].at
            BY <2>1, <3>1
          <5> QED
            BY <2>1, <3>1, <4>1, <5>1, RecentEnough DEF BufferInv
        <4>2. RequestOK(Answered(request[c], request[c].rows))
          BY <2>1, <2>2, <4>1 DEF RequestOK, Answered, Asking
        <4> QED
          BY <2>6, <3>2, <3>3, <3>5, <4>2, ReadCaller DEF Store
      <3> QED
        BY <3>4, <3>5
    <2> QED
      BY <1>4, <2>3, <2>4, <2>5, <2>6
  <1>5. ASSUME Die PROVE ReadInv'
    BY <1>5, ReadDie
  <1>6. ASSUME Pass PROVE ReadInv'
    BY <1>6, ReadPass
  <1>7. ASSUME Tick \/ Close \/ Exit \/ (\E k \in Nat : Append(k)) \/ UNCHANGED vars PROVE ReadInv'
    BY <1>7, <1>2 DEF Tick, Close, Exit, Append, vars, writing
  <1> QED
    BY <1>3, <1>4, <1>5, <1>6, <1>7, StatsAssumption
       DEF Next, RecordCardUsage, RecordGameResult, Crash, Answer, Unrated

\* ComputeStats and ComputeTierDistribution, with the cache and all their races,
\* never answer with a result more than cacheTTL older than the request.
THEOREM AnswersAreRecent == Spec => []AnswersRecent
  <1>1. ReadInv => AnswersRecent
    BY DEF ReadInv, RequestOK, AnswersRecent
  <1> QED
    BY <1>1, BufferInvariant, ReadInit, ReadStep, PTL DEF Spec
=============================================================================
