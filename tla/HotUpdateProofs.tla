--------------------------- MODULE HotUpdateProofs ---------------------------
(***************************************************************************)
(* Proofs about hot updates of card values: whatever writes fail, time out *)
(* or are cut short by a crash, and whatever the loads of restarts miss,   *)
(* what was settled stays, the log and the updates that failed account for *)
(* the overrides, and a revert brings back what was replaced.              *)
(***************************************************************************)
EXTENDS HotUpdate, TLAPS

Stage == {"idle", "replace", "insert", "commit"}
Op == [stage : Stage, id : Changes, of : Changes, now : BOOLEAN,
       merged : Overrides, before : Overrides, after : Overrides]

\* While an update is not settled memory and document may differ; once it has
\* written, the document is its own.
Settled ==
  /\ settled => stored.now /\ stored.values = active
  /\ settled /\ whole => memory = active
  /\ whole => up
  /\ op.stage # "idle" => up
  /\ op.stage \in {"insert", "commit"} => stored = Written(op) /\ ~settled

\* The overrides of m are of changes in S, but for the ones of the update o
\* that is not in S yet.
ToldWith(m, S, o) ==
  \A f \in Field : m[f] = Unset \/ (\E e \in S : e.after[f] = m[f]) \/ m[f] = o.after[f]

Immediate == {e \in Changed : e.now}

\* Every override in memory, stored or about to be is accounted for, at every
\* stage of an update.
Accounted ==
  /\ op.stage = "commit" => Logged(op) \in log
  /\ Told(memory, Changed)
  /\ op.stage \in {"idle", "replace"} => Told(stored.values, Changed)
  /\ op.stage # "idle" => ToldWith(op.merged, Changed, op)
  /\ ~tomorrow =>
       /\ Told(memory, Immediate)
       /\ op.stage \in {"idle", "replace"} /\ stored.now => Told(stored.values, Immediate)
       /\ op.stage # "idle" /\ op.now => ToldWith(op.merged, Immediate, op)

\* Change ids are given once; a revert restores what its change has replaced.
Identified ==
  /\ \A e \in log : e.id <= n
  /\ last.id <= n
  /\ op.stage # "idle" => op.id = n /\ last.id < n
  /\ op.stage \in {"replace", "insert"} => \A e \in log : e.id < n
  /\ op.stage = "commit" => \A e \in log : e.id = n => e.before = op.before
  /\ \A e \in log : e.id = last.id => e.before = last.before
  /\ op.stage # "idle" /\ op.of # 0 =>
       /\ op.now
       /\ op.of = last.id => op.after = last.before
       /\ \A f \in Field : op.after[f] \notin {Unset, 0} => op.merged[f] = op.after[f]

IInv == TypeOK /\ Settled /\ Accounted /\ Identified
-----------------------------------------------------------------------------
\* The operators of updates give overrides, and values keep their kind.
LEMMA NoneIsOverrides == None \in Overrides
  BY DEF None, Overrides

\* Applying an update gives overrides.
LEMMA OverlayType == \A m, new \in Overrides : Overlay(m, new) \in Overrides
  BY DEF Overlay, Overrides

\* So does reverting one.
LEMMA RevertedType == \A m, before \in Overrides : Reverted(m, before) \in Overrides
  BY DEF Reverted, Overrides

\* An update under way is an Op.
LEMMA OpType == TypeOK => op \in Op
  BY DEF TypeOK, Op, Stage

\* So is none.
LEMMA NoOpType == NoOp \in Op
  BY NoneIsOverrides, HotUpdateAssumption DEF NoOp, Op, Stage, Changes

-----------------------------------------------------------------------------
\* The invariant holds at the start.
LEMMA InitIInv == Init => IInv
  <1> SUFFICES ASSUME Init PROVE IInv
    OBVIOUS
  <1> USE DEF Init, NoOp, NoLast
  <1>1. TypeOK
    <2>1. op \in Op
      BY NoOpType
    <2>2. n \in Changes /\ last \in [id : Changes, before : Overrides]
      BY NoneIsOverrides, HotUpdateAssumption DEF Changes
    <2>3. memory \in Overrides /\ active \in Overrides /\ stored \in [values : Overrides, now : BOOLEAN]
      BY NoneIsOverrides
    <2> QED
      BY <2>1, <2>2, <2>3 DEF TypeOK, Op, Stage
  <1>2. Settled
    BY DEF Settled
  <1>3. Accounted
    BY DEF Accounted, Told, None
  <1>4. Identified
    BY DEF Identified
  <1> QED
    BY <1>1, <1>2, <1>3, <1>4 DEF IInv

\* The types, one action after the other.
LEMMA TypeNext == TypeOK /\ Identified /\ [Next]_vars => TypeOK'
  <1> SUFFICES ASSUME TypeOK, Identified, [Next]_vars PROVE TypeOK'
    OBVIOUS
  <1>0. op \in Op /\ n \in Nat /\ MaxChanges \in Nat
    BY OpType, HotUpdateAssumption DEF TypeOK, Changes
  <1>1. ASSUME NEW new \in Updates, NEW immediate \in BOOLEAN, ApplyHotUpdate(new, immediate)
        PROVE  TypeOK'
    <2>1. new \in Overrides /\ Overlay(memory, new) \in Overrides
      BY HotUpdateAssumption, OverlayType DEF TypeOK
    <2>2. n' \in Changes /\ 0 \in Changes
      BY <1>0, <1>1 DEF ApplyHotUpdate, Changes
    <2>3. op' \in Op
      BY <1>1, <2>1, <2>2 DEF ApplyHotUpdate, TypeOK, Op, Stage
    <2> QED
      BY <1>1, <2>2, <2>3 DEF ApplyHotUpdate, TypeOK, Op, Stage, history
  <1>2. ASSUME NEW e \in log, RevertHotUpdate(e) PROVE TypeOK'
    <2>1. e \in Entry /\ e.before \in Overrides /\ e.after \in Overrides /\ e.id \in Changes
      BY <1>0 DEF TypeOK, Entry, Changes
    <2>2. Reverted(memory, e.before) \in Overrides
      BY <2>1, RevertedType DEF TypeOK
    <2>3. n' \in Changes
      BY <1>0, <1>2 DEF RevertHotUpdate, Changes
    <2>4. op' \in Op
      BY <1>2, <2>1, <2>2, <2>3 DEF RevertHotUpdate, TypeOK, Op, Stage
    <2> QED
      BY <1>2, <2>3, <2>4 DEF RevertHotUpdate, TypeOK, Op, Stage, history
  <1>3. Written(op) \in [values : Overrides, now : BOOLEAN]
    BY <1>0 DEF Written, Op
  <1>4. op.stage # "idle" => Logged(op) \in Entry
    BY <1>0 DEF Logged, Op, Entry, Identified, TypeOK, Changes
  <1>5. CASE Replace
    <2>1. op' \in Op
      BY <1>0, <1>5 DEF Replace, Op, Stage
    <2> QED
      BY <1>3, <1>5, <2>1 DEF Replace, Store, TypeOK, Op, Stage
  <1>6. CASE ReplaceFails
    <2>1. orphans' \subseteq Entry
      BY <1>4, <1>6 DEF ReplaceFails, TypeOK
    <2> QED
      BY <1>3, <1>6, <2>1, NoOpType DEF ReplaceFails, Store, Fail, TypeOK, Op, Stage
  <1>7. CASE Insert
    <2>1. op' \in Op
      BY <1>0, <1>7 DEF Insert, Op, Stage
    <2> QED
      BY <1>4, <1>7, <2>1 DEF Insert, TypeOK, Op, Stage, history
  <1>8. CASE InsertFails
    <2>1. log' \subseteq Entry /\ orphans' \subseteq Entry
      BY <1>4, <1>8 DEF InsertFails, TypeOK
    <2> QED
      BY <1>8, <2>1, NoOpType DEF InsertFails, Fail, TypeOK, Op, Stage
  <1>9. CASE Commit
    <2>1. memory' \in Overrides
      BY <1>0, <1>9 DEF Commit, Remembered, TypeOK, Op
    <2>2. last' \in [id : Changes, before : Overrides]
      BY <1>0, <1>9, NoneIsOverrides DEF Commit, TypeOK, NoLast, Op, Changes
    <2>3. settled' \in BOOLEAN /\ whole' \in BOOLEAN /\ active' \in Overrides
      BY <1>9, <2>1 DEF Commit, TypeOK
    <2> QED
      BY <1>9, <2>1, <2>2, <2>3, NoOpType DEF Commit, TypeOK, Op, Stage
  <1>10. ASSUME NEW first \in Load, NEW second \in Load, Restart(first, second) PROVE TypeOK'
    <2>1. memory' \in Overrides /\ active' \in Overrides
      BY <1>10, NoneIsOverrides DEF Restart, Loaded, TypeOK
    <2>2. up' \in BOOLEAN /\ settled' \in BOOLEAN /\ whole' \in BOOLEAN
      BY <1>10 DEF Restart, TypeOK
    <2>3. orphans' \subseteq Entry
      BY <1>4, <1>10 DEF Restart, TypeOK
    <2> QED
      BY <1>10, <2>1, <2>2, <2>3, NoOpType DEF Restart, TypeOK, Op, Stage
  <1>11. CASE Midnight
    BY <1>11 DEF Midnight, TypeOK, history
  <1>12. CASE UNCHANGED vars
    BY <1>12 DEF vars, history, TypeOK
  <1> QED
    BY <1>1, <1>2, <1>5, <1>6, <1>7, <1>8, <1>9, <1>10, <1>11, <1>12 DEF Next, Step

\* What memory and database have in common.
LEMMA SettledNext == TypeOK /\ Settled /\ [Next]_vars => Settled'
  <1> SUFFICES ASSUME TypeOK, Settled, [Next]_vars PROVE Settled'
    OBVIOUS
  <1> USE DEF Settled
  <1>1. ASSUME NEW new \in Updates, NEW immediate \in BOOLEAN, ApplyHotUpdate(new, immediate)
        PROVE  Settled'
    BY <1>1 DEF ApplyHotUpdate, history, Free
  <1>2. ASSUME NEW e \in log, RevertHotUpdate(e) PROVE Settled'
    BY <1>2 DEF RevertHotUpdate, history, Free
  <1>3. CASE Replace
    <2>1. op' = [op EXCEPT !.stage = "insert"] /\ Written(op') = Written(op)
      BY <1>3, OpType DEF Replace, Written, Op
    <2> QED
      BY <1>3, <2>1 DEF Replace, Store
  <1>4. CASE ReplaceFails
    BY <1>4 DEF ReplaceFails, Store, Fail, NoOp
  <1>5. CASE Insert
    <2>1. op' = [op EXCEPT !.stage = "commit"] /\ Written(op') = Written(op)
      BY <1>5, OpType DEF Insert, Written, Op
    <2> QED
      BY <1>5, <2>1 DEF Insert, history
  <1>6. CASE InsertFails
    BY <1>6 DEF InsertFails, Fail, NoOp
  <1>7. CASE Commit
    <2>1. stored.values = op.merged /\ stored.now = op.now
      BY <1>7 DEF Commit, Written
    <2> QED
      BY <1>7, <2>1 DEF Commit, Remembered, NoOp
  <1>8. ASSUME NEW first \in Load, NEW second \in Load, Restart(first, second) PROVE Settled'
    BY <1>8 DEF Restart, Loaded, NoOp, TypeOK
  <1>9. CASE Midnight
    BY <1>9 DEF Midnight, Free, history, TypeOK
  <1>10. CASE UNCHANGED vars
    BY <1>10 DEF vars, history
  <1> QED
    BY <1>1, <1>2, <1>3, <1>4, <1>5, <1>6, <1>7, <1>8, <1>9, <1>10 DEF Next, Step
-----------------------------------------------------------------------------
\* What is told by some changes is told by more.
LEMMA ToldMonotone ==
  ASSUME NEW m, NEW S, NEW T, S \subseteq T
  PROVE  /\ Told(m, S) => Told(m, T)
         /\ \A o : ToldWith(m, S, o) => ToldWith(m, T, o)
  BY DEF Told, ToldWith

\* Once an update is logged, or has failed, its overrides are told.
LEMMA ToldOnceLogged ==
  ASSUME NEW m, NEW S, NEW o, ToldWith(m, S, o), NEW e \in S, e.after = o.after
  PROVE  Told(m, S)
  BY DEF Told, ToldWith

\* An update takes over what is in force, and adds its own.
LEMMA ToldByUpdate ==
  ASSUME NEW m, NEW S, NEW o, Told(m, S)
  PROVE  /\ o.merged = Overlay(m, o.after) => ToldWith(o.merged, S, o)
         /\ o.merged = Reverted(m, o.after) => ToldWith(o.merged, S, o)
  BY DEF Told, ToldWith, Overlay, Reverted

\* No step removes an entry of the change log, or forgets a failed update.
LEMMA ChangesGrow == [Next]_vars => log \subseteq log' /\ Changed \subseteq Changed'
  BY DEF Next, Step, vars, history, ApplyHotUpdate, RevertHotUpdate, Replace, ReplaceFails, Insert,
         InsertFails, Commit, Restart, Midnight, Changed

\* Every step keeps Accounted.
LEMMA AccountedNext == TypeOK /\ Settled /\ Accounted /\ [Next]_vars => Accounted'
  <1> SUFFICES ASSUME TypeOK, Settled, Accounted, [Next]_vars PROVE Accounted'
    OBVIOUS
  <1>0. op \in Op
    BY OpType
  <1>a. log \subseteq log' /\ Changed \subseteq Changed' /\ Immediate \subseteq Immediate'
    BY ChangesGrow DEF Immediate
  <1>b. /\ Told(memory, Changed')
        /\ ~tomorrow => Told(memory, Immediate')
        /\ op.stage \in {"idle", "replace"} =>
             /\ Told(stored.values, Changed')
             /\ ~tomorrow /\ stored.now => Told(stored.values, Immediate')
        /\ op.stage # "idle" =>
             /\ ToldWith(op.merged, Changed', op)
             /\ ~tomorrow /\ op.now => ToldWith(op.merged, Immediate', op)
    BY <1>a, ToldMonotone DEF Accounted
  <1>c. Logged(op).after = op.after /\ Logged(op).now = op.now
    BY DEF Logged
  <1>1. ASSUME NEW new \in Updates, NEW immediate \in BOOLEAN, ApplyHotUpdate(new, immediate)
        PROVE  Accounted'
    <2>1. /\ op'.stage = "replace" /\ op'.after = new /\ op'.merged = Overlay(memory, new)
          /\ Free /\ UNCHANGED <<memory, stored, log, tomorrow, orphans>>
      BY <1>1 DEF ApplyHotUpdate, history
    <2>2. Told(memory, Changed) => ToldWith(op'.merged, Changed, op')
      BY <2>1, ToldByUpdate
    <2>3. Told(memory, Immediate) => ToldWith(op'.merged, Immediate, op')
      BY <2>1, ToldByUpdate
    <2> QED
      BY <2>1, <2>2, <2>3 DEF Accounted, Free, Immediate, Changed
  <1>2. ASSUME NEW e \in log, RevertHotUpdate(e) PROVE Accounted'
    <2>1. /\ op'.stage = "replace" /\ op'.after = e.before
          /\ op'.merged = Reverted(memory, e.before)
          /\ Free /\ UNCHANGED <<memory, stored, log, tomorrow, orphans>>
      BY <1>2 DEF RevertHotUpdate, history
    <2>2. Told(memory, Changed) => ToldWith(op'.merged, Changed, op')
      BY <2>1, ToldByUpdate
    <2>3. Told(memory, Immediate) => ToldWith(op'.merged, Immediate, op')
      BY <2>1, ToldByUpdate
    <2> QED
      BY <2>1, <2>2, <2>3 DEF Accounted, Free, Immediate, Changed
  <1>3. CASE Replace
    <2>1. /\ op'.stage = "insert" /\ op'.after = op.after /\ op'.merged = op.merged
          /\ op'.now = op.now
          /\ UNCHANGED <<memory, log, tomorrow, orphans>> /\ op.stage = "replace"
      BY <1>0, <1>3 DEF Replace, Store, Op
    <2> QED
      BY <2>1 DEF Accounted, ToldWith, Immediate, Changed
  <1>d. ASSUME Logged(op) \in Changed', op.stage # "idle"
        PROVE  /\ Told(op.merged, Changed')
               /\ ~tomorrow /\ op.now => Told(op.merged, Immediate')
    <2>1. Told(op.merged, Changed')
      BY <1>b, <1>c, <1>d, ToldOnceLogged
    <2>2. ASSUME ~tomorrow, op.now PROVE Told(op.merged, Immediate')
      <3>1. Logged(op) \in Immediate'
        BY <1>c, <1>d, <2>2 DEF Immediate
      <3> QED
        BY <1>b, <1>c, <1>d, <2>2, <3>1, ToldOnceLogged
    <2> QED
      BY <2>1, <2>2
  <1>4. CASE ReplaceFails
    <2>1. /\ op'.stage = "idle" /\ op.stage = "replace"
          /\ UNCHANGED <<memory, log, tomorrow>>
      BY <1>4 DEF ReplaceFails, Fail, NoOp
    <2>2. CASE Store /\ orphans' = orphans \cup {Logged(op)}
      <3>1. stored'.values = op.merged /\ stored'.now = op.now /\ Logged(op) \in Changed'
        BY <2>2 DEF Store, Written, Changed
      <3> QED
        BY <1>b, <1>d, <2>1, <3>1 DEF Accounted
    <2>3. CASE UNCHANGED stored
      BY <1>b, <2>1, <2>3 DEF Accounted
    <2> QED
      BY <1>4, <2>2, <2>3 DEF ReplaceFails
  <1>5. CASE Insert
    <2>1. /\ op'.stage = "commit" /\ op'.after = op.after /\ op'.merged = op.merged
          /\ op'.now = op.now /\ Logged(op') = Logged(op)
          /\ UNCHANGED <<memory, stored, tomorrow>> /\ op.stage = "insert"
          /\ log' = log \cup {Logged(op)}
      BY <1>0, <1>5 DEF Insert, Op, Logged, history
    <2>2. \A m, S : ToldWith(m, S, op) => ToldWith(m, S, op')
      BY <2>1 DEF ToldWith
    <2> QED
      BY <1>b, <2>1, <2>2 DEF Accounted
  <1>6. CASE InsertFails
    <2>1. /\ op'.stage = "idle" /\ op.stage = "insert"
          /\ UNCHANGED <<memory, stored, tomorrow>> /\ Logged(op) \in Changed'
      BY <1>6 DEF InsertFails, Fail, NoOp, Changed
    <2>2. stored.values = op.merged /\ stored.now = op.now
      BY <2>1 DEF Settled, Written
    <2> QED
      BY <1>b, <1>d, <2>1, <2>2 DEF Accounted
  <1>7. CASE Commit
    <2>1. /\ op'.stage = "idle" /\ op.stage = "commit"
          /\ memory' = (IF op.now THEN op.merged ELSE memory)
          /\ UNCHANGED <<stored, log, tomorrow, orphans>>
      BY <1>7 DEF Commit, NoOp, Remembered
    <2>2. Logged(op) \in Changed'
      BY <2>1 DEF Accounted, Changed
    <2>3. stored.values = op.merged /\ stored.now = op.now
      BY <2>1 DEF Settled, Written
    <2> QED
      BY <1>b, <1>d, <2>1, <2>2, <2>3 DEF Accounted
  <1>8. ASSUME NEW first \in Load, NEW second \in Load, Restart(first, second)
        PROVE  Accounted'
    <2>1. /\ op'.stage = "idle" /\ UNCHANGED <<stored, log, tomorrow>>
          /\ memory' \in {Loaded, None}
          /\ op.stage = "insert" => Logged(op) \in orphans'
      BY <1>8 DEF Restart, NoOp
    <2>2. \A S : Told(None, S)
      BY DEF Told, None
    <2>3. /\ Told(stored.values, Changed')
          /\ ~tomorrow /\ stored.now => Told(stored.values, Immediate')
      <3>1. CASE op.stage \in {"idle", "replace"}
        BY <1>b, <3>1
      <3>2. CASE op.stage \in {"insert", "commit"}
        <4>1. stored.values = op.merged /\ stored.now = op.now
          BY <3>2 DEF Settled, Written
        <4>2. Logged(op) \in Changed'
          BY <2>1, <3>2 DEF Accounted, Changed
        <4> QED
          BY <1>d, <3>2, <4>1, <4>2
      <3> QED
        BY <1>0, <3>1, <3>2 DEF Op, Stage
    <2> QED
      BY <2>1, <2>2, <2>3 DEF Accounted, Loaded
  <1>9. CASE Midnight
    <2>1. /\ op.stage = "idle" /\ tomorrow' /\ stored'.values = stored.values
          /\ UNCHANGED <<memory, log, op, orphans>>
      BY <1>9 DEF Midnight, Free, history, TypeOK
    <2> QED
      BY <2>1 DEF Accounted, Changed
  <1>10. CASE UNCHANGED vars
    <2>1. UNCHANGED <<memory, stored, log, op, tomorrow, orphans>>
      BY <1>10 DEF vars, history
    <2> QED
      BY <2>1 DEF Accounted, Immediate, Changed
  <1> QED
    BY <1>1, <1>2, <1>3, <1>4, <1>5, <1>6, <1>7, <1>8, <1>9, <1>10 DEF Next, Step
-----------------------------------------------------------------------------
\* Every step keeps Identified.
LEMMA IdentifiedNext == TypeOK /\ Identified /\ [Next]_vars => Identified'
  <1> SUFFICES ASSUME TypeOK, Identified, [Next]_vars PROVE Identified'
    OBVIOUS
  <1>0. /\ op \in Op /\ n \in Nat /\ last.id \in Nat /\ \A e \in log : e.id \in Nat
    BY OpType, HotUpdateAssumption DEF TypeOK, Changes, Entry
  <1>1. ASSUME NEW new \in Updates, NEW immediate \in BOOLEAN, ApplyHotUpdate(new, immediate)
        PROVE  Identified'
    BY <1>0, <1>1 DEF ApplyHotUpdate, Identified, history
  <1>2. ASSUME NEW e \in log, RevertHotUpdate(e) PROVE Identified'
    <2>1. /\ n' = n + 1 /\ op'.stage = "replace" /\ op'.id = n' /\ op'.of = e.id /\ op'.now
          /\ op'.after = e.before /\ op'.merged = Reverted(memory, e.before)
          /\ UNCHANGED <<log, last>>
      BY <1>2 DEF RevertHotUpdate, history
    <2>2. \A f \in Field : e.before[f] \notin {Unset, 0} => op'.merged[f] = e.before[f]
      BY <2>1 DEF Reverted
    <2> QED
      BY <1>0, <2>1, <2>2 DEF Identified
  <1>3. CASE Replace
    BY <1>0, <1>3 DEF Replace, Store, Identified, Op
  <1>4. CASE ReplaceFails
    BY <1>0, <1>4 DEF ReplaceFails, Fail, NoOp, Identified
  <1>5. Logged(op).id = op.id /\ Logged(op).before = op.before
    BY DEF Logged
  <1>6. CASE Insert
    BY <1>0, <1>5, <1>6 DEF Insert, Identified, Op, history
  <1>7. CASE InsertFails
    BY <1>0, <1>5, <1>7 DEF InsertFails, Fail, NoOp, Identified
  <1>8. CASE Commit
    <2>1. op'.stage = "idle" /\ op.stage = "commit" /\ UNCHANGED <<log, n>>
      BY <1>8 DEF Commit, NoOp
    <2>2. CASE op.now /\ op.of = 0
      BY <1>0, <1>8, <2>1, <2>2 DEF Commit, Identified
    <2>3. CASE op.now /\ op.of # 0
      BY <1>0, <1>8, <2>1, <2>3 DEF Commit, Identified, NoLast, TypeOK, Entry
    <2>4. CASE ~op.now
      BY <1>0, <1>8, <2>1, <2>4 DEF Commit, Identified
    <2> QED
      BY <2>2, <2>3, <2>4
  <1>9. ASSUME NEW first \in Load, NEW second \in Load, Restart(first, second)
        PROVE  Identified'
    BY <1>0, <1>9 DEF Restart, Identified, NoOp
  <1>10. CASE Midnight \/ UNCHANGED vars
    BY <1>0, <1>10 DEF Midnight, vars, history, Identified
  <1> QED
    BY <1>1, <1>2, <1>3, <1>4, <1>6, <1>7, <1>8, <1>9, <1>10 DEF Next, Step

\* Every step keeps the invariant.
LEMMA StepIInv == IInv /\ [Next]_vars => IInv'
  BY TypeNext, SettledNext, AccountedNext, IdentifiedNext DEF IInv

\* So it holds throughout.
LEMMA Invariance == Spec => []IInv
  BY InitIInv, StepIInv, PTL DEF Spec
-----------------------------------------------------------------------------
\* What is settled stays in the database, whatever updates have failed between
\* their writes before and however many restarts have not found it, and it is
\* in the memory unless a load has missed it.
THEOREM RestartsKeep == Spec => []RestartKeeps
  <1>1. IInv => RestartKeeps
    BY DEF IInv, Settled, RestartKeeps, Loaded
  <1> QED
    BY <1>1, Invariance, PTL

\* The log and the updates that failed after storing their document account for
\* every override active or stored, and before midnight the immediate ones for
\* those active.
THEOREM LogAccounts == Spec => []Inv
  <1>1. IInv => Inv
    <2> SUFFICES ASSUME IInv PROVE Inv
      OBVIOUS
    <2>1. LogTellsAll
      BY DEF IInv, Accounted, LogTellsAll, Free
    <2>2. NothingEarly
      BY DEF IInv, Accounted, NothingEarly, Immediate
    <2> QED
      BY <2>1, <2>2 DEF Inv, IInv
  <1> QED
    BY <1>1, Invariance, PTL

\* Reverting the last change of the memory restores what it has replaced.
THEOREM RevertsRestore == Spec => RevertRestores
  <1>1. IInv /\ [Next]_vars =>
          (op.stage = "commit" /\ op.of # 0 /\ op.of = last.id /\ last' # last
             => \A f \in Field : last.before[f] \notin {Unset, 0} => memory'[f] = last.before[f])
    <2> SUFFICES ASSUME IInv, [Next]_vars, op.stage = "commit", op.of # 0, op.of = last.id,
                        last' # last,
                        NEW f \in Field, last.before[f] \notin {Unset, 0}
                 PROVE  memory'[f] = last.before[f]
      OBVIOUS
    <2>1. Commit
      BY DEF Next, Step, vars, ApplyHotUpdate, RevertHotUpdate, Replace, ReplaceFails, Insert,
             InsertFails, Store, Fail, Restart, Midnight, history
    <2>2. op.now /\ op.merged[f] = last.before[f]
      BY DEF IInv, Identified
    <2> QED
      BY <2>1, <2>2 DEF Commit, Remembered
  <1> QED
    BY <1>1, Invariance, PTL DEF Spec, RevertRestores
=============================================================================
