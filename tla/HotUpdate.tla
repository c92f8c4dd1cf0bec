------------------------------ MODULE HotUpdate ------------------------------
(***************************************************************************)
(* HotUpdateManager (backend/internal/balance): the overrides of one       *)
(* template, since each has its own document and its own entry in memory,  *)
(* and updates of all of them hold one lock.                               *)
(*                                                                         *)
(* An update replaces the template's document in card_overrides, inserts a *)
(* document in balance_change_logs and then changes the memory.  Each of   *)
(* the two writes may fail, or time out after it has been applied.  The    *)
(* server may crash at any point, and when it starts again it may not find *)
(* the document, or not come up with hot updates at all.                   *)
(*                                                                         *)
(* The memory is what GetActiveOverrides shows and what the next update is *)
(* merged with.  Cards are not made from it: see README.md, section 12.    *)
(*                                                                         *)
(* A value is 0 or not: to a revert 0 means that there was none.           *)
(* Left out: who changed what and why, the predicted impact, and the       *)
(* listeners, which only log.                                              *)
(***************************************************************************)
EXTENDS Integers

CONSTANTS
  Field,       \* the fields that can be overridden
  Value,       \* the values, among them 0
  Unset,       \* no override of a field
  Updates,     \* bound: the overrides a HotUpdateCard call gives
  MaxChanges   \* bound on the calls

Overrides == [Field -> Value \cup {Unset}]
None == [f \in Field |-> Unset]

ASSUME HotUpdateAssumption ==
  /\ 0 \in Value /\ Value \subseteq Nat /\ Unset \notin Value
  /\ Updates \subseteq Overrides \ {None} /\ MaxChanges \in Nat

VARIABLES
  memory,    \* activeOverrides of the template
  stored,    \* its document in card_overrides
  log,       \* balance_change_logs
  op,        \* the update that holds HotUpdateManager.mu
  n,         \* the number of change ids given out
  up,        \* the server has a HotUpdateManager, and serves its calls
  tomorrow,  \* midnight has passed
  \* history:
  orphans,   \* what the log would say of updates that were stored and failed
  settled,   \* stored is that of a completed immediate update, or was loaded
  active,    \* the overrides that then became active
  whole,     \* no load has missed the document since
  last       \* the last update that changed the memory, if it was a HotUpdateCard

history == <<orphans, settled, active, whole, last>>
vars == <<memory, stored, log, op, n, up, tomorrow, history>>

NoOp == [stage |-> "idle", id |-> 0, of |-> 0, now |-> TRUE,
         merged |-> None, before |-> None, after |-> None]
NoLast == [id |-> 0, before |-> None]
Free == op.stage = "idle"
-----------------------------------------------------------------------------
\* Variants of the operators below, each with one plausible bug, for checking
\* that the properties notice it.
OnlyNew(o) == [values |-> o.after, now |-> o.now]
KeepNew(m, before) == [f \in Field |-> IF m[f] = Unset THEN before[f] ELSE m[f]]
LoadedEarly == stored.values
-----------------------------------------------------------------------------
Overlay(m, new) == [f \in Field |-> IF new[f] = Unset THEN m[f] ELSE new[f]]

\* RevertHotUpdate takes back what there was before.  It does not remove what
\* there was not.
Reverted(m, before) ==
  [f \in Field |-> IF before[f] = Unset THEN m[f]
                   ELSE IF before[f] = 0 THEN Unset ELSE before[f]]

\* The document written, and the one logged.
Written(o) == [values |-> o.merged, now |-> o.now]
Logged(o) == [id |-> o.id, before |-> o.before, after |-> o.after, now |-> o.now]

\* ApplyHotUpdate takes the lock and merges; an update that is not immediate
\* takes effect from the next midnight.
ApplyHotUpdate(new, immediate) ==
  /\ up /\ Free /\ n < MaxChanges
  /\ n' = n + 1
  /\ op' = [stage |-> "replace", id |-> n', of |-> 0, now |-> immediate,
            merged |-> Overlay(memory, new), before |-> memory, after |-> new]
  /\ UNCHANGED <<memory, stored, log, up, tomorrow, history>>

\* RevertHotUpdate finds the change in the log.
RevertHotUpdate(e) ==
  /\ up /\ Free /\ n < MaxChanges /\ e \in log
  /\ n' = n + 1
  /\ op' = [stage |-> "replace", id |-> n', of |-> e.id, now |-> TRUE,
            merged |-> Reverted(memory, e.before), before |-> e.after, after |-> e.before]
  /\ UNCHANGED <<memory, stored, log, up, tomorrow, history>>

\* ReplaceOne, with upsert.
Store ==
  /\ stored' = Written(op)
  /\ settled' = FALSE

Replace ==
  /\ op.stage = "replace" /\ Store
  /\ op' = [op EXCEPT !.stage = "insert"]
  /\ UNCHANGED <<memory, log, n, up, tomorrow, orphans, active, whole, last>>

\* After an error the lock is released and nothing is undone.
Fail ==
  /\ op' = NoOp
  /\ UNCHANGED <<memory, n, up, tomorrow, active, whole, last>>

ReplaceFails ==
  /\ op.stage = "replace" /\ Fail
  /\ \/ Store /\ orphans' = orphans \cup {Logged(op)}
     \/ UNCHANGED <<stored, settled, orphans>>
  /\ UNCHANGED log

\* InsertOne.
Insert ==
  /\ op.stage = "insert"
  /\ log' = log \cup {Logged(op)}
  /\ op' = [op EXCEPT !.stage = "commit"]
  /\ UNCHANGED <<memory, stored, n, up, tomorrow, history>>

InsertFails ==
  /\ op.stage = "insert" /\ Fail
  /\ \/ log' = log \cup {Logged(op)} /\ UNCHANGED orphans
     \/ orphans' = orphans \cup {Logged(op)} /\ UNCHANGED log
  /\ UNCHANGED <<stored, settled>>

\* The memory changes unless the update is for tomorrow.
Remembered(o) == IF o.now THEN o.merged ELSE memory

Commit ==
  /\ op.stage = "commit"
  /\ memory' = Remembered(op)
  /\ op' = NoOp
  /\ IF op.now THEN /\ settled' = TRUE /\ whole' = TRUE
                    /\ active' = memory'
                    /\ last' = IF op.of = 0 THEN [id |-> op.id, before |-> op.before] ELSE NoLast
               ELSE UNCHANGED <<settled, whole, active, last>>
  /\ UNCHANGED <<stored, log, n, up, tomorrow, orphans>>
-----------------------------------------------------------------------------
\* What a load of the template's document finds if it is in effect by now.
Loaded == IF stored.now THEN stored.values ELSE None

\* LoadOverridesFromDB may fail, or be cut short without an error: it does not
\* ask the cursor for one, and skips what it cannot decode.
Load == {"all", "cut", "error"}

\* The server crashes, or stops, and starts again.  NewHotUpdateManager loads;
\* if it fails the server goes on without a manager.  Else NewGameManager loads
\* once more, into the same map, and only logs an error.
Restart(first, second) ==
  /\ op' = NoOp
  /\ up' = (first # "error")
  /\ whole' = (up' /\ "all" \in {first, second})
  /\ memory' = IF whole' THEN Loaded ELSE None
  /\ settled' = (settled \/ (whole' /\ stored.now))
  /\ active' = IF whole' THEN memory' ELSE active
  /\ orphans' = orphans \cup (IF op.stage = "insert" THEN {Logged(op)} ELSE {})
  /\ UNCHANGED <<stored, log, n, tomorrow, last>>

\* The date of effect of what was stored today comes, and nothing happens.
\* Bound: one midnight, while no update is under way.
Midnight ==
  /\ Free /\ ~tomorrow
  /\ tomorrow' = TRUE
  /\ stored' = [stored EXCEPT !.now = TRUE]
  /\ UNCHANGED <<memory, log, op, n, up, history>>
-----------------------------------------------------------------------------
Init ==
  /\ memory = None /\ stored = [values |-> None, now |-> TRUE] /\ log = {}
  /\ op = NoOp /\ n = 0 /\ up = TRUE /\ tomorrow = FALSE
  /\ orphans = {} /\ settled = TRUE /\ active = None /\ whole = TRUE /\ last = NoLast

\* One write after the other; each has a deadline.
Step == Replace \/ ReplaceFails \/ Insert \/ InsertFails \/ Commit

Next ==
  \/ \E new \in Updates, immediate \in BOOLEAN : ApplyHotUpdate(new, immediate)
  \/ \E e \in log : RevertHotUpdate(e)
  \/ Step
  \/ \E first, second \in Load : Restart(first, second)
  \/ Midnight

Spec == Init /\ [][Next]_vars
-----------------------------------------------------------------------------
Changes == 0 .. MaxChanges
Entry == [id : 1 .. MaxChanges, before : Overrides, after : Overrides, now : BOOLEAN]

TypeOK ==
  /\ memory \in Overrides /\ stored \in [values : Overrides, now : BOOLEAN]
  /\ log \subseteq Entry /\ n \in Changes
  /\ op \in [stage : {"idle", "replace", "insert", "commit"}, id : Changes, of : Changes,
             now : BOOLEAN, merged : Overrides, before : Overrides, after : Overrides]
  /\ up \in BOOLEAN /\ tomorrow \in BOOLEAN
  /\ orphans \subseteq Entry /\ settled \in BOOLEAN /\ active \in Overrides
  /\ whole \in BOOLEAN /\ last \in [id : Changes, before : Overrides]

\* What an immediate update has made active, or a load has found, stays in the
\* database through any number of crashes and of restarts whose load fails or
\* is cut short, until an update writes again; and it is in the memory unless
\* a load has missed it.
RestartKeeps ==
  Free /\ settled =>
    /\ Loaded = active
    /\ whole => up /\ memory = active

\* Whatever fails, crashes or is not loaded, every override active or stored is
\* of a change in the log, or of an update that had stored its document and
\* then failed or was cut short before its log; and before midnight those
\* active are of one that was immediate.
Changed == log \cup orphans
Told(m, S) == \A f \in Field : m[f] = Unset \/ \E e \in S : e.after[f] = m[f]
LogTellsAll == Free => Told(memory, Changed) /\ Told(stored.values, Changed)
NothingEarly == Free /\ ~tomorrow => Told(memory, {e \in Changed : e.now})

\* Updates, reverts, failing writes, restarts and midnight, in any order, keep
\* the types and leave every override accounted for.
Inv == TypeOK /\ LogTellsAll /\ NothingEarly

\* Reverting the last change of the memory brings back every override it has
\* replaced, except a 0, whatever failed or was restarted in between.
RevertRestores ==
  [][(op.stage = "commit" /\ op.of # 0 /\ op.of = last.id /\ last' # last)
       => \A f \in Field : last.before[f] \notin {Unset, 0} => memory'[f] = last.before[f]]_vars
=============================================================================
