--------------------------- MODULE MCStatsBuffer ---------------------------
(***************************************************************************)
(* Small instances of StatsBuffer: failing inserts without readers, and    *)
(* two readers of a database that does not fail.                           *)
(***************************************************************************)
EXTENDS StatsBuffer

FailingInserts ==
  [records |-> 4, failures |-> 2, callers |-> {}, time |-> 0, ends |-> TRUE]
Readers ==
  [records |-> 2, failures |-> 0, callers |-> Callers, time |-> MaxTime, ends |-> FALSE]
FailOrRead == {FailingInserts, Readers}
=============================================================================
