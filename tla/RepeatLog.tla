------------------------------- MODULE RepeatLog -------------------------------
(***************************************************************************)
(* diagnostics.rs: the aggregation of repeated failures.  The first failure *)
(* is reported at once; later ones are counted and reported together when   *)
(* the window has passed, at a reset, and when the log is dropped.          *)
(*                                                                          *)
(* A log is a record: last is the age of the last report ("none", "recent"  *)
(* or "old", past the window), pending the failures counted since.  Each    *)
(* operation yields the new log and the number of failures it reports.      *)
(***************************************************************************)
EXTENDS Naturals

Logs == [last : {"none", "recent", "old"}, pending : Nat]

NewLog == [last |-> "none", pending |-> 0]

Outcome(log, count) == [log |-> log, count |-> count]

\* Mutant: the failure that opens the window is counted as well.
CountFirstTwice(log) ==
    CASE log.last = "none"   -> Outcome([last |-> "recent", pending |-> 1], 1)
      [] log.last = "recent" -> Outcome([log EXCEPT !.pending = @ + 1], 0)
      [] log.last = "old"    -> Outcome([last |-> "recent", pending |-> 0], log.pending + 1)

RecordAt(log) ==
    CASE log.last = "none"   -> Outcome([log EXCEPT !.last = "recent"], 1)
      [] log.last = "recent" -> Outcome([log EXCEPT !.pending = @ + 1], 0)
      [] log.last = "old"    -> Outcome([last |-> "recent", pending |-> 0], log.pending + 1)

\* Drop flushes: take_pending and emit.
Flush(log) == Outcome([log EXCEPT !.pending = 0], log.pending)

ResetLog(log) == Outcome(NewLog, log.pending)

WindowPassed(log) == [log EXCEPT !.last = IF @ = "recent" THEN "old" ELSE @]
=============================================================================
