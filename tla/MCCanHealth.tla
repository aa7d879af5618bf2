---------------------------- MODULE MCCanHealth ----------------------------
(* CanHealth with a window of three ticks, a loss poll every two, a clock  *)
(* that wraps at six, driver counters that wrap at four, and a poll that   *)
(* reports at most one loss.                                               *)
EXTENDS CanHealth
=============================================================================
