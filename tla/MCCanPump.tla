----------------------------- MODULE MCCanPump -----------------------------
(* CanPump with three ids and a table of two, intervals 0 and 2 ms, and a  *)
(* clock that wraps at 8 shortly after the run begins.                     *)
EXTENDS CanPump
=============================================================================
