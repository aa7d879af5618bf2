----------------------------- MODULE MCDisplay ------------------------------
(***************************************************************************)
(* The tasks of loop() and the web server, a ring of two lines, and four   *)
(* events: lines logged, presses and releases, changes of a field.  Four   *)
(* lines fill the ring and replace what was in it; a press, a change and a *)
(* release are what HoldGoes is about.  holdMs is compared at two units of *)
(* time, a second is four of them and a hold is two seconds.               *)
(***************************************************************************)
EXTENDS Display
=============================================================================
