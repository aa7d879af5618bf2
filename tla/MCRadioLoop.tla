---------------------------- MODULE MCRadioLoop ----------------------------
(* RadioLoop with a ring of three packets, two clients one after the other *)
(* and two values of dateAndHour.                                          *)
EXTENDS RadioLoop
=============================================================================
