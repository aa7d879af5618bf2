--------------------------- MODULE MCGpsReceiver ----------------------------
(***************************************************************************)
(* The constants of the firmware, and the four rates settings can hold;    *)
(* a save and two resets, in the middle of begin() too.  A module that     *)
(* comes up at 1 Hz may be silent while it is listened to.  A clock that   *)
(* wraps at 1000, and the instants next to the last good deadline.         *)
(***************************************************************************)
EXTENDS GpsReceiver
=============================================================================
