---------------------------- MODULE MCConfigSave ----------------------------
(* ConfigSave with two names and two rates, a flush delay of two ticks,   *)
(* passes of at most one, and a clock that wraps at four.                   *)
EXTENDS ConfigSave

CONSTANTS teletrack, mx5

MCDefault == [name |-> teletrack, hz |-> 10]
=============================================================================
