----------------------------- MODULE MCWebSave ------------------------------
(***************************************************************************)
(* Two addresses and three requests, so that one can be abandoned, one     *)
(* disturb and one follow; bodies of up to three pieces for a buffer of    *)
(* two.  261 is 256 + 5.                                                   *)
(***************************************************************************)
EXTENDS WebSave, TLC

CONSTANTS a1, a2, n1, n2

Says(name, hz) == [name |-> name, hz |-> hz]

MCContents ==
  {Garbage, Says(n2, Absent), Says(Absent, 5), Says(n2, 5), Says(Absent, 261), Says(Absent, 7),
   Says(n2, Mistyped), Says(Mistyped, 5), Says(TooLong, 5), Says(Illegal, 5)}

Permuted == Permutations(Addrs)
=============================================================================
