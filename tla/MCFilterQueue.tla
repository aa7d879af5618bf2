--------------------------- MODULE MCFilterQueue ---------------------------
(* FilterQueue on a ring of four slots (three usable), with a deny-all of   *)
(* one byte, two allow-one commands of seven, and a write that is too long. *)
EXTENDS FilterQueue

CONSTANTS denyAll, allowA, allowB, tooLong

MCWrite == {denyAll, allowA, allowB, tooLong}
MCLenOf == [w \in MCWrite |->
              CASE w = denyAll -> 1 [] w = tooLong -> 8 [] OTHER -> 7]
=============================================================================
