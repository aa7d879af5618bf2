----------------------------- MODULE UbxFraming -----------------------------
(***************************************************************************)
(* What a UBX message is, as a sequence of bytes, with no parser in sight: *)
(*    kSync1 kSync2 class id lengthLo lengthHi payload... ckA ckB          *)
(* The width of a byte is a parameter.                                     *)
(***************************************************************************)
EXTENDS Integers, Sequences, FiniteSetsExt

CONSTANTS
  ByteMod,            \* 256: the values of a byte, and the weight of lengthHi
  kSync1, kSync2,     \* the two bytes every message begins with
  kClassNav, kIdPvt,  \* what marks a NAV-PVT message
  kPvtLength,         \* the length of its payload
  kMaxPayload         \* a longer declared length is not believed

Byte == 0 .. ByteMod - 1

ASSUME FramingAssumption ==
  /\ ByteMod \in Nat \ {0}
  /\ {kSync1, kSync2, kClassNav, kIdPvt} \subseteq Byte
  /\ kSync1 # kSync2
  /\ kPvtLength \in Nat \ {0} /\ kMaxPayload \in Nat
  /\ kPvtLength <= kMaxPayload

\* The bytes around the payload: six before it, two after.
Overhead == 8

Sync == <<kSync1, kSync2>>

\* s could be the beginning of a message.
MayBegin(s) == \A i \in 1 .. Len(s) : i <= 2 => s[i] = Sync[i]

\* The longest suffix of s that could be the beginning of a message.
LatestStart(s) ==
  SubSeq(s, Min({i \in 1 .. Len(s) + 1 : MayBegin(SubSeq(s, i, Len(s)))}), Len(s))

Declared(s) == s[5] + ByteMod * s[6]

\* Nothing more is to be expected of s: it is whole, or not to be believed.
Finished(s) ==
  Len(s) >= 6 /\ (Declared(s) > kMaxPayload \/ Len(s) = Declared(s) + Overhead)

\* What is being received once b has followed s.
Continue(s, b) == LatestStart(IF Finished(s) THEN <<b>> ELSE Append(s, b))

\* The sums of f[3], f[4], ... up to each number.
Sums(f) == LET sum[i \in Nat] == IF i < 3 THEN 0 ELSE sum[i - 1] + f[i] IN sum

\* The Fletcher sums of bytes 3 to n: the sum, and the sum of the partial sums.
SumA(s, n) == Sums(s)[n] % ByteMod
SumB(s, n) == Sums(Sums(s))[n] % ByteMod

Payload(s) == SubSeq(s, 7, Len(s) - 2)

\* s is a whole NAV-PVT message and nothing in it was garbled.
IsPvt(s) ==
  /\ Finished(s) /\ Declared(s) = kPvtLength
  /\ s[3] = kClassNav /\ s[4] = kIdPvt
  /\ s[Len(s) - 1] = SumA(s, Len(s) - 2)
  /\ s[Len(s)] = SumB(s, Len(s) - 2)
=============================================================================
