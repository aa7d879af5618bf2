----------------------------- MODULE GpsProofs ------------------------------
(***************************************************************************)
(* UbxParser for every width of a byte, every constant of the protocol and *)
(* every stream: the parser is where a reader with all the bytes is, comes *)
(* back to hunting within one message, and decodes what was sent.  And     *)
(* GpsReceiver for every set of speeds, rates and refusals, whatever is    *)
(* saved or reset in the middle of whatever.                               *)
(***************************************************************************)
EXTENDS UbxParser, GpsReceiver, SequenceTheorems, WellFoundedInduction, TLAPS

\* The latest start is the first place from which s could be a message.
LEMMA StartAt ==
  ASSUME NEW s \in Seq(Byte), NEW i \in 1 .. Len(s) + 1,
         MayBegin(SubSeq(s, i, Len(s))),
         \A j \in 1 .. i - 1 : ~MayBegin(SubSeq(s, j, Len(s)))
  PROVE  LatestStart(s) = SubSeq(s, i, Len(s))
<1> DEFINE S == {j \in 1 .. Len(s) + 1 : MayBegin(SubSeq(s, j, Len(s)))}
<1>1. i \in S /\ \A j \in S : i <= j
  <2>1. ASSUME NEW j \in S PROVE i <= j
    <3>1. j \in 1 .. Len(s) + 1 /\ j \notin 1 .. i - 1
      BY <2>1
    <3> QED
      BY <3>1
  <2> QED
    BY <2>1
<1>2. S \subseteq Int
  OBVIOUS
<1>3. LatestStart(s) = SubSeq(s, Min(S), Len(s))
  BY DEF LatestStart
<1> HIDE DEF S
<1>4. Min(S) = i
  <2>1. Min(S) \in S /\ \A j \in S : Min(S) <= j
    BY <1>1 DEF Min
  <2>2. Min(S) <= i /\ i <= Min(S) /\ Min(S) \in Int /\ i \in Int
    BY <1>1, <1>2, <2>1
  <2> QED
    BY <2>2
<1> QED
  BY <1>3, <1>4, Zenon

\* What could be a message is its own latest start.
LEMMA StartWhole ==
  ASSUME NEW s \in Seq(Byte), MayBegin(s)
  PROVE  LatestStart(s) = s
<1>1. SubSeq(s, 1, Len(s)) = s /\ 1 \in 1 .. Len(s) + 1 /\ 1 .. 1 - 1 = {}
  BY SubSeqFull
<1>2. /\ MayBegin(SubSeq(s, 1, Len(s)))
      /\ \A j \in 1 .. 1 - 1 : ~MayBegin(SubSeq(s, j, Len(s)))
  BY <1>1
<1>3. LatestStart(s) = SubSeq(s, 1, Len(s))
  BY <1>1, <1>2, StartAt
<1> QED
  BY <1>1, <1>3

\* Between messages a message begins with its first byte or not at all.
LEMMA StartOne ==
  ASSUME NEW b \in Byte
  PROVE  LatestStart(<<b>>) = IF b = kSync1 THEN <<b>> ELSE <<>>
<1>1. <<b>> \in Seq(Byte) /\ Len(<<b>>) = 1 /\ <<b>>[1] = b
  OBVIOUS
<1>2. CASE b = kSync1
  <2>1. MayBegin(<<b>>)
    BY <1>2 DEF MayBegin, Sync
  <2> QED
    BY <1>1, <1>2, <2>1, StartWhole
<1>3. CASE b # kSync1
  <2>1. SubSeq(<<b>>, 1, 1) = <<b>> /\ SubSeq(<<b>>, 2, 1) = <<>>
    <3>1. SubSeq(<<b>>, 1, Len(<<b>>)) = <<b>>
      BY <1>1, SubSeqFull
    <3>2. SubSeq(<<b>>, 2, 1) = <<>>
      BY SubSeqEmpty
    <3> QED
      BY <1>1, <3>1, <3>2
  <2>2. ~MayBegin(<<b>>) /\ MayBegin(<<>>)
    BY <1>1, <1>3 DEF MayBegin, Sync
  <2>3. 2 \in 1 .. Len(<<b>>) + 1 /\ \A j \in 1 .. 2 - 1 : j = 1
    BY <1>1
  <2>4. MayBegin(SubSeq(<<b>>, 2, Len(<<b>>))) /\ \A j \in 1 .. 2 - 1 : ~MayBegin(SubSeq(<<b>>, j, Len(<<b>>)))
    BY <1>1, <2>1, <2>2, <2>3
  <2>5. LatestStart(<<b>>) = SubSeq(<<b>>, 2, Len(<<b>>))
    BY <1>1, <2>3, <2>4, StartAt
  <2> QED
    BY <1>1, <1>3, <2>1, <2>5
<1> QED
  BY <1>2, <1>3

\* After the first byte the second follows, or is itself a first byte, or the
\* hunt begins anew.
LEMMA StartTwo ==
  ASSUME NEW b \in Byte
  PROVE  LatestStart(<<kSync1, b>>) =
           IF b = kSync2 THEN <<kSync1, b>> ELSE IF b = kSync1 THEN <<kSync1>> ELSE <<>>
<1> DEFINE s == <<kSync1, b>>
<1>1. s \in Seq(Byte) /\ Len(s) = 2 /\ s[1] = kSync1 /\ s[2] = b /\ kSync1 \in Byte
  BY FramingAssumption
<1>2. CASE b = kSync2
  <2>1. MayBegin(s)
    BY <1>1, <1>2 DEF MayBegin, Sync
  <2> QED
    BY <1>1, <1>2, <2>1, StartWhole
<1>3. CASE b # kSync2
  <2>1. /\ SubSeq(s, 1, 2) = s /\ SubSeq(s, 2, 2) = <<b>> /\ SubSeq(s, 3, 2) = <<>>
    <3>1. SubSeq(s, 1, 2) = s
      BY <1>1, SubSeqFull
    <3>2. SubSeq(s, 3, 2) = <<>>
      BY SubSeqEmpty
    <3>3. SubSeq(s, 2, 2) = <<b>>
      <4>1. /\ SubSeq(s, 2, 2) \in Seq(Byte) /\ Len(SubSeq(s, 2, 2)) = 1
            /\ SubSeq(s, 2, 2)[1] = b
        <5>1. \A i \in 2 .. 2 : s[i] \in Byte
          BY <1>1
        <5> HIDE DEF s
        <5>2. /\ SubSeq(s, 2, 2) \in Seq(Byte) /\ Len(SubSeq(s, 2, 2)) = 2 - 2 + 1
              /\ \A i \in 1 .. 2 - 2 + 1 : SubSeq(s, 2, 2)[i] = s[2 + i - 1]
          BY <5>1, SubSeqProperties
        <5> QED
          BY <1>1, <5>2
      <4>2. <<b>> \in Seq(Byte) /\ Len(<<b>>) = 1 /\ <<b>>[1] = b
        OBVIOUS
      <4> HIDE DEF s
      <4> QED
        <5>1. \A i \in 1 .. Len(SubSeq(s, 2, 2)) : SubSeq(s, 2, 2)[i] = <<b>>[i]
          BY <4>1, <4>2
        <5> QED
          BY <4>1, <4>2, <5>1, SeqEqual
    <3> QED
      BY <3>1, <3>2, <3>3
  <2>2. ~MayBegin(s) /\ MayBegin(<<>>)
    BY <1>1, <1>3 DEF MayBegin, Sync
  <2>3. MayBegin(<<b>>) <=> b = kSync1
    BY DEF MayBegin, Sync
  <2>4. CASE b = kSync1
    <3>1. 2 \in 1 .. Len(s) + 1 /\ \A j \in 1 .. 2 - 1 : j = 1
      BY <1>1
    <3>2. MayBegin(SubSeq(s, 2, Len(s))) /\ \A j \in 1 .. 2 - 1 : ~MayBegin(SubSeq(s, j, Len(s)))
      BY <1>1, <2>1, <2>2, <2>3, <2>4, <3>1
    <3>3. LatestStart(s) = SubSeq(s, 2, Len(s))
      BY <1>1, <3>1, <3>2, StartAt
    <3> QED
      BY <1>1, <1>3, <2>1, <2>4, <3>3
  <2>5. CASE b # kSync1
    <3>1. 3 \in 1 .. Len(s) + 1 /\ \A j \in 1 .. 3 - 1 : j = 1 \/ j = 2
      BY <1>1
    <3>2. MayBegin(SubSeq(s, 3, Len(s))) /\ \A j \in 1 .. 3 - 1 : ~MayBegin(SubSeq(s, j, Len(s)))
      BY <1>1, <2>1, <2>2, <2>3, <2>5, <3>1
    <3>3. LatestStart(s) = SubSeq(s, 3, Len(s))
      BY <1>1, <3>1, <3>2, StartAt
    <3> QED
      BY <1>1, <1>3, <2>1, <2>5, <3>3
  <2> QED
    BY <2>4, <2>5
<1> QED
  BY <1>2, <1>3

-----------------------------------------------------------------------------
\* The parser's registers are what the bytes of the message so far say.
Registers ==
  /\ message \in Seq(Byte) /\ MayBegin(message)
  /\ Len(message) = 5 => length = message[5]
  /\ Len(message) >= 6 =>
       /\ length = Declared(message)
       /\ Finished(message) \/ Len(message) < length + Overhead
  /\ Len(message) >= 6 /\ ~Finished(message) =>
       index = IF Len(message) < 6 + length THEN Len(message) - 6 ELSE length
  /\ away = IF Finished(message) \/ Len(message) < 2 THEN 0 ELSE Len(message) - 1

IInv == TypeOK /\ InStep /\ Registers

-----------------------------------------------------------------------------
\* No message, a head, or more.
LEMMA Lengths ==
  /\ \A n \in Nat : n = 0 \/ n \in 1 .. 5 \/ n >= 6
  /\ \A n \in 1 .. 5 : n # 0 /\ n < 6 /\ ~(n >= 6)
  /\ \A n : n = 2 \/ n = 3 \/ n = 4 => ~(n >= 6) /\ ~(n < 2)
  /\ 2 + 1 = 3 /\ 3 + 1 = 4 /\ 4 + 1 = 5
  /\ \A n \in Nat : n + 1 = 5 => n = 4
  /\ \A n \in Nat : (6 < 6 + n <=> n # 0) /\ (6 = 6 + n <=> n = 0)
  OBVIOUS

\* What is awaited after s, by the length of s.
LEMMA AwaitedProperties ==
  ASSUME NEW s \in Seq(Byte)
  PROVE  /\ Finished(s) \/ Len(s) = 0 => Awaited(s) = "Sync1"
         /\ Len(s) = 1 => Awaited(s) = "Sync2"
         /\ Len(s) = 2 => Awaited(s) = "Class"
         /\ Len(s) = 3 => Awaited(s) = "Id"
         /\ Len(s) = 4 => Awaited(s) = "LenLo"
         /\ Len(s) = 5 => Awaited(s) = "LenHi"
         /\ Len(s) >= 6 /\ ~Finished(s) =>
              Awaited(s) = IF Len(s) < 6 + Declared(s) THEN "Payload"
                           ELSE IF Len(s) = 6 + Declared(s) THEN "CkA" ELSE "CkB"
<1>1. Len(s) \in Nat
  OBVIOUS
<1>3. /\ HeadStates[1] = "Sync2" /\ HeadStates[2] = "Class" /\ HeadStates[3] = "Id"
      /\ HeadStates[4] = "LenLo" /\ HeadStates[5] = "LenHi"
  BY DEF HeadStates
<1>4. Finished(s) \/ Len(s) = 0 => Awaited(s) = "Sync1"
  BY DEF Awaited
<1>5. ASSUME Len(s) \in 1 .. 5
      PROVE  Awaited(s) = HeadStates[Len(s)]
  <2>1. Len(s) # 0 /\ Len(s) < 6 /\ ~(Len(s) >= 6)
    BY <1>5, Lengths
  <2>2. ~Finished(s)
    BY <2>1, Zenon DEF Finished
  <2> QED
    BY <2>1, <2>2, Zenon DEF Awaited
<1>6. ASSUME Len(s) >= 6, ~Finished(s)
      PROVE  Awaited(s) = IF Len(s) < 6 + Declared(s) THEN "Payload"
                          ELSE IF Len(s) = 6 + Declared(s) THEN "CkA" ELSE "CkB"
  <2>1. Len(s) # 0 /\ ~(Len(s) < 6)
    BY <1>1, <1>6
  <2> QED
    BY <1>6, <2>1 DEF Awaited
<1>7. 1 \in 1 .. 5 /\ 2 \in 1 .. 5 /\ 3 \in 1 .. 5 /\ 4 \in 1 .. 5 /\ 5 \in 1 .. 5
  OBVIOUS
<1> QED
  BY <1>3, <1>4, <1>5, <1>6, <1>7

\* ... and what the parser's state says of the bytes so far.
LEMMA PhaseProperties ==
  ASSUME IInv
  PROVE  /\ message \in Seq(Byte) /\ Len(message) \in Nat
         /\ state = "Sync1" => Finished(message) \/ Len(message) = 0
         /\ state = "Sync2" => Len(message) = 1
         /\ state = "Class" => Len(message) = 2
         /\ state = "Id" => Len(message) = 3
         /\ state = "LenLo" => Len(message) = 4
         /\ state = "LenHi" => Len(message) = 5
         /\ state \in {"Payload", "CkA", "CkB"} => Len(message) >= 6 /\ ~Finished(message)
         /\ state = "Payload" => Len(message) < 6 + length
         /\ state = "CkA" => Len(message) = 6 + length
         /\ state = "CkB" => Len(message) = 7 + length
<1>1. message \in Seq(Byte) /\ Len(message) \in Nat /\ state = Awaited(message)
  BY DEF IInv, Registers, InStep
<1>2. Finished(message) \in BOOLEAN /\ (Finished(message) => Len(message) >= 6)
  BY DEF Finished
<1>3. Len(message) >= 6 => length = Declared(message) /\ (Finished(message) \/ Len(message) < length + 8)
  BY DEF IInv, Registers, Overhead
<1>4. length \in Int
  BY DEF IInv, TypeOK
<1>5. CASE Finished(message) \/ Len(message) = 0
  BY <1>1, <1>5, AwaitedProperties
<1>6. CASE Len(message) \in 1 .. 5
  <2>1. /\ Len(message) = 1 => state = "Sync2"
        /\ Len(message) = 2 => state = "Class"
        /\ Len(message) = 3 => state = "Id"
        /\ Len(message) = 4 => state = "LenLo"
        /\ Len(message) = 5 => state = "LenHi"
    BY <1>1, AwaitedProperties
  <2> QED
    BY <1>1, <1>6, <2>1
<1>7. CASE Len(message) >= 6 /\ ~Finished(message)
  <2>1. state = IF Len(message) < 6 + length THEN "Payload"
                ELSE IF Len(message) = 6 + length THEN "CkA" ELSE "CkB"
    BY <1>1, <1>3, <1>7, AwaitedProperties
  <2> QED
    BY <1>1, <1>3, <1>4, <1>7, <2>1
<1>8. Len(message) = 0 \/ Len(message) \in 1 .. 5 \/ Len(message) >= 6
  BY <1>1, Lengths
<1> QED
  BY <1>1, <1>5, <1>6, <1>7, <1>8

\* A byte more of a message whose sync has been seen.
LEMMA ExtendProperties ==
  ASSUME NEW s \in Seq(Byte), MayBegin(s), NEW b \in Byte, Len(s) >= 2, ~Finished(s)
  PROVE  LET t == Continue(s, b)
         IN  /\ t \in Seq(Byte) /\ MayBegin(t) /\ Len(t) = Len(s) + 1
             /\ \A i \in 1 .. Len(s) : t[i] = s[i]
             /\ t[Len(s) + 1] = b
             /\ Len(s) >= 6 => Declared(t) = Declared(s)
             /\ Len(s) = 5 => Declared(t) = s[5] + ByteMod * b
<1> DEFINE u == Append(s, b)
<1>1. /\ u \in Seq(Byte) /\ Len(u) = Len(s) + 1 /\ Len(s) \in Nat
      /\ \A i \in 1 .. Len(s) : u[i] = s[i]
      /\ u[Len(s) + 1] = b
  BY AppendProperties
<1> HIDE DEF u
<1>2. MayBegin(u)
  BY <1>1 DEF MayBegin
<1>3. Continue(s, b) = u
  BY <1>1, <1>2, StartWhole DEF Continue, u
<1>4. Len(s) >= 6 => u[5] = s[5] /\ u[6] = s[6]
  BY <1>1
<1>5. Len(s) = 5 => u[5] = s[5] /\ u[6] = b
  BY <1>1
<1> QED
  BY <1>1, <1>2, <1>3, <1>4, <1>5 DEF Declared

\* A byte where no message is followed, or only its first byte.
LEMMA HuntProperties ==
  ASSUME NEW s \in Seq(Byte), MayBegin(s), NEW b \in Byte
  PROVE  /\ Finished(s) \/ Len(s) = 0 =>
              Continue(s, b) = IF b = kSync1 THEN <<b>> ELSE <<>>
         /\ Len(s) = 1 =>
              Continue(s, b) = IF b = kSync2 THEN <<kSync1, b>>
                               ELSE IF b = kSync1 THEN <<kSync1>> ELSE <<>>
<1>1. ASSUME Finished(s) \/ Len(s) = 0
      PROVE  Continue(s, b) = LatestStart(<<b>>)
  <2>1. CASE Finished(s)
    BY <2>1 DEF Continue
  <2>2. CASE ~Finished(s)
    <3>1. s = <<>>
      BY <1>1, <2>2, EmptySeq
    <3>2. Append(s, b) = <<b>>
      BY <3>1
    <3> QED
      BY <2>2, <3>2 DEF Continue
  <2> QED
    BY <2>1, <2>2
<1>2. ASSUME Len(s) = 1
      PROVE  Continue(s, b) = LatestStart(<<kSync1, b>>)
  <2>1. s[1] = kSync1 /\ ~Finished(s)
    BY <1>2 DEF MayBegin, Sync, Finished
  <2>2. s = <<kSync1>>
    <3>1. <<kSync1>> \in Seq(Byte) /\ Len(<<kSync1>>) = 1 /\ <<kSync1>>[1] = kSync1
      BY FramingAssumption
    <3>2. \A i \in 1 .. Len(s) : s[i] = <<kSync1>>[i]
      BY <1>2, <2>1, <3>1
    <3> QED
      BY <1>2, <3>1, <3>2, SeqEqual
  <2>3. Append(<<kSync1>>, b) = <<kSync1, b>>
    <3>1. <<kSync1>> \in Seq(Byte) /\ Len(<<kSync1>>) = 1 /\ <<kSync1>>[1] = kSync1
      BY FramingAssumption
    <3>2. /\ Append(<<kSync1>>, b) \in Seq(Byte) /\ Len(Append(<<kSync1>>, b)) = 2
          /\ Append(<<kSync1>>, b)[1] = kSync1 /\ Append(<<kSync1>>, b)[2] = b
      BY <3>1, AppendProperties
    <3>3. /\ <<kSync1, b>> \in Seq(Byte) /\ Len(<<kSync1, b>>) = 2
          /\ <<kSync1, b>>[1] = kSync1 /\ <<kSync1, b>>[2] = b
      BY FramingAssumption
    <3>4. \A i \in 1 .. Len(<<kSync1, b>>) : Append(<<kSync1>>, b)[i] = <<kSync1, b>>[i]
      BY <3>2, <3>3
    <3> QED
      BY <3>2, <3>3, <3>4, SeqEqual
  <2> QED
    BY <2>1, <2>2, <2>3 DEF Continue
<1> QED
  BY <1>1, <1>2, StartOne, StartTwo

-----------------------------------------------------------------------------
\* A step stays in type: a length is read from two bytes, and the index stays
\* short of a length that was believed.
LEMMA TypeStep ==
  ASSUME IInv, NEW b \in Byte, Feed(b)
  PROVE  TypeOK'
<1>1. TypeOK /\ b \in 0 .. ByteMod - 1 /\ ByteMod \in Nat \ {0}
  BY FramingAssumption DEF IInv, Byte
<1>2. kPvtLength \in Nat /\ kMaxPayload \in Nat
  BY FramingAssumption
<1>3. /\ AddToSums(b) => ckA' \in Byte /\ ckB' \in Byte /\ rxCkA' \in Byte
  BY <1>1 DEF AddToSums, TypeOK, Byte
<1>4. CASE FeedSync1(b)
  BY <1>1, <1>4 DEF FeedSync1, TypeOK, headVars, sumVars
<1>5. CASE FeedSync2(b)
  BY <1>1, <1>5 DEF FeedSync2, AfterSync, TypeOK, headVars, sumVars
<1>6. CASE FeedClass(b)
  BY <1>1, <1>6 DEF FeedClass, TypeOK
<1>7. CASE FeedId(b)
  BY <1>1, <1>3, <1>7 DEF FeedId, TypeOK
<1>8. CASE FeedLenLo(b)
  <2>1. ByteMod - 1 <= ByteMod * ByteMod - 1
    BY <1>1
  <2>2. length' \in 0 .. ByteMod * ByteMod - 1
    BY <1>1, <1>8, <2>1 DEF FeedLenLo
  <2> QED
    BY <1>1, <1>3, <1>8, <2>2 DEF FeedLenLo, TypeOK
<1>9. CASE FeedLenHi(b)
  <2>1. length \in 0 .. ByteMod - 1
    <3>1. state = "LenHi"
      BY <1>9 DEF FeedLenHi
    <3>2. message \in Seq(Byte) /\ Len(message) = 5 /\ length = message[5]
      BY <3>1, PhaseProperties DEF IInv, Registers
    <3>3. message[5] \in Byte
      <4>1. 5 \in 1 .. Len(message)
        BY <3>2
      <4> QED
        BY <3>2, <4>1, ElementOfSeq
    <3> QED
      BY <3>2, <3>3 DEF Byte
  <2>2. length' \in 0 .. ByteMod * ByteMod - 1
    <3>1. ByteMod * b \in Nat /\ ByteMod * b <= ByteMod * (ByteMod - 1)
      BY <1>1
    <3>2. ByteMod * (ByteMod - 1) = ByteMod * ByteMod - ByteMod
      BY <1>1
    <3>3. length' = length + ByteMod * b /\ ByteMod * ByteMod \in Nat
      BY <1>1, <1>9 DEF FeedLenHi
    <3> QED
      BY <1>1, <2>1, <3>1, <3>2, <3>3
  <2>3. state' \in {"Sync1", "CkA", "Payload"} /\ index' \in 0 .. kMaxPayload
    BY <1>2, <1>9 DEF FeedLenHi, AfterLength
  <2> QED
    BY <1>1, <1>3, <1>9, <2>2, <2>3 DEF FeedLenHi, TypeOK
<1>10. CASE FeedPayload(b)
  <2>1. index' \in 0 .. kMaxPayload
    <3>1. Len(message) \in Nat /\ Len(message) >= 6 /\ ~Finished(message) /\ Len(message) < 6 + length
      BY <1>10, PhaseProperties DEF FeedPayload
    <3>2. index = Len(message) - 6 /\ length = Declared(message)
      BY <3>1 DEF IInv, Registers
    <3>3. ~(length > kMaxPayload) /\ length \in Nat
      BY <1>1, <3>1, <3>2 DEF Finished, TypeOK
    <3> QED
      BY <1>2, <1>10, <3>1, <3>2, <3>3 DEF FeedPayload
  <2>2. payload' \in [1 .. kPvtLength -> Byte]
    BY <1>1, <1>10 DEF FeedPayload, Stored, TypeOK
  <2> QED
    BY <1>1, <1>3, <1>10, <2>1, <2>2 DEF FeedPayload, TypeOK, headVars
<1>11. CASE FeedCkA(b)
  BY <1>1, <1>11 DEF FeedCkA, TypeOK, headVars
<1>12. CASE FeedCkB(b)
  BY <1>1, <1>12 DEF FeedCkB, Accepted, TypeOK, headVars, sumVars
<1> QED
  BY <1>4, <1>5, <1>6, <1>7, <1>8, <1>9, <1>10, <1>11, <1>12 DEF Feed

\* What is being received after a byte while the parser hunts for a message.
LEMMA HuntMessage ==
  ASSUME IInv, NEW b \in Byte, Feed(b), FeedSync1(b) \/ FeedSync2(b)
  PROVE  \/ message' = <<>> /\ state' = "Sync1"
         \/ message' = <<kSync1>> /\ state' = "Sync2"
         \/ message' = <<kSync1, kSync2>> /\ state' = "Class" /\ away = 0
<1>1. message \in Seq(Byte) /\ MayBegin(message) /\ message' = Continue(message, b)
  BY DEF IInv, Registers, Feed
<1>2. CASE FeedSync1(b)
  <2>1. Finished(message) \/ Len(message) = 0
    BY <1>2, PhaseProperties DEF FeedSync1
  <2>2. message' = IF b = kSync1 THEN <<b>> ELSE <<>>
    BY <1>1, <2>1, HuntProperties
  <2> QED
    BY <1>2, <2>2 DEF FeedSync1
<1>3. CASE FeedSync2(b)
  <2>1. Len(message) = 1
    BY <1>3, PhaseProperties DEF FeedSync2
  <2>2. message' = IF b = kSync2 THEN <<kSync1, b>>
                   ELSE IF b = kSync1 THEN <<kSync1>> ELSE <<>>
    BY <1>1, <2>1, HuntProperties
  <2>3. away = 0
    BY <2>1 DEF IInv, Registers
  <2> QED
    BY <1>3, <2>2, <2>3 DEF FeedSync2, AfterSync
<1> QED
  BY <1>2, <1>3

\* A byte while the parser hunts for a message.
LEMMA HuntStep ==
  ASSUME IInv, NEW b \in Byte, Feed(b), FeedSync1(b) \/ FeedSync2(b)
  PROVE  InStep' /\ Registers'
<1>2. away' = IF state' \in {"Sync1", "Sync2"} THEN 0 ELSE away + 1
  BY DEF Feed
<1>3. kSync1 \in Byte /\ kSync2 \in Byte
  BY FramingAssumption
<1>4. \/ message' = <<>> /\ state' = "Sync1"
      \/ message' = <<kSync1>> /\ state' = "Sync2"
      \/ message' = <<kSync1, kSync2>> /\ state' = "Class" /\ away = 0
  BY HuntMessage
<1>5. CASE message' = <<>> /\ state' = "Sync1"
  <2>1. message' \in Seq(Byte) /\ Len(message') = 0 /\ MayBegin(message')
    BY <1>5 DEF MayBegin
  <2>2. Awaited(message') = "Sync1"
    BY <2>1, AwaitedProperties
  <2> QED
    BY <1>2, <1>5, <2>1, <2>2 DEF InStep, Registers
<1>6. CASE message' = <<kSync1>> /\ state' = "Sync2"
  <2>1. message' \in Seq(Byte) /\ Len(message') = 1 /\ MayBegin(message')
    BY <1>3, <1>6 DEF MayBegin, Sync
  <2>2. Awaited(message') = "Sync2"
    BY <2>1, AwaitedProperties
  <2> QED
    BY <1>2, <1>6, <2>1, <2>2 DEF InStep, Registers
<1>7. CASE message' = <<kSync1, kSync2>> /\ state' = "Class" /\ away = 0
  <2>1. message' \in Seq(Byte) /\ Len(message') = 2 /\ MayBegin(message')
    BY <1>3, <1>7 DEF MayBegin, Sync
  <2>2. Awaited(message') = "Class" /\ ~Finished(message')
    BY <2>1, AwaitedProperties DEF Finished
  <2> QED
    BY <1>2, <1>7, <2>1, <2>2 DEF InStep, Registers
<1> QED
  BY <1>4, <1>5, <1>6, <1>7

\* A byte of the head: each has its place.
LEMMA HeadStep ==
  ASSUME IInv, NEW b \in Byte, Feed(b),
         FeedClass(b) \/ FeedId(b) \/ FeedLenLo(b)
  PROVE  InStep' /\ Registers'
<1> DEFINE n == Len(message)
<1>1. message \in Seq(Byte) /\ MayBegin(message) /\ message' = Continue(message, b) /\ n \in Nat
  BY DEF IInv, Registers, Feed
<1>2. \/ n = 2 /\ state' = "Id"
      \/ n = 3 /\ state' = "LenLo"
      \/ n = 4 /\ state' = "LenHi" /\ length' = b
  BY PhaseProperties DEF FeedClass, FeedId, FeedLenLo
<1>3. away = n - 1 /\ away' = n /\ ~Finished(message)
  <2>1. ~Finished(message) /\ ~(n < 2)
    <3>1. ~(n >= 6) /\ ~(n < 2)
      BY <1>2, Lengths, Zenon
    <3> QED
      BY <3>1, Zenon DEF Finished
  <2>2. away = n - 1
    BY <2>1, Zenon DEF IInv, Registers
  <2>3. away' = away + 1
    BY <1>2 DEF Feed
  <2> QED
    BY <1>1, <2>1, <2>2, <2>3
<1>4. /\ message' \in Seq(Byte) /\ MayBegin(message') /\ Len(message') = n + 1
      /\ message'[n + 1] = b
  <2>1. n >= 2
    BY <1>2
  <2> QED
    BY <1>1, <1>3, <2>1, ExtendProperties
<1>5. ~Finished(message') /\ away' = Len(message') - 1 /\ Len(message') \in 3 .. 5
  <2>1. Len(message') \in 3 .. 5 /\ ~(Len(message') >= 6) /\ away' = Len(message') - 1
    BY <1>2, <1>3, <1>4
  <2> QED
    BY <2>1, Zenon DEF Finished
<1>6. InStep'
  <2>1. /\ Len(message') = 3 => Awaited(message') = "Id"
        /\ Len(message') = 4 => Awaited(message') = "LenLo"
        /\ Len(message') = 5 => Awaited(message') = "LenHi"
    BY <1>4, AwaitedProperties, Zenon
  <2>2. state' = Awaited(message')
    <3>1. CASE n = 2 /\ state' = "Id"
      <4>1. Len(message') = 3
        BY <1>4, <3>1, Lengths
      <4> QED
        BY <2>1, <3>1, <4>1
    <3>2. CASE n = 3 /\ state' = "LenLo"
      <4>1. Len(message') = 4
        BY <1>4, <3>2, Lengths
      <4> QED
        BY <2>1, <3>2, <4>1
    <3>3. CASE n = 4 /\ state' = "LenHi"
      <4>1. Len(message') = 5
        BY <1>4, <3>3, Lengths
      <4> QED
        BY <2>1, <3>3, <4>1
    <3> QED
      BY <1>2, <3>1, <3>2, <3>3, Zenon
  <2> QED
    BY <2>2 DEF InStep
<1>7. Registers'
  <2>1. Len(message') = 5 => length' = message'[5]
    <3> SUFFICES ASSUME Len(message') = 5 PROVE length' = message'[5]
      OBVIOUS
    <3>1. n + 1 = 5
      BY <1>4, Zenon
    <3>2. n = 4
      BY <1>1, <3>1, Lengths, Zenon
    <3>3. 4 # 2 /\ 4 # 3
      OBVIOUS
    <3>4. length' = b
      BY <1>2, <3>2, <3>3, Zenon
    <3> QED
      BY <1>4, <3>1, <3>4, Zenon
  <2> QED
    BY <1>4, <1>5, <2>1 DEF Registers
<1> QED
  BY <1>6, <1>7

\* The byte that completes a length, believed or not.
LEMMA LengthStep ==
  ASSUME IInv, NEW b \in Byte, Feed(b), FeedLenHi(b)
  PROVE  InStep' /\ Registers'
<1>1. message \in Seq(Byte) /\ MayBegin(message) /\ message' = Continue(message, b)
  BY DEF IInv, Registers, Feed
<1>2. Len(message) = 5 /\ ~Finished(message) /\ length = message[5] /\ away = 4
  <2>1. Len(message) = 5
    BY PhaseProperties DEF FeedLenHi
  <2>2. ~Finished(message)
    BY <2>1 DEF Finished
  <2> QED
    BY <2>1, <2>2 DEF IInv, Registers
<1>3. /\ message' \in Seq(Byte) /\ MayBegin(message') /\ Len(message') = 6
      /\ length' = Declared(message')
  <2>1. length' = message[5] + ByteMod * b
    BY <1>2 DEF FeedLenHi
  <2>2. Len(message) >= 2 /\ 5 + 1 = 6
    BY <1>2
  <2>3. /\ message' \in Seq(Byte) /\ MayBegin(message') /\ Len(message') = Len(message) + 1
        /\ Declared(message') = message[5] + ByteMod * b
    BY <1>1, <1>2, <2>2, ExtendProperties, Zenon
  <2> QED
    BY <1>2, <2>1, <2>2, <2>3, Zenon
<1>4. length' \in Nat /\ kMaxPayload \in Nat
  BY TypeStep, FramingAssumption DEF TypeOK
<1>5. Finished(message') <=> length' > kMaxPayload
  BY <1>3, <1>4 DEF Finished, Overhead
<1>6. state' = AfterLength(length') /\ index' = 0
  BY DEF FeedLenHi
<1>7. away' = IF state' \in {"Sync1", "Sync2"} THEN 0 ELSE 5
  BY <1>2 DEF Feed
<1>8. CASE length' > kMaxPayload
  <2>1. Finished(message')
    BY <1>5, <1>8
  <2>2. state' = "Sync1" /\ away' = 0
    BY <1>6, <1>7, <1>8 DEF AfterLength
  <2>3. Awaited(message') = "Sync1"
    BY <1>3, <2>1, AwaitedProperties
  <2> QED
    BY <1>3, <2>1, <2>2, <2>3 DEF InStep, Registers
<1>9. CASE ~(length' > kMaxPayload)
  <2>1. ~Finished(message')
    BY <1>5, <1>9
  <2>2. state' = (IF length' = 0 THEN "CkA" ELSE "Payload") /\ away' = 5
    BY <1>6, <1>7, <1>9 DEF AfterLength
  <2>3. Awaited(message') = IF 6 < 6 + length' THEN "Payload"
                            ELSE IF 6 = 6 + length' THEN "CkA" ELSE "CkB"
    <3>1. Len(message') >= 6
      BY <1>3
    <3> QED
      BY <1>3, <2>1, <3>1, AwaitedProperties, Zenon
  <2>4. InStep'
    <3>1. (6 < 6 + length' <=> length' # 0) /\ (6 = 6 + length' <=> length' = 0)
      BY <1>4, Lengths, Zenon
    <3>2. state' = Awaited(message')
      BY <2>2, <2>3, <3>1, Zenon
    <3> QED
      BY <3>2 DEF InStep
  <2> QED
    BY <1>3, <1>4, <1>6, <2>1, <2>2, <2>4 DEF Registers, Overhead
<1> QED
  BY <1>8, <1>9

\* A byte of the payload or one of the sums.
LEMMA BodyStep ==
  ASSUME IInv, NEW b \in Byte, Feed(b),
         FeedPayload(b) \/ FeedCkA(b) \/ FeedCkB(b)
  PROVE  InStep' /\ Registers'
<1> DEFINE n == Len(message)
<1>1. message \in Seq(Byte) /\ MayBegin(message) /\ message' = Continue(message, b) /\ n \in Nat
  BY DEF IInv, Registers, Feed
<1>2. n >= 6 /\ ~Finished(message) /\ length = Declared(message) /\ away = n - 1
  <2>1. n >= 6 /\ ~Finished(message)
    BY PhaseProperties DEF FeedPayload, FeedCkA, FeedCkB
  <2> QED
    BY <2>1 DEF IInv, Registers
<1>3. length \in Nat /\ ~(length > kMaxPayload) /\ kMaxPayload \in Nat
  BY <1>2, FramingAssumption DEF IInv, TypeOK, Finished
<1>4. length' = length
  BY DEF FeedPayload, FeedCkA, FeedCkB, headVars
<1>5. index = IF n < 6 + length THEN n - 6 ELSE length
  BY <1>2 DEF IInv, Registers
<1>6. /\ message' \in Seq(Byte) /\ MayBegin(message') /\ Len(message') = n + 1
      /\ Declared(message') = length
  BY <1>1, <1>2, ExtendProperties
<1>7. Finished(message') <=> n + 1 = length + 8
  BY <1>1, <1>2, <1>3, <1>6 DEF Finished, Overhead
<1>8. \/ n + 1 < 6 + length /\ state' = "Payload" /\ index' = n - 5
      \/ n + 1 = 6 + length /\ state' = "CkA" /\ index' = length
      \/ n + 1 = 7 + length /\ state' = "CkB" /\ index' = length
      \/ n + 1 = 8 + length /\ state' = "Sync1"
  <2>1. CASE FeedPayload(b)
    <3>1. n < 6 + length
      BY <2>1, PhaseProperties DEF FeedPayload
    <3> QED
      BY <1>1, <1>3, <1>4, <1>5, <2>1, <3>1 DEF FeedPayload
  <2>2. CASE FeedCkA(b)
    <3>1. n = 6 + length
      BY <2>2, PhaseProperties DEF FeedCkA
    <3> QED
      BY <1>1, <1>3, <1>5, <2>2, <3>1 DEF FeedCkA
  <2>3. CASE FeedCkB(b)
    <3>1. n = 7 + length
      BY <2>3, PhaseProperties DEF FeedCkB
    <3> QED
      BY <1>1, <1>3, <2>3, <3>1 DEF FeedCkB
  <2> QED
    BY <2>1, <2>2, <2>3
<1>9. away' = IF state' \in {"Sync1", "Sync2"} THEN 0 ELSE n
  <2>1. away' = IF state' \in {"Sync1", "Sync2"} THEN 0 ELSE away + 1
    BY DEF Feed
  <2> QED
    BY <1>1, <1>2, <2>1
<1>10. CASE n + 1 = 8 + length /\ state' = "Sync1"
  <2>1. Finished(message')
    BY <1>3, <1>7, <1>10
  <2>2. Awaited(message') = "Sync1"
    BY <1>6, <2>1, AwaitedProperties
  <2>3. Len(message') >= 6 /\ Len(message') # 5
    BY <1>2, <1>6
  <2> QED
    BY <1>4, <1>6, <1>9, <1>10, <2>1, <2>2, <2>3 DEF InStep, Registers
<1>11. CASE n + 1 < 8 + length /\ state' # "Sync1"
  <2>1. ~Finished(message')
    BY <1>1, <1>3, <1>7, <1>11
  <2>2. Len(message') >= 6 /\ ~(Len(message') < 2) /\ Len(message') # 5
    BY <1>1, <1>2, <1>6
  <2>3. Awaited(message') = IF n + 1 < 6 + length THEN "Payload"
                            ELSE IF n + 1 = 6 + length THEN "CkA" ELSE "CkB"
    BY <1>6, <2>1, <2>2, AwaitedProperties
  <2>4. InStep'
    BY <1>1, <1>3, <1>8, <1>11, <2>3 DEF InStep
  <2>5. away' = Len(message') - 1
    BY <1>1, <1>6, <1>8, <1>9, <1>11
  <2>6. index' = IF Len(message') < 6 + length THEN Len(message') - 6 ELSE length
    BY <1>1, <1>3, <1>6, <1>8, <1>11
  <2>7. Len(message') < length + Overhead
    BY <1>1, <1>3, <1>6, <1>11 DEF Overhead
  <2> QED
    BY <1>4, <1>6, <2>1, <2>2, <2>4, <2>5, <2>6, <2>7 DEF Registers
<1>12. \/ n + 1 = 8 + length /\ state' = "Sync1"
       \/ n + 1 < 8 + length /\ state' # "Sync1"
  BY <1>1, <1>3, <1>8
<1> QED
  BY <1>10, <1>11, <1>12

-----------------------------------------------------------------------------
LEMMA InitIInv == Init => IInv
<1> SUFFICES ASSUME Init PROVE IInv
  OBVIOUS
<1>1. TypeOK
  <2>1. 0 \in Byte /\ 0 \in 0 .. ByteMod * ByteMod - 1 /\ 0 \in 0 .. kMaxPayload
    BY FramingAssumption DEF Byte
  <2>2. [i \in 1 .. kPvtLength |-> 0] \in [1 .. kPvtLength -> Byte]
    BY <2>1
  <2> QED
    BY <2>1, <2>2 DEF Init, TypeOK
<1>2. message \in Seq(Byte) /\ Len(message) = 0 /\ MayBegin(message) /\ away = 0
  BY DEF Init, MayBegin
<1>3. Awaited(message) = "Sync1"
  BY <1>2, AwaitedProperties
<1>4. InStep /\ Registers
  BY <1>2, <1>3 DEF Init, InStep, Registers
<1> QED
  BY <1>1, <1>4 DEF IInv

LEMMA NextIInv == IInv /\ [Next]_vars => IInv'
<1> SUFFICES ASSUME IInv, [Next]_vars PROVE IInv'
  OBVIOUS
<1>1. ASSUME NEW b \in Byte, Feed(b) PROVE IInv'
  <2>1. TypeOK'
    BY <1>1, TypeStep
  <2>2. InStep' /\ Registers'
    BY <1>1, HuntStep, HeadStep, LengthStep, BodyStep DEF Feed
  <2> QED
    BY <2>1, <2>2 DEF IInv
<1>2. CASE UNCHANGED vars
  BY <1>2 DEF vars, headVars, sumVars, IInv, TypeOK, InStep, Registers
<1> QED
  BY <1>1, <1>2 DEF Next

LEMMA Invariance == Spec => []IInv
  BY InitIInv, NextIInv, PTL DEF Spec

\* Whatever the line delivers, the parser expects the byte that a reader with
\* all the bytes expects: no message that begins while it hunts is missed, and
\* none is left early or overrun.
THEOREM ParserInStep == Spec => []InStep
<1>1. IInv => InStep
  BY DEF IInv
<1> QED
  BY <1>1, Invariance, PTL

\* Whatever bytes a length was read from, the parser hunts again before the
\* largest message it believes could end.
THEOREM SilenceIsBounded == Spec => []SilenceBounded
<1>1. IInv => SilenceBounded
  <2> SUFFICES ASSUME IInv PROVE SilenceBounded
    OBVIOUS
  <2>1. TypeOK /\ Len(message) \in Nat /\ kMaxPayload \in Nat
    BY FramingAssumption DEF IInv, Registers
  <2>2. CASE Finished(message) \/ Len(message) < 2
    BY <2>1, <2>2 DEF IInv, Registers, SilenceBounded, Overhead
  <2>3. CASE ~(Finished(message) \/ Len(message) < 2)
    <3>1. away = Len(message) - 1
      BY <2>3 DEF IInv, Registers
    <3>2. Len(message) >= 6 => length < kMaxPayload + 1 /\ Len(message) < length + 8
      BY <2>1, <2>3 DEF IInv, TypeOK, Registers, Finished, Overhead
    <3>3. length \in Nat
      BY <2>1, FramingAssumption DEF TypeOK
    <3> QED
      BY <2>1, <3>1, <3>2, <3>3 DEF SilenceBounded, Overhead
  <2> QED
    BY <2>2, <2>3
<1> QED
  BY <1>1, Invariance, PTL

-----------------------------------------------------------------------------
(* What the sums add up to: induction over the bytes, from the order of    *)
(* the natural numbers being well founded.                                 *)

\* The natural numbers by their order, in which every set has a least element.
Precedes == {p \in Nat \X Nat : p[1] < p[2]}

LEMMA PrecedesWellFounded == IsWellFoundedOn(Precedes, Nat)
  BY NatLessThanWellFounded DEF OpToRel, Precedes

LEMMA LeastProperties ==
  ASSUME NEW S, S \subseteq Nat, S # {}
  PROVE  \E n \in S : \A m \in S : ~(m < n)
<1>1. PICK n \in S : \A m \in S : <<m, n>> \notin Precedes
  BY PrecedesWellFounded, WFMin, Zenon
<1>2. \A i, j \in Nat : i < j => <<i, j>> \in Precedes
  BY DEF Precedes
<1> QED
  BY <1>1, <1>2

\* Induction, for a set instead of a predicate.
LEMMA Induction ==
  ASSUME NEW S, 0 \in S, \A n \in Nat : n \in S => n + 1 \in S
  PROVE  \A n \in Nat : n \in S
<1> SUFFICES ASSUME Nat \ S # {} PROVE FALSE
  OBVIOUS
<1>1. PICK n \in Nat \ S : \A m \in Nat \ S : ~(m < n)
  BY LeastProperties
<1>2. n # 0 /\ n - 1 \in Nat /\ n - 1 < n
  BY <1>1
<1>3. n - 1 \in S
  BY <1>1, <1>2
<1> QED
  BY <1>1, <1>2, <1>3

-----------------------------------------------------------------------------
\* g is Sums(f) as far as n.
SumsUpTo(g, f, n) == g = [i \in 0 .. n |-> IF i < 3 THEN 0 ELSE g[i - 1] + f[i]]

LEMMA SumsUpToExist ==
  ASSUME NEW f
  PROVE  \A n \in Nat : \E g : SumsUpTo(g, f, n)
<1> DEFINE S == {n \in Nat : \E g : SumsUpTo(g, f, n)}
<1>1. 0 \in S
  <2> DEFINE g == [i \in 0 .. 0 |-> 0]
  <2>1. \A i \in 0 .. 0 : i < 3
    OBVIOUS
  <2>2. g = [i \in 0 .. 0 |-> IF i < 3 THEN 0 ELSE g[i - 1] + f[i]]
    BY <2>1
  <2> QED
    BY <2>2 DEF SumsUpTo
<1>2. ASSUME NEW n \in Nat, n \in S
      PROVE  n + 1 \in S
  <2>1. PICK g : SumsUpTo(g, f, n)
    BY <1>2
  <2> DEFINE h == [i \in 0 .. n + 1 |->
                     IF i <= n THEN g[i] ELSE IF i < 3 THEN 0 ELSE g[i - 1] + f[i]]
  <2>2. ASSUME NEW i \in 0 .. n + 1
        PROVE  h[i] = IF i < 3 THEN 0 ELSE h[i - 1] + f[i]
    <3>1. i >= 3 => i - 1 \in 0 .. n + 1 /\ i - 1 <= n
      OBVIOUS
    <3>2. i >= 3 => h[i - 1] = g[i - 1]
      BY <3>1
    <3>3. CASE i <= n
      <4>1. i \in 0 .. n
        BY <3>3
      <4>2. g[i] = IF i < 3 THEN 0 ELSE g[i - 1] + f[i]
        BY <2>1, <4>1 DEF SumsUpTo
      <4> QED
        BY <3>2, <3>3, <4>2
    <3>4. CASE ~(i <= n)
      BY <3>2, <3>4
    <3> QED
      BY <3>3, <3>4
  <2>3. h = [i \in 0 .. n + 1 |-> IF i < 3 THEN 0 ELSE h[i - 1] + f[i]]
    <3>1. h = [i \in 0 .. n + 1 |-> h[i]]
      OBVIOUS
    <3> HIDE DEF h
    <3> QED
      BY <2>2, <3>1
  <2> HIDE DEF h
  <2> QED
    BY <2>3 DEF SumsUpTo
<1> HIDE DEF S
<1>3. \A n \in Nat : n \in S
  BY <1>1, <1>2, Induction
<1> QED
  BY <1>3 DEF S

LEMMA SumsUpToAgree ==
  ASSUME NEW f, NEW n \in Nat, NEW m \in Nat, NEW g, NEW h,
         SumsUpTo(g, f, n), SumsUpTo(h, f, m)
  PROVE  \A i \in Nat : i <= n /\ i <= m => g[i] = h[i]
<1> DEFINE S == {i \in Nat : i <= n /\ i <= m => g[i] = h[i]}
<1>1. /\ \A i \in 0 .. n : g[i] = IF i < 3 THEN 0 ELSE g[i - 1] + f[i]
      /\ \A i \in 0 .. m : h[i] = IF i < 3 THEN 0 ELSE h[i - 1] + f[i]
  BY DEF SumsUpTo
<1>2. 0 \in S
  BY <1>1
<1>3. ASSUME NEW i \in Nat, i \in S
      PROVE  i + 1 \in S
  <2> SUFFICES ASSUME i + 1 <= n, i + 1 <= m PROVE g[i + 1] = h[i + 1]
    OBVIOUS
  <2>1. g[i] = h[i] /\ i + 1 \in 0 .. n /\ i + 1 \in 0 .. m /\ (i + 1) - 1 = i
    BY <1>3
  <2>2. /\ g[i + 1] = IF i + 1 < 3 THEN 0 ELSE g[(i + 1) - 1] + f[i + 1]
        /\ h[i + 1] = IF i + 1 < 3 THEN 0 ELSE h[(i + 1) - 1] + f[i + 1]
    BY <1>1, <2>1
  <2> QED
    BY <2>1, <2>2
<1> HIDE DEF S
<1>4. \A i \in Nat : i \in S
  BY <1>2, <1>3, Induction
<1> QED
  BY <1>4 DEF S

\* Sums() is the function its definition describes: there is one.
LEMMA SumsDefined ==
  ASSUME NEW f
  PROVE  Sums(f) = [i \in Nat |-> IF i < 3 THEN 0 ELSE Sums(f)[i - 1] + f[i]]
<1> DEFINE part(n) == CHOOSE g : SumsUpTo(g, f, n)
           whole == [n \in Nat |-> part(n)[n]]
<1>1. \A n \in Nat : SumsUpTo(part(n), f, n)
  BY SumsUpToExist
<1>2. ASSUME NEW n \in Nat
      PROVE  whole[n] = IF n < 3 THEN 0 ELSE whole[n - 1] + f[n]
  <2>1. part(n)[n] = IF n < 3 THEN 0 ELSE part(n)[n - 1] + f[n]
    <3>1. SumsUpTo(part(n), f, n) /\ n \in 0 .. n
      BY <1>1
    <3> HIDE DEF part
    <3> QED
      BY <3>1 DEF SumsUpTo
  <2>2. n >= 3 => part(n)[n - 1] = part(n - 1)[n - 1]
    <3> SUFFICES ASSUME n >= 3 PROVE part(n)[n - 1] = part(n - 1)[n - 1]
      OBVIOUS
    <3>1. n - 1 \in Nat /\ n - 1 <= n /\ n - 1 <= n - 1
      OBVIOUS
    <3>2. SumsUpTo(part(n), f, n) /\ SumsUpTo(part(n - 1), f, n - 1)
      BY <1>1, <3>1
    <3> HIDE DEF part
    <3> QED
      BY <3>1, <3>2, SumsUpToAgree
  <2>3. whole[n] = part(n)[n] /\ (n >= 3 => whole[n - 1] = part(n - 1)[n - 1])
    <3> HIDE DEF part
    <3> QED
      OBVIOUS
  <2> HIDE DEF part, whole
  <2> QED
    BY <2>1, <2>2, <2>3
<1>3. whole = [i \in Nat |-> IF i < 3 THEN 0 ELSE whole[i - 1] + f[i]]
  <2>1. whole = [n \in Nat |-> whole[n]]
    OBVIOUS
  <2> HIDE DEF whole
  <2> QED
    BY <1>2, <2>1
<1> HIDE DEF whole
<1> DEFINE sum == CHOOSE g : g = [i \in Nat |-> IF i < 3 THEN 0 ELSE g[i - 1] + f[i]]
<1>4. sum = [i \in Nat |-> IF i < 3 THEN 0 ELSE sum[i - 1] + f[i]]
  BY <1>3
<1>5. Sums(f) = sum
  BY DEF Sums
<1> QED
  BY <1>4, <1>5

LEMMA SumsProperties ==
  ASSUME NEW f, NEW n \in Nat
  PROVE  /\ n < 3 => Sums(f)[n] = 0
         /\ n + 1 >= 3 => Sums(f)[n + 1] = Sums(f)[n] + f[n + 1]
<1>1. \A i \in Nat : Sums(f)[i] = IF i < 3 THEN 0 ELSE Sums(f)[i - 1] + f[i]
  BY SumsDefined
<1>2. n + 1 \in Nat /\ (n + 1) - 1 = n
  OBVIOUS
<1> QED
  BY <1>1, <1>2

\* What is summed up to n is the same in f as in g.
Alike(f, g, n) == \A i \in 3 .. n : f[i] = g[i]

\* A sum does not depend on what is beyond it.
LEMMA SumsAgree ==
  ASSUME NEW f, NEW g, NEW n \in Nat, Alike(f, g, n)
  PROVE  \A i \in 0 .. n : Sums(f)[i] = Sums(g)[i]
<1> DEFINE S == {i \in Nat : i <= n => Sums(f)[i] = Sums(g)[i]}
<1>1. 0 \in S
  BY SumsProperties
<1>2. ASSUME NEW i \in Nat, i \in S
      PROVE  i + 1 \in S
  <2> SUFFICES ASSUME i + 1 <= n PROVE Sums(f)[i + 1] = Sums(g)[i + 1]
    OBVIOUS
  <2>1. Sums(f)[i] = Sums(g)[i]
    BY <1>2
  <2>2. CASE i + 1 < 3
    BY <2>2, SumsProperties
  <2>3. CASE ~(i + 1 < 3)
    <3>1. i + 1 >= 3 /\ i + 1 \in 3 .. n
      BY <2>3
    <3>2. f[i + 1] = g[i + 1]
      BY <3>1 DEF Alike
    <3> QED
      BY <2>1, <3>1, <3>2, SumsProperties
  <2> QED
    BY <2>2, <2>3
<1> HIDE DEF S
<1>3. \A i \in Nat : i \in S
  BY <1>1, <1>2, Induction
<1> QED
  BY <1>3 DEF S

LEMMA SumsType ==
  ASSUME NEW f, NEW n \in Nat, \A i \in 3 .. n : f[i] \in Nat
  PROVE  \A i \in 0 .. n : Sums(f)[i] \in Nat
<1> DEFINE S == {i \in Nat : i <= n => Sums(f)[i] \in Nat}
<1>1. 0 \in S
  BY SumsProperties
<1>2. ASSUME NEW i \in Nat, i \in S
      PROVE  i + 1 \in S
  <2> SUFFICES ASSUME i + 1 <= n PROVE Sums(f)[i + 1] \in Nat
    OBVIOUS
  <2>1. Sums(f)[i] \in Nat
    BY <1>2
  <2>2. CASE i + 1 < 3
    BY <2>2, SumsProperties
  <2>3. CASE ~(i + 1 < 3)
    <3>1. i + 1 >= 3 /\ f[i + 1] \in Nat
      BY <2>3
    <3>2. Sums(f)[i + 1] = Sums(f)[i] + f[i + 1]
      BY <3>1, SumsProperties
    <3> QED
      BY <2>1, <3>1, <3>2
  <2> QED
    BY <2>2, <2>3
<1> HIDE DEF S
<1>3. \A i \in Nat : i \in S
  BY <1>1, <1>2, Induction
<1> QED
  BY <1>3 DEF S

LEMMA RemainderUnique ==
  ASSUME NEW m \in Nat \ {0}, NEW q \in Int, NEW r \in 0 .. m - 1
  PROVE  (q * m + r) % m = r
  OBVIOUS

\* Sums may be reduced at every step.
LEMMA ReducedSum ==
  ASSUME NEW x \in Nat, NEW z \in Nat
  PROVE  ((x % ByteMod) + z) % ByteMod = (x + z) % ByteMod
<1>1. ByteMod \in Nat \ {0}
  BY FramingAssumption
<1> DEFINE q == x \div ByteMod
           r == x % ByteMod
           u == (r + z) \div ByteMod
           v == (r + z) % ByteMod
<1>2. q \in Nat /\ r \in Nat /\ x = ByteMod * q + r
  BY <1>1
<1>3. u \in Nat /\ v \in 0 .. ByteMod - 1 /\ r + z = ByteMod * u + v
  <2> HIDE DEF r
  <2>1. r + z \in Nat
    BY <1>2
  <2> QED
    BY <1>1, <2>1
<1> HIDE DEF q, r, u, v
<1>4. x + z = ByteMod * (q + u) + v /\ q + u \in Nat
  BY <1>1, <1>2, <1>3
<1>5. (x + z) % ByteMod = v
  <2> DEFINE w == q + u
  <2> HIDE DEF w
  <2>1. x + z = w * ByteMod + v /\ w \in Int
    BY <1>1, <1>4 DEF w
  <2> QED
    BY <1>1, <1>3, <2>1, RemainderUnique
<1> QED
  BY <1>5 DEF r, v

\* A byte more adds to both sums what AddToSums() does; the sums of the bytes
\* before it are as they were.
LEMMA FletcherProperties ==
  ASSUME NEW s \in Seq(Byte), NEW t \in Seq(Byte), NEW b \in Byte,
         Len(s) >= 2, Len(t) = Len(s) + 1, t[Len(s) + 1] = b,
         \A i \in 1 .. Len(s) : t[i] = s[i]
  PROVE  /\ SumA(t, Len(s)) = SumA(s, Len(s)) /\ SumB(t, Len(s)) = SumB(s, Len(s))
         /\ SumA(t, Len(s) - 1) = SumA(s, Len(s) - 1)
         /\ SumB(t, Len(s) - 1) = SumB(s, Len(s) - 1)
         /\ SumA(t, Len(s) + 1) = (SumA(s, Len(s)) + b) % ByteMod
         /\ SumB(t, Len(s) + 1) = (SumB(s, Len(s)) + SumA(s, Len(s)) + b) % ByteMod
         /\ Len(s) = 2 => SumA(s, 2) = 0 /\ SumB(s, 2) = 0
<1> DEFINE n == Len(s)
           x == Sums(s)[n]
           y == Sums(Sums(s))[n]
<1>1. n \in Nat /\ n >= 2 /\ n - 1 \in 0 .. n /\ n \in 0 .. n /\ b \in Nat /\ ByteMod \in Nat \ {0}
  <2>1. ByteMod \in Nat \ {0}
    BY FramingAssumption
  <2>2. b \in Nat
    BY <2>1 DEF Byte
  <2>3. n \in Nat /\ n >= 2
    OBVIOUS
  <2> HIDE DEF n
  <2> QED
    BY <2>1, <2>2, <2>3
<1>2. \A i \in 3 .. n : s[i] \in Nat /\ t[i] = s[i]
  <2> SUFFICES ASSUME NEW i \in 3 .. n PROVE s[i] \in Nat /\ t[i] = s[i]
    OBVIOUS
  <2>1. i \in 1 .. Len(s)
    BY <1>1
  <2>2. s[i] \in Byte
    BY <2>1, ElementOfSeq
  <2> QED
    BY <1>1, <2>1, <2>2 DEF Byte
<1> HIDE DEF n, x, y
<1>3. /\ \A i \in 0 .. n : Sums(t)[i] = Sums(s)[i]
      /\ \A i \in 0 .. n : Sums(s)[i] \in Nat
  <2>1. n \in Nat /\ Alike(t, s, n)
    BY <1>1, <1>2 DEF Alike
  <2>2. \A i \in 3 .. n : s[i] \in Nat
    BY <1>2
  <2>3. \A i \in 0 .. n : Sums(t)[i] = Sums(s)[i]
    BY <2>1, SumsAgree, Zenon
  <2>4. \A i \in 0 .. n : Sums(s)[i] \in Nat
    BY <1>1, <2>2, SumsType
  <2> QED
    BY <2>3, <2>4
<1>4. /\ \A i \in 0 .. n : Sums(Sums(t))[i] = Sums(Sums(s))[i]
      /\ \A i \in 0 .. n : Sums(Sums(s))[i] \in Nat
  <2>1. \A i \in 3 .. n : i \in 0 .. n
    OBVIOUS
  <2>2. n \in Nat /\ Alike(Sums(t), Sums(s), n)
    BY <1>1, <1>3, <2>1 DEF Alike
  <2>3. \A i \in 3 .. n : Sums(s)[i] \in Nat
    BY <1>3, <2>1
  <2>4. \A i \in 0 .. n : Sums(Sums(t))[i] = Sums(Sums(s))[i]
    BY <2>2, SumsAgree, Zenon
  <2>5. \A i \in 0 .. n : Sums(Sums(s))[i] \in Nat
    BY <1>1, <2>3, SumsType
  <2> QED
    BY <2>4, <2>5
<1>5. /\ Sums(t)[n + 1] = x + b
      /\ Sums(Sums(t))[n + 1] = y + (x + b)
      /\ x \in Nat /\ y \in Nat
  <2>1. n + 1 >= 3
    BY <1>1
  <2>2. Sums(t)[n + 1] = Sums(t)[n] + t[n + 1]
    BY <1>1, <2>1, SumsProperties
  <2>3. Sums(Sums(t))[n + 1] = Sums(Sums(t))[n] + Sums(t)[n + 1]
    BY <1>1, <2>1, SumsProperties
  <2> QED
    BY <1>1, <1>3, <1>4, <2>2, <2>3 DEF n, x, y
<1>6. n = 2 => x = 0 /\ y = 0
  BY SumsProperties DEF x, y
<1>7. (x + b) % ByteMod = ((x % ByteMod) + b) % ByteMod
  BY <1>1, <1>5, ReducedSum
<1>8. (y + (x + b)) % ByteMod = ((y % ByteMod) + (x % ByteMod) + b) % ByteMod
  <2> DEFINE c == y % ByteMod
  <2>1. c \in Nat /\ x % ByteMod \in Nat
    BY <1>1, <1>5
  <2>2. (y + (x + b)) % ByteMod = (c + (x + b)) % ByteMod
    <3>1. x + b \in Nat
      BY <1>1, <1>5
    <3> QED
      BY <1>5, <3>1, ReducedSum, Zenon
  <2> HIDE DEF c
  <2>3. c + (x + b) = x + (c + b)
    BY <1>1, <1>5, <2>1
  <2>4. (x + (c + b)) % ByteMod = ((x % ByteMod) + (c + b)) % ByteMod
    <3>1. c + b \in Nat
      BY <1>1, <2>1
    <3> QED
      BY <1>5, <3>1, ReducedSum, Zenon
  <2>5. (x % ByteMod) + (c + b) = c + (x % ByteMod) + b
    BY <1>1, <2>1
  <2> QED
    BY <2>2, <2>3, <2>4, <2>5 DEF c
<1>9. /\ SumA(s, n) = x % ByteMod /\ SumB(s, n) = y % ByteMod
      /\ SumA(t, n + 1) = (x + b) % ByteMod /\ SumB(t, n + 1) = (y + (x + b)) % ByteMod
  BY <1>5 DEF SumA, SumB, x, y
<1>10. /\ SumA(t, n) = SumA(s, n) /\ SumB(t, n) = SumB(s, n)
       /\ SumA(t, n - 1) = SumA(s, n - 1) /\ SumB(t, n - 1) = SumB(s, n - 1)
  BY <1>1, <1>3, <1>4 DEF SumA, SumB
<1>11. n = 2 => SumA(s, 2) = 0 /\ SumB(s, 2) = 0
  <2>1. 0 % ByteMod = 0
    BY <1>1
  <2> QED
    BY <1>6, <1>9, <2>1
<1>12. /\ SumA(t, n + 1) = (SumA(s, n) + b) % ByteMod
       /\ SumB(t, n + 1) = (SumB(s, n) + SumA(s, n) + b) % ByteMod
  BY <1>7, <1>8, <1>9
<1> QED
  BY <1>10, <1>11, <1>12 DEF n

-----------------------------------------------------------------------------
(* What was decoded is what was received.                                  *)

ClassAndId ==
  /\ Len(message) >= 3 => class = message[3]
  /\ Len(message) >= 4 => id = message[4]

\* The sums are those of the bytes that are summed, and the first of them is
\* kept as it was received until the second one comes.
SumsSoFar ==
  /\ state \in {"Id", "LenLo", "LenHi", "Payload", "CkA"} =>
       ckA = SumA(message, Len(message)) /\ ckB = SumB(message, Len(message))
  /\ state = "CkB" =>
       /\ ckA = SumA(message, Len(message) - 1) /\ ckB = SumB(message, Len(message) - 1)
       /\ rxCkA = message[Len(message)]

\* payload_ begins with the bytes of this message; those of an earlier one
\* may follow.
PayloadSoFar ==
  state \in {"Payload", "CkA", "CkB"} =>
    \A i \in 1 .. kPvtLength : i <= index => payload[i] = message[i + 6]

DataInv == ClassAndId /\ SumsSoFar /\ PayloadSoFar /\ DecodedIsReceived

LEMMA ShortLengths ==
  /\ \A n : n = 2 \/ n = 3 \/ n = 4 \/ n = 5 => n \in Nat /\ n >= 2 /\ ~(n >= 6) /\ n < 6
  /\ \A n : n = 0 \/ n = 1 \/ n = 2 => n \in Nat /\ ~(n >= 3) /\ ~(n >= 4) /\ n < 6
  /\ \A n : n = 3 => ~(n >= 4)
  OBVIOUS

\* A byte of a message that is followed is its next.
LEMMA FollowProperties ==
  ASSUME IInv, NEW b \in Byte, Feed(b), state \notin {"Sync1", "Sync2"}
  PROVE  /\ message \in Seq(Byte) /\ message' \in Seq(Byte)
         /\ Len(message) \in Nat /\ Len(message) >= 2 /\ Len(message') = Len(message) + 1
         /\ message'[Len(message) + 1] = b
         /\ \A i \in 1 .. Len(message) : message'[i] = message[i]
         /\ Len(message) >= 6 => Declared(message') = Declared(message)
<1>1. message \in Seq(Byte) /\ MayBegin(message) /\ message' = Continue(message, b)
  BY DEF IInv, Registers, Feed
<1>2. state \in {"Class", "Id", "LenLo", "LenHi", "Payload", "CkA", "CkB"}
  BY DEF IInv, TypeOK
<1>3. Len(message) \in Nat /\ Len(message) >= 2 /\ ~Finished(message)
  <2>1. Len(message) \in Nat
    BY <1>1
  <2>2. CASE state \in {"Payload", "CkA", "CkB"}
    BY <2>1, <2>2, PhaseProperties
  <2>3. CASE state \in {"Class", "Id", "LenLo", "LenHi"}
    <3>1. Len(message) = 2 \/ Len(message) = 3 \/ Len(message) = 4 \/ Len(message) = 5
      BY <2>3, PhaseProperties
    <3>2. Len(message) >= 2 /\ ~(Len(message) >= 6)
      BY <3>1, ShortLengths, Zenon
    <3> QED
      BY <2>1, <3>2, Zenon DEF Finished
  <2> QED
    BY <1>2, <2>2, <2>3
<1> QED
  BY <1>1, <1>3, ExtendProperties

\* What AddToSums() adds keeps the sums those of the message.
LEMMA SumsFollow ==
  ASSUME IInv, DataInv, NEW b \in Byte, Feed(b), AddToSums(b),
         state \in {"Id", "LenLo", "LenHi", "Payload"}
  PROVE  ckA' = SumA(message', Len(message')) /\ ckB' = SumB(message', Len(message'))
<1>1. /\ message \in Seq(Byte) /\ message' \in Seq(Byte)
      /\ Len(message) >= 2 /\ Len(message') = Len(message) + 1
      /\ message'[Len(message) + 1] = b
      /\ \A i \in 1 .. Len(message) : message'[i] = message[i]
  BY FollowProperties
<1>2. /\ SumA(message', Len(message) + 1) = (SumA(message, Len(message)) + b) % ByteMod
      /\ SumB(message', Len(message) + 1)
           = (SumB(message, Len(message)) + SumA(message, Len(message)) + b) % ByteMod
  BY <1>1, FletcherProperties
<1>3. ckA = SumA(message, Len(message)) /\ ckB = SumB(message, Len(message))
  BY DEF DataInv, SumsSoFar
<1>4. ckA' = (ckA + b) % ByteMod /\ ckB' = (ckB + ckA + b) % ByteMod
  BY DEF AddToSums
<1> QED
  BY <1>1, <1>2, <1>3, <1>4, Zenon

\* A short message is none yet.
LEMMA ShortIsNoPvt == ASSUME NEW s, Len(s) \in Nat, Len(s) < 6 PROVE ~IsPvt(s)
  BY DEF IsPvt, Finished

LEMMA HuntData ==
  ASSUME IInv, NEW b \in Byte, Feed(b), FeedSync1(b) \/ FeedSync2(b)
  PROVE  DataInv'
<1>1. /\ Len(message') = 0 \/ Len(message') = 1 \/ Len(message') = 2
      /\ state' \in {"Sync1", "Sync2", "Class"}
  BY HuntMessage, FramingAssumption
<1>2. ~fresh'
  BY DEF FeedSync1, FeedSync2
<1>3. ~IsPvt(message')
  BY <1>1, ShortLengths, ShortIsNoPvt, Zenon
<1>4. ~(Len(message') >= 3) /\ ~(Len(message') >= 4)
  BY <1>1, ShortLengths, Zenon
<1> QED
  BY <1>1, <1>2, <1>3, <1>4
  DEF DataInv, ClassAndId, SumsSoFar, PayloadSoFar, DecodedIsReceived

LEMMA HeadData ==
  ASSUME IInv, DataInv, NEW b \in Byte, Feed(b), FeedClass(b) \/ FeedId(b) \/ FeedLenLo(b)
  PROVE  DataInv'
<1> DEFINE n == Len(message)
<1>1. /\ message \in Seq(Byte) /\ message' \in Seq(Byte) /\ n \in Nat /\ n >= 2
      /\ Len(message') = n + 1 /\ message'[n + 1] = b
      /\ \A i \in 1 .. n : message'[i] = message[i]
  BY FollowProperties DEF FeedClass, FeedId, FeedLenLo
<1>2. /\ FeedClass(b) => n = 2 /\ state' = "Id"
      /\ FeedId(b) => n = 3 /\ state' = "LenLo"
      /\ FeedLenLo(b) => n = 4 /\ state' = "LenHi"
      /\ ~fresh'
  BY PhaseProperties DEF FeedClass, FeedId, FeedLenLo
<1>3. Len(message') \in Nat /\ Len(message') < 6
  BY <1>1, <1>2
<1>4. ~IsPvt(message')
  BY <1>3, ShortIsNoPvt
<1>5. ClassAndId'
  <2>1. CASE FeedClass(b)
    <3>1. Len(message') = 3 /\ ~(Len(message') >= 4) /\ message'[3] = b /\ class' = b
      <4>1. n = 2 /\ 2 + 1 = 3
        BY <1>2, <2>1
      <4>2. Len(message') = 3 /\ message'[3] = b
        BY <1>1, <4>1, Zenon
      <4> QED
        BY <2>1, <4>2, ShortLengths, Zenon DEF FeedClass
    <3> QED
      BY <3>1, Zenon DEF ClassAndId
  <2>2. CASE FeedId(b)
    <3>1. n = 3 /\ 3 + 1 = 4 /\ 3 \in 1 .. 3 /\ 3 >= 3
      BY <1>2, <2>2
    <3>2. message'[4] = b /\ message'[3] = message[3]
      BY <1>1, <3>1, Zenon
    <3>3. class' = message'[3] /\ id' = message'[4]
      BY <2>2, <3>1, <3>2, Zenon DEF FeedId, DataInv, ClassAndId
    <3> QED
      BY <3>3, Zenon DEF ClassAndId
  <2>3. CASE FeedLenLo(b)
    BY <1>1, <1>2, <2>3 DEF FeedLenLo, DataInv, ClassAndId
  <2> QED
    BY <2>1, <2>2, <2>3
<1>6. ckA' = SumA(message', Len(message')) /\ ckB' = SumB(message', Len(message'))
  <2>1. CASE FeedClass(b)
    <3>1. SumA(message', 3) = (0 + b) % ByteMod /\ SumB(message', 3) = (0 + 0 + b) % ByteMod
      <4>1. n = 2 /\ 2 + 1 = 3
        BY <1>2, <2>1
      <4>2. SumA(message, 2) = 0 /\ SumB(message, 2) = 0
        BY <1>1, <4>1, FletcherProperties
      <4>3. /\ SumA(message', n + 1) = (SumA(message, n) + b) % ByteMod
            /\ SumB(message', n + 1) = (SumB(message, n) + SumA(message, n) + b) % ByteMod
        BY <1>1, FletcherProperties
      <4> QED
        BY <4>1, <4>2, <4>3, Zenon
    <3>2. (0 + b) % ByteMod = b /\ (0 + 0 + b) % ByteMod = b
      BY FramingAssumption DEF Byte
    <3>3. ckA' = b /\ ckB' = b
      BY <2>1 DEF FeedClass
    <3>4. Len(message') = 3
      <4>1. n = 2 /\ 2 + 1 = 3
        BY <1>2, <2>1
      <4> QED
        BY <1>1, <4>1, Zenon
    <3> QED
      BY <3>1, <3>2, <3>3, <3>4, Zenon
  <2>2. CASE FeedId(b) \/ FeedLenLo(b)
    BY <2>2, SumsFollow DEF FeedId, FeedLenLo
  <2> QED
    BY <2>1, <2>2
<1>7. state' \in {"Id", "LenLo", "LenHi"}
  BY <1>2
<1> QED
  BY <1>2, <1>4, <1>5, <1>6, <1>7 DEF DataInv, SumsSoFar, PayloadSoFar, DecodedIsReceived

LEMMA LengthData ==
  ASSUME IInv, DataInv, NEW b \in Byte, Feed(b), FeedLenHi(b)
  PROVE  DataInv'
<1> DEFINE n == Len(message)
<1>1. /\ message \in Seq(Byte) /\ message' \in Seq(Byte) /\ n = 5 /\ Len(message') = 6
      /\ \A i \in 1 .. 5 : message'[i] = message[i]
  <2>1. state = "LenHi" /\ n = 5 /\ 5 + 1 = 6
    BY PhaseProperties DEF FeedLenHi
  <2>2. state \notin {"Sync1", "Sync2"}
    BY <2>1
  <2> QED
    BY <2>1, <2>2, FollowProperties, Zenon
<1>2. ClassAndId'
  BY <1>1 DEF FeedLenHi, DataInv, ClassAndId
<1>3. ckA' = SumA(message', Len(message')) /\ ckB' = SumB(message', Len(message'))
  BY SumsFollow DEF FeedLenHi
<1>4. state' \in {"Sync1", "CkA", "Payload"} /\ index' = 0 /\ ~fresh'
  BY DEF FeedLenHi, AfterLength
<1>5. SumsSoFar' /\ PayloadSoFar'
  BY <1>3, <1>4, FramingAssumption DEF SumsSoFar, PayloadSoFar
<1>6. ~IsPvt(message')
  <2> SUFFICES ASSUME Finished(message'), Declared(message') = kPvtLength PROVE FALSE
    BY DEF IsPvt
  <2>1. Len(message') # Declared(message') + Overhead
    BY <1>1, FramingAssumption DEF Overhead
  <2> QED
    BY <2>1, FramingAssumption DEF Finished
<1> QED
  BY <1>2, <1>4, <1>5, <1>6 DEF DataInv, DecodedIsReceived

\* What a byte of the payload or of the sums leaves as it was.
LEMMA BodyKeeps ==
  ASSUME IInv, DataInv, NEW b \in Byte, Feed(b),
         FeedPayload(b) \/ FeedCkA(b) \/ FeedCkB(b)
  PROVE  /\ message \in Seq(Byte) /\ message' \in Seq(Byte)
         /\ Len(message) \in Nat /\ Len(message) >= 6 /\ Len(message') = Len(message) + 1
         /\ message'[Len(message) + 1] = b
         /\ \A i \in 1 .. Len(message) : message'[i] = message[i]
         /\ Declared(message') = length /\ length' = length /\ length \in Nat
         /\ length <= kMaxPayload
         /\ class = message'[3] /\ id = message'[4]
         /\ ClassAndId'
<1>1. Len(message) >= 6 /\ ~Finished(message) /\ state \notin {"Sync1", "Sync2"}
  BY PhaseProperties DEF FeedPayload, FeedCkA, FeedCkB
<1>2. /\ message \in Seq(Byte) /\ message' \in Seq(Byte)
      /\ Len(message) \in Nat /\ Len(message') = Len(message) + 1
      /\ message'[Len(message) + 1] = b
      /\ \A i \in 1 .. Len(message) : message'[i] = message[i]
      /\ Declared(message') = Declared(message)
  BY <1>1, FollowProperties
<1>3. length = Declared(message) /\ length \in Nat
  BY <1>1, FramingAssumption DEF IInv, TypeOK, Registers
<1>4. length' = length /\ class' = class /\ id' = id
  BY DEF FeedPayload, FeedCkA, FeedCkB, headVars
<1>5. length <= kMaxPayload
  BY <1>1, <1>3, FramingAssumption DEF Finished
<1>6. 3 \in 1 .. Len(message) /\ 4 \in 1 .. Len(message) /\ Len(message) >= 3 /\ Len(message) >= 4
  BY <1>1, <1>2
<1>7. class = message'[3] /\ id = message'[4]
  BY <1>2, <1>6 DEF DataInv, ClassAndId
<1> QED
  BY <1>1, <1>2, <1>3, <1>4, <1>5, <1>7 DEF ClassAndId

\* Before its last byte a message is none yet.
LEMMA UnfinishedIsNoPvt == ASSUME NEW s, Awaited(s) # "Sync1" PROVE ~IsPvt(s)
  BY DEF IsPvt, Awaited

LEMMA PayloadData ==
  ASSUME IInv, DataInv, NEW b \in Byte, Feed(b), FeedPayload(b)
  PROVE  DataInv'
<1> DEFINE n == Len(message)
<1>1. /\ n \in Nat /\ n >= 6 /\ Len(message') = n + 1 /\ message'[n + 1] = b
      /\ \A i \in 1 .. n : message'[i] = message[i]
      /\ length \in Nat /\ length <= kMaxPayload /\ ClassAndId'
  BY BodyKeeps
<1>2. /\ index = n - 6 /\ index' = index + 1 /\ payload' = Stored(b) /\ ~fresh'
      /\ state' \in {"CkA", "Payload"}
  <2>1. n >= 6 /\ n < 6 + length /\ ~Finished(message)
    BY PhaseProperties DEF FeedPayload
  <2> QED
    BY <2>1 DEF FeedPayload, IInv, Registers
<1>3. SumsSoFar'
  <2>1. ckA' = SumA(message', Len(message')) /\ ckB' = SumB(message', Len(message'))
    BY SumsFollow DEF FeedPayload
  <2> QED
    BY <1>2, <2>1 DEF SumsSoFar
<1>4. ASSUME NEW i \in 1 .. kPvtLength, i <= index'
      PROVE  payload'[i] = message'[i + 6]
  <2>1. payload \in [1 .. kPvtLength -> Byte] /\ kPvtLength \in Nat
    BY FramingAssumption DEF IInv, TypeOK
  <2>2. CASE i = index + 1
    <3>1. index < kPvtLength /\ payload' = [payload EXCEPT ![i] = b] /\ i + 6 = n + 1
      BY <1>1, <1>2, <2>1, <2>2 DEF Stored
    <3> QED
      BY <1>1, <2>1, <3>1
  <2>3. CASE i # index + 1
    <3>1. index \in Int /\ i \in Int /\ i >= 1 /\ i <= index + 1
      BY <1>1, <1>2, <1>4, <2>1
    <3>2. i <= index /\ i + 6 \in 1 .. n
      BY <1>1, <1>2, <2>3, <3>1
    <3>3. payload'[i] = payload[i]
      BY <1>2, <2>1, <2>3, <3>1 DEF Stored
    <3>4. payload[i] = message[i + 6]
      BY <3>2 DEF DataInv, PayloadSoFar, FeedPayload
    <3> QED
      BY <1>1, <3>2, <3>3, <3>4
  <2> QED
    BY <2>2, <2>3
<1>5. ~IsPvt(message')
  <2>1. InStep'
    BY BodyStep
  <2> QED
    BY <1>2, <2>1, UnfinishedIsNoPvt DEF InStep
<1> QED
  BY <1>1, <1>2, <1>3, <1>4, <1>5 DEF DataInv, PayloadSoFar, DecodedIsReceived

LEMMA FirstSumData ==
  ASSUME IInv, DataInv, NEW b \in Byte, Feed(b), FeedCkA(b)
  PROVE  DataInv'
<1> DEFINE n == Len(message)
<1>1. /\ message \in Seq(Byte) /\ message' \in Seq(Byte)
      /\ n \in Nat /\ n >= 6 /\ Len(message') = n + 1 /\ message'[n + 1] = b
      /\ \A i \in 1 .. n : message'[i] = message[i]
      /\ length \in Nat /\ ClassAndId'
  BY BodyKeeps
<1>2. /\ state = "CkA" /\ state' = "CkB" /\ rxCkA' = b /\ ~fresh'
      /\ UNCHANGED <<index, payload, ckA, ckB>>
  BY DEF FeedCkA
<1>3. SumsSoFar'
  <2>1. SumA(message', n) = SumA(message, n) /\ SumB(message', n) = SumB(message, n)
    <3>1. n >= 2
      BY <1>1
    <3> QED
      BY <1>1, <3>1, FletcherProperties
  <2>2. Len(message') - 1 = n
    BY <1>1
  <2>3. ckA = SumA(message, n) /\ ckB = SumB(message, n)
    BY <1>2 DEF DataInv, SumsSoFar
  <2> QED
    BY <1>1, <1>2, <2>1, <2>2, <2>3 DEF SumsSoFar
<1>4. ASSUME NEW i \in 1 .. kPvtLength, i <= index'
      PROVE  payload'[i] = message'[i + 6]
  <2>1. index = length /\ n = 6 + length
    <3>1. n = 6 + length /\ ~Finished(message)
      BY <1>2, PhaseProperties
    <3> QED
      BY <1>1, <3>1 DEF IInv, Registers
  <2>2. payload[i] = message[i + 6]
    BY <1>2, <1>4 DEF DataInv, PayloadSoFar
  <2>3. i + 6 \in 1 .. n
    BY <1>1, <1>2, <1>4, <2>1
  <2> QED
    BY <1>1, <1>2, <2>2, <2>3
<1>5. ~IsPvt(message')
  <2>1. InStep'
    BY BodyStep
  <2> QED
    BY <1>2, <2>1, UnfinishedIsNoPvt DEF InStep
<1> QED
  BY <1>1, <1>2, <1>3, <1>4, <1>5 DEF DataInv, PayloadSoFar, DecodedIsReceived

\* The last byte: the message is accepted exactly when it is a whole NAV-PVT.
LEMMA LastSumData ==
  ASSUME IInv, DataInv, NEW b \in Byte, Feed(b), FeedCkB(b)
  PROVE  DataInv'
<1> DEFINE n == Len(message)
<1>1. /\ message \in Seq(Byte) /\ message' \in Seq(Byte)
      /\ n \in Nat /\ n >= 6 /\ Len(message') = n + 1 /\ message'[n + 1] = b
      /\ \A i \in 1 .. n : message'[i] = message[i]
      /\ Declared(message') = length /\ length \in Nat /\ length <= kMaxPayload
      /\ class = message'[3] /\ id = message'[4] /\ ClassAndId'
  BY BodyKeeps
<1>2. /\ state = "CkB" /\ state' = "Sync1" /\ fresh' = Accepted(b)
      /\ fix' = IF Accepted(b) THEN payload ELSE fix
      /\ kPvtLength \in Nat /\ payload \in [1 .. kPvtLength -> Byte]
  BY FramingAssumption DEF FeedCkB, IInv, TypeOK
<1>3. n = 7 + length /\ index = length
  <2>1. n = 7 + length /\ ~Finished(message)
    BY <1>2, PhaseProperties
  <2> QED
    BY <1>1, <2>1 DEF IInv, Registers
<1>4. SumA(message', n - 1) = ckA /\ SumB(message', n - 1) = ckB
  <2>1. SumA(message', n - 1) = SumA(message, n - 1) /\ SumB(message', n - 1) = SumB(message, n - 1)
    <3>1. n >= 2
      BY <1>1
    <3> QED
      BY <1>1, <3>1, FletcherProperties
  <2> QED
    BY <1>2, <2>1 DEF DataInv, SumsSoFar
<1>5. message'[n] = rxCkA
  <2>1. n \in 1 .. n
    BY <1>1
  <2> QED
    BY <1>1, <1>2, <2>1 DEF DataInv, SumsSoFar
<1>6. Finished(message') /\ Len(message') - 1 = n /\ Len(message') - 2 = n - 1
  BY <1>1, <1>3 DEF Finished, Overhead
<1>7. IsPvt(message') <=> Accepted(b)
  BY <1>1, <1>4, <1>5, <1>6 DEF IsPvt, Accepted
<1>8. ASSUME Accepted(b)
      PROVE  payload = Payload(message')
  <2>1. length = kPvtLength
    BY <1>8 DEF Accepted
  <2>2. /\ Payload(message') = SubSeq(message', 7, n - 1)
        /\ Len(SubSeq(message', 7, n - 1)) = length
        /\ \A i \in 1 .. length : SubSeq(message', 7, n - 1)[i] = message'[i + 6]
        /\ SubSeq(message', 7, n - 1) \in Seq(Byte)
    <3> DEFINE k == n - 1
    <3>1. 7 \in Int /\ k \in Int /\ k - 7 + 1 = length /\ (7 <= k <=> length # 0)
      BY <1>1, <1>3
    <3>2. \A i \in 7 .. k : message'[i] \in Byte
      <4>1. \A i \in 7 .. k : i \in 1 .. Len(message')
        BY <1>1, <3>1
      <4> QED
        BY <1>1, <4>1, ElementOfSeq
    <3> HIDE DEF k
    <3>3. /\ SubSeq(message', 7, k) \in Seq(Byte)
          /\ Len(SubSeq(message', 7, k)) = IF 7 <= k THEN k - 7 + 1 ELSE 0
          /\ \A i \in 1 .. k - 7 + 1 : SubSeq(message', 7, k)[i] = message'[7 + i - 1]
      BY <3>1, <3>2, SubSeqProperties
    <3>4. \A i \in 1 .. length : 7 + i - 1 = i + 6
      BY <1>1
    <3>5. Len(SubSeq(message', 7, k)) = length
      BY <1>1, <3>1, <3>3
    <3>6. \A i \in 1 .. length : SubSeq(message', 7, k)[i] = message'[i + 6]
      BY <3>1, <3>3, <3>4
    <3>7. Payload(message') = SubSeq(message', 7, k)
      BY <1>6 DEF Payload, k
    <3> QED
      BY <3>3, <3>5, <3>6, <3>7 DEF k
  <2>3. ASSUME NEW i \in 1 .. kPvtLength
        PROVE  payload[i] = message'[i + 6]
    <3>1. payload[i] = message[i + 6]
      BY <1>2, <1>3, <2>1 DEF DataInv, PayloadSoFar
    <3>2. i + 6 \in 1 .. n
      BY <1>3, <1>1, <2>1
    <3> QED
      BY <1>1, <3>1, <3>2
  <2>4. payload \in Seq(Byte) /\ Len(payload) = kPvtLength
    BY <1>2
  <2> QED
    BY <2>1, <2>2, <2>3, <2>4, SeqEqual
<1>9. SumsSoFar' /\ PayloadSoFar'
  BY <1>2 DEF SumsSoFar, PayloadSoFar
<1> QED
  BY <1>1, <1>2, <1>7, <1>8, <1>9 DEF DataInv, DecodedIsReceived

\* feed() returns true on exactly the last byte of a NAV-PVT whose sums are
\* right, whatever came before it and whatever the sums run over, and decodes
\* that message's own payload.
THEOREM DecodedIsWhatCame == Spec => []DecodedIsReceived
<1>1. Init => DataInv
  <2> SUFFICES ASSUME Init PROVE DataInv
    OBVIOUS
  <2>1. Len(message) = 0 /\ state = "Sync1" /\ ~fresh
    BY DEF Init
  <2>2. ~IsPvt(message) /\ ~(Len(message) >= 3) /\ ~(Len(message) >= 4)
    BY <2>1, ShortLengths, ShortIsNoPvt, Zenon
  <2> QED
    BY <2>1, <2>2 DEF DataInv, ClassAndId, SumsSoFar, PayloadSoFar, DecodedIsReceived
<1>2. IInv /\ DataInv /\ [Next]_vars => DataInv'
  <2> SUFFICES ASSUME IInv, DataInv, [Next]_vars PROVE DataInv'
    OBVIOUS
  <2>1. ASSUME NEW b \in Byte, Feed(b) PROVE DataInv'
    BY <2>1, HuntData, HeadData, LengthData, PayloadData, FirstSumData, LastSumData DEF Feed
  <2>2. CASE UNCHANGED vars
    BY <2>2 DEF vars, headVars, sumVars, DataInv, ClassAndId, SumsSoFar, PayloadSoFar,
                DecodedIsReceived
  <2> QED
    BY <2>1, <2>2 DEF Next
<1>3. DataInv => DecodedIsReceived
  BY DEF DataInv
<1> QED
  BY <1>1, <1>2, <1>3, Invariance, PTL DEF Spec

-----------------------------------------------------------------------------
(* GpsReceiver                                                             *)

\* Where loop() is fits what it holds: a rate to send in begin(), the speed
\* Serial1 was raised to, and a module that speaks at a speed begin() tries.
\* Fixes are only ever turned on at the highest of them.
PlaceInv ==
  /\ ReceiverTypeOK
  /\ pc \in {"probe", "configure"} => rate \in 1 .. kMaxRateHz
  /\ pc = "configure" /\ step > 1 => hostBaud = kTargetBaud
  /\ module.pvt => module.baud = kTargetBaud

\* What has been tried in vain is not the speed of a module that is heard,
\* unless begin() did not listen there.
SweepInv ==
  /\ pc = "probe" /\ Talkative /\ ~deaf =>
       \A i \in 1 .. trying - 1 : kBaudCandidates[i] # module.baud
  /\ pc = "run" /\ Talkative /\ ~deaf => present

\* On a clean line the module has been told what begin() has come to.
ToldInv ==
  /\ pc = "configure" /\ ~noisy =>
       /\ alive /\ module.baud = hostBaud
       /\ step > 2 /\ "nmea" \notin rejects => ~module.nmea
       /\ step > 3 /\ "pvt" \notin rejects => module.pvt
       /\ step > 4 /\ "gnss" \notin rejects => module.single = (rate > kMaxConcurrentRateHz)
  /\ pc = "run" /\ present /\ ~noisy => AsTold

\* begin() and the receiver have the rate of the settings, unless it was saved
\* since they read it.
RateInv ==
  /\ pc \in {"probe", "configure"} /\ ~unread => rate = EffectiveRate(sampleHz)
  /\ pc = "run" /\ present /\ ~unread => rateHz = EffectiveRate(sampleHz)

ReceiverInv == PlaceInv /\ SweepInv /\ ToldInv /\ RateInv

LEMMA Candidates ==
  /\ DOMAIN kBaudCandidates = 1 .. 3 /\ Len(kBaudCandidates) = 3 /\ LastTry = 3
  /\ kBaudCandidates[1] = 115200 /\ kBaudCandidates[2] = 38400 /\ kBaudCandidates[3] = 9600
  BY DEF kBaudCandidates, LastTry

LEMMA Orders ==
  /\ DOMAIN Order = 1 .. 5 /\ Len(Order) = 5
  /\ Order[1] = "baud" /\ Order[2] = "nmea" /\ Order[3] = "pvt" /\ Order[4] = "gnss"
  /\ Order[5] = "rate"
  BY DEF Order

\* begin() tries every speed a module can have.
LEMMA FactorySpeeds ==
  /\ \A b \in FactoryBauds : \E i \in 1 .. 3 : kBaudCandidates[i] = b
  /\ kTargetBaud = kBaudCandidates[1]
  BY ReceiverAssumption, Candidates DEF kTargetBaud

LEMMA FactoryProperties ==
  ASSUME factory \in Factories, NEW a \in BOOLEAN
  PROVE  FactoryDefaults(a) \in Modules /\ ~FactoryDefaults(a).pvt
  BY ReceiverAssumption DEF FactoryDefaults, Factories, Modules

LEMMA RateProperties ==
  ASSUME NEW hz \in Requests
  PROVE  EffectiveRate(hz) \in 1 .. kMaxRateHz
  BY ReceiverAssumption DEF EffectiveRate

LEMMA InitReceiver == ReceiverInit => ReceiverInv
<1> SUFFICES ASSUME ReceiverInit PROVE ReceiverInv
  OBVIOUS
<1>1. module \in Modules /\ ~module.pvt
  BY FactoryProperties DEF ReceiverInit
<1>2. ReceiverTypeOK
  <2>1. /\ 1 \in DOMAIN kBaudCandidates /\ 1 \in DOMAIN Order /\ 0 \in 0 .. kMaxRateHz
        /\ 0 \in Bauds
    BY Candidates, Orders, ReceiverAssumption DEF Bauds
  <2> QED
    BY <1>1, <2>1 DEF ReceiverInit, ReceiverTypeOK
<1> QED
  BY <1>1, <1>2 DEF ReceiverInit, ReceiverInv, PlaceInv, SweepInv, ToldInv, RateInv

LEMMA BeginKeeps ==
  ASSUME ReceiverInv, BeginStarts
  PROVE  ReceiverInv'
<1>1. /\ ReceiverTypeOK /\ pc = "begin" /\ pc' = "probe" /\ trying' = 1 /\ ~unread'
      /\ UNCHANGED <<worldVars, module, step, hostBaud, present, rateHz, sampleHz>>
      /\ deaf' \in BOOLEAN
      /\ rate' = EffectiveRate(sampleHz) /\ rate' \in 1 .. kMaxRateHz
      /\ unread' \in BOOLEAN
  BY RateProperties DEF ReceiverInv, PlaceInv, ReceiverTypeOK, BeginStarts
<1>2. ReceiverTypeOK'
  <2>1. 1 \in DOMAIN kBaudCandidates /\ \A r \in 1 .. kMaxRateHz : r \in 0 .. kMaxRateHz
    BY Candidates, ReceiverAssumption
  <2> QED
    BY <1>1, <2>1 DEF ReceiverTypeOK, worldVars
<1>3. PlaceInv'
  BY <1>1, <1>2 DEF ReceiverInv, PlaceInv
<1>4. SweepInv'
  <2>1. 1 .. trying' - 1 = {}
    BY <1>1
  <2> QED
    BY <1>1, <2>1 DEF SweepInv
<1>5. ToldInv' /\ RateInv'
  BY <1>1 DEF ToldInv, RateInv, EffectiveRate
<1> QED
  BY <1>3, <1>4, <1>5 DEF ReceiverInv

LEMMA RestartKeeps ==
  ASSUME ReceiverInv, Restart
  PROVE  ReceiverInv'
<1>1. /\ pc = "run" /\ pc' \in {"begin", "run"} /\ ~unread'
      /\ pc' = "run" /\ present => rateHz = EffectiveRate(sampleHz)
      /\ UNCHANGED <<worldVars, module, trying, step, hostBaud, rate, present, rateHz, sampleHz,
                     deaf>>
  BY DEF Restart, RateChanged
<1>2. PlaceInv'
  <2>1. ReceiverTypeOK'
    BY <1>1 DEF ReceiverInv, PlaceInv, ReceiverTypeOK, worldVars, Restart
  <2> QED
    BY <1>1, <2>1 DEF ReceiverInv, PlaceInv
<1>3. SweepInv' /\ ToldInv'
  BY <1>1 DEF ReceiverInv, SweepInv, ToldInv, Talkative, Talks, AsTold, worldVars
<1>4. RateInv'
  BY <1>1 DEF RateInv, EffectiveRate
<1> QED
  BY <1>2, <1>3, <1>4 DEF ReceiverInv

LEMMA SaveKeeps ==
  ASSUME ReceiverInv, NEW hz \in Requests, Save(hz)
  PROVE  ReceiverInv'
<1>1. ReceiverTypeOK'
  BY DEF ReceiverInv, PlaceInv, ReceiverTypeOK, Save, worldVars, hostVars
<1> QED
  BY <1>1 DEF ReceiverInv, PlaceInv, SweepInv, ToldInv, RateInv, Save, worldVars, hostVars,
              Talkative, Talks, AsTold

LEMMA ResetKeeps ==
  ASSUME ReceiverInv, WarmReset \/ PowerCycle
  PROVE  ReceiverInv'
<1>1. module' \in Modules /\ (module'.pvt => module'.baud = kTargetBaud)
  <2>1. module \in Modules /\ (module.pvt => module.baud = kTargetBaud)
    BY DEF ReceiverInv, PlaceInv, ReceiverTypeOK, Modules
  <2>2. factory \in Factories
    BY DEF ReceiverInv, PlaceInv, ReceiverTypeOK
  <2> QED
    BY <2>1, <2>2, FactoryProperties DEF WarmReset, PowerCycle
<1>2. HostForgets /\ UNCHANGED <<worldVars, sampleHz, saves>>
  BY DEF WarmReset, PowerCycle
<1>3. ReceiverTypeOK'
  <2>1. /\ 1 \in DOMAIN kBaudCandidates /\ 1 \in DOMAIN Order /\ 0 \in 0 .. kMaxRateHz
        /\ 0 \in Bauds
    BY Candidates, Orders, ReceiverAssumption DEF Bauds
  <2> QED
    BY <1>1, <1>2, <2>1
    DEF ReceiverInv, PlaceInv, ReceiverTypeOK, HostForgets, worldVars
<1> QED
  BY <1>1, <1>2, <1>3 DEF ReceiverInv, PlaceInv, SweepInv, ToldInv, RateInv, HostForgets

\* What is heard at a speed: a module that speaks often enough at it, surely, if
\* begin() listens; and on a clean line no other.
LEMMA EvidenceProperties ==
  ASSUME NEW b, NEW heard \in Evidence(b, TRUE), noisy \in BOOLEAN
  PROVE  /\ heard \in BOOLEAN
         /\ Talkative /\ module.baud = b => heard
         /\ heard /\ ~noisy => alive /\ module.baud = b
<1>1. heard \in IF module.baud = b /\ Talkative THEN {TRUE}
                ELSE IF (module.baud = b /\ Talks) \/ noisy THEN BOOLEAN ELSE {FALSE}
  BY Zenon DEF Evidence
<1>2. heard \in BOOLEAN
  BY <1>1
<1>3. Talkative /\ module.baud = b => heard
  BY <1>1
<1>4. (Talkative => Talks) /\ (Talks => alive)
  BY DEF Talkative, Talks
<1>5. heard /\ ~noisy => module.baud = b /\ Talks
  BY <1>1, <1>4
<1> QED
  BY <1>2, <1>3, <1>4, <1>5

LEMMA HeardProperties ==
  ASSUME NEW b, NEW t, NEW heard \in Heard(b, TRUE, t), noisy \in BOOLEAN
  PROVE  /\ heard \in BOOLEAN
         /\ Talkative /\ module.baud = b /\ Listens(t) => heard
         /\ heard /\ ~noisy => alive /\ module.baud = b
<1>1. CASE Listens(t)
  <2>1. heard \in Evidence(b, TRUE)
    BY <1>1 DEF Heard
  <2> QED
    BY <2>1, EvidenceProperties, Zenon
<1>2. CASE ~Listens(t)
  <2>1. heard = FALSE
    BY <1>2 DEF Heard
  <2> QED
    BY <1>2, <2>1
<1> QED
  BY <1>1, <1>2

LEMMA ProbeKeeps ==
  ASSUME ReceiverInv, Probe
  PROVE  ReceiverInv'
<1> DEFINE b == kBaudCandidates[trying]
<1>1. /\ ReceiverTypeOK /\ pc = "probe" /\ hostBaud' = b /\ step' = 1
      /\ UNCHANGED <<alive, noisy, rejects, factory, rate, rateHz, sampleHz, unread, saves>>
      /\ module' = [module EXCEPT !.asleep = @ /\ ~Wakes]
  BY DEF ReceiverInv, PlaceInv, Probe, worldVars, settingVars
<1>2. /\ module' \in Modules /\ module'.baud = module.baud /\ module'.rate = module.rate
      /\ module'.pvt = module.pvt /\ module'.nmea = module.nmea
      /\ ~module'.asleep = TRUE
  BY <1>1 DEF ReceiverTypeOK, Modules, Wakes
<1>3. trying \in 1 .. 3 /\ b \in Bauds
  BY <1>1, Candidates DEF ReceiverTypeOK, Bauds
<1>4. PICK t \in Instants :
         /\ deaf' = (deaf \/ (~Listens(t) /\ module.baud = b))
         /\ \E heard \in Heard(b, TRUE, t) :
              /\ pc' = IF heard THEN "configure" ELSE IF NextTry > LastTry THEN "run" ELSE "probe"
              /\ trying' = IF heard \/ NextTry > LastTry THEN 1 ELSE NextTry
              /\ present' = IF ~heard /\ NextTry > LastTry THEN FALSE ELSE present
  <2>1. (~module'.asleep) = TRUE
    BY <1>2
  <2> QED
    BY <2>1 DEF Probe
<1>5. PICK heard \in Heard(b, TRUE, t) :
        /\ pc' = IF heard THEN "configure" ELSE IF NextTry > LastTry THEN "run" ELSE "probe"
        /\ trying' = IF heard \/ NextTry > LastTry THEN 1 ELSE NextTry
        /\ present' = IF ~heard /\ NextTry > LastTry THEN FALSE ELSE present
  BY <1>4
<1>6. /\ heard \in BOOLEAN /\ deaf' \in BOOLEAN
      /\ ~deaf' => ~deaf
      /\ Talkative /\ module.baud = b /\ ~deaf' => heard
      /\ heard /\ ~noisy => alive /\ module.baud = b
  <2>1. noisy \in BOOLEAN /\ deaf \in BOOLEAN
    BY <1>1 DEF ReceiverTypeOK
  <2>2. /\ heard \in BOOLEAN
        /\ Talkative /\ module.baud = b /\ Listens(t) => heard
        /\ heard /\ ~noisy => alive /\ module.baud = b
    BY <1>5, <2>1, HeardProperties
  <2> QED
    BY <1>4, <2>1, <2>2
<1>7. Talkative' = Talkative
  BY <1>1, <1>2 DEF Talkative, Talks
<1> HIDE DEF b
<1>8. CASE heard
  <2>1. pc' = "configure" /\ trying' = 1 /\ present' = present
    BY <1>5, <1>8
  <2>2. ReceiverTypeOK'
    BY <1>1, <1>2, <1>3, <1>6, <2>1, Candidates, Orders DEF ReceiverTypeOK
  <2>3. PlaceInv'
    BY <1>1, <1>2, <2>1, <2>2 DEF ReceiverInv, PlaceInv
  <2>4. SweepInv' /\ ToldInv' /\ RateInv'
    BY <1>1, <1>2, <1>6, <1>8, <2>1
    DEF ReceiverInv, SweepInv, ToldInv, RateInv, EffectiveRate
  <2> QED
    BY <2>3, <2>4 DEF ReceiverInv
<1>9. CASE ~heard /\ ~(NextTry > LastTry)
  <2>1. pc' = "probe" /\ trying' = trying + 1 /\ present' = present /\ trying' \in 1 .. 3
    BY <1>3, <1>5, <1>9, Candidates DEF NextTry
  <2>2. ReceiverTypeOK'
    BY <1>1, <1>2, <1>3, <1>6, <2>1, Candidates, Orders DEF ReceiverTypeOK
  <2>3. PlaceInv'
    BY <1>1, <1>2, <2>1, <2>2 DEF ReceiverInv, PlaceInv
  <2>4. SweepInv'
    <3>1. ASSUME Talkative, ~deaf', NEW i \in 1 .. trying' - 1
          PROVE  kBaudCandidates[i] # module.baud
      <4>1. i \in 1 .. trying - 1 \/ i = trying
        BY <1>3, <2>1, <3>1
      <4>2. CASE i = trying
        BY <1>6, <1>9, <3>1, <4>2 DEF b
      <4>3. CASE i \in 1 .. trying - 1
        BY <1>1, <1>6, <3>1, <4>3 DEF ReceiverInv, SweepInv
      <4> QED
        BY <4>1, <4>2, <4>3
    <3> QED
      BY <1>2, <1>7, <2>1, <3>1 DEF SweepInv
  <2>5. ToldInv' /\ RateInv'
    BY <1>1, <2>1 DEF ReceiverInv, ToldInv, RateInv, EffectiveRate
  <2> QED
    BY <2>3, <2>4, <2>5 DEF ReceiverInv
<1>10. CASE ~heard /\ NextTry > LastTry
  <2>1. pc' = "run" /\ trying' = 1 /\ ~present' /\ present' \in BOOLEAN /\ trying = 3
    BY <1>3, <1>5, <1>10, Candidates DEF NextTry
  <2>2. ReceiverTypeOK'
    BY <1>1, <1>2, <1>3, <1>6, <2>1, Candidates, Orders DEF ReceiverTypeOK
  <2>3. PlaceInv'
    BY <1>1, <1>2, <2>1, <2>2 DEF ReceiverInv, PlaceInv
  <2>4. ~Talkative \/ deaf'
    <3> SUFFICES ASSUME Talkative, ~deaf' PROVE FALSE
      OBVIOUS
    <3>1. module.baud \in FactoryBauds \cup {kTargetBaud}
      BY <1>1 DEF ReceiverTypeOK, Modules
    <3>2. PICK i \in 1 .. 3 : kBaudCandidates[i] = module.baud
      BY <3>1, FactorySpeeds
    <3>3. i \in 1 .. trying - 1 \/ i = trying
      BY <2>1
    <3>4. i # trying
      BY <1>6, <1>10, <3>2 DEF b
    <3> QED
      BY <1>1, <1>6, <3>2, <3>3, <3>4 DEF ReceiverInv, SweepInv
  <2>5. SweepInv' /\ ToldInv' /\ RateInv'
    BY <1>7, <2>1, <2>4 DEF SweepInv, ToldInv, RateInv
  <2> QED
    BY <2>3, <2>5 DEF ReceiverInv
<1> QED
  BY <1>6, <1>8, <1>9, <1>10

\* On a clean line everything sent to a module at its speed takes effect; on
\* none does anything sent at another speed.
LEMMA TakesProperties ==
  ASSUME NEW taken \in Takes, noisy \in BOOLEAN
  PROVE  /\ taken \in BOOLEAN
         /\ taken => hostBaud = module.baud
         /\ alive /\ hostBaud = module.baud /\ ~noisy => taken
  BY DEF Takes

\* The first VALSET.
LEMMA RaiseKeeps ==
  ASSUME ReceiverInv, Configure, step = 1
  PROVE  ReceiverInv'
<1>1. /\ ReceiverTypeOK /\ pc = "configure" /\ pc' = "configure" /\ step' = 2
      /\ UNCHANGED <<alive, noisy, rejects, factory, trying, rate, present, rateHz, sampleHz, unread,
                     deaf>>
      /\ RaiseBaud /\ hostBaud' = kTargetBaud
  BY Orders DEF ReceiverInv, PlaceInv, Configure, worldVars, settingVars, RaiseBaud
<1>2. PICK taken \in Takes : module' = IF taken THEN [module EXCEPT !.baud = kTargetBaud] ELSE module
  BY <1>1 DEF RaiseBaud
<1>3. /\ taken \in BOOLEAN
      /\ alive /\ hostBaud = module.baud /\ ~noisy => taken
  BY <1>1, TakesProperties DEF ReceiverTypeOK
<1>4. /\ module' \in Modules
      /\ taken => module'.baud = kTargetBaud
      /\ module'.baud \in {module.baud, kTargetBaud} /\ module'.pvt = module.pvt
  BY <1>1, <1>2 DEF ReceiverTypeOK, Modules
<1>5. kTargetBaud \in Bauds
  BY Candidates, FactorySpeeds DEF Bauds
<1>6. ReceiverTypeOK'
  BY <1>1, <1>4, <1>5, Orders DEF ReceiverTypeOK
<1>7. PlaceInv'
  BY <1>1, <1>4, <1>6 DEF ReceiverInv, PlaceInv
<1>8. SweepInv' /\ RateInv'
  BY <1>1 DEF ReceiverInv, SweepInv, RateInv, EffectiveRate
<1>9. ToldInv'
  BY <1>1, <1>3, <1>4 DEF ReceiverInv, ToldInv
<1> QED
  BY <1>7, <1>8, <1>9 DEF ReceiverInv

\* One of the others: the module's speed stays, and fixes are only turned on
\* at the speed Serial1 was raised to.
LEMMA ValsetProperties ==
  ASSUME ReceiverInv, pc = "configure", step > 1, NEW c \in Concerns, SendValset(c)
  PROVE  /\ module' \in Modules /\ module'.baud = module.baud /\ hostBaud' = hostBaud
         /\ module'.pvt => module'.baud = kTargetBaud
         /\ alive /\ hostBaud = module.baud /\ ~noisy =>
              IF Refused(c) THEN module' = module ELSE Obey(c)
<1>1. /\ module \in Modules /\ rate \in 1 .. kMaxRateHz /\ hostBaud = kTargetBaud
      /\ (module.pvt => module.baud = kTargetBaud) /\ noisy \in BOOLEAN
  BY DEF ReceiverInv, PlaceInv, ReceiverTypeOK
<1>2. PICK taken \in Takes : IF taken /\ ~Refused(c) THEN Obey(c) ELSE UNCHANGED module
  BY DEF SendValset
<1>3. /\ taken \in BOOLEAN
      /\ taken => hostBaud = module.baud
      /\ alive /\ hostBaud = module.baud /\ ~noisy => taken
  BY <1>1, TakesProperties
<1>4. CASE taken /\ ~Refused(c)
  <2>1. module.baud = kTargetBaud /\ Obey(c)
    BY <1>1, <1>2, <1>3, <1>4
  <2>2. module' \in Modules /\ module'.baud = module.baud
    <3>1. CASE c = "nmea"
      BY <1>1, <2>1, <3>1 DEF Obey, Modules
    <3>2. CASE c = "pvt"
      BY <1>1, <2>1, <3>2 DEF Obey, Modules
    <3>3. CASE c = "gnss"
      <4> DEFINE g == rate > kMaxConcurrentRateHz
      <4>1. g \in BOOLEAN /\ module' = [module EXCEPT !.single = g]
        BY <2>1, <3>3 DEF Obey
      <4> HIDE DEF g
      <4> QED
        BY <1>1, <4>1 DEF Modules
    <3>4. CASE c = "rate"
      BY <1>1, <2>1, <3>4 DEF Obey, Modules
    <3> QED
      BY <3>1, <3>2, <3>3, <3>4 DEF Concerns
  <2> QED
    BY <1>3, <1>4, <2>1, <2>2 DEF SendValset
<1>5. CASE ~(taken /\ ~Refused(c))
  BY <1>1, <1>2, <1>3, <1>5 DEF SendValset
<1> QED
  BY <1>4, <1>5

\* What a module does that was told c and did not refuse it.
LEMMA ObeyProperties ==
  ASSUME module \in Modules, NEW c \in Concerns, Obey(c)
  PROVE  /\ module'.nmea = IF c = "nmea" THEN FALSE ELSE module.nmea
         /\ module'.pvt = IF c = "pvt" THEN TRUE ELSE module.pvt
         /\ module'.single = IF c = "gnss" THEN rate > kMaxConcurrentRateHz ELSE module.single
         /\ module'.rate = IF c = "rate" THEN rate ELSE module.rate
<1>1. CASE c = "nmea"
  BY <1>1 DEF Obey, Modules
<1>2. CASE c = "pvt"
  BY <1>2 DEF Obey, Modules
<1>3. CASE c = "gnss"
  BY <1>3 DEF Obey, Modules
<1>4. CASE c = "rate"
  BY <1>4 DEF Obey, Modules
<1> QED
  BY <1>1, <1>2, <1>3, <1>4 DEF Concerns

LEMMA ValsetKeeps ==
  ASSUME ReceiverInv, Configure, step # 1
  PROVE  ReceiverInv'
<1> DEFINE c == Order[step]
<1>1. /\ ReceiverTypeOK /\ pc = "configure" /\ step \in 2 .. 5
      /\ rate \in 1 .. kMaxRateHz /\ hostBaud = kTargetBaud
  BY Orders DEF ReceiverInv, PlaceInv, ReceiverTypeOK, Configure
<1>2. c \in Concerns /\ c # "baud"
  BY <1>1, Orders DEF Concerns
<1>3. /\ UNCHANGED <<alive, noisy, rejects, factory, trying, rate, sampleHz, unread, deaf>>
      /\ SendValset(c)
  BY <1>2 DEF Configure, worldVars, settingVars
<1>4. \/ step < 5 /\ step' = step + 1 /\ UNCHANGED <<pc, present, rateHz>>
      \/ step = 5 /\ step' = 1 /\ pc' = "run" /\ present' = TRUE /\ rateHz' = rate
  BY <1>1, Orders DEF Configure
<1>5. /\ module' \in Modules /\ module'.baud = module.baud /\ hostBaud' = hostBaud
      /\ module'.pvt => module'.baud = kTargetBaud
      /\ alive /\ hostBaud = module.baud /\ ~noisy =>
           IF Refused(c) THEN module' = module ELSE Obey(c)
  <2>1. step > 1
    BY <1>1
  <2> QED
    BY <1>1, <1>2, <1>3, <2>1, ValsetProperties
<1>6. ReceiverTypeOK'
  <2>1. step' \in 1 .. 5 /\ rate \in 0 .. kMaxRateHz
    BY <1>1, <1>4
  <2> QED
    BY <1>1, <1>3, <1>4, <1>5, <2>1, Orders DEF ReceiverTypeOK
<1>7. PlaceInv'
  BY <1>1, <1>3, <1>4, <1>5, <1>6 DEF PlaceInv
<1>8. SweepInv' /\ RateInv'
  BY <1>1, <1>3, <1>4 DEF ReceiverInv, SweepInv, RateInv, EffectiveRate
<1>9. ToldInv'
  <2> SUFFICES ASSUME ~noisy PROVE ToldInv'
    BY <1>3 DEF ToldInv
  <2>1. alive /\ module.baud = hostBaud
    BY <1>1 DEF ReceiverInv, ToldInv
  <2>2. \/ Refused(c) /\ module' = module
        \/ ~Refused(c) /\ module \in Modules /\ Obey(c)
    BY <1>1, <1>5, <2>1 DEF ReceiverTypeOK
  <2>3. /\ step > 2 /\ "nmea" \notin rejects => ~module.nmea
        /\ step > 3 /\ "pvt" \notin rejects => module.pvt
        /\ step > 4 /\ "gnss" \notin rejects => module.single = (rate > kMaxConcurrentRateHz)
    BY <1>1 DEF ReceiverInv, ToldInv
  <2>4. /\ c = "nmea" <=> step = 2
        /\ c = "pvt" <=> step = 3
        /\ c = "gnss" <=> step = 4
        /\ c = "rate" <=> step = 5
    BY <1>1, Orders
  <2> HIDE DEF c
  <2> DEFINE g == rate > kMaxConcurrentRateHz
  <2>5. g \in BOOLEAN /\ (Refused(c) <=> c \in rejects \/ (c = "rate" /\ g /\ ~module.single))
    BY DEF Refused
  <2>6. ~Refused(c) =>
          /\ module'.nmea = IF c = "nmea" THEN FALSE ELSE module.nmea
          /\ module'.pvt = IF c = "pvt" THEN TRUE ELSE module.pvt
          /\ module'.single = IF c = "gnss" THEN g ELSE module.single
          /\ module'.rate = IF c = "rate" THEN rate ELSE module.rate
    BY <1>2, <2>2, ObeyProperties
  <2>7. Refused(c) => module' = module
    BY <2>2
  <2>8. step >= 4 /\ "gnss" \notin rejects => module'.single = g
    <3> SUFFICES ASSUME step >= 4, "gnss" \notin rejects PROVE module'.single = g
      OBVIOUS
    <3>1. CASE step = 4
      <4>1. c = "gnss"
        BY <2>4, <3>1
      <4>2. ~Refused(c)
        BY <2>5, <4>1
      <4> QED
        BY <2>6, <4>1, <4>2
    <3>2. CASE step # 4
      <4>1. step > 4
        BY <1>1, <3>2
      <4>2. module.single = g
        BY <2>3, <4>1 DEF g
      <4>3. c # "gnss"
        BY <2>4, <3>2
      <4>4. module'.single = module.single
        BY <2>6, <2>7, <4>3
      <4> QED
        BY <4>2, <4>4
    <3> QED
      BY <3>1, <3>2
  <2> HIDE DEF g
  <2>9. step >= 2 /\ "nmea" \notin rejects => ~module'.nmea
    <3> SUFFICES ASSUME step >= 2, "nmea" \notin rejects PROVE ~module'.nmea
      OBVIOUS
    <3>1. CASE step = 2
      <4>1. c = "nmea"
        BY <2>4, <3>1
      <4>2. ~Refused(c)
        BY <2>5, <4>1
      <4> QED
        BY <2>6, <4>1, <4>2
    <3>2. CASE step # 2
      <4>1. step > 2
        BY <1>1, <3>2
      <4>2. ~module.nmea
        BY <2>3, <4>1 DEF g
      <4>3. c # "nmea"
        BY <2>4, <3>2
      <4>4. module'.nmea = module.nmea
        BY <2>6, <2>7, <4>3
      <4> QED
        BY <4>2, <4>4
    <3> QED
      BY <3>1, <3>2
  <2>10. step >= 3 /\ "pvt" \notin rejects => module'.pvt
    <3> SUFFICES ASSUME step >= 3, "pvt" \notin rejects PROVE module'.pvt
      OBVIOUS
    <3>1. CASE step = 3
      <4>1. c = "pvt"
        BY <2>4, <3>1
      <4>2. ~Refused(c)
        BY <2>5, <4>1
      <4> QED
        BY <2>6, <4>1, <4>2
    <3>2. CASE step # 3
      <4>1. step > 3
        BY <1>1, <3>2
      <4>2. module.pvt
        BY <2>3, <4>1 DEF g
      <4>3. c # "pvt"
        BY <2>4, <3>2
      <4>4. module'.pvt = module.pvt
        BY <2>6, <2>7, <4>3
      <4> QED
        BY <4>2, <4>4
    <3> QED
      BY <3>1, <3>2
  <2>11. step >= 5 /\ rejects = {} => module'.rate = rate
    <3> SUFFICES ASSUME step >= 5, rejects = {} PROVE module'.rate = rate
      OBVIOUS
    <3>1. c = "rate" /\ module.single = g
      BY <1>1, <2>3, <2>4 DEF g
    <3>2. ~Refused(c)
      BY <2>5, <3>1
    <3> QED
      BY <2>6, <3>1, <3>2
  <2>12. CASE step < 5
    BY <1>1, <1>3, <1>4, <1>5, <2>1, <2>8, <2>9, <2>10, <2>12 DEF ToldInv, g
  <2>13. CASE step = 5
    BY <1>1, <1>3, <1>4, <1>5, <2>1, <2>8, <2>9, <2>10, <2>11, <2>13 DEF ToldInv, AsTold, g
  <2> QED
    BY <1>1, <2>12, <2>13
<1> QED
  BY <1>7, <1>8, <1>9 DEF ReceiverInv

-----------------------------------------------------------------------------
LEMMA NextReceiver == ReceiverInv /\ [ReceiverNext]_receiverVars => ReceiverInv'
<1> SUFFICES ASSUME ReceiverInv, [ReceiverNext]_receiverVars PROVE ReceiverInv'
  OBVIOUS
<1>1. CASE Configure
  BY <1>1, RaiseKeeps, ValsetKeeps
<1>2. CASE UNCHANGED receiverVars
  BY <1>2 DEF receiverVars, worldVars, hostVars, settingVars, ReceiverInv, PlaceInv,
              ReceiverTypeOK, SweepInv, ToldInv, RateInv, Talkative, Talks, AsTold
<1> QED
  BY <1>1, <1>2, BeginKeeps, ProbeKeeps, RestartKeeps, SaveKeeps, ResetKeeps
  DEF ReceiverNext, LoopStep, World

LEMMA ReceiverInvariance == ReceiverSpec => []ReceiverInv
  BY InitReceiver, NextReceiver, PTL DEF ReceiverSpec

\* loop(), Serial1 and the module hold what the code expects of them.
THEOREM ReceiverTyped == ReceiverSpec => []ReceiverTypeOK
<1>1. ReceiverInv => ReceiverTypeOK
  BY DEF ReceiverInv, PlaceInv
<1> QED
  BY <1>1, ReceiverInvariance, PTL

\* Whatever is saved, reset or refused, and whenever, the module is never told
\* to send more fixes a second than its line can carry.
THEOREM FixesFit == ReceiverSpec => []FitsLine
<1>1. ReceiverInv => FitsLine
  <2> SUFFICES ASSUME ReceiverInv, module.pvt PROVE kPvtBits * module.rate <= module.baud
    BY DEF FitsLine
  <2>1. /\ module.rate \in Nat /\ module.rate <= kMaxRateHz /\ module.baud = kTargetBaud
        /\ kMaxRateHz \in Nat /\ kPvtBits \in Nat
    BY ReceiverAssumption DEF ReceiverInv, PlaceInv, ReceiverTypeOK, Modules
  <2>2. kPvtBits * module.rate <= kPvtBits * kMaxRateHz
    BY <2>1
  <2>3. kPvtBits * kMaxRateHz <= kTargetBaud
    BY ReceiverAssumption
  <2> QED
    BY <2>1, <2>2, <2>3 DEF kTargetBaud
<1> QED
  BY <1>1, ReceiverInvariance, PTL

\* begin() misses no module that it could hear, at whichever of the speeds and
\* in whichever state the last run of the firmware left it.
THEOREM HeardIsFound == ReceiverSpec => []FoundIfHeard
<1>1. ReceiverInv => FoundIfHeard
  BY DEF ReceiverInv, SweepInv, FoundIfHeard
<1> QED
  BY <1>1, ReceiverInvariance, PTL

\* On a clean line a receiver believed present does all it was told, at the
\* rate of the settings unless that was saved since.
THEOREM ReceiverConfigured == ReceiverSpec => []Configured
<1>1. ReceiverInv => Configured
  BY DEF ReceiverInv, ToldInv, RateInv, Configured
<1> QED
  BY <1>1, ReceiverInvariance, PTL
=============================================================================
