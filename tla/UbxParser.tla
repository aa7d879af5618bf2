----------------------------- MODULE UbxParser ------------------------------
(***************************************************************************)
(* UbxParser::feed(): NAV-PVT messages found in a stream of bytes, one     *)
(* byte at a time and without keeping the message.  The line may deliver   *)
(* any byte at any time: it stands for noise, for bytes lost to a full     *)
(* UART and for the other messages of the receiver.  checksumErrors_, which*)
(* no caller reads, is left out.                                           *)
(***************************************************************************)
EXTENDS UbxFraming

VARIABLES
  state,          \* what the next byte is taken for
  class, id,      \* class_, id_
  length, index,  \* length_, index_
  payload,        \* payload_: the first kPvtLength bytes of the payload
  ckA, ckB,       \* the sums of the bytes so far
  rxCkA,          \* the first sum as it was received
  fix,            \* the payload fix_ and timeValid_ were decoded from, or <<>>
  fresh,          \* history: what the last feed() returned
  message,        \* history: the bytes that may be the beginning of a message
  away            \* history: how many bytes ago it last hunted for a message

headVars == <<class, id, length>>
sumVars == <<ckA, ckB, rxCkA>>
vars == <<state, headVars, index, payload, sumVars, fix, fresh, message, away>>

Init ==
  /\ state = "Sync1"
  /\ class = 0 /\ id = 0 /\ length = 0 /\ index = 0
  /\ payload = [i \in 1 .. kPvtLength |-> 0]
  /\ ckA = 0 /\ ckB = 0 /\ rxCkA = 0
  /\ fix = <<>>
  /\ fresh = FALSE /\ message = <<>> /\ away = 0

-----------------------------------------------------------------------------
\* ckA_ += byte; ckB_ += ckA_
AddToSums(b) ==
  /\ ckA' = (ckA + b) % ByteMod
  /\ ckB' = (ckB + ckA + b) % ByteMod
  /\ rxCkA' = rxCkA

FeedSync1(b) ==
  /\ state = "Sync1"
  /\ state' = IF b = kSync1 THEN "Sync2" ELSE "Sync1"
  /\ fresh' = FALSE
  /\ UNCHANGED <<headVars, index, payload, sumVars, fix>>

\* Mutation of AfterSync: a second kSync1 is swallowed with the first.
AfterSyncSwallows(b) == IF b = kSync2 THEN "Class" ELSE "Sync1"

AfterSync(b) ==
  IF b = kSync2 THEN "Class" ELSE IF b = kSync1 THEN "Sync2" ELSE "Sync1"

FeedSync2(b) ==
  /\ state = "Sync2"
  /\ state' = AfterSync(b)
  /\ fresh' = FALSE
  /\ UNCHANGED <<headVars, index, payload, sumVars, fix>>

FeedClass(b) ==
  /\ state = "Class"
  /\ class' = b /\ ckA' = b /\ ckB' = b
  /\ state' = "Id" /\ fresh' = FALSE
  /\ UNCHANGED <<id, length, index, payload, rxCkA, fix>>

FeedId(b) ==
  /\ state = "Id"
  /\ id' = b
  /\ AddToSums(b)
  /\ state' = "LenLo" /\ fresh' = FALSE
  /\ UNCHANGED <<class, length, index, payload, fix>>

FeedLenLo(b) ==
  /\ state = "LenLo"
  /\ length' = b
  /\ AddToSums(b)
  /\ state' = "LenHi" /\ fresh' = FALSE
  /\ UNCHANGED <<class, id, index, payload, fix>>

\* Mutation of AfterLength: any declared length is believed.
AfterLengthTrusting(n) == IF n = 0 THEN "CkA" ELSE "Payload"

AfterLength(n) ==
  IF n > kMaxPayload THEN "Sync1" ELSE IF n = 0 THEN "CkA" ELSE "Payload"

FeedLenHi(b) ==
  /\ state = "LenHi"
  /\ length' = length + ByteMod * b
  /\ AddToSums(b)
  /\ index' = 0
  /\ state' = AfterLength(length')
  /\ fresh' = FALSE
  /\ UNCHANGED <<class, id, payload, fix>>

\* Past the end of payload_ a byte is only summed.
Stored(b) == IF index < kPvtLength THEN [payload EXCEPT ![index + 1] = b] ELSE payload

FeedPayload(b) ==
  /\ state = "Payload"
  /\ payload' = Stored(b)
  /\ AddToSums(b)
  /\ index' = index + 1
  /\ state' = IF index' >= length THEN "CkA" ELSE "Payload"
  /\ fresh' = FALSE
  /\ UNCHANGED <<headVars, fix>>

FeedCkA(b) ==
  /\ state = "CkA"
  /\ rxCkA' = b
  /\ state' = "CkB" /\ fresh' = FALSE
  /\ UNCHANGED <<headVars, index, payload, ckA, ckB, fix>>

\* Mutation of Accepted: the length is not compared.
AcceptedAnyLength(b) ==
  /\ rxCkA = ckA /\ b = ckB
  /\ class = kClassNav /\ id = kIdPvt

\* The message is a NAV-PVT and both its sums are right.
Accepted(b) ==
  /\ rxCkA = ckA /\ b = ckB
  /\ class = kClassNav /\ id = kIdPvt /\ length = kPvtLength

FeedCkB(b) ==
  /\ state = "CkB"
  /\ state' = "Sync1"
  /\ fresh' = Accepted(b)
  /\ fix' = IF Accepted(b) THEN payload ELSE fix
  /\ UNCHANGED <<headVars, index, payload, sumVars>>

\* feed(byte)
Feed(b) ==
  /\ \/ FeedSync1(b) \/ FeedSync2(b)
     \/ FeedClass(b) \/ FeedId(b)
     \/ FeedLenLo(b) \/ FeedLenHi(b)
     \/ FeedPayload(b)
     \/ FeedCkA(b) \/ FeedCkB(b)
  /\ message' = Continue(message, b)
  /\ away' = IF state' \in {"Sync1", "Sync2"} THEN 0 ELSE away + 1

Next == \E b \in Byte : Feed(b)

Spec == Init /\ [][Next]_vars

-----------------------------------------------------------------------------
TypeOK ==
  /\ state \in {"Sync1", "Sync2", "Class", "Id", "LenLo", "LenHi", "Payload", "CkA", "CkB"}
  /\ class \in Byte /\ id \in Byte
  /\ length \in 0 .. ByteMod * ByteMod - 1 /\ index \in 0 .. kMaxPayload
  /\ payload \in [1 .. kPvtLength -> Byte]
  /\ ckA \in Byte /\ ckB \in Byte /\ rxCkA \in Byte
  /\ fix \in {<<>>} \cup [1 .. kPvtLength -> Byte]
  /\ fresh \in BOOLEAN

HeadStates == <<"Sync2", "Class", "Id", "LenLo", "LenHi">>

\* The byte of a message that comes after s.
Awaited(s) ==
  IF Finished(s) \/ Len(s) = 0 THEN "Sync1"
  ELSE IF Len(s) < 6 THEN HeadStates[Len(s)]
  ELSE IF Len(s) < 6 + Declared(s) THEN "Payload"
  ELSE IF Len(s) = 6 + Declared(s) THEN "CkA" ELSE "CkB"

\* Whatever the line delivers, the parser is at the byte of a message where a
\* reader who keeps all the bytes is: it neither misses a message that begins
\* while it hunts (a repeated kSync1 included) nor stops short of or runs past
\* the end of one it follows.  UbxParser.cpp:21-80.
InStep == state = Awaited(message)

\* feed() returns true on exactly the last byte of a NAV-PVT message whose sums
\* are right, and the fix is then decoded from that message's own payload, not
\* from what a longer or broken message before it left in payload_.
DecodedIsReceived ==
  /\ fresh <=> IsPvt(message)
  /\ fresh => fix = Payload(message)

\* A desynchronised stream costs a bounded stretch of bytes: whatever bytes a
\* length was read from, the parser hunts again within the largest message it
\* believes.  UbxParser.cpp:62-70.
SilenceBounded == TypeOK /\ away <= kMaxPayload + Overhead - 2
=============================================================================
