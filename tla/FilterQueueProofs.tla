------------------------- MODULE FilterQueueProofs -------------------------
(***************************************************************************)
(* FilterQueue for every ring depth, every set of client writes and every  *)
(* interleaving of the two cores: the inductive invariant, the two safety  *)
(* properties that follow from it, and the refinement of BoundedFifo.      *)
(***************************************************************************)
EXTENDS FilterQueue, SequenceTheorems, TLAPS

\* Succ is the code's (i + 1) % kFilterQueueDepth: it stays in range and
\* never returns its argument.
LEMMA SuccProperties ==
  ASSUME NEW i \in Slot
  PROVE  /\ Succ(i) \in Slot
         /\ Succ(i) # i
BY DepthAssumption DEF Succ, Slot

\* The memory of the static globals at boot satisfies the invariant.
LEMMA InitInv == Init => IInv
<1> SUFFICES ASSUME Init PROVE IInv
  OBVIOUS
<1>1. TypeOK
  BY DepthAssumption DEF Init, TypeOK, Slot, NoCommand
<1>2. SlotsWhole
  BY DepthAssumption DEF Init, SlotsWhole, InUse, Slot
<1>3. HostInv /\ LoopInv /\ NoTornCommand
  BY DEF Init, HostInv, LoopInv, NoTornCommand, NoCommand
<1> QED
  BY <1>1, <1>2, <1>3 DEF IInv

\* Every step of onWrite preserves the invariant: filling the slot at the
\* head disturbs no slot the reader owns, and publishing it adds a whole one.
LEMMA HostStepInv ==
  ASSUME IInv, HostNext
  PROVE  IInv'
<1> USE DepthAssumption, LenAssumption, NoBytesAssumption, CounterAssumption
<1>1. ASSUME NEW w \in Write, HostAccept(w)
      PROVE  IInv'
  <2>1. TypeOK'
    BY <1>1 DEF IInv, TypeOK, HostAccept, slotVars, loopVars
  <2>2. SlotsWhole'
    BY <1>1 DEF IInv, SlotsWhole, InUse, HostAccept, slotVars, loopVars
  <2>3. HostInv'
    BY <1>1 DEF IInv, HostInv, Succ, HostAccept, slotVars, loopVars
  <2>4. LoopInv' /\ NoTornCommand'
    BY <1>1 DEF IInv, LoopInv, NoTornCommand, HostAccept, slotVars, loopVars
  <2> QED
    BY <2>1, <2>2, <2>3, <2>4 DEF IInv
<1>2. ASSUME NEW w \in Write, HostOverflow(w)
      PROVE  IInv'
  <2>1. (filterOverflows + 1) % CounterMod \in Nat
    BY DEF IInv, TypeOK
  <2>2. TypeOK'
    BY <1>2, <2>1 DEF IInv, TypeOK, HostOverflow, slotVars, loopVars
  <2>3. SlotsWhole' /\ HostInv' /\ LoopInv' /\ NoTornCommand'
    BY <1>2 DEF IInv, SlotsWhole, InUse, HostInv, Succ, LoopInv, NoTornCommand,
                HostOverflow, slotVars, loopVars
  <2> QED
    BY <2>2, <2>3 DEF IInv
<1>3. CASE HostCopy
  <2>1. hostCmd \in Accepted /\ ~InUse(filterHead)
    BY <1>3 DEF HostCopy, IInv, TypeOK, HostInv, InUse, Slot
  <2>2. TypeOK'
    BY <1>3, <2>1 DEF IInv, TypeOK, HostCopy, loopVars, Accepted
  <2>3. SlotsWhole'
    BY <1>3, <2>1 DEF IInv, TypeOK, SlotsWhole, InUse, HostCopy, loopVars
  <2>4. HostInv'
    BY <1>3, <2>1 DEF IInv, TypeOK, HostInv, Succ, HostCopy, loopVars
  <2>5. LoopInv' /\ NoTornCommand'
    BY <1>3 DEF IInv, TypeOK, LoopInv, NoTornCommand, HostCopy, loopVars
  <2> QED
    BY <2>2, <2>3, <2>4, <2>5 DEF IInv
<1>4. CASE HostLen
  <2>1. hostCmd \in Accepted /\ ~InUse(filterHead)
    BY <1>4 DEF HostLen, IInv, TypeOK, HostInv, InUse, Slot
  <2>2. TypeOK'
    BY <1>4, <2>1 DEF IInv, TypeOK, HostLen, loopVars, Accepted
  <2>3. SlotsWhole'
    BY <1>4, <2>1 DEF IInv, TypeOK, SlotsWhole, InUse, HostLen, loopVars
  <2>4. HostInv'
    BY <1>4, <2>1 DEF IInv, TypeOK, HostInv, Succ, HostLen, loopVars
  <2>5. LoopInv' /\ NoTornCommand'
    BY <1>4 DEF IInv, TypeOK, LoopInv, NoTornCommand, HostLen, loopVars
  <2> QED
    BY <2>2, <2>3, <2>4, <2>5 DEF IInv
<1>5. CASE HostPublish
  <2>1. hostCmd \in Accepted /\ Succ(filterHead) # filterTail
    BY <1>5 DEF HostPublish, IInv, HostInv
  <2>2. filterQueue[filterHead] \in Accepted /\ filterLens[filterHead] = LenOf[filterQueue[filterHead]]
    BY <1>5, <2>1 DEF HostPublish, IInv, HostInv
  <2>3. TypeOK'
    BY <1>5, SuccProperties DEF IInv, TypeOK, HostPublish, slotVars, loopVars
  <2>4. ASSUME NEW i \in Slot, InUse(i)'
        PROVE  InUse(i) \/ i = filterHead
    BY <1>5, <2>4 DEF IInv, TypeOK, InUse, Succ, Slot, HostPublish, loopVars
  <2>5. SlotsWhole'
    BY <1>5, <2>2, <2>4 DEF IInv, SlotsWhole, HostPublish, slotVars, loopVars
  <2>6. HostInv'
    BY <1>5 DEF HostInv, HostPublish
  <2>7. LoopInv' /\ NoTornCommand'
    BY <1>5, <2>1 DEF IInv, LoopInv, NoTornCommand, HostPublish, slotVars, loopVars
  <2> QED
    BY <2>3, <2>5, <2>6, <2>7 DEF IInv
<1> QED
  BY <1>1, <1>2, <1>3, <1>4, <1>5 DEF HostNext, HostFinish

\* Every step of takeFilterCommand preserves the invariant: what it copies is
\* the slot at the tail, which is whole and stays so until it is given back.
LEMMA LoopStepInv ==
  ASSUME IInv, LoopNext
  PROVE  IInv'
<1> USE DepthAssumption, LenAssumption, NoBytesAssumption
<1>1. CASE LoopSee
  <2>1. TypeOK' /\ SlotsWhole' /\ HostInv'
    BY <1>1 DEF IInv, TypeOK, SlotsWhole, InUse, HostInv, Succ, LoopSee, slotVars, hostVars
  <2>2. LoopInv' /\ NoTornCommand'
    BY <1>1 DEF IInv, LoopInv, NoTornCommand, LoopSee, slotVars, hostVars
  <2> QED
    BY <2>1, <2>2 DEF IInv
<1>2. CASE LoopLen
  <2>1. TypeOK' /\ SlotsWhole' /\ HostInv'
    BY <1>2 DEF IInv, TypeOK, SlotsWhole, InUse, HostInv, Succ, LoopLen, slotVars, hostVars
  <2>2. LoopInv' /\ NoTornCommand'
    BY <1>2 DEF IInv, LoopInv, NoTornCommand, LoopLen, slotVars, hostVars
  <2> QED
    BY <2>1, <2>2 DEF IInv
<1>3. CASE LoopCopy
  <2>1. TypeOK' /\ SlotsWhole' /\ HostInv'
    BY <1>3 DEF IInv, TypeOK, SlotsWhole, InUse, HostInv, Succ, LoopCopy, slotVars, hostVars
  <2>2. LoopInv' /\ NoTornCommand'
    BY <1>3 DEF IInv, LoopInv, NoTornCommand, LoopCopy, slotVars, hostVars
  <2> QED
    BY <2>1, <2>2 DEF IInv
<1>4. CASE LoopRelease
  <2>1. InUse(filterTail) /\ filterTail \in Slot
    BY <1>4 DEF LoopRelease, IInv, TypeOK, LoopInv, InUse, Slot
  <2>2. loopOut \in Accepted /\ loopLen = LenOf[loopOut]
    BY <1>4, <2>1 DEF LoopRelease, IInv, LoopInv, SlotsWhole
  <2>3. taken' = Command(loopOut)
    BY <1>4, <2>2 DEF LoopRelease, Command
  <2>4. NoTornCommand'
    BY <2>2, <2>3 DEF NoTornCommand
  <2>5. TypeOK'
    BY <1>4, <2>2, SuccProperties DEF IInv, TypeOK, LoopRelease, slotVars, hostVars
  <2>6. ASSUME NEW i \in Slot, InUse(i)'
        PROVE  InUse(i)
    BY <1>4, <2>1, <2>6 DEF IInv, TypeOK, LoopInv, InUse, Succ, Slot, LoopRelease, hostVars
  <2>7. SlotsWhole'
    BY <1>4, <2>6 DEF IInv, SlotsWhole, LoopRelease, slotVars
  <2>8. HostInv'
    BY <1>4, <2>1 DEF IInv, TypeOK, HostInv, LoopInv, Succ, Slot, LoopRelease, slotVars, hostVars
  <2>9. LoopInv'
    BY <1>4 DEF LoopInv, LoopRelease
  <2> QED
    BY <2>4, <2>5, <2>7, <2>8, <2>9 DEF IInv
<1> QED
  BY <1>1, <1>2, <1>3, <1>4 DEF LoopNext

\* The invariant holds in every reachable state.
THEOREM Invariance == Spec => []IInv
<1>1. Init => IInv
  BY InitInv
<1>2. IInv /\ [Next]_vars => IInv'
  <2> SUFFICES ASSUME IInv, [Next]_vars PROVE IInv'
    OBVIOUS
  <2>1. CASE HostNext
    BY <2>1, HostStepInv
  <2>2. CASE LoopNext
    BY <2>2, LoopStepInv
  <2>3. CASE UNCHANGED vars
    BY <2>3 DEF IInv, TypeOK, SlotsWhole, InUse, HostInv, Succ, LoopInv, NoTornCommand,
                vars, hostVars, slotVars, loopVars
  <2> QED
    BY <2>1, <2>2, <2>3 DEF Next
<1> QED
  BY <1>1, <1>2, PTL DEF Spec

\* The host task and loop() never work on the same slot at the same time.
THEOREM SlotExclusion == Spec => []NoSharedSlot
<1>1. IInv => NoSharedSlot
  BY DEF IInv, LoopInv, NoSharedSlot
<1> QED
  BY <1>1, Invariance, PTL

\* No command is ever delivered torn.
THEOREM DeliveredWhole == Spec => []NoTornCommand
<1>1. IInv => NoTornCommand
  BY DEF IInv
<1> QED
  BY <1>1, Invariance, PTL

-----------------------------------------------------------------------------
(* The refinement of BoundedFifo.                                          *)

\* A function on an initial segment of the naturals is a sequence.
LEMMA FunctionIsSeq ==
  ASSUME NEW S, NEW n \in Nat, NEW f \in [1 .. n -> S]
  PROVE  f \in Seq(S) /\ Len(f) = n
OBVIOUS

\* Append and Tail, element by element.
LEMMA AppendElements ==
  ASSUME NEW S, NEW s \in Seq(S), NEW c \in S
  PROVE  Append(s, c) = [i \in 1 .. Len(s) + 1 |-> IF i = Len(s) + 1 THEN c ELSE s[i]]
<1> DEFINE t == [i \in 1 .. Len(s) + 1 |-> IF i = Len(s) + 1 THEN c ELSE s[i]]
<1>1. Len(s) \in Nat /\ s \in [1 .. Len(s) -> S]
  BY LenProperties
<1>2. t \in [1 .. Len(s) + 1 -> S]
  BY <1>1
<1>3. t \in Seq(S) /\ Len(t) = Len(s) + 1
  BY <1>1, <1>2, FunctionIsSeq
<1>4. Append(s, c) \in Seq(S) /\ Len(Append(s, c)) = Len(s) + 1
  OBVIOUS
<1>5. \A i \in 1 .. Len(s) + 1 : Append(s, c)[i] = t[i]
  BY <1>1
<1> HIDE DEF t
<1>6. Append(s, c) = t
  BY <1>3, <1>4, <1>5, SeqEqual
<1> QED
  BY <1>6 DEF t

\* What is left of a sequence once its head is taken, element by element.
LEMMA TailElements ==
  ASSUME NEW S, NEW s \in Seq(S), Len(s) > 0
  PROVE  /\ s # <<>>
         /\ Head(s) = s[1]
         /\ Tail(s) = [i \in 1 .. Len(s) - 1 |-> s[i + 1]]
<1> DEFINE t == [i \in 1 .. Len(s) - 1 |-> s[i + 1]]
<1>1. Len(s) \in Nat /\ s \in [1 .. Len(s) -> S] /\ s # <<>>
  BY LenProperties, EmptySeq
<1>2. t \in [1 .. Len(s) - 1 -> S] /\ Len(s) - 1 \in Nat
  BY <1>1
<1>3. t \in Seq(S) /\ Len(t) = Len(s) - 1
  BY <1>2, FunctionIsSeq
<1>4. /\ Tail(s) \in Seq(S)
      /\ Len(Tail(s)) = Len(s) - 1
      /\ \A i \in 1 .. Len(Tail(s)) : Tail(s)[i] = t[i]
  BY <1>1, HeadTailProperties
<1> HIDE DEF t
<1>5. Tail(s) = t
  BY <1>3, <1>4, SeqEqual
<1> QED
  BY <1>1, <1>5 DEF t

\* The slots the abstract queue is read from are the ones in use.
LEMMA ContentsSlots ==
  ASSUME TypeOK
  PROVE  /\ Count \in Nat
         /\ Count < kFilterQueueDepth
         /\ \A i \in 1 .. Count : SlotAt(i) \in Slot /\ InUse(SlotAt(i))
BY DepthAssumption DEF TypeOK, Slot, Count, SlotAt, InUse

\* What a slot, read as one command, may hold.
Cell == [bytes : Write \cup {NoBytes}, len : Nat]

\* The abstract queue is a sequence of Count commands.
LEMMA ContentsSeq ==
  ASSUME TypeOK
  PROVE  /\ Contents \in Seq(Cell)
         /\ Len(Contents) = Count
         /\ DOMAIN Contents = 1 .. Count
<1>1. \A i \in 1 .. Count : Contents[i] \in Cell
  BY ContentsSlots DEF Contents, TypeOK, Cell
<1>2. Contents \in [1 .. Count -> Cell]
  BY <1>1 DEF Contents
<1> QED
  BY <1>2, ContentsSlots, FunctionIsSeq

\* A step that leaves the indices and the slots in use alone leaves the
\* abstract queue alone.
LEMMA ContentsUnchanged ==
  ASSUME TypeOK,
         filterHead' = filterHead, filterTail' = filterTail,
         \A i \in Slot : InUse(i) => /\ filterQueue'[i] = filterQueue[i]
                                    /\ filterLens'[i] = filterLens[i]
  PROVE  Contents' = Contents
<1>1. Count' = Count /\ \A i \in 1 .. Count : SlotAt(i)' = SlotAt(i)
  BY DEF Count, SlotAt
<1> QED
  BY <1>1, ContentsSlots DEF Contents

\* The abstract queue is empty exactly when the indices meet.
LEMMA CountZero ==
  ASSUME TypeOK
  PROVE  Count = 0 <=> filterTail = filterHead
BY DepthAssumption DEF TypeOK, Slot, Count

\* At boot the abstract queue is empty.
LEMMA RefinesInit == Init => Fifo!Init
<1> SUFFICES ASSUME Init PROVE Fifo!Init
  OBVIOUS
<1>1. Count = 0
  BY DEF Init, Count
<1>2. Contents = <<>>
  BY <1>1 DEF Contents
<1> QED
  BY <1>2 DEF Fifo!Init, Init

\* Every step of onWrite is a step of the abstract queue or a stutter: the
\* release store is the Put, the failed test for room the Refuse.
LEMMA HostRefines ==
  ASSUME IInv, HostNext
  PROVE  [Fifo!Next]_(Fifo!vars)
<1> USE DepthAssumption
<1>0. TypeOK
  BY DEF IInv
<1>1. ASSUME NEW w \in Write, HostAccept(w)
      PROVE  UNCHANGED Fifo!vars
  <2>1. Contents' = Contents
    BY <1>0, <1>1, ContentsUnchanged DEF HostAccept, slotVars, loopVars
  <2> QED
    BY <1>1, <2>1 DEF HostAccept, loopVars, Fifo!vars
<1>2. ASSUME NEW w \in Write, HostOverflow(w)
      PROVE  Fifo!Refuse
  <2>1. Contents' = Contents
    BY <1>0, <1>2, ContentsUnchanged DEF HostOverflow, slotVars, loopVars
  <2>2. Count = kFilterQueueDepth - 1
    BY <1>0, <1>2 DEF HostOverflow, TypeOK, Slot, Succ, Count
  <2>3. Len(Contents) = kFilterQueueDepth - 1
    BY <1>0, <2>2, ContentsSeq
  <2> QED
    BY <1>2, <2>1, <2>3 DEF HostOverflow, loopVars, Fifo!Refuse
<1>3. CASE HostCopy
  <2>1. ~InUse(filterHead)
    BY <1>0 DEF TypeOK, InUse, Slot
  <2>2. Contents' = Contents
    BY <1>0, <1>3, <2>1, ContentsUnchanged DEF HostCopy, TypeOK, loopVars
  <2> QED
    BY <1>3, <2>2 DEF HostCopy, loopVars, Fifo!vars
<1>4. CASE HostLen
  <2>1. ~InUse(filterHead)
    BY <1>0 DEF TypeOK, InUse, Slot
  <2>2. Contents' = Contents
    BY <1>0, <1>4, <2>1, ContentsUnchanged DEF HostLen, TypeOK, loopVars
  <2> QED
    BY <1>4, <2>2 DEF HostLen, loopVars, Fifo!vars
<1>5. CASE HostPublish
  <2> DEFINE c == Command(hostCmd)
  <2>1. hostCmd \in Accepted /\ Succ(filterHead) # filterTail
    BY <1>5 DEF HostPublish, IInv, HostInv
  <2>2. filterQueue[filterHead] = hostCmd /\ filterLens[filterHead] = LenOf[hostCmd]
    BY <1>5 DEF HostPublish, IInv, HostInv
  <2>3. Count' = Count + 1 /\ Count < kFilterQueueDepth - 1
    BY <1>0, <1>5, <2>1 DEF HostPublish, loopVars, TypeOK, Slot, Succ, Count
  <2>4. SlotAt(Count + 1) = filterHead
    BY <1>0 DEF TypeOK, Slot, Count, SlotAt
  <2>5. \A i \in 1 .. Count + 1 : SlotAt(i)' = SlotAt(i)
    BY <1>5 DEF HostPublish, loopVars, SlotAt
  <2>6. Contents' = [i \in 1 .. Count + 1 |-> IF i = Count + 1 THEN c ELSE Contents[i]]
    <3>1. Contents' = [i \in 1 .. Count + 1 |-> [bytes |-> filterQueue[SlotAt(i)],
                                                len |-> filterLens[SlotAt(i)]]]
      BY <1>5, <2>3, <2>5 DEF Contents, HostPublish, slotVars
    <3>2. c = [bytes |-> filterQueue[SlotAt(Count + 1)],
               len |-> filterLens[SlotAt(Count + 1)]]
      BY <2>2, <2>4 DEF Command
    <3>3. \A i \in 1 .. Count + 1 : i # Count + 1 => i \in 1 .. Count
      BY <1>0, ContentsSlots
    <3> QED
      BY <3>1, <3>2, <3>3 DEF Contents
  <2>7. Contents' = Append(Contents, c)
    <3>1. Append(Contents, c)
            = [i \in 1 .. Count + 1 |-> IF i = Count + 1 THEN c ELSE Contents[i]]
      <4>1. c \in Cell
        BY <2>1, LenAssumption DEF Command, Accepted, Cell
      <4> HIDE DEF c
      <4>2. /\ Contents \in Seq(Cell)
            /\ Len(Contents) = Count
        BY <1>0, ContentsSeq
      <4>3. Append(Contents, c)
              = [i \in 1 .. Len(Contents) + 1 |->
                   IF i = Len(Contents) + 1 THEN c ELSE Contents[i]]
        BY <4>1, <4>2, AppendElements
      <4> QED
        BY <4>2, <4>3
    <3> QED
      BY <2>6, <3>1
  <2>8. Len(Contents) < kFilterQueueDepth - 1
    BY <1>0, <2>3, ContentsSeq
  <2>9. Fifo!Put(c)
    BY <1>5, <2>7, <2>8 DEF HostPublish, loopVars, Fifo!Put
  <2> QED
    BY <2>1, <2>9 DEF Fifo!Next
<1> QED
  BY <1>1, <1>2, <1>3, <1>4, <1>5 DEF HostNext, HostFinish, Fifo!Next

\* Every step of takeFilterCommand is a step of the abstract queue or a
\* stutter: giving the slot back is the Take.
LEMMA LoopRefines ==
  ASSUME IInv, LoopNext
  PROVE  [Fifo!Next]_(Fifo!vars)
<1> USE DepthAssumption
<1>0. TypeOK
  BY DEF IInv
<1>1. CASE LoopSee \/ LoopLen \/ LoopCopy
  <2>1. Contents' = Contents
    BY <1>0, <1>1, ContentsUnchanged DEF LoopSee, LoopLen, LoopCopy, slotVars, hostVars
  <2> QED
    BY <1>1, <2>1 DEF LoopSee, LoopLen, LoopCopy, hostVars, Fifo!vars
<1>2. CASE LoopRelease
  <2>1. filterTail # filterHead /\ loopLen = filterLens[filterTail]
        /\ loopOut = filterQueue[filterTail]
    BY <1>2 DEF LoopRelease, IInv, LoopInv
  <2>2. Count > 0 /\ Count' = Count - 1
    BY <1>0, <1>2, <2>1 DEF LoopRelease, hostVars, TypeOK, Slot, Succ, Count
  <2>3. SlotAt(1) = filterTail
    BY <1>0 DEF TypeOK, Slot, SlotAt
  <2>4. taken' = Contents[1]
    BY <1>0, <1>2, <2>1, <2>2, <2>3, ContentsSlots DEF LoopRelease, Contents
  <2>5. \A i \in 1 .. Count - 1 : SlotAt(i)' = SlotAt(i + 1)
    BY <1>0, <1>2, <2>2, ContentsSlots DEF LoopRelease, TypeOK, Slot, Succ, SlotAt
  <2>6. Contents' = [i \in 1 .. Count - 1 |-> Contents[i + 1]]
    <3>1. Contents' = [i \in 1 .. Count - 1 |->
                         [bytes |-> filterQueue[SlotAt(i + 1)],
                          len |-> filterLens[SlotAt(i + 1)]]]
      BY <1>2, <2>2, <2>5 DEF Contents, LoopRelease, slotVars
    <3>2. \A i \in 1 .. Count - 1 : i + 1 \in 1 .. Count
      BY <1>0, ContentsSlots
    <3> QED
      BY <3>1, <3>2 DEF Contents
  <2>7. Contents # <<>> /\ Head(Contents) = Contents[1]
        /\ Tail(Contents) = [i \in 1 .. Count - 1 |-> Contents[i + 1]]
    BY <1>0, <2>2, ContentsSeq, TailElements
  <2>8. Fifo!Take
    BY <1>2, <2>4, <2>6, <2>7 DEF LoopRelease, hostVars, Fifo!Take
  <2> QED
    BY <2>8 DEF Fifo!Next
<1> QED
  BY <1>1, <1>2 DEF LoopNext

\* The ring of ble/BleLink.cpp implements the bounded queue.
THEOREM Refinement == Spec => ImplementsFifo
<1>1. Init => Fifo!Init
  BY RefinesInit
<1>2. IInv /\ [Next]_vars => [Fifo!Next]_(Fifo!vars)
  <2> SUFFICES ASSUME IInv, [Next]_vars PROVE [Fifo!Next]_(Fifo!vars)
    OBVIOUS
  <2>1. CASE HostNext
    BY <2>1, HostRefines
  <2>2. CASE LoopNext
    BY <2>2, LoopRefines
  <2>3. CASE UNCHANGED vars
    <3>1. Contents' = Contents
      BY <2>3, ContentsUnchanged DEF IInv, vars, hostVars, slotVars, loopVars
    <3> QED
      BY <2>3, <3>1 DEF vars, hostVars, loopVars, Fifo!vars
  <2> QED
    BY <2>1, <2>2, <2>3 DEF Next
<1> QED
  BY <1>1, <1>2, Invariance, PTL DEF Spec, ImplementsFifo, Fifo!Spec
=============================================================================
