---------------------------- MODULE FilterQueue ----------------------------
(***************************************************************************)
(* The filter-command queue of ble/BleLink.cpp, one memory access at a     *)
(* time.  The NimBLE host task (core 0) runs FilterCallbacks::onWrite and  *)
(* is the only writer of filterHead; loop() (core 1) runs                  *)
(* BleLink::takeFilterCommand and is the only writer of filterTail.        *)
(*                                                                         *)
(* The two indices are release/acquire atomics, so the payload accesses    *)
(* are ordered by them as the program text orders them: sequentially       *)
(* consistent interleaving of the steps below is what the build gives.     *)
(***************************************************************************)
EXTENDS Naturals, Sequences

CONSTANTS
  Write,             \* values a client may write to the filter characteristic
  LenOf,             \* the size in bytes of each of them
  NoBytes,           \* what a slot holds before its first use
  kFilterQueueDepth, \* slots in the ring; one always stays free
  kFilterCmdBytes,   \* the longest command a slot holds
  CounterMod         \* 2^32 for the overflow counter, scaled down for TLC

ASSUME DepthAssumption == kFilterQueueDepth \in Nat /\ kFilterQueueDepth > 1
ASSUME LenAssumption == kFilterCmdBytes \in Nat /\ LenOf \in [Write -> Nat]
ASSUME NoBytesAssumption == NoBytes \notin Write
ASSUME CounterAssumption == CounterMod \in Nat /\ CounterMod > 0

Slot == 0 .. kFilterQueueDepth - 1

\* (i + 1) % kFilterQueueDepth for an index that is in range.
Succ(i) == IF i = kFilterQueueDepth - 1 THEN 0 ELSE i + 1

\* The writes that pass the size test of onWrite; the others change nothing.
Accepted == {w \in Write : LenOf[w] > 0 /\ LenOf[w] <= kFilterCmdBytes}

VARIABLES
  filterQueue,     \* payload of each slot
  filterLens,      \* length of each slot
  filterHead,      \* next slot to write
  filterTail,      \* next slot to read
  filterOverflows, \* commands refused because the ring was full
  hostPc, hostCmd, \* onWrite: its next step and the value it stores
  loopPc, loopLen, loopOut, \* takeFilterCommand: its next step and its copies
  taken            \* the last command handed to pumpCanBus

hostVars == <<filterHead, filterOverflows, hostPc, hostCmd>>
slotVars == <<filterQueue, filterLens>>
loopVars == <<filterTail, loopPc, loopLen, loopOut, taken>>
vars == <<hostVars, slotVars, loopVars>>

Command(w) == [bytes |-> w, len |-> LenOf[w]]
NoCommand == [bytes |-> NoBytes, len |-> 0]

Init ==
  /\ filterQueue = [i \in Slot |-> NoBytes]
  /\ filterLens = [i \in Slot |-> 0]
  /\ filterHead = 0
  /\ filterTail = 0
  /\ filterOverflows = 0
  /\ hostPc = "idle" /\ hostCmd = NoBytes
  /\ loopPc = "idle" /\ loopLen = 0 /\ loopOut = NoBytes
  /\ taken = NoCommand

-----------------------------------------------------------------------------
(* FilterCallbacks::onWrite, on the host task.                             *)

\* Mutation of HostAccept: the test for room forgotten.
HostAcceptUnchecked(w) ==
  /\ hostPc = "idle"
  /\ w \in Accepted
  /\ hostPc' = "copy"
  /\ hostCmd' = w
  /\ UNCHANGED <<filterHead, filterOverflows, slotVars, loopVars>>

\* Room in the ring: go on to fill the slot at the head.
HostAccept(w) ==
  /\ hostPc = "idle"
  /\ w \in Accepted
  /\ Succ(filterHead) # filterTail
  /\ hostPc' = "copy"
  /\ hostCmd' = w
  /\ UNCHANGED <<filterHead, filterOverflows, slotVars, loopVars>>

\* Mutation of HostOverflow: make room by evicting the oldest command, as
\* TelemetryRing does.
HostOverflowEvicts(w) ==
  /\ hostPc = "idle"
  /\ w \in Accepted
  /\ Succ(filterHead) = filterTail
  /\ filterTail' = Succ(filterTail)
  /\ hostPc' = "copy"
  /\ hostCmd' = w
  /\ UNCHANGED <<filterHead, filterOverflows, slotVars,
                 loopPc, loopLen, loopOut, taken>>

\* No room: count it and return.
HostOverflow(w) ==
  /\ hostPc = "idle"
  /\ w \in Accepted
  /\ Succ(filterHead) = filterTail
  /\ filterOverflows' = (filterOverflows + 1) % CounterMod
  /\ UNCHANGED <<filterHead, hostPc, hostCmd, slotVars, loopVars>>

\* Mutation of HostCopy: the length is never stored.
HostCopyNoLen ==
  /\ hostPc = "copy"
  /\ filterQueue' = [filterQueue EXCEPT ![filterHead] = hostCmd]
  /\ hostPc' = "publish"
  /\ UNCHANGED <<filterHead, filterOverflows, hostCmd, filterLens, loopVars>>

HostCopy ==
  /\ hostPc = "copy"
  /\ filterQueue' = [filterQueue EXCEPT ![filterHead] = hostCmd]
  /\ hostPc' = "len"
  /\ UNCHANGED <<filterHead, filterOverflows, hostCmd, filterLens, loopVars>>

HostLen ==
  /\ hostPc = "len"
  /\ filterLens' = [filterLens EXCEPT ![filterHead] = LenOf[hostCmd]]
  /\ hostPc' = "publish"
  /\ UNCHANGED <<filterHead, filterOverflows, hostCmd, filterQueue, loopVars>>

\* Mutation of HostPublish: the head does not wrap.
HostPublishNoWrap ==
  /\ hostPc = "publish"
  /\ filterHead' = filterHead + 1
  /\ hostPc' = "idle"
  /\ UNCHANGED <<filterOverflows, hostCmd, slotVars, loopVars>>

\* The release store that makes the slot visible.
HostPublish ==
  /\ hostPc = "publish"
  /\ filterHead' = Succ(filterHead)
  /\ hostPc' = "idle"
  /\ UNCHANGED <<filterOverflows, hostCmd, slotVars, loopVars>>

-----------------------------------------------------------------------------
(* BleLink::takeFilterCommand, on loop().  Finding the ring empty returns  *)
(* false and changes nothing.                                              *)

LoopSee ==
  /\ loopPc = "idle"
  /\ filterTail # filterHead
  /\ loopPc' = "len"
  /\ UNCHANGED <<filterTail, loopLen, loopOut, taken, slotVars, hostVars>>

LoopLen ==
  /\ loopPc = "len"
  /\ loopLen' = filterLens[filterTail]
  /\ loopPc' = "copy"
  /\ UNCHANGED <<filterTail, loopOut, taken, slotVars, hostVars>>

LoopCopy ==
  /\ loopPc = "copy"
  /\ loopOut' = filterQueue[filterTail]
  /\ loopPc' = "release"
  /\ UNCHANGED <<filterTail, loopLen, taken, slotVars, hostVars>>

\* Mutation of LoopRelease: everything waiting is thrown away with the slot.
LoopReleaseAll ==
  /\ loopPc = "release"
  /\ filterTail' = filterHead
  /\ taken' = [bytes |-> loopOut, len |-> loopLen]
  /\ loopPc' = "idle"
  /\ UNCHANGED <<loopLen, loopOut, slotVars, hostVars>>

\* The release store that gives the slot back, and the return to pumpCanBus.
LoopRelease ==
  /\ loopPc = "release"
  /\ filterTail' = Succ(filterTail)
  /\ taken' = [bytes |-> loopOut, len |-> loopLen]
  /\ loopPc' = "idle"
  /\ UNCHANGED <<loopLen, loopOut, slotVars, hostVars>>

-----------------------------------------------------------------------------
HostFinish == HostCopy \/ HostLen \/ HostPublish
HostNext == (\E w \in Write : HostAccept(w) \/ HostOverflow(w)) \/ HostFinish
LoopNext == LoopSee \/ LoopLen \/ LoopCopy \/ LoopRelease

Next == HostNext \/ LoopNext

Spec == Init /\ [][Next]_vars

\* loop() polls the queue for ever, and a callback that has begun returns.
\* Nothing obliges a client to write.
Fairness == WF_vars(LoopNext) /\ WF_vars(HostFinish)

FairSpec == Spec /\ Fairness

-----------------------------------------------------------------------------
(* Properties.                                                             *)

TypeOK ==
  /\ filterQueue \in [Slot -> Write \cup {NoBytes}]
  /\ filterLens \in [Slot -> Nat]
  /\ filterHead \in Slot
  /\ filterTail \in Slot
  /\ filterOverflows \in Nat
  /\ hostPc \in {"idle", "copy", "len", "publish"}
  /\ hostCmd \in Write \cup {NoBytes}
  /\ loopPc \in {"idle", "len", "copy", "release"}
  /\ loopLen \in Nat
  /\ loopOut \in Write \cup {NoBytes}
  /\ taken \in [bytes : Write \cup {NoBytes}, len : Nat]

\* While loop() is copying a command out, onWrite never touches that slot:
\* the slot being filled and the slot being read are different, although
\* neither side holds a lock.
NoSharedSlot ==
  hostPc # "idle" /\ loopPc # "idle" => filterHead # filterTail

\* A command reaches pumpCanBus with the length it was written with: never
\* the bytes of one write with the length of another, never an unused slot.
NoTornCommand ==
  taken # NoCommand => \E w \in Accepted : taken = Command(w)

-----------------------------------------------------------------------------
(* The abstract queue: the slots from the tail up to the head.             *)

Count == IF filterTail <= filterHead
           THEN filterHead - filterTail
           ELSE filterHead + kFilterQueueDepth - filterTail

SlotAt(i) == IF filterTail + i - 1 < kFilterQueueDepth
               THEN filterTail + i - 1
               ELSE filterTail + i - 1 - kFilterQueueDepth

Contents == [i \in 1 .. Count |-> [bytes |-> filterQueue[SlotAt(i)],
                                   len |-> filterLens[SlotAt(i)]]]

Fifo == INSTANCE BoundedFifo WITH
          Item <- {Command(w) : w \in Accepted},
          NoItem <- NoCommand,
          Capacity <- kFilterQueueDepth - 1,
          q <- Contents,
          lost <- filterOverflows

\* The ring behaves as a bounded first-in first-out queue: commands reach the
\* filter table in the order the client wrote them (deny-all before the
\* allow-one commands that follow it), none twice, and one is dropped only
\* when kFilterQueueDepth - 1 commands are waiting.
ImplementsFifo == Fifo!Spec

\* A command that is published is eventually applied, whatever the client
\* goes on writing.
PublishedIsTaken ==
  \A w \in Accepted :
    (\E i \in 1 .. Count : Contents[i] = Command(w)) ~> (taken = Command(w))

-----------------------------------------------------------------------------
(* The inductive invariant behind NoSharedSlot, NoTornCommand and the      *)
(* refinement.                                                             *)

\* Slots the tail has still to reach.
InUse(i) == IF filterTail <= filterHead
              THEN filterTail <= i /\ i < filterHead
              ELSE filterTail <= i \/ i < filterHead

SlotsWhole ==
  \A i \in Slot : InUse(i) =>
    /\ filterQueue[i] \in Accepted
    /\ filterLens[i] = LenOf[filterQueue[i]]

HostInv ==
  /\ hostPc # "idle" => hostCmd \in Accepted /\ Succ(filterHead) # filterTail
  /\ hostPc \in {"len", "publish"} => filterQueue[filterHead] = hostCmd
  /\ hostPc = "publish" => filterLens[filterHead] = LenOf[hostCmd]

LoopInv ==
  /\ loopPc # "idle" => filterTail # filterHead
  /\ loopPc \in {"copy", "release"} => loopLen = filterLens[filterTail]
  /\ loopPc = "release" => loopOut = filterQueue[filterTail]

IInv == TypeOK /\ SlotsWhole /\ HostInv /\ LoopInv /\ NoTornCommand
=============================================================================
