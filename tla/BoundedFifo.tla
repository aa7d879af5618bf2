---------------------------- MODULE BoundedFifo ----------------------------
(***************************************************************************)
(* What the filter-command queue of ble/BleLink.cpp promises its two ends: *)
(* a first-in first-out queue of bounded capacity, that hands over only    *)
(* whole commands, counts the commands it refuses, and refuses one only    *)
(* when it is full.  FilterQueue implements it.                            *)
(***************************************************************************)
EXTENDS Naturals, Sequences

CONSTANTS
  Item,        \* the commands the queue carries
  NoItem,      \* "nothing delivered yet"
  Capacity,    \* how many commands it holds at most
  CounterMod   \* the refusal counter wraps at this value

VARIABLES
  q,           \* the commands accepted and not yet delivered, oldest first
  taken,       \* the last command delivered
  lost         \* how many commands were refused, modulo CounterMod

vars == <<q, taken, lost>>

Init ==
  /\ q = <<>>
  /\ taken = NoItem
  /\ lost = 0

Put(c) ==
  /\ Len(q) < Capacity
  /\ q' = Append(q, c)
  /\ UNCHANGED <<taken, lost>>

Refuse ==
  /\ Len(q) = Capacity
  /\ lost' = (lost + 1) % CounterMod
  /\ UNCHANGED <<q, taken>>

Take ==
  /\ q # <<>>
  /\ taken' = Head(q)
  /\ q' = Tail(q)
  /\ UNCHANGED lost

Next == (\E c \in Item : Put(c)) \/ Refuse \/ Take

Spec == Init /\ [][Next]_vars
=============================================================================
