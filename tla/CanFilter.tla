----------------------------- MODULE CanFilter -----------------------------
(***************************************************************************)
(* The filter table of can/CanFilter.cpp: an array of entries filled in    *)
(* the order ids were asked for or discovered, with the millis() of each   *)
(* entry's last notification.                                              *)
(***************************************************************************)
EXTENDS Integers, Sequences

CONSTANTS
  CanId,      \* ids on the bus
  Interval,   \* notification intervals, in ms; 0 is "every frame"
  kMaxIds,    \* entries the table holds
  Wrap,       \* 2^32: millis() wraps here
  CounterMod  \* 2^32: the diagnostic counters wrap here

ASSUME FilterAssumption ==
  /\ kMaxIds \in Nat \ {0}
  /\ Wrap \in Nat \ {0} /\ CounterMod \in Nat \ {0}
  /\ 0 \in Interval /\ \A i \in Interval : i \in 0 .. Wrap - 1

VARIABLES
  entries,          \* entries_[0 .. count_ - 1]
  allowAll,         \* allowAll_
  defaultInterval,  \* defaultIntervalMs_
  droppedUnknown    \* droppedUnknown_

filterVars == <<entries, allowAll, defaultInterval, droppedUnknown>>

Time == 0 .. Wrap - 1
Entry == [id : CanId, interval : Interval, last : Time, notified : BOOLEAN]

\* The commands of characteristic 0x0002; "malformed" is any payload of an
\* unknown kind or of the wrong length for its kind.
Command == [kind : {"denyAll", "malformed"}]
             \cup [kind : {"allowAll"}, interval : Interval]
             \cup [kind : {"allowOne"}, interval : Interval, id : CanId]

FilterInit ==
  /\ entries = <<>>
  /\ allowAll = FALSE
  /\ defaultInterval = 0
  /\ droppedUnknown = 0

-----------------------------------------------------------------------------
Tracked(id) == \E i \in DOMAIN entries : entries[i].id = id

\* find(): the first entry with that id.
Find(id) == CHOOSE i \in DOMAIN entries :
              entries[i].id = id /\ \A j \in 1 .. i - 1 : entries[j].id # id

Room == Len(entries) < kMaxIds

Clear == entries' = <<>> /\ droppedUnknown' = 0

DenyAll ==
  /\ Clear
  /\ allowAll' = FALSE
  /\ defaultInterval' = 0

AllowAll(i) ==
  /\ Clear
  /\ allowAll' = TRUE
  /\ defaultInterval' = i

\* Mutation of AllowOne: a repeated id is added again.
AllowOneTwice(id, i) ==
  /\ entries' = IF Room
                  THEN Append(entries, [id |-> id, interval |-> i, last |-> 0,
                                        notified |-> FALSE])
                  ELSE entries
  /\ UNCHANGED <<allowAll, defaultInterval, droppedUnknown>>

\* A new id takes a new entry, if there is one; a known id changes its rate.
AllowOne(id, i) ==
  /\ \/ Tracked(id) /\ entries' = [entries EXCEPT ![Find(id)].interval = i]
     \/ /\ ~Tracked(id) /\ Room
        /\ entries' = Append(entries, [id |-> id, interval |-> i, last |-> 0,
                                       notified |-> FALSE])
     \/ ~Tracked(id) /\ ~Room /\ UNCHANGED entries
  /\ UNCHANGED <<allowAll, defaultInterval, droppedUnknown>>

ApplyCommand(c) ==
  \/ c.kind = "denyAll" /\ DenyAll
  \/ c.kind = "allowAll" /\ AllowAll(c.interval)
  \/ c.kind = "allowOne" /\ AllowOne(c.id, c.interval)
  \/ c.kind = "malformed" /\ UNCHANGED filterVars

-----------------------------------------------------------------------------
\* Mutation of Due: a deadline is compared instead of a difference.
DueDeadline(e, now) ==
  ~e.notified \/ e.interval = 0 \/ now >= e.last + e.interval

\* Unsigned subtraction carries across the wrap of millis().
Due(e, now) ==
  ~e.notified \/ e.interval = 0 \/ (now - e.last) % Wrap >= e.interval

\* shouldNotify(): whether a frame goes out now, noting the time if it does.
Notify(id, now) ==
  \/ /\ Tracked(id) /\ Due(entries[Find(id)], now)
     /\ entries' = [entries EXCEPT ![Find(id)].last = now, ![Find(id)].notified = TRUE]
     /\ UNCHANGED <<allowAll, defaultInterval, droppedUnknown>>
  \/ /\ ~Tracked(id) /\ allowAll /\ Room
     /\ entries' = Append(entries, [id |-> id, interval |-> defaultInterval,
                                    last |-> now, notified |-> TRUE])
     /\ UNCHANGED <<allowAll, defaultInterval, droppedUnknown>>

\* ... and whether it is held back instead.
Withhold(id, now) ==
  \/ /\ \/ Tracked(id) /\ ~Due(entries[Find(id)], now)
        \/ ~Tracked(id) /\ ~allowAll
     /\ UNCHANGED filterVars
  \/ /\ ~Tracked(id) /\ allowAll /\ ~Room
     /\ droppedUnknown' = (droppedUnknown + 1) % CounterMod
     /\ UNCHANGED <<entries, allowAll, defaultInterval>>

-----------------------------------------------------------------------------
FilterTypeOK ==
  /\ entries \in Seq(Entry)
  /\ Len(entries) <= kMaxIds
  /\ allowAll \in BOOLEAN
  /\ defaultInterval \in Interval
  /\ droppedUnknown \in 0 .. CounterMod - 1

\* No id has two entries: the second would never be found, and would keep its
\* slot from another id until the table is cleared.
OneEntryPerId ==
  \A i, j \in DOMAIN entries : entries[i].id = entries[j].id => i = j
=============================================================================
