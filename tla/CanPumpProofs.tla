--------------------------- MODULE CanPumpProofs ----------------------------
(***************************************************************************)
(* The filter table and the pump for every set of ids and intervals, every *)
(* size of the table and of the queue.  TableOK is inductive: that no id   *)
(* has two entries is also what makes find() well defined.  CommandsFirst  *)
(* needs the account of the queue, Accounted.                              *)
(***************************************************************************)
EXTENDS CanPump, SequenceTheorems, FiniteSetTheorems, TLAPS

\* find() of an id that has an entry is that entry.
LEMMA FindProperties ==
  ASSUME FilterTypeOK, OneEntryPerId, NEW id, Tracked(id)
  PROVE  Find(id) \in DOMAIN entries /\ entries[Find(id)].id = id
<1>1. PICK i \in DOMAIN entries : entries[i].id = id
  BY DEF Tracked
<1>2. DOMAIN entries = 1 .. Len(entries) /\ Len(entries) \in Nat
  BY DEF FilterTypeOK
<1>3. \A j \in 1 .. i - 1 : j \in DOMAIN entries /\ j # i
  BY <1>1, <1>2
<1>4. \A j \in 1 .. i - 1 : entries[j].id # id
  BY <1>1, <1>3 DEF OneEntryPerId
<1> QED
  BY <1>1, <1>4 DEF Find

\* The table with another entry of the same id in the place of one.
LEMMA RewriteProperties ==
  ASSUME FilterTypeOK, OneEntryPerId, NEW k \in DOMAIN entries, NEW e \in Entry,
         e.id = entries[k].id, entries' = [entries EXCEPT ![k] = e]
  PROVE  entries' \in Seq(Entry) /\ Len(entries') = Len(entries) /\ OneEntryPerId'
<1>1. entries' \in Seq(Entry) /\ Len(entries') = Len(entries) /\ DOMAIN entries' = DOMAIN entries
  <2>1. entries \in Seq(Entry) /\ k \in 1 .. Len(entries)
    BY DEF FilterTypeOK
  <2> QED
    BY <2>1, ExceptSeq
<1>2. \A i \in DOMAIN entries : entries'[i].id = entries[i].id
  BY DEF FilterTypeOK
<1> QED
  BY <1>1, <1>2 DEF OneEntryPerId

\* The table with one entry more, of an id that had none.
LEMMA EnterProperties ==
  ASSUME FilterTypeOK, OneEntryPerId, Room, NEW e \in Entry,
         ~Tracked(e.id), entries' = Append(entries, e)
  PROVE  entries' \in Seq(Entry) /\ Len(entries') <= kMaxIds /\ OneEntryPerId'
<1>1. /\ entries' \in Seq(Entry) /\ Len(entries') = Len(entries) + 1
      /\ \A i \in 1 .. Len(entries) : entries'[i] = entries[i]
      /\ entries'[Len(entries) + 1] = e
      /\ Len(entries) \in Nat /\ DOMAIN entries = 1 .. Len(entries)
      /\ DOMAIN entries' = 1 .. Len(entries) + 1
  BY AppendProperties DEF FilterTypeOK
<1>2. Len(entries') <= kMaxIds
  BY <1>1, FilterAssumption DEF Room
<1>3. \A i \in 1 .. Len(entries) : entries'[i].id # e.id
  BY <1>1 DEF Tracked
<1>4. ASSUME NEW i \in DOMAIN entries', NEW j \in DOMAIN entries', entries'[i].id = entries'[j].id
      PROVE  i = j
  <2>1. CASE i \in 1 .. Len(entries) /\ j \in 1 .. Len(entries)
    BY <1>1, <1>4, <2>1 DEF OneEntryPerId
  <2>2. CASE i = Len(entries) + 1 \/ j = Len(entries) + 1
    BY <1>1, <1>3, <1>4, <2>2
  <2> QED
    BY <1>1, <2>1, <2>2
<1> QED
  BY <1>1, <1>2, <1>4 DEF OneEntryPerId

\* A table that was cleared.
LEMMA ClearProperties ==
  ASSUME Clear
  PROVE  /\ entries' \in Seq(Entry) /\ Len(entries') <= kMaxIds /\ OneEntryPerId'
         /\ droppedUnknown' \in 0 .. CounterMod - 1
<1>1. entries' = <<>> /\ droppedUnknown' = 0
  BY DEF Clear
<1> QED
  BY <1>1, FilterAssumption DEF OneEntryPerId

-----------------------------------------------------------------------------
FilterOK == FilterTypeOK /\ OneEntryPerId

\* Whatever is asked of it, the filter keeps its table.
LEMMA ApplyKeepsTable ==
  ASSUME FilterOK, NEW c \in Command, ApplyCommand(c)
  PROVE  FilterOK'
<1>1. CASE c.kind = "denyAll" /\ DenyAll
  BY <1>1, ClearProperties, FilterAssumption DEF DenyAll, FilterOK, FilterTypeOK
<1>2. CASE c.kind = "allowAll" /\ AllowAll(c.interval)
  <2>1. c.interval \in Interval
    BY <1>2 DEF Command
  <2> QED
    BY <1>2, <2>1, ClearProperties DEF AllowAll, FilterOK, FilterTypeOK
<1>3. CASE c.kind = "allowOne" /\ AllowOne(c.id, c.interval)
  <2>1. c.interval \in Interval /\ c.id \in CanId
    BY <1>3 DEF Command
  <2>2. /\ allowAll' = allowAll /\ defaultInterval' = defaultInterval
        /\ droppedUnknown' = droppedUnknown
    BY <1>3 DEF AllowOne
  <2>3. entries' \in Seq(Entry) /\ Len(entries') <= kMaxIds /\ OneEntryPerId'
    <3>1. CASE Tracked(c.id) /\ entries' = [entries EXCEPT ![Find(c.id)].interval = c.interval]
      <4>1. Find(c.id) \in DOMAIN entries /\ entries[Find(c.id)] \in Entry
        BY <3>1, FindProperties DEF FilterOK, FilterTypeOK
      <4> DEFINE e == [entries[Find(c.id)] EXCEPT !.interval = c.interval]
      <4>2. e \in Entry /\ e.id = entries[Find(c.id)].id
        BY <2>1, <4>1 DEF Entry
      <4>3. entries' = [entries EXCEPT ![Find(c.id)] = e]
        BY <3>1
      <4> HIDE DEF e
      <4> QED
        BY <4>1, <4>2, <4>3, RewriteProperties DEF FilterOK, FilterTypeOK
    <3>2. CASE /\ ~Tracked(c.id) /\ Room
               /\ entries' = Append(entries, [id |-> c.id, interval |-> c.interval,
                                              last |-> 0, notified |-> FALSE])
      <4> DEFINE e == [id |-> c.id, interval |-> c.interval, last |-> 0, notified |-> FALSE]
      <4>1. e \in Entry /\ e.id = c.id
        BY <2>1, FilterAssumption DEF Entry, Time
      <4> HIDE DEF e
      <4>2. entries' = Append(entries, e)
        BY <3>2 DEF e
      <4> QED
        BY <3>2, <4>1, <4>2, EnterProperties DEF FilterOK
    <3>3. CASE UNCHANGED entries
      BY <3>3 DEF FilterOK, FilterTypeOK, OneEntryPerId
    <3> QED
      BY <1>3, <3>1, <3>2, <3>3 DEF AllowOne
  <2> QED
    BY <2>2, <2>3 DEF FilterOK, FilterTypeOK
<1>4. CASE UNCHANGED filterVars
  BY <1>4 DEF filterVars, FilterOK, FilterTypeOK, OneEntryPerId
<1> QED
  BY <1>1, <1>2, <1>3, <1>4 DEF ApplyCommand

\* So does judging a frame, whichever way it goes.
LEMMA JudgeKeepsTable ==
  ASSUME FilterOK, NEW id \in CanId, NEW t \in Time, Notify(id, t) \/ Withhold(id, t)
  PROVE  FilterOK'
<1>1. CASE /\ Tracked(id)
           /\ entries' = [entries EXCEPT ![Find(id)].last = t, ![Find(id)].notified = TRUE]
           /\ UNCHANGED <<allowAll, defaultInterval, droppedUnknown>>
  <2>1. Find(id) \in DOMAIN entries /\ entries[Find(id)] \in Entry
    BY <1>1, FindProperties DEF FilterOK, FilterTypeOK
  <2> DEFINE e == [entries[Find(id)] EXCEPT !.last = t, !.notified = TRUE]
  <2>2. e \in Entry /\ e.id = entries[Find(id)].id
    BY <2>1 DEF Entry
  <2>3. entries' = [entries EXCEPT ![Find(id)] = e]
    BY <1>1, <2>1 DEF FilterOK, FilterTypeOK
  <2> HIDE DEF e
  <2>4. entries' \in Seq(Entry) /\ Len(entries') = Len(entries) /\ OneEntryPerId'
    BY <2>1, <2>2, <2>3, RewriteProperties DEF FilterOK
  <2> QED
    BY <1>1, <2>4 DEF FilterOK, FilterTypeOK
<1>2. CASE /\ ~Tracked(id) /\ Room
           /\ entries' = Append(entries, [id |-> id, interval |-> defaultInterval,
                                          last |-> t, notified |-> TRUE])
           /\ UNCHANGED <<allowAll, defaultInterval, droppedUnknown>>
  <2> DEFINE e == [id |-> id, interval |-> defaultInterval, last |-> t, notified |-> TRUE]
  <2>1. e \in Entry /\ e.id = id
    BY DEF Entry, FilterOK, FilterTypeOK
  <2> HIDE DEF e
  <2>2. entries' = Append(entries, e)
    BY <1>2 DEF e
  <2> QED
    BY <1>2, <2>1, <2>2, EnterProperties DEF FilterOK, FilterTypeOK
<1>3. CASE /\ droppedUnknown' = (droppedUnknown + 1) % CounterMod
           /\ UNCHANGED <<entries, allowAll, defaultInterval>>
  <2>1. droppedUnknown' \in 0 .. CounterMod - 1
    BY <1>3, FilterAssumption DEF FilterOK, FilterTypeOK
  <2> QED
    BY <1>3, <2>1 DEF FilterOK, FilterTypeOK, OneEntryPerId
<1>4. CASE UNCHANGED filterVars
  BY <1>4 DEF filterVars, FilterOK, FilterTypeOK, OneEntryPerId
<1> QED
  BY <1>1, <1>2, <1>3, <1>4 DEF Notify, Withhold

-----------------------------------------------------------------------------
\* A command that was written is waiting or was applied, and once a pass has
\* found the queue empty it has applied what was there when it began.
Accounted ==
  /\ written = applied + Len(q)
  /\ pc # "commands" => applied >= atPassStart

IInv == TypeOK /\ OneEntryPerId /\ Accounted

LEMMA InitInv == Init => IInv
<1> SUFFICES ASSUME Init PROVE IInv
  OBVIOUS
<1>1. FilterOK
  <2>1. entries = <<>> /\ allowAll = FALSE /\ defaultInterval = 0 /\ droppedUnknown = 0
    BY DEF Init, FilterInit
  <2> QED
    <3>1. entries \in Seq(Entry) /\ Len(entries) = 0 /\ DOMAIN entries = {}
      BY <2>1
    <3>2. Len(entries) <= kMaxIds /\ 0 \in 0 .. CounterMod - 1 /\ 0 \in Interval
      BY <3>1, FilterAssumption
    <3>3. FilterTypeOK
      BY <2>1, <3>1, <3>2 DEF FilterTypeOK
    <3> QED
      BY <3>1, <3>3 DEF FilterOK, OneEntryPerId
<1>2. q \in Seq(Command) /\ Len(q) = 0
  BY DEF Init
<1>3. /\ 0 \in 0 .. CounterMod - 1 /\ 0 \in 0 .. MaxElapsed /\ 0 \in 0 .. kFramesPerPass
      /\ 0 \in 0 .. MaxWrites /\ Capacity \in Nat
  BY FilterAssumption, PumpAssumption DEF Time
<1>4. TypeOK
  <2>1. /\ overflows = 0 /\ pc = "commands" /\ elapsed = 0 /\ connected = FALSE
        /\ frameCount = 0 /\ reportedOverflows = 0 /\ reportedDropped = 0
        /\ written = 0 /\ applied = 0 /\ atPassStart = 0 /\ unlogged \subseteq Loss
    BY DEF Init, Loss
  <2>2. Len(q) <= Capacity /\ 0 \in 0 .. 0
    BY <1>2, <1>3
  <2>3. applied \in 0 .. written /\ atPassStart \in 0 .. written
    BY <2>1, <2>2
  <2> QED
    BY <2>3, <1>1, <1>2, <1>3, <2>1, <2>2 DEF TypeOK, FilterOK
<1>5. Accounted
  BY <1>2 DEF Init, Accounted
<1> QED
  BY <1>1, <1>4, <1>5 DEF IInv, FilterOK

\* The host task only ever adds to the queue, or counts.
LEMMA HostKeepsInv ==
  ASSUME IInv, HostStep
  PROVE  IInv'
<1>1. ASSUME NEW c \in Command, WriteCommand(c)
      PROVE  IInv'
  <2>1. q' \in Seq(Command) /\ Len(q') = Len(q) + 1 /\ Len(q) \in Nat
    BY <1>1, AppendProperties DEF WriteCommand, IInv, TypeOK
  <2>2. Len(q') <= Capacity
    BY <1>1, <2>1, PumpAssumption DEF WriteCommand
  <2>3. written' \in 0 .. MaxWrites /\ applied' \in 0 .. written' /\ atPassStart' \in 0 .. written'
    BY <1>1, PumpAssumption DEF WriteCommand, passVars, IInv, TypeOK
  <2>4. Accounted'
    BY <1>1, <2>1, PumpAssumption DEF WriteCommand, passVars, IInv, TypeOK, Accounted
  <2> QED
    BY <1>1, <2>1, <2>2, <2>3, <2>4
    DEF WriteCommand, filterVars, reportVars, passVars, IInv, TypeOK, FilterTypeOK, OneEntryPerId
<1>2. CASE OverflowCommand
  <2>1. overflows' \in 0 .. CounterMod - 1
    BY <1>2, FilterAssumption DEF OverflowCommand, IInv, TypeOK
  <2>2. unlogged' \subseteq Loss
    BY <1>2 DEF OverflowCommand, IInv, TypeOK, Loss
  <2> QED
    BY <1>2, <2>1, <2>2 DEF OverflowCommand, filterVars, reportVars, passVars, IInv, TypeOK,
                      FilterTypeOK, OneEntryPerId, Accounted
<1> QED
  BY <1>1, <1>2 DEF HostStep

\* Applying the next command, once more around the while loop.
LEMMA TakeKeepsInv ==
  ASSUME IInv, TakeCommand
  PROVE  IInv'
<1>1. /\ Head(q) \in Command /\ q' \in Seq(Command) /\ Len(q') = Len(q) - 1
      /\ Len(q) \in Nat \ {0}
  <2>1. q \in Seq(Command) /\ q # <<>> /\ q' = Tail(q)
    BY DEF TakeCommand, IInv, TypeOK
  <2> QED
    BY <2>1, HeadTailProperties, EmptySeq
<1>2. FilterOK'
  BY <1>1, ApplyKeepsTable DEF TakeCommand, IInv, TypeOK, FilterOK
<1>3. Len(q') <= Capacity
  BY <1>1, PumpAssumption DEF IInv, TypeOK
<1>4. applied' = applied + 1 /\ written' = written /\ pc' = "commands"
  BY DEF TakeCommand
<1>5. applied' \in 0 .. written' /\ Accounted'
  BY <1>1, <1>4, PumpAssumption DEF IInv, TypeOK, Accounted
<1>6. unlogged' \subseteq Loss
  BY DEF TakeCommand, StillUnlogged, IInv, TypeOK
<1> QED
  BY <1>1, <1>2, <1>3, <1>4, <1>5, <1>6
  DEF TakeCommand, passVars, IInv, TypeOK, FilterOK

\* A frame of the pass, discarded, sent or held back.
LEMMA FrameKeepsInv ==
  ASSUME IInv, NEW id \in CanId, ReadFrame(id)
  PROVE  IInv'
<1>1. now \in Time
  BY PumpAssumption, FilterAssumption DEF now, Time, IInv, TypeOK
<1>2. FilterOK'
  <2>1. CASE UNCHANGED filterVars
    BY <2>1 DEF filterVars, IInv, TypeOK, FilterOK, FilterTypeOK, OneEntryPerId
  <2>2. CASE Notify(id, now) \/ Withhold(id, now)
    BY <1>1, <2>2, JudgeKeepsTable DEF IInv, TypeOK, FilterOK
  <2> QED
    BY <2>1, <2>2 DEF ReadFrame, Discard, Send, Hold
<1>3. frameCount' \in 0 .. kFramesPerPass
  BY PumpAssumption DEF ReadFrame, IInv, TypeOK
<1>4. unlogged' \subseteq Loss
  BY DEF ReadFrame, IInv, TypeOK, Loss
<1> QED
  BY <1>2, <1>3, <1>4 DEF ReadFrame, queueVars, passVars, IInv, TypeOK, FilterOK, Accounted

\* Every step of loop() keeps the table and the account.
LEMMA LoopKeepsInv ==
  ASSUME IInv, LoopStep
  PROVE  IInv'
<1>1. CASE NoMoreCommands
  <2>1. applied >= atPassStart
    BY <1>1, PumpAssumption DEF NoMoreCommands, IInv, TypeOK, Accounted
  <2> QED
    BY <1>1, <2>1 DEF NoMoreCommands, filterVars, queueVars, reportVars, passVars, IInv,
                      TypeOK, FilterTypeOK, OneEntryPerId, Accounted
<1>2. CASE Report
  <2>1. reportedDropped' \in 0 .. CounterMod - 1 /\ frameCount' \in 0 .. kFramesPerPass
    BY <1>2, PumpAssumption DEF Report, IInv, TypeOK, FilterTypeOK
  <2> QED
    BY <1>2, <2>1 DEF Report, filterVars, queueVars, passVars, IInv,
                      TypeOK, FilterTypeOK, OneEntryPerId, Accounted
<1>3. ASSUME NEW d \in 0 .. MaxStep, NEW c \in BOOLEAN, NextPass(d, c)
      PROVE  IInv'
  <2>1. elapsed' \in 0 .. MaxElapsed /\ frameCount' \in 0 .. kFramesPerPass
    BY <1>3, PumpAssumption, FilterAssumption DEF NextPass, Time, IInv, TypeOK
  <2>2. atPassStart' \in 0 .. written'
    BY <1>3, PumpAssumption DEF NextPass, queueVars, IInv, TypeOK
  <2> QED
    BY <1>3, <2>1, <2>2 DEF NextPass, filterVars, queueVars, reportVars, IInv,
                            TypeOK, FilterTypeOK, OneEntryPerId, Accounted
<1> QED
  BY <1>1, <1>2, <1>3, TakeKeepsInv, FrameKeepsInv DEF LoopStep

\* The inductive invariant of the pump.
THEOREM Invariance == Spec => []IInv
<1>1. Init => IInv
  BY InitInv
<1>2. IInv /\ [Next]_vars => IInv'
  <2>1. IInv /\ UNCHANGED vars => IInv'
    BY DEF vars, filterVars, queueVars, reportVars, passVars, IInv, TypeOK, FilterTypeOK,
           OneEntryPerId, Accounted
  <2> QED
    BY <2>1, HostKeepsInv, LoopKeepsInv DEF Next
<1> QED
  BY <1>1, <1>2, PTL DEF Spec

\* Whatever a client asks for and whatever the bus carries, the table stays
\* within its bound and no id has two entries in it.
THEOREM TableStaysWhole == Spec => []TableOK
<1>1. IInv => TableOK
  BY DEF IInv, TableOK
<1> QED
  BY <1>1, Invariance, PTL

\* No frame is judged before the commands that were waiting when its pass
\* began: a deny-all and the requests behind it take effect together.
THEOREM CommandsBeforeFrames == Spec => []CommandsFirst
<1>1. IInv => CommandsFirst
  BY DEF IInv, Accounted, CommandsFirst
<1> QED
  BY <1>1, Invariance, PTL

-----------------------------------------------------------------------------
(* What FilterPolicy sees of the table: the ids in it, and for each the    *)
(* interval and the age of its entry.                                      *)

Unique(es) == \A i, j \in DOMAIN es : es[i].id = es[j].id => i = j

FindIn(es, id) ==
  CHOOSE i \in DOMAIN es : es[i].id = id /\ \A j \in 1 .. i - 1 : es[j].id # id

IdsOf(es) == {es[i].id : i \in DOMAIN es}

Old == CHOOSE m \in Interval : \A i \in Interval : i <= m

SinceIn(e, t) == (t - e.last) % Wrap

AgeOf(e, t) ==
  IF ~e.notified THEN Never ELSE IF SinceIn(e, t) > Old THEN Old ELSE SinceIn(e, t)

RateIn(es) == [id \in IdsOf(es) |-> es[FindIn(es, id)].interval]

AgeIn(es, t) == [id \in IdsOf(es) |-> AgeOf(es[FindIn(es, id)], t)]

\* No interval tells ages above the longest one apart.
LEMMA OldProperties == Old \in Interval /\ Old \in Nat /\ \A i \in Interval : i \in Nat /\ i <= Old
<1>1. \E m \in Interval : \A i \in Interval : i <= m
  BY PumpAssumption
<1>2. Old \in Interval /\ \A i \in Interval : i <= Old
  BY <1>1 DEF Old
<1> QED
  BY <1>2, FilterAssumption

\* An entry is the one found for its id.
LEMMA FoundThere ==
  ASSUME NEW es \in Seq(Entry), Unique(es), NEW i \in DOMAIN es
  PROVE  FindIn(es, es[i].id) = i
<1>1. DOMAIN es = 1 .. Len(es) /\ Len(es) \in Nat
  OBVIOUS
<1>2. \A j \in 1 .. i - 1 : j \in DOMAIN es /\ j # i
  BY <1>1
<1>3. \A j \in 1 .. i - 1 : es[j].id # es[i].id
  BY <1>2 DEF Unique
<1> QED
  BY <1>3 DEF FindIn, Unique

\* The table has as many entries as ids.
LEMMA IdsCounted ==
  ASSUME NEW es \in Seq(Entry), Unique(es)
  PROVE  Cardinality(IdsOf(es)) = Len(es)
<1> DEFINE f == [i \in 1 .. Len(es) |-> es[i].id]
<1>1. Len(es) \in Nat /\ DOMAIN es = 1 .. Len(es)
  OBVIOUS
<1>2. f \in Bijection(1 .. Len(es), IdsOf(es))
  BY <1>1 DEF Bijection, Injection, Surjection, IsInjective, IdsOf, Unique
<1>3. ExistsBijection(1 .. Len(es), IdsOf(es))
  BY <1>2 DEF ExistsBijection
<1> QED
  BY <1>1, <1>3, FS_CountingElements

\* f on S, and v at id.
With(f, S, id, v) == [x \in S \cup {id} |-> IF x = id THEN v ELSE f[x]]

\* fs is es with one entry written in place or added.
Put(es, fs, k) ==
  /\ es \in Seq(Entry) /\ Unique(es)
  /\ fs \in Seq(Entry) /\ Unique(fs)
  /\ k \in DOMAIN fs /\ DOMAIN fs = DOMAIN es \cup {k}
  /\ \A i \in DOMAIN es : fs[i].id = es[i].id
  /\ \A i \in DOMAIN es : i # k => fs[i] = es[i]

\* Then one id is followed anew, the rest as before.
LEMMA PutProperties ==
  ASSUME NEW es, NEW fs, NEW k, NEW t, Put(es, fs, k)
  PROVE  /\ RateIn(fs) = With(RateIn(es), IdsOf(es), fs[k].id, fs[k].interval)
         /\ AgeIn(fs, t) = With(AgeIn(es, t), IdsOf(es), fs[k].id, AgeOf(fs[k], t))
         /\ DOMAIN RateIn(es) = IdsOf(es) /\ DOMAIN AgeIn(es, t) = IdsOf(es)
<1>1. DOMAIN fs = DOMAIN es \cup {k} /\ DOMAIN es \subseteq DOMAIN fs /\ k \in DOMAIN fs
  BY DEF Put
<1>2. IdsOf(fs) = IdsOf(es) \cup {fs[k].id}
  <2>1. \A i \in DOMAIN es : fs[i].id = es[i].id
    BY DEF Put
  <2> QED
    BY <1>1, <2>1 DEF IdsOf
<1>3. \A i \in DOMAIN fs : FindIn(fs, fs[i].id) = i
  BY FoundThere DEF Put
<1>4. \A i \in DOMAIN es : FindIn(es, es[i].id) = i
  BY FoundThere DEF Put
<1>5. ASSUME NEW x \in IdsOf(fs), x # fs[k].id
      PROVE  x \in IdsOf(es) /\ fs[FindIn(fs, x)] = es[FindIn(es, x)]
  <2>1. PICK i \in DOMAIN es : x = es[i].id
    BY <1>2, <1>5 DEF IdsOf
  <2>2. i # k /\ i \in DOMAIN fs /\ fs[i] = es[i] /\ x = fs[i].id
    BY <1>1, <1>5, <2>1 DEF Put
  <2>3. FindIn(fs, x) = i /\ FindIn(es, x) = i
    BY <1>3, <1>4, <2>1, <2>2
  <2> QED
    BY <1>2, <1>5, <2>2, <2>3
<1>6. fs[FindIn(fs, fs[k].id)] = fs[k]
  BY <1>1, <1>3
<1>7. RateIn(fs) = With(RateIn(es), IdsOf(es), fs[k].id, fs[k].interval)
  <2>1. \A x \in IdsOf(fs) : fs[FindIn(fs, x)].interval =
                               IF x = fs[k].id THEN fs[k].interval ELSE RateIn(es)[x]
    BY <1>5, <1>6 DEF RateIn
  <2> QED
    BY <1>2, <2>1 DEF RateIn, With
<1>8. AgeIn(fs, t) = With(AgeIn(es, t), IdsOf(es), fs[k].id, AgeOf(fs[k], t))
  <2>1. \A x \in IdsOf(fs) : AgeOf(fs[FindIn(fs, x)], t) =
                               IF x = fs[k].id THEN AgeOf(fs[k], t) ELSE AgeIn(es, t)[x]
    BY <1>5, <1>6 DEF AgeIn
  <2> QED
    BY <1>2, <2>1 DEF AgeIn, With
<1> QED
  BY <1>7, <1>8 DEF RateIn, AgeIn

LEMMA EmptyTable ==
  ASSUME NEW t
  PROVE  /\ RateIn(<<>>) = [x \in {} |-> 0]
         /\ AgeIn(<<>>, t) = [x \in {} |-> 0]
<1>1. IdsOf(<<>>) = {}
  BY DEF IdsOf
<1> QED
  BY <1>1 DEF RateIn, AgeIn

-----------------------------------------------------------------------------
(* Policy's formulas, in these terms.                                      *)

LEMMA Abstraction ==
  /\ RateIn(entries) = [id \in {entries[i].id : i \in DOMAIN entries} |->
                          entries[Find(id)].interval]
  /\ AgeIn(entries, now) =
       [id \in {entries[i].id : i \in DOMAIN entries} |->
          LET e == entries[Find(id)]
              old == CHOOSE m \in Interval : \A i \in Interval : i <= m
              since == (now - e.last) % Wrap
          IN  IF ~e.notified THEN Never ELSE IF since > old THEN old ELSE since]
<1>1. \A id : Find(id) = FindIn(entries, id)
  BY DEF Find, FindIn
<1> QED
  BY <1>1 DEF RateIn, AgeIn, AgeOf, SinceIn, Old, IdsOf

LEMMA AbstractionNext ==
  /\ RateIn(entries') =
       [id \in {entries[i].id : i \in DOMAIN entries} |-> entries[Find(id)].interval]'
  /\ AgeIn(entries', now') =
       [id \in {entries[i].id : i \in DOMAIN entries} |->
          LET e == entries[Find(id)]
              old == CHOOSE m \in Interval : \A i \in Interval : i <= m
              since == (now - e.last) % Wrap
          IN  IF ~e.notified THEN Never ELSE IF since > old THEN old ELSE since]'
<1>1. \A id : Find(id)' = FindIn(entries', id)
  BY DEF Find, FindIn
<1> QED
  BY <1>1 DEF RateIn, AgeIn, AgeOf, SinceIn, Old, IdsOf

LEMMA Domains ==
  DOMAIN RateIn(entries) = IdsOf(entries) /\ DOMAIN AgeIn(entries, now) = IdsOf(entries)
BY DEF RateIn, AgeIn

LEMMA PolicyInit ==
  Policy!Init <=>
    /\ allowAll = FALSE /\ defaultInterval = 0
    /\ RateIn(entries) = [x \in {} |-> 0] /\ AgeIn(entries, now) = [x \in {} |-> 0]
    /\ verdict = NoVerdict
BY Abstraction DEF Policy!Init, Policy!Nothing, Policy!NoVerdict, NoVerdict

LEMMA PolicyStutter ==
  UNCHANGED Policy!vars <=>
    /\ UNCHANGED <<allowAll, defaultInterval, verdict>>
    /\ RateIn(entries') = RateIn(entries)
    /\ AgeIn(entries', now') = AgeIn(entries, now)
BY Abstraction, AbstractionNext DEF Policy!vars

LEMMA PolicyRestart ==
  ASSUME NEW allow, NEW i
  PROVE  Policy!Restart(allow, i) <=>
           /\ allowAll' = allow /\ defaultInterval' = i
           /\ RateIn(entries') = [x \in {} |-> 0] /\ AgeIn(entries', now') = [x \in {} |-> 0]
           /\ UNCHANGED verdict
BY AbstractionNext DEF Policy!Restart, Policy!Nothing

LEMMA PolicyDue ==
  ASSUME NEW id
  PROVE  Policy!Due(id) <=> \/ AgeIn(entries, now)[id] = Never
                            \/ AgeIn(entries, now)[id] >= RateIn(entries)[id]
BY Abstraction DEF Policy!Due

LEMMA PolicyCardinality == \A S : Policy!Cardinality(S) = Cardinality(S)
BY DEF Policy!Cardinality, Cardinality

LEMMA PolicyAskAgain ==
  ASSUME NEW id \in IdsOf(entries), NEW i,
         RateIn(entries') = With(RateIn(entries), IdsOf(entries), id, i),
         AgeIn(entries', now') =
           With(AgeIn(entries, now), IdsOf(entries), id, AgeIn(entries, now)[id]),
         UNCHANGED <<allowAll, defaultInterval, verdict>>
  PROVE  Policy!Ask(id, i)
<1>1. /\ id \in DOMAIN RateIn(entries)
      /\ RateIn(entries') = [x \in DOMAIN RateIn(entries) \cup {id} |->
                               IF x = id THEN i ELSE RateIn(entries)[x]]
      /\ AgeIn(entries', now') = [x \in DOMAIN RateIn(entries) \cup {id} |->
                                    IF x = id THEN (IF id \in DOMAIN RateIn(entries)
                                                      THEN AgeIn(entries, now)[id] ELSE Never)
                                              ELSE AgeIn(entries, now)[x]]
  BY Domains DEF With
<1> QED
  BY <1>1, Abstraction, AbstractionNext DEF Policy!Ask, Policy!Follow

LEMMA PolicyAskNew ==
  ASSUME NEW id, id \notin IdsOf(entries), NEW i,
         Cardinality(IdsOf(entries)) < kMaxIds,
         RateIn(entries') = With(RateIn(entries), IdsOf(entries), id, i),
         AgeIn(entries', now') = With(AgeIn(entries, now), IdsOf(entries), id, Never),
         UNCHANGED <<allowAll, defaultInterval, verdict>>
  PROVE  Policy!Ask(id, i)
<1>1. /\ id \notin DOMAIN RateIn(entries)
      /\ Policy!Cardinality(DOMAIN RateIn(entries)) < kMaxIds
      /\ RateIn(entries') = [x \in DOMAIN RateIn(entries) \cup {id} |->
                               IF x = id THEN i ELSE RateIn(entries)[x]]
      /\ AgeIn(entries', now') = [x \in DOMAIN RateIn(entries) \cup {id} |->
                                    IF x = id THEN (IF id \in DOMAIN RateIn(entries)
                                                      THEN AgeIn(entries, now)[id] ELSE Never)
                                              ELSE AgeIn(entries, now)[x]]
  BY Domains, PolicyCardinality DEF With
<1> QED
  BY <1>1, Abstraction, AbstractionNext DEF Policy!Ask, Policy!Follow

LEMMA PolicySendDue ==
  ASSUME NEW id \in IdsOf(entries), Policy!Due(id),
         RateIn(entries') = With(RateIn(entries), IdsOf(entries), id, RateIn(entries)[id]),
         AgeIn(entries', now') = With(AgeIn(entries, now), IdsOf(entries), id, 0),
         verdict' = [id |-> id, sent |-> TRUE],
         UNCHANGED <<allowAll, defaultInterval>>
  PROVE  Policy!Send(id)
<1>1. /\ id \in DOMAIN RateIn(entries)
      /\ RateIn(entries') = [x \in DOMAIN RateIn(entries) \cup {id} |->
                               IF x = id THEN RateIn(entries)[id] ELSE RateIn(entries)[x]]
      /\ AgeIn(entries', now') = [x \in DOMAIN RateIn(entries) \cup {id} |->
                                    IF x = id THEN 0 ELSE AgeIn(entries, now)[x]]
  BY Domains DEF With
<1> QED
  BY <1>1, Abstraction, AbstractionNext DEF Policy!Send, Policy!Follow

LEMMA PolicySendNew ==
  ASSUME NEW id, id \notin IdsOf(entries), allowAll, Cardinality(IdsOf(entries)) < kMaxIds,
         RateIn(entries') = With(RateIn(entries), IdsOf(entries), id, defaultInterval),
         AgeIn(entries', now') = With(AgeIn(entries, now), IdsOf(entries), id, 0),
         verdict' = [id |-> id, sent |-> TRUE],
         UNCHANGED <<allowAll, defaultInterval>>
  PROVE  Policy!Send(id)
<1>1. /\ id \notin DOMAIN RateIn(entries)
      /\ Policy!Cardinality(DOMAIN RateIn(entries)) < kMaxIds
      /\ RateIn(entries') = [x \in DOMAIN RateIn(entries) \cup {id} |->
                               IF x = id THEN defaultInterval ELSE RateIn(entries)[x]]
      /\ AgeIn(entries', now') = [x \in DOMAIN RateIn(entries) \cup {id} |->
                                    IF x = id THEN 0 ELSE AgeIn(entries, now)[x]]
  BY Domains, PolicyCardinality DEF With
<1> QED
  BY <1>1, Abstraction, AbstractionNext DEF Policy!Send, Policy!Follow

LEMMA PolicyHold ==
  ASSUME NEW id
  PROVE  Policy!Hold(id) <=>
           /\ \/ id \in IdsOf(entries) /\ ~Policy!Due(id)
              \/ id \notin IdsOf(entries) /\ ~allowAll
              \/ id \notin IdsOf(entries) /\ Cardinality(IdsOf(entries)) = kMaxIds
           /\ verdict' = [id |-> id, sent |-> FALSE]
           /\ UNCHANGED <<allowAll, defaultInterval>>
           /\ RateIn(entries') = RateIn(entries) /\ AgeIn(entries', now') = AgeIn(entries, now)
<1>1. Policy!Hold(id) <=>
        /\ \/ id \in DOMAIN RateIn(entries) /\ ~Policy!Due(id)
           \/ id \notin DOMAIN RateIn(entries) /\ ~allowAll
           \/ /\ id \notin DOMAIN RateIn(entries)
              /\ Policy!Cardinality(DOMAIN RateIn(entries)) = kMaxIds
        /\ verdict' = [id |-> id, sent |-> FALSE]
        /\ UNCHANGED <<allowAll, defaultInterval>>
        /\ RateIn(entries') = RateIn(entries) /\ AgeIn(entries', now') = AgeIn(entries, now)
  BY Abstraction, AbstractionNext DEF Policy!Hold
<1> QED
  BY <1>1, Domains, PolicyCardinality

LEMMA PolicyElapse ==
  ASSUME NEW d
  PROVE  Policy!Elapse(d) <=>
           /\ AgeIn(entries', now') =
                [x \in IdsOf(entries) |->
                   IF AgeIn(entries, now)[x] = Never THEN Never
                   ELSE IF AgeIn(entries, now)[x] + d > Old THEN Old
                                                            ELSE AgeIn(entries, now)[x] + d]
           /\ verdict' = NoVerdict
           /\ UNCHANGED <<allowAll, defaultInterval>> /\ RateIn(entries') = RateIn(entries)
<1>1. Policy!Elapse(d) <=>
        /\ AgeIn(entries', now') =
             [x \in DOMAIN AgeIn(entries, now) |->
                IF AgeIn(entries, now)[x] = Never THEN Never
                ELSE IF AgeIn(entries, now)[x] + d > Old THEN Old
                                                         ELSE AgeIn(entries, now)[x] + d]
        /\ verdict' = NoVerdict
        /\ UNCHANGED <<allowAll, defaultInterval>> /\ RateIn(entries') = RateIn(entries)
  BY Abstraction, AbstractionNext
  DEF Policy!Elapse, Policy!NoVerdict, NoVerdict, Policy!OldAge, Old
<1> QED
  BY <1>1, Domains

-----------------------------------------------------------------------------
(* The clock.                                                              *)

LEMMA Remainder ==
  ASSUME NEW C \in Nat \ {0}, NEW n \in Int
  PROVE  n % C \in 0 .. C - 1 /\ n \div C \in Int /\ n = ((n \div C) * C) + (n % C)
OBVIOUS

LEMMA RemainderUnique ==
  ASSUME NEW C \in Nat \ {0}, NEW k \in Int, NEW r \in 0 .. C - 1
  PROVE  (k * C + r) % C = r
OBVIOUS

LEMMA Multiples ==
  ASSUME NEW C \in Int, NEW a \in Int, NEW b \in Int
  PROVE  (a - b) * C = a * C - b * C /\ (a + b) * C = a * C + b * C /\ a * C \in Int
OBVIOUS

\* What a clock of C values that shows b + e has gone on by since it showed w.
ClockSince(C, b, e, w) == (((b + e) % C) - w) % C

\* A time d later, reckoned from the same origin.
LEMMA ClockStep ==
  ASSUME NEW C \in Nat \ {0}, NEW b \in Nat, NEW e \in Nat, NEW d \in Nat, NEW w \in 0 .. C - 1,
         ClockSince(C, b, e, w) + d < C
  PROVE  ClockSince(C, b, e + d, w) = ClockSince(C, b, e, w) + d
<1> DEFINE t == (b + e) % C
           u == (b + (e + d)) % C
           s == (t - w) % C
           p == (b + e) \div C
           k == (b + (e + d)) \div C
           m == (t - w) \div C
<1>1. b + e \in Int /\ b + (e + d) \in Int
  OBVIOUS
<1>2. t \in 0 .. C - 1 /\ p \in Int /\ b + e = p * C + t
  BY <1>1, Remainder
<1>3. u \in 0 .. C - 1 /\ k \in Int /\ b + (e + d) = k * C + u
  BY <1>1, Remainder
<1>4. t - w \in Int
  BY <1>2
<1>5. s \in 0 .. C - 1 /\ m \in Int /\ t - w = m * C + s
  BY <1>4, Remainder
<1>6. s + d < C
  BY DEF ClockSince
<1> HIDE DEF t, u, s, p, k, m
<1>7. u - w = ((p + m) - k) * C + (s + d)
  <2>1. /\ ((p + m) - k) * C = (p + m) * C - k * C
        /\ (p + m) * C = p * C + m * C
        /\ p * C \in Int /\ m * C \in Int /\ k * C \in Int
    <3>1. p + m \in Int
      BY <1>2, <1>5
    <3> QED
      BY <1>2, <1>3, <1>5, <3>1, Multiples
  <2> QED
    BY <1>2, <1>3, <1>5, <2>1
<1>8. s + d \in 0 .. C - 1 /\ (p + m) - k \in Int
  BY <1>2, <1>3, <1>5, <1>6
<1>9. (u - w) % C = s + d
  BY <1>7, <1>8, RemainderUnique
<1> QED
  BY <1>9 DEF u, s, t, ClockSince

\* Nothing is older than the run: time since a notification has not wrapped.
Recent == \A i \in DOMAIN entries : entries[i].notified => SinceIn(entries[i], now) <= elapsed

LEMMA NowProperties ==
  ASSUME IInv
  PROVE  /\ now \in Time /\ elapsed \in Nat /\ SinceIn([last |-> now], now) = 0
         /\ \A e \in Entry : SinceIn(e, now) \in 0 .. Wrap - 1
<1>1. /\ Wrap \in Nat \ {0} /\ BootTime \in 0 .. Wrap - 1 /\ elapsed \in 0 .. MaxElapsed
      /\ MaxElapsed \in Nat
  BY FilterAssumption, PumpAssumption DEF Time, IInv, TypeOK
<1>2. now \in 0 .. Wrap - 1
  <2>1. BootTime + elapsed \in Int
    BY <1>1
  <2> QED
    BY <1>1, <2>1, Remainder DEF now
<1>3. (now - now) % Wrap = 0
  <2>1. now - now = 0 * Wrap + 0 /\ 0 \in 0 .. Wrap - 1
    BY <1>1, <1>2
  <2> QED
    BY <1>1, <2>1, RemainderUnique
<1>4. ASSUME NEW e \in Entry
      PROVE  SinceIn(e, now) \in 0 .. Wrap - 1
  <2>1. now - e.last \in Int
    BY <1>1, <1>2 DEF Entry, Time
  <2> QED
    BY <1>1, <2>1, Remainder DEF SinceIn
<1> QED
  BY <1>1, <1>2, <1>3, <1>4 DEF Time, SinceIn

\* One entry written, with a time that is not in the future.
LEMMA RecentWritten ==
  ASSUME Recent, NEW k \in DOMAIN entries', NEW t,
         t = now, now' = now, elapsed' = elapsed,
         DOMAIN entries' = DOMAIN entries \cup {k},
         \A i \in DOMAIN entries : i # k => entries'[i] = entries[i],
         entries'[k].notified => SinceIn(entries'[k], t) <= elapsed
  PROVE  Recent'
<1>1. ASSUME NEW i \in DOMAIN entries', entries'[i].notified
      PROVE  SinceIn(entries'[i], now') <= elapsed'
  <2>1. CASE i = k
    BY <1>1, <2>1
  <2>2. CASE i # k
    BY <1>1, <2>2 DEF Recent
  <2> QED
    BY <2>1, <2>2
<1> QED
  BY <1>1 DEF Recent

\* What a rewriting or a new entry means, put once for all the ways it happens.
Written(k) ==
  /\ k \in DOMAIN entries' /\ entries' \in Seq(Entry)
  /\ DOMAIN entries' = DOMAIN entries \cup {k}
  /\ \A i \in DOMAIN entries : i # k => entries'[i] = entries[i]
  /\ \A i \in DOMAIN entries : entries'[i].id = entries[i].id

LEMMA RewriteIsWritten ==
  ASSUME FilterTypeOK, NEW k \in DOMAIN entries, NEW e \in Entry,
         e.id = entries[k].id, entries' = [entries EXCEPT ![k] = e]
  PROVE  Written(k) /\ entries'[k] = e
<1>1. /\ entries \in Seq(Entry) /\ DOMAIN entries = 1 .. Len(entries) /\ Len(entries) \in Nat
  BY DEF FilterTypeOK
<1>2. entries' \in Seq(Entry) /\ DOMAIN entries' = DOMAIN entries
  BY <1>1, ExceptSeq
<1>3. entries'[k] = e /\ \A i \in DOMAIN entries : i # k => entries'[i] = entries[i]
  BY <1>1
<1> QED
  BY <1>2, <1>3 DEF Written

LEMMA AppendIsWritten ==
  ASSUME FilterTypeOK, NEW e \in Entry, entries' = Append(entries, e)
  PROVE  Written(Len(entries) + 1) /\ entries'[Len(entries) + 1] = e
<1>1. /\ entries' \in Seq(Entry) /\ Len(entries') = Len(entries) + 1
      /\ \A i \in 1 .. Len(entries) : entries'[i] = entries[i]
      /\ entries'[Len(entries) + 1] = e
      /\ Len(entries) \in Nat /\ DOMAIN entries = 1 .. Len(entries)
      /\ DOMAIN entries' = 1 .. Len(entries) + 1
  BY AppendProperties DEF FilterTypeOK
<1>2. DOMAIN entries' = DOMAIN entries \cup {Len(entries) + 1}
  BY <1>1
<1> QED
  BY <1>1, <1>2 DEF Written

\* Seen by the policy, one id is followed anew.
LEMMA WrittenIsFollowed ==
  ASSUME IInv, IInv', NEW k, Written(k), NEW id, id = entries'[k].id
  PROVE  /\ RateIn(entries') = With(RateIn(entries), IdsOf(entries), id, entries'[k].interval)
         /\ AgeIn(entries', now) =
              With(AgeIn(entries, now), IdsOf(entries), id, AgeOf(entries'[k], now))
<1>1. entries \in Seq(Entry) /\ Unique(entries) /\ entries' \in Seq(Entry) /\ Unique(entries')
  BY DEF IInv, TypeOK, FilterTypeOK, OneEntryPerId, Unique
<1>2. Put(entries, entries', k)
  BY <1>1 DEF Put, Written
<1>3. /\ RateIn(entries') =
           With(RateIn(entries), IdsOf(entries), entries'[k].id, entries'[k].interval)
      /\ AgeIn(entries', now) =
           With(AgeIn(entries, now), IdsOf(entries), entries'[k].id, AgeOf(entries'[k], now))
  BY <1>2, PutProperties
<1> QED
  BY <1>3

\* An id is followed exactly when it has an entry, and there are as many.
LEMMA IdsProperties ==
  ASSUME IInv
  PROVE  /\ Cardinality(IdsOf(entries)) = Len(entries)
         /\ \A id : Tracked(id) <=> id \in IdsOf(entries)
         /\ \A id : Tracked(id) =>
              /\ Find(id) \in DOMAIN entries /\ entries[Find(id)] \in Entry
              /\ entries[Find(id)].id = id
              /\ RateIn(entries)[id] = entries[Find(id)].interval
              /\ AgeIn(entries, now)[id] = AgeOf(entries[Find(id)], now)
<1>1. entries \in Seq(Entry) /\ Unique(entries) /\ FilterTypeOK /\ OneEntryPerId
  BY DEF IInv, TypeOK, FilterTypeOK, OneEntryPerId, Unique
<1>2. Cardinality(IdsOf(entries)) = Len(entries)
  BY <1>1, IdsCounted
<1>3. \A id : Tracked(id) <=> id \in IdsOf(entries)
  BY DEF Tracked, IdsOf
<1>4. ASSUME NEW id, Tracked(id)
      PROVE  /\ Find(id) \in DOMAIN entries /\ entries[Find(id)] \in Entry
             /\ entries[Find(id)].id = id
             /\ RateIn(entries)[id] = entries[Find(id)].interval
             /\ AgeIn(entries, now)[id] = AgeOf(entries[Find(id)], now)
  <2>1. Find(id) \in DOMAIN entries /\ entries[Find(id)].id = id
    BY <1>1, <1>4, FindProperties
  <2>2. Find(id) = FindIn(entries, id) /\ id \in IdsOf(entries)
    BY <1>3, <1>4 DEF Find, FindIn
  <2>3. entries[Find(id)] \in Entry
    BY <1>1, <2>1
  <2> QED
    BY <2>1, <2>2, <2>3 DEF RateIn, AgeIn
<1> QED
  BY <1>2, <1>3, <1>4

-----------------------------------------------------------------------------
(* Every step of the pump is a step of the policy, or none.                *)

LEMMA DueAgrees ==
  ASSUME IInv, NEW id, Tracked(id)
  PROVE  Policy!Due(id) <=> Due(entries[Find(id)], now)
<1> DEFINE e == entries[Find(id)]
<1>1. /\ e \in Entry /\ RateIn(entries)[id] = e.interval
      /\ AgeIn(entries, now)[id] = AgeOf(e, now)
  BY IdsProperties
<1> HIDE DEF e
<1>2. SinceIn(e, now) \in Nat
  BY <1>1, NowProperties, FilterAssumption
<1>3. e.interval \in Nat /\ e.interval <= Old /\ Old \in Nat
  BY <1>1, OldProperties DEF Entry
<1>4. Policy!Due(id) <=> AgeOf(e, now) = Never \/ AgeOf(e, now) >= e.interval
  BY <1>1, PolicyDue
<1>5. CASE ~e.notified
  BY <1>4, <1>5 DEF AgeOf, Due, e
<1>6. CASE e.notified
  <2>1. AgeOf(e, now) \in Nat /\ AgeOf(e, now) # Never
    BY <1>2, <1>3, <1>6, PumpAssumption DEF AgeOf
  <2>2. AgeOf(e, now) >= e.interval <=> SinceIn(e, now) >= e.interval
    BY <1>2, <1>3, <1>6 DEF AgeOf
  <2>3. e.interval = 0 => SinceIn(e, now) >= e.interval
    BY <1>2, <1>3
  <2>4. Due(e, now) <=> SinceIn(e, now) >= e.interval
    BY <1>6, <2>3 DEF Due, SinceIn
  <2> QED
    BY <1>4, <2>1, <2>2, <2>4 DEF e
<1> QED
  BY <1>5, <1>6

LEMMA StutterRefines ==
  ASSUME UNCHANGED <<entries, allowAll, defaultInterval, verdict, elapsed>>
  PROVE  UNCHANGED Policy!vars /\ (Recent => Recent')
<1>1. now' = now
  BY DEF now
<1> QED
  BY <1>1, PolicyStutter DEF Recent

\* A command, applied to the table and asked of the policy.
LEMMA TakeRefines ==
  ASSUME IInv, IInv', Recent, TakeCommand
  PROVE  (Policy!Next \/ UNCHANGED Policy!vars) /\ Recent'
<1>1. PICK c \in Command : ApplyCommand(c)
  BY HeadTailProperties DEF TakeCommand, IInv, TypeOK
<1>2. ApplyCommand(c) /\ elapsed' = elapsed /\ verdict' = verdict
  BY <1>1 DEF TakeCommand, passVars
<1>3. now' = now
  BY <1>2 DEF now
<1>4. CASE c.kind = "malformed" /\ UNCHANGED filterVars
  BY <1>2, <1>4, StutterRefines DEF filterVars
<1>5. ASSUME NEW allow \in BOOLEAN, NEW i \in Interval,
             Clear, allowAll' = allow, defaultInterval' = i
      PROVE  Policy!Next /\ Recent'
  <2>1. entries' = <<>>
    BY <1>5 DEF Clear
  <2>2. Recent'
    BY <2>1 DEF Recent
  <2>3. Policy!Restart(allow, i)
    BY <1>2, <1>5, <2>1, EmptyTable, PolicyRestart
  <2> QED
    BY <2>2, <2>3 DEF Policy!Next
<1>6. CASE c.kind = "denyAll" /\ DenyAll
  BY <1>5, <1>6, FilterAssumption DEF DenyAll
<1>7. CASE c.kind = "allowAll" /\ AllowAll(c.interval)
  <2>1. c.interval \in Interval
    BY <1>1, <1>7 DEF Command
  <2> QED
    BY <1>5, <1>7, <2>1 DEF AllowAll
<1>8. CASE c.kind = "allowOne" /\ AllowOne(c.id, c.interval)
  <2>1. c.id \in CanId /\ c.interval \in Interval
    BY <1>1, <1>8 DEF Command
  <2>2. UNCHANGED <<allowAll, defaultInterval, verdict>>
    BY <1>2, <1>8 DEF AllowOne
  <2>3. FilterTypeOK
    BY DEF IInv, TypeOK
  <2>4. CASE Tracked(c.id) /\ entries' = [entries EXCEPT ![Find(c.id)].interval = c.interval]
    <3> DEFINE k == Find(c.id)
               e == [entries[k] EXCEPT !.interval = c.interval]
    <3>1. /\ k \in DOMAIN entries /\ entries[k] \in Entry /\ entries[k].id = c.id
          /\ c.id \in IdsOf(entries)
          /\ AgeIn(entries, now)[c.id] = AgeOf(entries[k], now)
      BY <2>4, IdsProperties
    <3>2. /\ e \in Entry /\ e.id = entries[k].id /\ e.interval = c.interval
          /\ e.last = entries[k].last /\ e.notified = entries[k].notified
      BY <2>1, <3>1 DEF Entry
    <3>3. entries' = [entries EXCEPT ![k] = e]
      BY <2>4
    <3> HIDE DEF k, e
    <3>4. Written(k) /\ entries'[k] = e
      BY <2>3, <3>1, <3>2, <3>3, RewriteIsWritten
    <3>5. AgeOf(entries'[k], now) = AgeIn(entries, now)[c.id]
      BY <3>1, <3>2, <3>4 DEF AgeOf, SinceIn
    <3>6. /\ RateIn(entries') = With(RateIn(entries), IdsOf(entries), c.id, c.interval)
          /\ AgeIn(entries', now') =
               With(AgeIn(entries, now), IdsOf(entries), c.id, AgeIn(entries, now)[c.id])
      BY <1>3, <3>1, <3>2, <3>4, <3>5, WrittenIsFollowed
    <3>7. Policy!Ask(c.id, c.interval)
      BY <2>2, <3>1, <3>6, PolicyAskAgain
    <3>8. entries'[k].notified => SinceIn(entries'[k], now) <= elapsed
      BY <3>1, <3>2, <3>4 DEF Recent, SinceIn
    <3>9. Recent'
      BY <1>2, <1>3, <3>4, <3>8, RecentWritten DEF Written
    <3> QED
      BY <2>1, <3>7, <3>9 DEF Policy!Next
  <2>5. CASE /\ ~Tracked(c.id) /\ Room
             /\ entries' = Append(entries, [id |-> c.id, interval |-> c.interval,
                                            last |-> 0, notified |-> FALSE])
    <3> DEFINE k == Len(entries) + 1
               e == [id |-> c.id, interval |-> c.interval, last |-> 0, notified |-> FALSE]
    <3>1. c.id \notin IdsOf(entries) /\ Cardinality(IdsOf(entries)) < kMaxIds
      BY <2>5, IdsProperties DEF Room
    <3>2. e \in Entry /\ e.id = c.id /\ e.interval = c.interval /\ ~e.notified
      BY <2>1, FilterAssumption DEF Entry, Time
    <3>3. entries' = Append(entries, e)
      BY <2>5
    <3> HIDE DEF k, e
    <3>4. Written(k) /\ entries'[k] = e
      BY <2>3, <3>2, <3>3, AppendIsWritten DEF k
    <3>5. AgeOf(entries'[k], now) = Never
      BY <3>2, <3>4 DEF AgeOf
    <3>6. /\ RateIn(entries') = With(RateIn(entries), IdsOf(entries), c.id, c.interval)
          /\ AgeIn(entries', now') = With(AgeIn(entries, now), IdsOf(entries), c.id, Never)
      BY <1>3, <3>2, <3>4, <3>5, WrittenIsFollowed
    <3>7. Policy!Ask(c.id, c.interval)
      BY <2>2, <3>1, <3>6, PolicyAskNew
    <3>8. Recent'
      BY <1>2, <1>3, <3>2, <3>4, RecentWritten DEF Written
    <3> QED
      BY <2>1, <3>7, <3>8 DEF Policy!Next
  <2>6. CASE UNCHANGED entries
    BY <1>2, <2>2, <2>6, StutterRefines
  <2> QED
    BY <1>8, <2>4, <2>5, <2>6 DEF AllowOne
<1> QED
  BY <1>2, <1>4, <1>6, <1>7, <1>8 DEF ApplyCommand

\* A frame that goes out.
LEMMA SendRefines ==
  ASSUME IInv, IInv', Recent, NEW id \in CanId, Send(id), elapsed' = elapsed
  PROVE  Policy!Next /\ Recent'
<1>1. now' = now
  BY DEF now
<1>2. /\ verdict' = [id |-> id, sent |-> TRUE] /\ Notify(id, now)
      /\ UNCHANGED <<allowAll, defaultInterval>>
  BY DEF Send, Notify
<1>3. FilterTypeOK /\ now \in Time /\ elapsed \in Nat
  BY NowProperties DEF IInv, TypeOK
<1>4. ASSUME NEW e, e.last = now, e.notified
      PROVE  AgeOf(e, now) = 0 /\ SinceIn(e, now) <= elapsed
  <2>1. SinceIn(e, now) = 0
    BY <1>4, NowProperties DEF SinceIn
  <2> QED
    BY <1>3, <1>4, <2>1, OldProperties DEF AgeOf
<1>5. CASE /\ Tracked(id) /\ Due(entries[Find(id)], now)
           /\ entries' = [entries EXCEPT ![Find(id)].last = now, ![Find(id)].notified = TRUE]
  <2> DEFINE k == Find(id)
             e == [entries[k] EXCEPT !.last = now, !.notified = TRUE]
  <2>1. /\ k \in DOMAIN entries /\ entries[k] \in Entry /\ entries[k].id = id
        /\ id \in IdsOf(entries) /\ RateIn(entries)[id] = entries[k].interval
    BY <1>5, IdsProperties
  <2>2. /\ e \in Entry /\ e.id = entries[k].id /\ e.interval = entries[k].interval
        /\ e.last = now /\ e.notified
    BY <1>3, <2>1 DEF Entry
  <2>3. entries' = [entries EXCEPT ![k] = e]
    BY <1>3, <1>5, <2>1 DEF FilterTypeOK
  <2>4. Policy!Due(id)
    BY <1>5, DueAgrees
  <2> HIDE DEF k, e
  <2>5. Written(k) /\ entries'[k] = e
    BY <1>3, <2>1, <2>2, <2>3, RewriteIsWritten
  <2>6. /\ RateIn(entries') = With(RateIn(entries), IdsOf(entries), id, RateIn(entries)[id])
        /\ AgeIn(entries', now') = With(AgeIn(entries, now), IdsOf(entries), id, 0)
    BY <1>1, <1>4, <2>1, <2>2, <2>5, WrittenIsFollowed
  <2>7. Policy!Send(id)
    BY <1>2, <2>1, <2>4, <2>6, PolicySendDue
  <2>8. Recent'
    BY <1>1, <1>4, <2>2, <2>5, RecentWritten DEF Written
  <2> QED
    BY <2>7, <2>8 DEF Policy!Next
<1>6. CASE /\ ~Tracked(id) /\ allowAll /\ Room
           /\ entries' = Append(entries, [id |-> id, interval |-> defaultInterval,
                                          last |-> now, notified |-> TRUE])
  <2> DEFINE k == Len(entries) + 1
             e == [id |-> id, interval |-> defaultInterval, last |-> now, notified |-> TRUE]
  <2>1. id \notin IdsOf(entries) /\ Cardinality(IdsOf(entries)) < kMaxIds
    BY <1>6, IdsProperties DEF Room
  <2>2. /\ e \in Entry /\ e.id = id /\ e.interval = defaultInterval
        /\ e.last = now /\ e.notified
    BY <1>3 DEF Entry, FilterTypeOK
  <2>3. entries' = Append(entries, e)
    BY <1>6
  <2> HIDE DEF k, e
  <2>4. Written(k) /\ entries'[k] = e
    BY <1>3, <2>2, <2>3, AppendIsWritten DEF k
  <2>5. /\ RateIn(entries') = With(RateIn(entries), IdsOf(entries), id, defaultInterval)
        /\ AgeIn(entries', now') = With(AgeIn(entries, now), IdsOf(entries), id, 0)
    BY <1>1, <1>4, <2>2, <2>4, WrittenIsFollowed
  <2>6. Policy!Send(id)
    BY <1>2, <1>6, <2>1, <2>5, PolicySendNew
  <2>7. Recent'
    BY <1>1, <1>4, <2>2, <2>4, RecentWritten DEF Written
  <2> QED
    BY <2>6, <2>7 DEF Policy!Next
<1> QED
  BY <1>2, <1>5, <1>6 DEF Notify

\* A frame that is held back.
LEMMA HoldRefines ==
  ASSUME IInv, Recent, NEW id \in CanId, Hold(id), elapsed' = elapsed
  PROVE  Policy!Next /\ Recent'
<1>1. now' = now
  BY DEF now
<1>2. /\ verdict' = [id |-> id, sent |-> FALSE]
      /\ UNCHANGED <<entries, allowAll, defaultInterval>>
  BY DEF Hold, Withhold, filterVars
<1>3. Recent'
  BY <1>1, <1>2 DEF Recent
<1>4. \/ id \in IdsOf(entries) /\ ~Policy!Due(id)
      \/ id \notin IdsOf(entries) /\ ~allowAll
      \/ id \notin IdsOf(entries) /\ Cardinality(IdsOf(entries)) = kMaxIds
  <2>1. CASE Tracked(id) /\ ~Due(entries[Find(id)], now)
    BY <2>1, IdsProperties, DueAgrees
  <2>2. CASE ~Tracked(id) /\ ~allowAll
    BY <2>2, IdsProperties
  <2>3. CASE ~Tracked(id) /\ ~Room
    <3>1. Len(entries) = kMaxIds
      BY <2>3, FilterAssumption DEF Room, IInv, TypeOK, FilterTypeOK
    <3> QED
      BY <2>3, <3>1, IdsProperties
  <2> QED
    BY <2>1, <2>2, <2>3 DEF Hold, Withhold
<1>5. Policy!Hold(id)
  BY <1>1, <1>2, <1>4, PolicyHold
<1> QED
  BY <1>3, <1>5 DEF Policy!Next

\* Time passes between two passes, and every age grows with it.
LEMMA PassRefines ==
  ASSUME IInv, Recent, NEW d \in 0 .. MaxStep, NEW b \in BOOLEAN, NextPass(d, b)
  PROVE  Policy!Next /\ Recent'
<1>1. /\ UNCHANGED <<entries, allowAll, defaultInterval>> /\ verdict' = NoVerdict
      /\ elapsed' = elapsed + d /\ elapsed + d <= MaxElapsed
  BY DEF NextPass, filterVars
<1>2. /\ Wrap \in Nat \ {0} /\ BootTime \in Nat /\ MaxElapsed \in Nat /\ MaxElapsed < Wrap
      /\ elapsed \in Nat /\ d \in Nat
  BY FilterAssumption, PumpAssumption DEF Time, IInv, TypeOK
<1>3. entries \in Seq(Entry)
  BY DEF IInv, TypeOK, FilterTypeOK
<1>4. ASSUME NEW i \in DOMAIN entries, entries[i].notified
      PROVE  /\ SinceIn(entries[i], now') = SinceIn(entries[i], now) + d
             /\ SinceIn(entries[i], now') <= elapsed'
             /\ SinceIn(entries[i], now) \in Nat
  <2>1. entries[i] \in Entry /\ entries[i].last \in 0 .. Wrap - 1
    <3>1. entries[i] \in Entry
      BY <1>3
    <3> QED
      BY <3>1 DEF Entry, Time
  <2>2. SinceIn(entries[i], now) \in Nat /\ SinceIn(entries[i], now) <= elapsed
    BY <1>2, <1>4, <2>1, NowProperties DEF Recent
  <2>3. SinceIn(entries[i], now) + d < Wrap
    BY <1>1, <1>2, <2>2
  <2>4. SinceIn(entries[i], now') = SinceIn(entries[i], now) + d
    <3> DEFINE w == entries[i].last
    <3>1. /\ SinceIn(entries[i], now) = ClockSince(Wrap, BootTime, elapsed, w)
          /\ SinceIn(entries[i], now') = ClockSince(Wrap, BootTime, elapsed + d, w)
      BY <1>1 DEF SinceIn, now, ClockSince
    <3>2. w \in 0 .. Wrap - 1
      BY <2>1
    <3> HIDE DEF w
    <3> QED
      BY <1>2, <2>3, <3>1, <3>2, ClockStep
  <2> QED
    BY <1>1, <1>2, <2>2, <2>4
<1>5. Recent'
  BY <1>1, <1>4 DEF Recent
<1>6. ASSUME NEW x \in IdsOf(entries)
      PROVE  AgeIn(entries', now')[x] =
               IF AgeIn(entries, now)[x] = Never THEN Never
               ELSE IF AgeIn(entries, now)[x] + d > Old THEN Old
                                                        ELSE AgeIn(entries, now)[x] + d
  <2> DEFINE i == FindIn(entries, x)
             e == entries[i]
  <2>1. /\ AgeIn(entries, now)[x] = AgeOf(e, now)
        /\ AgeIn(entries', now')[x] = AgeOf(e, now')
    BY <1>1 DEF AgeIn
  <2>2. i \in DOMAIN entries
    BY IdsProperties DEF Find, FindIn
  <2> HIDE DEF i
  <2>3. CASE ~e.notified
    BY <2>1, <2>3 DEF AgeOf
  <2>4. CASE e.notified
    <3>1. SinceIn(e, now) \in Nat /\ SinceIn(e, now') = SinceIn(e, now) + d
      BY <1>4, <2>2, <2>4
    <3>2. Old \in Nat
      BY OldProperties
    <3> HIDE DEF e
    <3>3. AgeOf(e, now) \in Nat /\ AgeOf(e, now) # Never
      BY <2>4, <3>1, <3>2, PumpAssumption DEF AgeOf
    <3>4. AgeOf(e, now') = IF AgeOf(e, now) + d > Old THEN Old ELSE AgeOf(e, now) + d
      BY <1>2, <2>4, <3>1, <3>2 DEF AgeOf
    <3> QED
      BY <2>1, <3>3, <3>4
  <2> QED
    BY <2>3, <2>4
<1>7. AgeIn(entries', now') =
        [x \in IdsOf(entries) |->
           IF AgeIn(entries, now)[x] = Never THEN Never
           ELSE IF AgeIn(entries, now)[x] + d > Old THEN Old
                                                    ELSE AgeIn(entries, now)[x] + d]
  <2>1. AgeIn(entries', now') = [x \in IdsOf(entries) |-> AgeIn(entries', now')[x]]
    BY <1>1 DEF AgeIn
  <2> QED
    BY <1>6, <2>1
<1>8. Policy!Elapse(d)
  BY <1>1, <1>7, PolicyElapse
<1> QED
  BY <1>5, <1>8 DEF Policy!Next

LEMMA InitRefines == Init => Policy!Init /\ Recent
<1> SUFFICES ASSUME Init PROVE Policy!Init /\ Recent
  OBVIOUS
<1>1. entries = <<>> /\ allowAll = FALSE /\ defaultInterval = 0 /\ verdict = NoVerdict
  BY DEF Init, FilterInit
<1>2. Recent
  BY <1>1 DEF Recent
<1>3. Policy!Init
  BY <1>1, EmptyTable, PolicyInit
<1> QED
  BY <1>2, <1>3

LEMMA StepRefines ==
  ASSUME IInv, IInv', Recent, [Next]_vars
  PROVE  [Policy!Next]_(Policy!vars) /\ Recent'
<1>1. CASE UNCHANGED vars
  BY <1>1, StutterRefines DEF vars, filterVars, passVars
<1>2. CASE HostStep \/ NoMoreCommands \/ Report
  BY <1>2, StutterRefines
  DEF HostStep, WriteCommand, OverflowCommand, NoMoreCommands, Report, filterVars, passVars
<1>3. ASSUME NEW id \in CanId, ReadFrame(id)
      PROVE  [Policy!Next]_(Policy!vars) /\ Recent'
  <2>1. elapsed' = elapsed
    BY <1>3 DEF ReadFrame, passVars
  <2>2. CASE Discard(id)
    BY <2>1, <2>2, StutterRefines DEF Discard, filterVars
  <2>3. CASE Send(id)
    BY <2>1, <2>3, SendRefines
  <2>4. CASE Hold(id)
    BY <2>1, <2>4, HoldRefines
  <2> QED
    BY <1>3, <2>2, <2>3, <2>4 DEF ReadFrame
<1>4. CASE LoopStep
  BY <1>2, <1>3, <1>4, TakeRefines, PassRefines DEF LoopStep
<1> QED
  BY <1>1, <1>2, <1>4 DEF Next

\* Which frames go out is exactly what RaceChrono asked for: the table, its
\* timestamps and the wrap of millis() amount to the policy.
THEOREM PolicyImplemented == Spec => ImplementsPolicy
<1>1. Init => Policy!Init /\ Recent
  BY InitRefines
<1>2. IInv /\ IInv' /\ Recent /\ [Next]_vars => [Policy!Next]_(Policy!vars) /\ Recent'
  BY StepRefines
<1> QED
  BY <1>1, <1>2, Invariance, PTL DEF Spec, ImplementsPolicy, Policy!Spec
=============================================================================
