--------------------------- MODULE DisplayProofs ----------------------------
(***************************************************************************)
(* The log ring of Display for every set of tasks that log and every size  *)
(* of the ring: whoever interrupts whom, the rows are the latest lines.    *)
(* And both panels for every period, hold and wrap of millis(): nothing    *)
(* that is drawn freezes but the hour and the minute.                      *)
(***************************************************************************)
EXTENDS Display, FiniteSets, FiniteSetTheorems, SequenceTheorems, TLAPS

\* The ring's indices: a sum of a slot and a row is taken modulo the size by
\* at most one subtraction.
LEMMA Modulo ==
  ASSUME NEW n \in 0 .. 2 * kRows - 1
  PROVE  n % kRows = IF n < kRows THEN n ELSE n - kRows
<1>1. kRows \in Nat \ {0}
  BY DisplayAssumption
<1>2. CASE n < kRows
  BY <1>1, <1>2
<1>3. CASE ~(n < kRows)
  <2>1. n = (n - kRows) + 1 * kRows /\ n - kRows \in 0 .. kRows - 1
    BY <1>1, <1>3
  <2> QED
    BY <1>1, <1>3, <2>1
<1> QED
  BY <1>2, <1>3

-----------------------------------------------------------------------------
\* The lines begun and not yet in the ring, and those in it.
Begun == {t \in Tasks : doing[t] \in {"lock", "slot", "copy", "bump"}}

CountInv ==
  /\ IsFiniteSet(Begun)
  /\ Len(appended) + Cardinality(Begun) = emitted
  /\ \A t \in Begun : writing[t] \in 1 .. MaxLines

\* append() is where the task with the mutex is, and nobody else.
MutexInv == \A t \in Tasks : doing[t] \in {"slot", "copy", "bump", "unlock"} <=> mutex = t

Copying == mutex # Free /\ doing[mutex] = "copy"
Bumping == mutex # Free /\ doing[mutex] = "bump"

\* One slot more is counted than lines were appended.
Ahead == IF Copying \/ Bumping THEN 1 ELSE 0

\* The i-th slot from slot h on; from the head, the i-th row.
From(h, i) == (h + i) % kRows

\* So many slots of ls, from slot h on, hold the lines of s from a place on.
Holds(ls, h, s, place, many) == \A i \in 0 .. many - 1 : ls[From(h, i)] = s[place + i]

\* For `total` lines, of which the last may not be in its slot yet, so many
\* slots are counted as there are; `kept` of them, from the head on, hold the
\* latest of the lines in order.
Filled(total, kept) ==
  /\ count = IF total < kRows THEN total ELSE kRows
  /\ Len(appended) < kRows => head = 0
  /\ Holds(lines, head, appended, total - count + 1, kept)

RingInv ==
  /\ revision = Len(appended)
  /\ Filled(Len(appended) + Ahead, count - Ahead)
  /\ Copying \/ Bumping => slot = From(head, count - 1)
  /\ Bumping => lines[slot] = writing[mutex]

LogInv == LogTypeOK /\ CountInv /\ MutexInv /\ RingInv

LEMMA InitLog == LogInit => LogInv
<1> SUFFICES ASSUME LogInit PROVE LogInv
  OBVIOUS
<1>1. kRows \in Nat \ {0} /\ MaxLines \in Nat /\ Free \notin Tasks
  BY DisplayAssumption
<1>2. appended = <<>> /\ Len(appended) = 0 /\ appended \in Seq(1 .. MaxLines)
  BY DEF LogInit
<1>3. Begun = {}
  BY DEF LogInit, Begun
<1>4. 0 \in 0 .. MaxLines /\ 0 \in 0 .. kRows /\ 0 \in Slots
  BY <1>1 DEF Slots
<1>5. LogTypeOK
  BY <1>2, <1>4 DEF LogInit, LogTypeOK, Blank
<1>6. CountInv
  BY <1>2, <1>3, FS_EmptySet DEF LogInit, CountInv
<1>7. MutexInv
  BY <1>1 DEF LogInit, MutexInv
<1>8. ~Copying /\ ~Bumping /\ Ahead = 0
  <2>1. mutex = Free
    BY DEF LogInit
  <2>2. ~Copying /\ ~Bumping
    BY <2>1 DEF Copying, Bumping
  <2> QED
    BY <2>2 DEF Ahead
<1>9. RingInv
  <2>1. 0 .. (count - Ahead) - 1 = {}
    BY <1>8 DEF LogInit
  <2>2. /\ count = 0 /\ head = 0 /\ revision = 0 /\ 0 < kRows
        /\ Len(appended) + Ahead = 0
    BY <1>1, <1>2, <1>8 DEF LogInit
  <2>3. Filled(Len(appended) + Ahead, count - Ahead)
    BY <1>2, <2>1, <2>2 DEF Filled, Holds
  <2> QED
    BY <1>2, <1>8, <2>2, <2>3 DEF RingInv
<1> QED
  BY <1>5, <1>6, <1>7, <1>9 DEF LogInv

\* Nobody else is in append() while a task holds the mutex.
LEMMA HolderProperties ==
  ASSUME LogInv, NEW t \in Tasks, doing[t] \in {"slot", "copy", "bump", "unlock"}
  PROVE  /\ mutex = t /\ mutex # Free
         /\ Copying <=> doing[t] = "copy"
         /\ Bumping <=> doing[t] = "bump"
<1>1. mutex = t /\ mutex # Free
  BY DisplayAssumption DEF LogInv, MutexInv
<1> QED
  BY <1>1 DEF Copying, Bumping

\* What a step of one task does to the phases of the others: nothing.
LEMMA PhaseProperties ==
  ASSUME LogInv, NEW t \in Tasks, NEW p \in {"idle", "lock", "slot", "copy", "bump", "unlock"},
         doing' = [doing EXCEPT ![t] = p]
  PROVE  /\ doing' \in [Tasks -> {"idle", "lock", "slot", "copy", "bump", "unlock"}]
         /\ doing'[t] = p
         /\ \A u \in Tasks : u # t => doing'[u] = doing[u]
         /\ Begun' = IF p \in {"lock", "slot", "copy", "bump"} THEN Begun \cup {t} ELSE Begun \ {t}
<1>1. doing \in [Tasks -> {"idle", "lock", "slot", "copy", "bump", "unlock"}]
  BY DEF LogInv, LogTypeOK
<1>2. /\ doing' \in [Tasks -> {"idle", "lock", "slot", "copy", "bump", "unlock"}]
      /\ doing'[t] = p
      /\ \A u \in Tasks : u # t => doing'[u] = doing[u]
  BY <1>1
<1>3. CASE p \in {"lock", "slot", "copy", "bump"}
  BY <1>2, <1>3 DEF Begun
<1>4. CASE p \notin {"lock", "slot", "copy", "bump"}
  BY <1>2, <1>4 DEF Begun
<1> QED
  BY <1>2, <1>3, <1>4

\* A step that neither begins a line nor appends one keeps the count.
LEMMA CountKept ==
  ASSUME LogInv, Begun' = Begun, UNCHANGED <<appended, emitted, writing>>
  PROVE  CountInv'
BY DEF LogInv, CountInv

-----------------------------------------------------------------------------
LEMMA FormatKeepsLog ==
  ASSUME LogInv, NEW t \in Tasks, Format(t)
  PROVE  LogInv'
<1> USE DEF ringVars
<1>1. /\ doing[t] = "idle" /\ emitted < MaxLines /\ emitted' = emitted + 1
      /\ writing' = [writing EXCEPT ![t] = emitted + 1]
      /\ doing' = [doing EXCEPT ![t] = "lock"]
      /\ UNCHANGED <<lines, count, head, revision, mutex, slot, appended>>
  BY DEF Format
<1>2. Begun' = Begun \cup {t} /\ t \notin Begun
  BY <1>1, PhaseProperties DEF Begun
<1>3. emitted \in 0 .. MaxLines /\ MaxLines \in Nat /\ emitted + 1 \in 1 .. MaxLines
  BY <1>1, DisplayAssumption DEF LogInv, LogTypeOK
<1>4. /\ writing' \in [Tasks -> 0 .. MaxLines] /\ writing'[t] = emitted + 1
      /\ \A u \in Tasks : u # t => writing'[u] = writing[u]
  BY <1>1, <1>3 DEF LogInv, LogTypeOK
<1>5. Len(appended) \in Nat /\ Len(appended) <= emitted
  BY DEF LogInv, LogTypeOK
<1>6. LogTypeOK'
  <2>1. Len(appended') <= emitted' /\ emitted' \in 0 .. MaxLines
    BY <1>1, <1>3, <1>5
  <2> QED
    BY <1>1, <1>4, <2>1, PhaseProperties DEF LogInv, LogTypeOK
<1>7. CountInv'
  <2>1. IsFiniteSet(Begun') /\ Cardinality(Begun') = Cardinality(Begun) + 1
    BY <1>2, FS_AddElement DEF LogInv, CountInv
  <2>2. Cardinality(Begun) \in Nat
    BY FS_CardinalityType DEF LogInv, CountInv
  <2>3. Len(appended') + Cardinality(Begun') = emitted'
    BY <1>1, <1>5, <2>1, <2>2 DEF LogInv, CountInv
  <2>4. \A u \in Begun' : writing'[u] \in 1 .. MaxLines
    BY <1>2, <1>3, <1>4 DEF LogInv, CountInv, Begun
  <2> QED
    BY <2>1, <2>3, <2>4 DEF CountInv
<1>8. MutexInv'
  BY <1>1, PhaseProperties DEF LogInv, MutexInv
<1>9. mutex # t
  BY <1>1 DEF LogInv, MutexInv
<1>10. Copying' = Copying /\ Bumping' = Bumping
  BY <1>1, <1>9, PhaseProperties DEF Copying, Bumping, LogInv, LogTypeOK
<1>11. Bumping => writing'[mutex] = writing[mutex]
  BY <1>4, <1>9 DEF Bumping, LogInv, LogTypeOK
<1>12. RingInv'
  BY <1>1, <1>10, <1>11 DEF LogInv, RingInv, Filled, Ahead
<1> QED
  BY <1>6, <1>7, <1>8, <1>12 DEF LogInv

LEMMA LockKeepsLog ==
  ASSUME LogInv, NEW t \in Tasks, Lock(t) \/ Unlock(t)
  PROVE  LogInv'
<1> USE DEF ringVars
<1>1. /\ UNCHANGED <<lines, count, head, revision, writing, slot, emitted, appended>>
      /\ \/ /\ doing[t] = "lock" /\ mutex = Free /\ mutex' = t
            /\ doing' = [doing EXCEPT ![t] = "slot"]
         \/ /\ doing[t] = "unlock" /\ mutex' = Free
            /\ doing' = [doing EXCEPT ![t] = "idle"]
  BY DEF Lock, Unlock, MayTake
<1>2. Free \notin Tasks
  BY DisplayAssumption
<1>3. Begun' = Begun
  BY <1>1, PhaseProperties DEF Begun
<1>4. LogTypeOK'
  BY <1>1, PhaseProperties DEF LogInv, LogTypeOK
<1>5. MutexInv'
  BY <1>1, <1>2, PhaseProperties DEF LogInv, MutexInv
<1>6. ~Copying /\ ~Bumping
  BY <1>1, HolderProperties DEF Copying, Bumping
<1>7. ~Copying' /\ ~Bumping'
  BY <1>1, PhaseProperties DEF Copying, Bumping
<1>8. RingInv'
  BY <1>1, <1>6, <1>7 DEF LogInv, RingInv, Filled, Ahead
<1> QED
  BY <1>1, <1>3, <1>4, <1>5, <1>8, CountKept DEF LogInv

-----------------------------------------------------------------------------
\* Counting slots from the first one, from the one after h, and back to h.
LEMMA FromProperties ==
  ASSUME NEW h \in 0 .. kRows - 1, NEW i \in 0 .. kRows - 1
  PROVE  /\ From(0, i) = i
         /\ From(h, i) \in Slots
         /\ From(From(h, 1), i) = (h + i + 1) % kRows
         /\ From(From(h, 1), kRows - 1) = h
         /\ \A j \in 0 .. kRows - 1 : j # i => From(h, j) # From(h, i)
<1>1. kRows \in Nat \ {0}
  BY DisplayAssumption
<1>2. \A g, j \in 0 .. kRows - 1 : From(g, j) = IF g + j < kRows THEN g + j ELSE g + j - kRows
  BY <1>1, Modulo DEF From
<1>3. From(0, i) = i /\ From(h, i) \in Slots
  BY <1>1, <1>2 DEF Slots
<1>4. \A j \in 0 .. kRows - 1 : j # i => From(h, j) # From(h, i)
  BY <1>1, <1>2
<1>5. From(h, 1) = (h + 1) % kRows /\ (h + 1) % kRows = IF h + 1 < kRows THEN h + 1 ELSE 0
  <2>1. (h + 1) % kRows = IF h + 1 < kRows THEN h + 1 ELSE h + 1 - kRows
    BY <1>1, Modulo
  <2> QED
    BY <1>1, <2>1 DEF From
<1>6. (h + i + 1) % kRows = IF h + i + 1 < kRows THEN h + i + 1 ELSE h + i + 1 - kRows
  BY <1>1, Modulo
<1>7. From(h, 1) \in 0 .. kRows - 1
  BY <1>1, <1>5
<1>8. From(From(h, 1), i) = (h + i + 1) % kRows
  <2>1. From(From(h, 1), i) =
          IF From(h, 1) + i < kRows THEN From(h, 1) + i ELSE From(h, 1) + i - kRows
    BY <1>2, <1>7
  <2> QED
    BY <1>1, <1>5, <1>6, <2>1
<1>9. From(From(h, 1), kRows - 1) = h
  <2>1. From(From(h, 1), kRows - 1) =
          IF From(h, 1) + (kRows - 1) < kRows THEN From(h, 1) + (kRows - 1)
                                              ELSE From(h, 1) + (kRows - 1) - kRows
    BY <1>1, <1>2, <1>7
  <2> QED
    BY <1>1, <1>5, <2>1
<1> QED
  BY <1>3, <1>4, <1>8, <1>9

\* One row on is one slot on.
LEMMA FromNext ==
  ASSUME NEW h \in 0 .. kRows - 1, NEW i \in 0 .. kRows - 2
  PROVE  From(From(h, 1), i) = From(h, i + 1)
<1>1. kRows \in Nat \ {0} /\ i \in 0 .. kRows - 1 /\ h + (i + 1) = h + i + 1
  BY DisplayAssumption
<1>2. From(From(h, 1), i) = (h + i + 1) % kRows
  BY <1>1, FromProperties
<1> QED
  BY <1>1, <1>2 DEF From

\* Without the oldest line, the others begin one slot and one place later.
LEMMA HoldsNext ==
  ASSUME NEW ls, NEW s, NEW h \in 0 .. kRows - 1, NEW place \in Int,
         Holds(ls, h, s, place, kRows)
  PROVE  Holds(ls, From(h, 1), s, place + 1, kRows - 1)
<1>1. ASSUME NEW i \in 0 .. (kRows - 1) - 1
      PROVE  ls[From(From(h, 1), i)] = s[(place + 1) + i]
  <2>1. /\ i \in 0 .. kRows - 2 /\ i + 1 \in 0 .. kRows - 1
        /\ place + (i + 1) = (place + 1) + i
    BY <1>1, DisplayAssumption
  <2>2. ls[From(h, i + 1)] = s[place + (i + 1)]
    BY <2>1 DEF Holds
  <2>3. From(From(h, 1), i) = From(h, i + 1)
    BY <2>1, FromNext
  <2> QED
    BY <2>1, <2>2, <2>3
<1> QED
  BY <1>1 DEF Holds

\* With one more slot that holds the next line, one more is held.
LEMMA HoldsMore ==
  ASSUME NEW ls, NEW s, NEW h, NEW place \in Int, NEW many \in Nat,
         Holds(ls, h, s, place, many), ls[From(h, many)] = s[place + many]
  PROVE  Holds(ls, h, s, place, many + 1)
<1>1. \A i \in 0 .. (many + 1) - 1 : i \in 0 .. many - 1 \/ i = many
  OBVIOUS
<1> QED
  BY <1>1 DEF Holds

\* A slot is chosen: with room the next free one, without it the oldest line's,
\* and then the head moves on, so that the chosen one comes last.
LEMMA ChooseKeepsLog ==
  ASSUME LogInv, NEW t \in Tasks, ChooseSlot(t)
  PROVE  LogInv'
<1>1. /\ doing[t] = "slot" /\ doing' = [doing EXCEPT ![t] = "copy"]
      /\ UNCHANGED <<lines, revision, mutex, writing, emitted, appended>>
  BY DEF ChooseSlot
<1>2. /\ kRows \in Nat \ {0} /\ Len(appended) \in Nat
      /\ count \in 0 .. kRows /\ head \in 0 .. kRows - 1
  BY DisplayAssumption DEF LogInv, LogTypeOK, Slots
<1>3. mutex = t /\ mutex # Free /\ ~Copying /\ ~Bumping
  BY <1>1, HolderProperties
<1>4. Copying' /\ ~Bumping' /\ Ahead' = 1
  BY <1>1, <1>3, PhaseProperties DEF Copying, Bumping, Ahead
<1> DEFINE n == Len(appended)
<1>5. /\ revision = n
      /\ count = IF n < kRows THEN n ELSE kRows
      /\ n < kRows => head = 0
      /\ Holds(lines, head, appended, n - count + 1, count)
  <2>1. Len(appended) + Ahead = n /\ count - Ahead = count
    BY <1>2, <1>3 DEF Ahead
  <2>2. revision = n /\ Filled(n, count)
    BY <2>1 DEF LogInv, RingInv
  <2> QED
    BY <2>2 DEF Filled
<1>6. /\ slot' \in Slots /\ count' \in 0 .. kRows /\ head' \in Slots
      /\ count' = IF n + 1 < kRows THEN n + 1 ELSE kRows
      /\ n < kRows => head' = 0
      /\ Holds(lines, head', appended, n + 1 - count' + 1, count' - 1)
      /\ slot' = From(head', count' - 1)
  <2>1. CASE HasRoom
    <3>1. /\ slot' = count /\ count' = count + 1 /\ head' = head
          /\ count < kRows /\ count = n /\ head = 0
      BY <1>2, <1>5, <2>1 DEF ChooseSlot, HasRoom
    <3>2. slot' = From(head', count' - 1)
      <4>1. count' - 1 = count /\ count \in 0 .. kRows - 1 /\ 0 \in 0 .. kRows - 1
        BY <1>2, <3>1
      <4> QED
        BY <3>1, <4>1, FromProperties
    <3>3. Holds(lines, head', appended, n + 1 - count' + 1, count' - 1)
      <4>1. count' - 1 = count /\ n + 1 - count' + 1 = n - count + 1
        BY <1>2, <3>1
      <4> QED
        BY <1>5, <3>1, <4>1
    <3>4. slot' \in Slots /\ count' \in 0 .. kRows /\ head' \in Slots
      BY <1>2, <3>1 DEF Slots
    <3>5. count' = IF n + 1 < kRows THEN n + 1 ELSE kRows
      BY <1>2, <3>1
    <3> QED
      BY <3>1, <3>2, <3>3, <3>4, <3>5
  <2>2. CASE ~HasRoom
    <3>1. /\ slot' = head /\ head' = From(head, 1) /\ count' = count
          /\ count = kRows /\ ~(n < kRows) /\ ~(n + 1 < kRows)
      BY <1>2, <1>5, <2>2 DEF ChooseSlot, HasRoom, Oldest, From
    <3>2. slot' = From(head', count' - 1)
      BY <1>2, <3>1, FromProperties
    <3>3. Holds(lines, head', appended, n + 1 - count' + 1, count' - 1)
      <4>1. n + 1 - count' + 1 = (n - count + 1) + 1 /\ count' - 1 = count - 1
        BY <1>2, <3>1
      <4> QED
        BY <1>2, <1>5, <3>1, <4>1, HoldsNext
    <3>4. head' \in Slots /\ slot' \in Slots
      <4>1. 1 \in 0 .. kRows - 1 \/ kRows = 1
        BY <1>2
      <4>2. CASE 1 \in 0 .. kRows - 1
        BY <1>2, <3>1, <4>2, FromProperties DEF Slots
      <4>3. CASE kRows = 1
        BY <1>2, <3>1, <4>3 DEF Slots, From
      <4> QED
        BY <4>1, <4>2, <4>3
    <3>5. count' \in 0 .. kRows /\ count' = IF n + 1 < kRows THEN n + 1 ELSE kRows
      BY <1>2, <3>1
    <3> QED
      BY <3>1, <3>2, <3>3, <3>4, <3>5
  <2> QED
    BY <2>1, <2>2
<1>7. RingInv'
  <2>1. appended' = appended /\ lines' = lines
    BY <1>1
  <2>2. Filled(n + 1, count - 1)'
    BY <1>6, <2>1 DEF Filled
  <2> QED
    BY <1>1, <1>4, <1>5, <1>6, <2>2 DEF RingInv
<1>8. LogTypeOK'
  BY <1>1, <1>6, PhaseProperties DEF LogInv, LogTypeOK
<1>9. MutexInv' /\ Begun' = Begun
  BY <1>1, PhaseProperties DEF LogInv, MutexInv, Begun
<1> QED
  BY <1>1, <1>7, <1>8, <1>9, CountKept DEF LogInv

\* The line is copied into the chosen slot and no other.
LEMMA CopyKeepsLog ==
  ASSUME LogInv, NEW t \in Tasks, CopyLine(t)
  PROVE  LogInv'
<1>1. /\ doing[t] = "copy" /\ doing' = [doing EXCEPT ![t] = "bump"]
      /\ lines' = [lines EXCEPT ![slot] = writing[t]]
      /\ UNCHANGED <<count, head, revision, mutex, writing, slot, emitted, appended>>
  BY DEF CopyLine
<1>2. /\ kRows \in Nat \ {0} /\ Len(appended) \in Nat
      /\ count \in 0 .. kRows /\ head \in 0 .. kRows - 1
  BY DisplayAssumption DEF LogInv, LogTypeOK, Slots
<1>3. mutex = t /\ mutex # Free /\ Copying /\ Ahead = 1
  BY <1>1, HolderProperties DEF Ahead
<1>4. ~Copying' /\ Bumping' /\ Ahead' = 1
  BY <1>1, <1>3, PhaseProperties DEF Copying, Bumping, Ahead
<1>5. lines \in [Slots -> 0 .. MaxLines] /\ slot \in Slots /\ writing[t] \in 0 .. MaxLines
  BY DEF LogInv, LogTypeOK
<1>6. /\ revision = Len(appended) /\ Filled(Len(appended) + 1, count - 1)
      /\ slot = From(head, count - 1)
  BY <1>3 DEF LogInv, RingInv
<1>7. count - 1 \in 0 .. kRows - 1
  <2>1. count = IF Len(appended) + 1 < kRows THEN Len(appended) + 1 ELSE kRows
    BY <1>6 DEF Filled
  <2> QED
    BY <1>2, <2>1
<1>8. ASSUME NEW place, Holds(lines, head, appended, place, count - 1)
      PROVE  Holds(lines', head, appended, place, count - 1)
  <2> SUFFICES ASSUME NEW i \in 0 .. (count - 1) - 1
               PROVE  lines'[From(head, i)] = appended[place + i]
    BY DEF Holds
  <2>1. i \in 0 .. kRows - 1 /\ i # count - 1
    BY <1>2
  <2>2. From(head, i) \in Slots
    BY <1>2, <2>1, FromProperties
  <2>3. From(head, i) # slot
    BY <1>2, <1>6, <1>7, <2>1, FromProperties
  <2>4. lines'[From(head, i)] = lines[From(head, i)]
    BY <1>1, <1>5, <2>2, <2>3
  <2> QED
    BY <1>8, <2>4 DEF Holds
<1>9. RingInv'
  <2>1. Filled(Len(appended) + 1, count - 1)'
    BY <1>1, <1>6, <1>8 DEF Filled
  <2>2. lines'[slot'] = writing'[mutex'] /\ slot' = From(head', count' - 1)
    BY <1>1, <1>3, <1>5, <1>6
  <2> QED
    BY <1>1, <1>4, <1>6, <2>1, <2>2 DEF RingInv
<1>10. LogTypeOK'
  BY <1>1, <1>5, PhaseProperties DEF LogInv, LogTypeOK
<1>11. MutexInv' /\ Begun' = Begun
  BY <1>1, PhaseProperties DEF LogInv, MutexInv, Begun
<1> QED
  BY <1>1, <1>9, <1>10, <1>11, CountKept DEF LogInv

\* The line is counted: it is now the latest of the rows.
LEMMA BumpKeepsLog ==
  ASSUME LogInv, NEW t \in Tasks, Bump(t)
  PROVE  LogInv'
<1>1. /\ doing[t] = "bump" /\ doing' = [doing EXCEPT ![t] = "unlock"]
      /\ revision' = revision + 1 /\ appended' = Append(appended, writing[t])
      /\ UNCHANGED <<lines, count, head, mutex, writing, slot, emitted>>
  BY DEF Bump
<1> DEFINE n == Len(appended)
<1>2. /\ kRows \in Nat \ {0} /\ n \in Nat /\ emitted \in 0 .. MaxLines
      /\ count \in 0 .. kRows /\ head \in 0 .. kRows - 1 /\ MaxLines \in Nat
      /\ appended \in Seq(1 .. MaxLines)
  BY DisplayAssumption DEF LogInv, LogTypeOK, Slots
<1>3. mutex = t /\ mutex # Free /\ Bumping /\ Ahead = 1
  BY <1>1, HolderProperties DEF Ahead
<1>4. ~Copying' /\ ~Bumping' /\ Ahead' = 0
  BY <1>1, <1>3, PhaseProperties DEF Copying, Bumping, Ahead
<1>5. t \in Begun /\ Begun' = Begun \ {t}
  BY <1>1, PhaseProperties DEF Begun
<1>6. writing[t] \in 1 .. MaxLines
  BY <1>5 DEF LogInv, CountInv
<1>7. /\ appended' \in Seq(1 .. MaxLines) /\ Len(appended') = n + 1
      /\ \A i \in 1 .. n : appended'[i] = appended[i]
      /\ appended'[n + 1] = writing[t]
  BY <1>1, <1>2, <1>6, AppendProperties
<1>8. CountInv' /\ n + 1 <= emitted
  <2>1. IsFiniteSet(Begun') /\ Cardinality(Begun') = Cardinality(Begun) - 1
    BY <1>5, FS_RemoveElement DEF LogInv, CountInv
  <2>2. Cardinality(Begun) \in Nat /\ Cardinality(Begun') \in Nat
    BY <2>1, FS_CardinalityType DEF LogInv, CountInv
  <2>3. n + Cardinality(Begun) = emitted
    BY DEF LogInv, CountInv
  <2>4. Len(appended') + Cardinality(Begun') = emitted' /\ n + 1 <= emitted
    BY <1>1, <1>2, <1>7, <2>1, <2>2, <2>3
  <2>5. \A u \in Begun' : writing'[u] \in 1 .. MaxLines
    BY <1>1, <1>5 DEF LogInv, CountInv
  <2> QED
    BY <2>1, <2>4, <2>5 DEF CountInv
<1>9. revision = n /\ Filled(n + 1, count - 1) /\ slot = From(head, count - 1) /\ lines[slot] = writing[t]
  BY <1>3 DEF LogInv, RingInv
<1>10. LogTypeOK'
  <2>1. revision' \in 0 .. MaxLines /\ Len(appended') <= emitted'
    BY <1>1, <1>2, <1>7, <1>8, <1>9
  <2> QED
    BY <1>1, <1>7, <2>1, PhaseProperties DEF LogInv, LogTypeOK
<1>11. MutexInv'
  BY <1>1, PhaseProperties DEF LogInv, MutexInv
<1>12. Filled(n, count)'
  <2>1. count' = IF n + 1 < kRows THEN n + 1 ELSE kRows
    BY <1>1, <1>9 DEF Filled
  <2>2. n + 1 < kRows => head' = 0
    BY <1>1, <1>2, <1>9 DEF Filled
  <2>3. count' = count /\ head' = head /\ lines' = lines /\ Len(appended') = n + 1
    BY <1>1, <1>7
  <2>4. Holds(lines', head', appended', Len(appended') - count' + 1, count')
    <3> DEFINE place == n + 1 - count + 1
    <3>1. /\ Len(appended') - count' + 1 = place /\ (count - 1) + 1 = count
          /\ place \in 1 .. n + 1 /\ count - 1 \in Nat /\ place + (count - 1) = n + 1
      <4>1. count \in 1 .. kRows /\ count <= n + 1
        BY <1>2, <2>1, <2>3
      <4> QED
        BY <1>2, <2>3, <4>1
    <3>2. Holds(lines, head, appended, place, count - 1)
      BY <1>9 DEF Filled
    <3>3. \A i \in 0 .. (count - 1) - 1 : place + i \in 1 .. n
      BY <1>2, <3>1
    <3> HIDE DEF place
    <3>4. Holds(lines, head, appended', place, count - 1)
      BY <1>7, <3>2, <3>3 DEF Holds
    <3>5. lines[From(head, count - 1)] = appended'[place + (count - 1)]
      BY <1>7, <1>9, <3>1
    <3>6. Holds(lines, head, appended', place, (count - 1) + 1)
      BY <3>1, <3>4, <3>5, HoldsMore
    <3> QED
      BY <2>3, <3>1, <3>6
  <2>5. count' = IF Len(appended') < kRows THEN Len(appended') ELSE kRows
    BY <2>1, <2>3
  <2>6. Len(appended') < kRows => head' = 0
    BY <2>2, <2>3
  <2> QED
    BY <2>4, <2>5, <2>6 DEF Filled
<1>13. RingInv'
  <2>1. Len(appended') + Ahead' = Len(appended') /\ count' - Ahead' = count'
    BY <1>1, <1>2, <1>4, <1>7
  <2>2. revision' = Len(appended')
    BY <1>1, <1>7, <1>9
  <2> QED
    BY <1>4, <1>12, <2>1, <2>2 DEF RingInv
<1> QED
  BY <1>8, <1>10, <1>11, <1>13 DEF LogInv

-----------------------------------------------------------------------------
\* Whatever loop(), the panel and the tasks do, the log stays whole.
LEMMA StepKeepsLog ==
  ASSUME LogInv, [Next]_vars
  PROVE  LogInv'
<1>1. CASE UNCHANGED logVars
  BY <1>1 DEF logVars, ringVars, LogInv, LogTypeOK, CountInv, Begun, MutexInv, RingInv,
              Filled, Ahead, Copying, Bumping
<1>2. ASSUME NEW t \in Tasks, BeginLine(t) \/ FinishLine(t)
      PROVE  LogInv'
  BY <1>2, FormatKeepsLog, LockKeepsLog, ChooseKeepsLog, CopyKeepsLog, BumpKeepsLog
  DEF BeginLine, FinishLine, Emit
<1>3. CASE LoopStep \/ World
  <2>1. UNCHANGED logVars
    BY <1>3 DEF LoopStep, World, Pass, ReadRevision, Snapshot, DrawLog
  <2> QED
    BY <1>1, <2>1
<1> QED
  BY <1>1, <1>2, <1>3 DEF Next, vars

\* With nobody in append() the rows are what was appended last.
LEMMA RowsFollow == LogInv => RowsAreLatest
<1> SUFFICES ASSUME LogInv, mutex = Free
             PROVE  Rows = LatestRows /\ revision = Len(appended)
  BY DEF LogInv, RowsAreLatest
<1> DEFINE n == Len(appended)
<1>1. /\ kRows \in Nat \ {0} /\ n \in Nat /\ count \in 0 .. kRows
      /\ head \in 0 .. kRows - 1
  BY DisplayAssumption DEF LogInv, LogTypeOK, Slots
<1>2. revision = n /\ Filled(n, count)
  <2>1. Len(appended) + Ahead = n /\ count - Ahead = count
    BY <1>1 DEF Ahead, Copying, Bumping
  <2> QED
    BY <2>1 DEF LogInv, RingInv
<1>3. /\ count = IF n < kRows THEN n ELSE kRows
      /\ n < kRows => head = 0
      /\ \A i \in 0 .. count - 1 : lines[From(head, i)] = appended[n - count + 1 + i]
  BY <1>2 DEF Filled, Holds
<1> DEFINE skipped == IF n > kRows THEN n - kRows ELSE 0
<1>4. ASSUME NEW i \in Slots
      PROVE  Row(i) = IF skipped + i < n THEN appended[skipped + i + 1] ELSE Blank
  <2>1. i \in 0 .. kRows - 1
    BY <1>4 DEF Slots
  <2>2. CASE n < kRows
    <3>1. skipped = 0 /\ count = n /\ head = 0 /\ skipped + i = i /\ From(0, i) = i
      BY <1>1, <1>3, <2>1, <2>2, FromProperties
    <3>2. i < n => i \in 0 .. count - 1 /\ n - count + 1 + i = i + 1
      BY <1>1, <2>1, <3>1
    <3>3. i < n => lines[i] = appended[i + 1]
      BY <1>3, <3>1, <3>2
    <3> QED
      BY <2>2, <3>1, <3>3 DEF Row
  <2>3. CASE ~(n < kRows)
    <3>1. count = kRows /\ skipped = n - kRows /\ skipped + i < n /\ ~(count < kRows)
      BY <1>1, <1>3, <2>1, <2>3
    <3>2. Row(i) = lines[From(head, i)]
      BY <3>1 DEF Row, From
    <3>3. i \in 0 .. count - 1
      BY <2>1, <3>1
    <3>4. lines[From(head, i)] = appended[n - count + 1 + i]
      BY <1>3, <3>3
    <3>5. n - count + 1 + i = skipped + i + 1
      BY <1>1, <2>1, <3>1
    <3> QED
      BY <3>1, <3>2, <3>4, <3>5
  <2> QED
    BY <2>2, <2>3
<1>5. Rows = LatestRows
  BY <1>4 DEF Rows, LatestRows
<1> QED
  BY <1>2, <1>5

\* Whichever tasks log at once and wherever they are interrupted, no line is
\* lost, written twice or out of its place, for a ring of any size.
THEOREM LogStaysInOrder == Spec => []RowsAreLatest
<1>1. Init => LogInv
  BY InitLog DEF Init
<1>2. LogInv /\ [Next]_vars => LogInv'
  BY StepKeepsLog
<1> QED
  BY <1>1, <1>2, RowsFollow, PTL DEF Spec
-----------------------------------------------------------------------------
(* The panel.                                                              *)

\* A quotient is where the dividend lies between two multiples.
LEMMA QuotientProperties ==
  ASSUME NEW n \in Int, NEW d \in Nat \ {0}
  PROVE  n \div d \in Int /\ d * (n \div d) <= n /\ n < d * (n \div d) + d
  OBVIOUS

\* For whole numbers of steps, less than a multiple of a second is a step less.
LEMMA MultiplesProperties ==
  ASSUME NEW d \in Nat \ {0}, NEW x \in Int, NEW y \in Int
  PROVE  d * x < d * y + d => x <= y
<1>1. x > y => d * x >= d * (y + 1)
  BY SMT
<1>2. d * (y + 1) = d * y + d
  OBVIOUS
<1> QED
  BY <1>1, <1>2

\* Two holds in one step of 100 ms have as many seconds left: a second and
\* the whole hold are whole numbers of such steps.
LEMMA CountdownLess ==
  ASSUME NEW a \in Nat \ {0}, NEW b \in Nat \ {0}, a \div kHoldStep = b \div kHoldStep,
         b < kHold
  PROVE  a < kHold /\ Countdown(b) <= Countdown(a)
<1> DEFINE d == kHoldStep
           k == b \div d
           m == kSecond \div d
           n == kHold \div d
           p == (kHold - b + kSecond - 1) \div kSecond
           q == (kHold - a + kSecond - 1) \div kSecond
<1>1. d \in Nat \ {0} /\ kSecond \in Nat \ {0} /\ kHold \in Nat \ {0}
  BY DisplayAssumption
<1>2. k \in Int /\ d * k <= b /\ a < d * k + d
  BY <1>1, QuotientProperties
<1>3. m \in Int /\ kSecond = d * m /\ n \in Int /\ kHold = d * n
  BY <1>1, DisplayAssumption
<1>4. /\ p \in Int /\ kSecond * p <= kHold - b + kSecond - 1
      /\ q \in Int /\ kHold - a + kSecond - 1 < kSecond * q + kSecond
  BY <1>1, QuotientProperties
<1> HIDE DEF d, k, m, n, p, q
<1>5. a < kHold
  <2>1. d * k < d * (n - 1) + d
    BY <1>1, <1>2, <1>3
  <2>2. k <= n - 1
    BY <1>1, <1>2, <1>3, <2>1, MultiplesProperties
  <2>3. d * k + d <= d * n
    BY <1>1, <1>2, <1>3, <2>2
  <2> QED
    BY <1>1, <1>2, <1>3, <2>3
<1>6. kSecond * (p - 1) < kHold - a
  <2> DEFINE z == m * (p - 1)
  <2>1. z \in Int /\ kSecond * (p - 1) = d * z /\ kSecond * (p - 1) = kSecond * p - kSecond
    BY <1>1, <1>3, <1>4
  <2> HIDE DEF z
  <2>2. d * z + d * k < d * n
    BY <1>1, <1>2, <1>3, <1>4, <2>1
  <2>3. d * (z + k) < d * (n - 1) + d
    BY <1>1, <1>2, <1>3, <2>1, <2>2
  <2>4. z + k <= n - 1
    BY <1>1, <1>2, <1>3, <2>1, <2>3, MultiplesProperties
  <2>5. d * (z + k + 1) <= d * n
    BY <1>1, <1>2, <1>3, <2>1, <2>4
  <2>6. d * z + d * k + d <= d * n
    BY <1>1, <1>2, <2>1, <2>5
  <2> QED
    BY <1>1, <1>2, <1>3, <2>1, <2>6
<1>7. kSecond * p < kSecond * q + kSecond
  BY <1>1, <1>4, <1>6
<1>8. p <= q
  BY <1>1, <1>4, <1>7, MultiplesProperties
<1> QED
  BY <1>5, <1>8 DEF Countdown, p, q

LEMMA CountdownProperties ==
  ASSUME NEW a \in Nat, NEW b \in Nat, a \div kHoldStep = b \div kHoldStep, (a > 0) = (b > 0)
  PROVE  Countdown(a) = Countdown(b)
<1>1. kHold \in Nat \ {0} /\ kSecond \in Nat \ {0}
  BY DisplayAssumption
<1>2. ~(0 < a /\ a < kHold) => Countdown(a) = 0
  BY DEF Countdown
<1>3. ~(0 < b /\ b < kHold) => Countdown(b) = 0
  BY DEF Countdown
<1>4. (0 < a /\ a < kHold) <=> (0 < b /\ b < kHold)
  BY <1>1, CountdownLess
<1>5. CASE 0 < a /\ a < kHold
  <2>1. Countdown(a) \in Int /\ Countdown(b) \in Int
    BY <1>1, <1>4, <1>5, QuotientProperties DEF Countdown
  <2> QED
    BY <1>4, <1>5, <2>1, CountdownLess
<1> QED
  BY <1>2, <1>3, <1>4, <1>5

\* What loop() builds a status from, and what it keeps of one.
HoldValues == 0 .. kHold + 2 * kHoldStep - 1
Statuses == [fields : Fields, hold : HoldValues, up : Int]

\* What the panel was last drawn from would not make it be redrawn for the
\* status of the last tick().
PanelInv ==
  /\ TypeOK
  /\ drawn \in Statuses /\ built \in Statuses
  /\ ~Differs(built, drawn)

LEMMA PictureProperties ==
  ASSUME NEW a \in Statuses, NEW b \in Statuses, ~Differs(a, b), (b.hold > 0) = (a.hold > 0)
  PROVE  Picture(b) = Picture(AtClock(a, b.fields.clock))
<1>1. /\ a.fields \in Fields /\ b.fields \in Fields
      /\ a.hold \in Nat /\ b.hold \in Nat
  BY DisplayAssumption DEF Statuses, HoldValues
<1>2. a.hold \div kHoldStep = b.hold \div kHoldStep
  BY DEF Differs, TftHeaderDiffers, OledHeaderDiffers
<1>3. Countdown(a.hold) = Countdown(b.hold)
  BY <1>1, <1>2, CountdownProperties
<1> DEFINE c == AtClock(a, b.fields.clock)
<1>4. /\ c.hold = a.hold /\ c.up = a.up
      /\ c.fields.header = a.fields.header /\ c.fields.screen = a.fields.screen
      /\ c.fields.gps = a.fields.gps /\ c.fields.can = a.fields.can
      /\ c.fields.clock = b.fields.clock
  BY <1>1 DEF AtClock, Statuses, Fields
<1> HIDE DEF c
<1>5. Picture(b) = Picture(c)
  BY <1>3, <1>4 DEF Differs, TftHeaderDiffers, OledHeaderDiffers, ScreenDiffers, Picture,
                   TftPicture, OledPicture, ScreenPicture
<1> QED
  BY <1>5 DEF c

LEMMA SameDoesNotDiffer == ASSUME NEW a PROVE ~Differs(a, a)
  BY DEF Differs, TftHeaderDiffers, OledHeaderDiffers, ScreenDiffers

\* The rows of a ring of lines are lines.
LEMMA RowsType == LogInv => Rows \in [Slots -> 0 .. MaxLines]
<1> SUFFICES ASSUME LogInv, NEW i \in Slots PROVE Row(i) \in 0 .. MaxLines
  BY DEF Rows
<1>1. /\ kRows \in Nat \ {0} /\ lines \in [Slots -> 0 .. MaxLines]
      /\ count \in 0 .. kRows /\ head \in Slots /\ 0 \in 0 .. MaxLines
  BY DisplayAssumption DEF LogInv, LogTypeOK
<1>2. (head + i) % kRows \in Slots
  BY <1>1 DEF Slots
<1> QED
  BY <1>1, <1>2 DEF Row, Blank

LEMMA HeldProperties ==
  ASSUME PanelInv, NEW d \in 1 .. MaxStep
  PROVE  /\ Held(d) \in HoldValues
         /\ ~pressed => Held(d) = 0
<1>1. /\ kHold \in Nat \ {0} /\ kHoldStep \in Nat \ {0} /\ MaxStep \in Nat
      /\ hold \in HoldValues
  BY DisplayAssumption DEF PanelInv, TypeOK, HoldValues
<1>2. hold + d \in Nat /\ 2 * kHoldStep \in Nat \ {0}
  BY <1>1 DEF HoldValues
<1> DEFINE x == (hold + d - kHold) % (2 * kHoldStep)
<1>3. x \in 0 .. (2 * kHoldStep) - 1
  <2> DEFINE n == hold + d - kHold
             m == 2 * kHoldStep
  <2>1. hold \in Int /\ d \in Int
    BY <1>1 DEF HoldValues
  <2>2. n \in Int /\ m \in Nat \ {0}
    BY <1>1, <1>2, <2>1
  <2> HIDE DEF n, m
  <2>3. n % m \in 0 .. m - 1
    BY <2>2
  <2> QED
    BY <2>3 DEF n, m
<1> HIDE DEF x
<1>4. /\ 0 \in HoldValues
      /\ hold + d < kHold => hold + d \in HoldValues
      /\ kHold + x \in HoldValues
  BY <1>1, <1>2, <1>3 DEF HoldValues
<1>5. Held(d) = IF ~pressed THEN 0 ELSE IF hold + d < kHold THEN hold + d ELSE kHold + x
  BY DEF Held, x
<1> QED
  BY <1>4, <1>5

LEMMA InitPanel == Init => PanelInv
<1> SUFFICES ASSUME Init PROVE PanelInv
  OBVIOUS
<1>1. /\ {kSecond, kHold, kHoldStep} \subseteq Nat \ {0} /\ Wrap \in Nat \ {0}
      /\ MaxLines \in Nat /\ 0 \div kSecond = 0
  BY DisplayAssumption
<1>2. fields \in Fields
  BY DEF Init, Fields
<1>3. 0 \in HoldValues /\ 0 \in 0 .. Wrap - 1 /\ 0 \in 0 .. MaxLines
  BY <1>1 DEF HoldValues
<1>4. Status(0, 0) \in Statuses
  BY <1>1, <1>2, <1>3 DEF Status, Statuses
<1>5. TypeOK
  BY <1>2, <1>3 DEF Init, TypeOK, HoldValues, NoRows, Blank
<1> QED
  BY <1>4, <1>5, SameDoesNotDiffer DEF Init, PanelInv

LEMMA PassKeepsPanel ==
  ASSUME PanelInv, NEW d \in 1 .. MaxStep, Pass(d)
  PROVE  PanelInv'
<1> DEFINE s == Status(now', hold')
<1>1. /\ kSecond \in Nat \ {0} /\ Wrap \in Nat \ {0} /\ MaxStep \in Nat
  BY DisplayAssumption
<1>2. UNCHANGED <<logVars, board, pressed, fields, events, seen, console, drawnRevision, shown>>
  BY DEF Pass, worldVars, consoleVars
<1>3. now' \in 0 .. Wrap - 1
  BY <1>1 DEF Pass, PanelInv, TypeOK
<1>4. /\ hold' \in HoldValues
      /\ ~pressed' => hold' = 0
  BY <1>2, HeldProperties DEF Pass
<1>5. lastDraw' \in 0 .. Wrap - 1 /\ at' \in {"pass", "log", "snapshot", "draw"}
  BY <1>3 DEF Pass, PanelInv, TypeOK, panelVars
<1>6. TypeOK'
  BY <1>2, <1>3, <1>4, <1>5 DEF PanelInv, TypeOK, HoldValues
<1>7. s \in Statuses
  BY <1>1, <1>3, <1>4 DEF PanelInv, TypeOK, Status, Statuses
<1> HIDE DEF s
<1>8. \/ drawn' = drawn /\ built' = built
      \/ built' = s /\ (drawn' = s \/ (drawn' = drawn /\ ~Differs(s, drawn)))
  BY DEF Pass, panelVars, s
<1>9. \A a, b : Differs(a, b)' <=> Differs(a, b)
  BY <1>2 DEF Differs
<1> QED
  BY <1>6, <1>7, <1>8, <1>9, SameDoesNotDiffer DEF PanelInv

\* One pass of loop(), one step of a tick() or of what goes on meanwhile.
LEMMA StepKeepsPanel ==
  ASSUME LogInv, PanelInv, [Next]_vars
  PROVE  PanelInv'
<1>1. CASE UNCHANGED <<worldVars, clockVars, at, panelVars, consoleVars>>
  BY <1>1 DEF worldVars, clockVars, panelVars, consoleVars, PanelInv, TypeOK, Differs
<1>2. ASSUME NEW d \in 1 .. MaxStep, Pass(d)
      PROVE  PanelInv'
  BY <1>2, PassKeepsPanel
<1>3. ASSUME ReadRevision \/ Snapshot \/ DrawLog
      PROVE  PanelInv'
  <2>1. UNCHANGED <<worldVars, clockVars, panelVars>>
    BY <1>3 DEF ReadRevision, Snapshot, DrawLog
  <2>2. at' \in {"pass", "log", "snapshot", "draw"}
    BY <1>3 DEF ReadRevision, Snapshot, DrawLog
  <2>3. /\ seen' \in 0 .. MaxLines /\ drawnRevision' \in 0 .. MaxLines
        /\ console' \in [Slots -> 0 .. MaxLines] /\ shown' \in [Slots -> 0 .. MaxLines]
    BY <1>3, RowsType DEF ReadRevision, Snapshot, DrawLog, Remembered, LogInv, LogTypeOK,
                          PanelInv, TypeOK
  <2> QED
    BY <2>1, <2>2, <2>3 DEF worldVars, clockVars, panelVars, PanelInv, TypeOK, Differs
<1>4. ASSUME World
      PROVE  PanelInv'
  <2>1. /\ UNCHANGED <<logVars, board, now, at, panelVars, consoleVars>>
        /\ fields' \in Fields
        /\ hold' \in HoldValues
        /\ ~pressed' => hold' = 0
    BY <1>4, DisplayAssumption DEF World, PanelInv, TypeOK, HoldValues
  <2> QED
    BY <2>1 DEF panelVars, consoleVars, PanelInv, TypeOK, HoldValues, Differs
<1>5. ASSUME NEW t \in Tasks, BeginLine(t) \/ FinishLine(t)
      PROVE  PanelInv'
  BY <1>1, <1>5 DEF BeginLine, FinishLine
<1> QED
  BY <1>1, <1>2, <1>3, <1>4, <1>5 DEF Next, LoopStep, vars

\* Nothing that is drawn freezes but the hour and the minute, whatever the rate
\* of redraws and however a press falls between the steps holdMs is compared at:
\* what the panel was last drawn from shows the same as the status of the last
\* tick(), at the time of day that was drawn, unless holdMs was 0 for one of the
\* two and less than 100 ms for the other.
THEOREM PanelStaysCurrent == Spec => []PanelCurrent
<1>1. Init => LogInv /\ PanelInv
  BY InitLog, InitPanel DEF Init
<1>2. LogInv /\ PanelInv /\ [Next]_vars => LogInv' /\ PanelInv'
  BY StepKeepsLog, StepKeepsPanel
<1>3. PanelInv => PanelCurrent
  BY PictureProperties DEF PanelInv, PanelCurrent, SamePress
<1> QED
  BY <1>1, <1>2, <1>3, PTL DEF Spec
=============================================================================
