------------------------------ MODULE LogRing -------------------------------
(***************************************************************************)
(* Log::emit() of the tasks that log, into one ring of lines behind a      *)
(* mutex.  revision() is read without the mutex, by Display.               *)
(***************************************************************************)
EXTENDS Integers, Sequences

CONSTANTS
  Tasks,    \* the tasks that log
  Free,     \* the mutex is not held
  kRows,    \* lines the ring holds
  MaxLines  \* bound: lines logged

VARIABLES
  lines, count, head, revision,  \* LogRing
  mutex,    \* g_mutex: the task that holds it, or Free
  doing,    \* where each task is in emit()
  writing,  \* the line each task is logging: its number
  slot,     \* append()'s slot
  emitted,  \* how many lines were begun; also numbers them
  appended  \* history: the lines in the order they entered the ring

ringVars == <<lines, count, head, revision>>
logVars == <<ringVars, mutex, doing, writing, slot, emitted, appended>>

\* The line of a row that was never written.
Blank == 0
Slots == 0 .. kRows - 1

LogInit ==
  /\ lines = [i \in Slots |-> Blank] /\ count = 0 /\ head = 0 /\ revision = 0
  /\ mutex = Free
  /\ doing = [t \in Tasks |-> "idle"] /\ writing = [t \in Tasks |-> Blank]
  /\ slot = 0 /\ emitted = 0 /\ appended = <<>>

-----------------------------------------------------------------------------
\* emit(): the line is formatted on the task's own stack.
Format(t) ==
  /\ doing[t] = "idle" /\ emitted < MaxLines
  /\ emitted' = emitted + 1
  /\ writing' = [writing EXCEPT ![t] = emitted + 1]
  /\ doing' = [doing EXCEPT ![t] = "lock"]
  /\ UNCHANGED <<ringVars, mutex, slot, appended>>

\* Mutation of MayTake: the mutex is not waited for.
MayTakeAlways == TRUE

MayTake == mutex = Free

Lock(t) ==
  /\ doing[t] = "lock" /\ MayTake
  /\ mutex' = t
  /\ doing' = [doing EXCEPT ![t] = "slot"]
  /\ UNCHANGED <<ringVars, writing, slot, emitted, appended>>

HasRoom == count < kRows

\* The slot that holds the oldest line once this one has been replaced.
Oldest == (head + 1) % kRows

\* append(): a slot is found, of the oldest line when the ring is full.
ChooseSlot(t) ==
  /\ doing[t] = "slot"
  /\ IF HasRoom
       THEN slot' = count /\ count' = count + 1 /\ head' = head
       ELSE slot' = head /\ head' = Oldest /\ count' = count
  /\ doing' = [doing EXCEPT ![t] = "copy"]
  /\ UNCHANGED <<lines, revision, mutex, writing, emitted, appended>>

CopyLine(t) ==
  /\ doing[t] = "copy"
  /\ lines' = [lines EXCEPT ![slot] = writing[t]]
  /\ doing' = [doing EXCEPT ![t] = "bump"]
  /\ UNCHANGED <<count, head, revision, mutex, writing, slot, emitted, appended>>

Bump(t) ==
  /\ doing[t] = "bump"
  /\ revision' = revision + 1
  /\ appended' = Append(appended, writing[t])
  /\ doing' = [doing EXCEPT ![t] = "unlock"]
  /\ UNCHANGED <<lines, count, head, mutex, writing, slot, emitted>>

Unlock(t) ==
  /\ doing[t] = "unlock"
  /\ mutex' = Free
  /\ doing' = [doing EXCEPT ![t] = "idle"]
  /\ UNCHANGED <<ringVars, writing, slot, emitted, appended>>

Emit(t) == Lock(t) \/ ChooseSlot(t) \/ CopyLine(t) \/ Bump(t) \/ Unlock(t)

\* row(): the rows from the oldest line to the newest.
Row(i) ==
  IF count < kRows THEN (IF i < count THEN lines[i] ELSE Blank)
  ELSE lines[(head + i) % kRows]

Rows == [i \in Slots |-> Row(i)]

-----------------------------------------------------------------------------
\* The last kRows lines that were logged, oldest first, and blanks after them.
LatestRows ==
  LET n == Len(appended)
      skipped == IF n > kRows THEN n - kRows ELSE 0
  IN  [i \in Slots |-> IF skipped + i < n THEN appended[skipped + i + 1] ELSE Blank]

LogTypeOK ==
  /\ lines \in [Slots -> 0 .. MaxLines]
  /\ count \in 0 .. kRows /\ head \in Slots /\ revision \in 0 .. MaxLines
  /\ mutex \in Tasks \cup {Free} /\ slot \in Slots
  /\ doing \in [Tasks -> {"idle", "lock", "slot", "copy", "bump", "unlock"}]
  /\ writing \in [Tasks -> 0 .. MaxLines] /\ emitted \in 0 .. MaxLines
  /\ appended \in Seq(1 .. MaxLines) /\ Len(appended) <= emitted

\* Whichever tasks log at once, no line is lost, written twice or out of its
\* place: whenever nobody is in append() the rows are the latest lines in the
\* order they were appended, and revision() has counted every one of them.
RowsAreLatest ==
  /\ LogTypeOK
  /\ mutex = Free => Rows = LatestRows /\ revision = Len(appended)
=============================================================================
