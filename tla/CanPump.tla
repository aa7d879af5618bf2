------------------------------ MODULE CanPump ------------------------------
(***************************************************************************)
(* pumpCanBus() of main.cpp: the commands a client writes reach the filter *)
(* through the queue (BoundedFifo, which FilterQueue implements), the      *)
(* frames the driver hands over are judged by the filter, and the losses   *)
(* both of them count are reported.                                        *)
(***************************************************************************)
EXTENDS CanFilter

CONSTANTS
  Capacity,        \* commands the queue holds
  MaxWrites,       \* bound: commands a run may see
  kFramesPerPass,  \* frames a pass takes from the driver
  BootTime,        \* millis() when the run begins, to put the wrap within it
  MaxElapsed,      \* bound: how far millis() advances in a run
  MaxStep,         \* the longest time between two passes
  Never            \* FilterPolicy's "never notified"

\* A pass takes 32 frames, fewer than a counter of 32 bits counts.
ASSUME PumpAssumption ==
  /\ Capacity \in Nat \ {0} /\ kFramesPerPass \in 1 .. CounterMod - 1
  /\ MaxWrites \in Nat /\ MaxStep \in Nat
  /\ MaxElapsed \in 0 .. Wrap - 1 /\ BootTime \in Time
  /\ \E m \in Interval : \A i \in Interval : i <= m
  /\ Never \notin Nat

VARIABLES
  q,                  \* commands published and not yet taken
  overflows,          \* g_filterOverflows
  pc,                 \* where in pumpCanBus() loop() is
  elapsed,            \* time since the run began; nowMs is BootTime + elapsed
  connected,          \* BleLink::connected_ in this pass
  frameCount,         \* frames taken in this pass
  reportedOverflows,  \* the static counters of pumpCanBus
  reportedDropped,
  unlogged,           \* history: kinds of loss counted since they were last logged
  written,            \* commands published so far
  applied,            \* commands applied so far
  atPassStart,        \* history: written when this pass began
  verdict             \* history: the last frame judged, and whether it went out

queueVars == <<q, overflows, written>>
reportVars == <<reportedOverflows, reportedDropped, unlogged>>
passVars == <<elapsed, connected, atPassStart>>
vars == <<filterVars, queueVars, reportVars, passVars, pc, frameCount, applied, verdict>>

\* What is counted so as to be logged: a command that found the queue full, a
\* frame whose id found the table full.
Loss == {"command", "id"}

now == (BootTime + elapsed) % Wrap
NoVerdict == [id |-> Never, sent |-> FALSE]

Init ==
  /\ FilterInit
  /\ q = <<>> /\ overflows = 0
  /\ pc = "commands"
  /\ elapsed = 0 /\ connected = FALSE /\ frameCount = 0
  /\ reportedOverflows = 0 /\ reportedDropped = 0 /\ unlogged = {}
  /\ written = 0 /\ applied = 0 /\ atPassStart = 0
  /\ verdict = NoVerdict

-----------------------------------------------------------------------------
\* The host task publishes a command, or counts it when the queue is full.
WriteCommand(c) ==
  /\ written < MaxWrites
  /\ Len(q) < Capacity
  /\ q' = Append(q, c)
  /\ written' = written + 1
  /\ UNCHANGED <<filterVars, overflows, reportVars, passVars, pc, frameCount, applied, verdict>>

\* Bound: fewer than CounterMod commands overflow between two reports (2^32 of
\* them, in a pass of a few milliseconds).
OverflowCommand ==
  /\ Len(q) = Capacity
  /\ (overflows + 1) % CounterMod # reportedOverflows
  /\ overflows' = (overflows + 1) % CounterMod
  /\ unlogged' = unlogged \cup {"command"}
  /\ UNCHANGED <<filterVars, q, written, reportedOverflows, reportedDropped, passVars,
                 pc, frameCount, applied, verdict>>

\* What a command leaves to be logged: a clear resets the count of unknown ids
\* whether it was logged or not.
StillUnlogged(c) ==
  IF c.kind \in {"denyAll", "allowAll"} THEN unlogged \ {"id"} ELSE unlogged

\* Mutation of TakeCommand: one command a pass, not all of them.
TakeOneCommand ==
  /\ pc = "commands" /\ q # <<>>
  /\ ApplyCommand(Head(q))
  /\ q' = Tail(q)
  /\ applied' = applied + 1
  /\ unlogged' = StillUnlogged(Head(q))
  /\ pc' = "report"
  /\ UNCHANGED <<overflows, written, reportedOverflows, reportedDropped, passVars,
                 frameCount, verdict>>

\* One turn of the while loop that applies every waiting command.
TakeCommand ==
  /\ pc = "commands" /\ q # <<>>
  /\ ApplyCommand(Head(q))
  /\ q' = Tail(q)
  /\ applied' = applied + 1
  /\ unlogged' = StillUnlogged(Head(q))
  /\ UNCHANGED <<overflows, written, reportedOverflows, reportedDropped, passVars,
                 pc, frameCount, verdict>>

NoMoreCommands ==
  /\ pc = "commands" /\ q = <<>>
  /\ pc' = "report"
  /\ UNCHANGED <<filterVars, queueVars, reportVars, passVars, frameCount, applied, verdict>>

\* The counters found changed are logged; a loss is logged with its counter.
Logged == {l \in Loss : \/ l = "command" /\ overflows # reportedOverflows
                        \/ l = "id" /\ droppedUnknown # reportedDropped}

\* Mutation of Report: only growth is reported, but a clear resets the counter.
ReportGrowth ==
  /\ pc = "report"
  /\ reportedOverflows' = overflows
  /\ reportedDropped' = IF droppedUnknown > reportedDropped THEN droppedUnknown
                                                            ELSE reportedDropped
  /\ unlogged' = unlogged \ IF droppedUnknown > reportedDropped THEN Logged
                                                                ELSE Logged \ {"id"}
  /\ pc' = "frames" /\ frameCount' = 0
  /\ UNCHANGED <<filterVars, queueVars, passVars, applied, verdict>>

\* Each counter is logged when it is not what was last logged.
Report ==
  /\ pc = "report"
  /\ reportedOverflows' = overflows
  /\ reportedDropped' = droppedUnknown
  /\ unlogged' = unlogged \ Logged
  /\ pc' = "frames" /\ frameCount' = 0
  /\ UNCHANGED <<filterVars, queueVars, passVars, applied, verdict>>

-----------------------------------------------------------------------------
(* The frame loop.  Nobody connected: the frame is counted for the screen  *)
(* and the filter is not asked.                                            *)

Discard(id) ==
  /\ ~connected
  /\ UNCHANGED <<filterVars, verdict>>

Send(id) ==
  /\ connected
  /\ Notify(id, now)
  /\ verdict' = [id |-> id, sent |-> TRUE]

Hold(id) ==
  /\ connected
  /\ Withhold(id, now)
  /\ verdict' = [id |-> id, sent |-> FALSE]

ReadFrame(id) ==
  /\ pc = "frames" /\ frameCount < kFramesPerPass
  /\ Discard(id) \/ Send(id) \/ Hold(id)
  /\ frameCount' = frameCount + 1
  /\ unlogged' = IF droppedUnknown' # droppedUnknown THEN unlogged \cup {"id"} ELSE unlogged
  /\ UNCHANGED <<queueVars, reportedOverflows, reportedDropped, passVars, pc, applied>>

\* CanBus::read() returned false (no frame, or a remote request), or the pass
\* has taken its share.  The rest of loop() runs, and the next pass begins at
\* a later millis(), with what BleLink::tick saw of the connection.
NextPass(d, c) ==
  /\ pc = "frames"
  /\ elapsed + d <= MaxElapsed
  /\ elapsed' = elapsed + d
  /\ connected' = c
  /\ atPassStart' = written
  /\ pc' = "commands" /\ frameCount' = 0
  /\ verdict' = NoVerdict
  /\ UNCHANGED <<filterVars, queueVars, reportVars, applied>>

-----------------------------------------------------------------------------
LoopStep ==
  \/ TakeCommand \/ NoMoreCommands \/ Report
  \/ \E id \in CanId : ReadFrame(id)
  \/ \E d \in 0 .. MaxStep, c \in BOOLEAN : NextPass(d, c)

HostStep == (\E c \in Command : WriteCommand(c)) \/ OverflowCommand

Next == LoopStep \/ HostStep

Spec == Init /\ [][Next]_vars

\* loop() runs for ever and a pass takes a bounded number of frames.
Fairness ==
  /\ WF_vars(LoopStep)
  /\ WF_vars(\E d \in 0 .. MaxStep, c \in BOOLEAN : NextPass(d, c))

FairSpec == Spec /\ Fairness

-----------------------------------------------------------------------------
(* Properties.                                                             *)

TypeOK ==
  /\ FilterTypeOK
  /\ q \in Seq(Command) /\ Len(q) <= Capacity
  /\ overflows \in 0 .. CounterMod - 1
  /\ pc \in {"commands", "report", "frames"}
  /\ elapsed \in 0 .. MaxElapsed
  /\ connected \in BOOLEAN
  /\ frameCount \in 0 .. kFramesPerPass
  /\ reportedOverflows \in 0 .. CounterMod - 1
  /\ reportedDropped \in 0 .. CounterMod - 1
  /\ unlogged \subseteq Loss
  /\ written \in 0 .. MaxWrites
  /\ applied \in 0 .. written
  /\ atPassStart \in 0 .. written

\* The table stays within its bound and no id has two entries in it.
TableOK == TypeOK /\ OneEntryPerId

\* Every frame of a pass is judged under every command that was waiting when
\* the pass began: a deny-all and the requests behind it take effect together.
CommandsFirst == pc = "frames" => applied >= atPassStart

\* A loss that was counted is logged, whatever is counted, written and cleared
\* before that, with one exception: a command that clears the filter resets the
\* count of unknown ids with the losses of the last pass in it.
LossReported == \A l \in Loss : l \in unlogged ~> l \notin unlogged

\* Stated by main.cpp:264-265: both counters exist so a loss is noticed: what is
\* counted is not reset before it is logged.  (A pass applies its commands
\* before it reports, and a deny-all or allow-all among them resets it.)
NoLossErased ==
  [][pc = "commands" /\ "id" \in unlogged => "id" \in unlogged']_vars

\* The table, its timestamps and the wrap of millis() amount to the policy.
Policy == INSTANCE FilterPolicy WITH
  MaxIds <- kMaxIds,
  all <- allowAll,
  default <- defaultInterval,
  rate <- [id \in {entries[i].id : i \in DOMAIN entries} |-> entries[Find(id)].interval],
  age <- [id \in {entries[i].id : i \in DOMAIN entries} |->
            LET e == entries[Find(id)]
                old == CHOOSE m \in Interval : \A i \in Interval : i <= m
                since == (now - e.last) % Wrap
            IN  IF ~e.notified THEN Never ELSE IF since > old THEN old ELSE since]

\* Which frames go out is exactly what RaceChrono asked for: nothing it denied,
\* no id more often than its interval (across the wrap of millis() too), the
\* first frame of an id at once, and a rate change never restarts the interval.
ImplementsPolicy == Policy!Spec
=============================================================================
