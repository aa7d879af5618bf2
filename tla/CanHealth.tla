----------------------------- MODULE CanHealth -----------------------------
(***************************************************************************)
(* How the CAN screen learns whether the bus is well: CanBus::takeLost     *)
(* turns the driver's cumulative counters into losses, CanStats counts     *)
(* them and the frames over one-second windows, BusStatus judges the last  *)
(* window.  A step of PumpStats is the statistics part of one pumpCanBus().*)
(***************************************************************************)
EXTENDS Integers

CONSTANTS
  kWindowMs,    \* a window, which is also the second rates are given for
  kLostPollMs,  \* losses are polled at this interval
  kLostMax,     \* UINT16_MAX: the most one poll can report
  Wrap,         \* 2^32: millis() wraps here
  CounterWrap,  \* 2^32: the driver's counters wrap here
  MaxStep,      \* the longest time between two passes
  MaxArrivals,  \* frames a pass takes at most
  MaxLost       \* losses between two polls at most

ASSUME HealthAssumption ==
  /\ kWindowMs \in Nat \ {0} /\ kLostPollMs \in Nat /\ kLostMax \in Nat
  /\ Wrap \in Nat /\ Wrap > kWindowMs + MaxStep
  /\ MaxStep \in Nat \ {0} /\ MaxArrivals \in Nat
  /\ MaxLost \in Nat /\ CounterWrap \in Nat /\ CounterWrap > MaxLost

VARIABLES
  present,       \* CanBus::present_: the driver is installed
  now,           \* millis() at the start of the pass
  driverLost,    \* rx_missed_count + rx_overrun_count
  lostSeen,      \* CanBus::lostSeen_
  lastLostPoll,  \* pumpCanBus's lastLostPollMs
  frames, lost, windowStart,  \* CanStats: the window being filled
  framesPerSec, lostPerSec,   \* CanStats::snapshot()
  window,        \* history: what the published window held, and how long it was
  reported       \* history: losses in all the windows published so far, with
                 \* those that were beyond what one poll can report

driverVars == <<present, driverLost>>
pollVars == <<lostSeen, lastLostPoll>>
statsVars == <<frames, lost, windowStart, framesPerSec, lostPerSec, window, reported>>
vars == <<now, driverVars, pollVars, statsVars>>

NoWindow == [frames |-> 0, lost |-> 0, elapsed |-> kWindowMs]

Init ==
  /\ present \in BOOLEAN
  /\ now = 0
  /\ driverLost = 0 /\ lostSeen = 0
  /\ lastLostPoll = 0
  /\ frames = 0 /\ lost = 0 /\ windowStart = 0
  /\ framesPerSec = 0 /\ lostPerSec = 0
  /\ window = NoWindow /\ reported = 0

\* The time since t, in unsigned arithmetic.
Since(t) == (now - t) % Wrap

-----------------------------------------------------------------------------
\* The losses the driver has counted since takeLost() last looked.
Unseen == (driverLost - lostSeen) % CounterWrap

\* The controller drops frames: its queue is full, or the wire is noisy.
ControllerLoses ==
  /\ present
  /\ Unseen < MaxLost
  /\ driverLost' = (driverLost + 1) % CounterWrap
  /\ UNCHANGED <<present, now, pollVars, statsVars>>

\* takeLost(): what was lost since the last call, at most kLostMax.  Asking
\* the driver may fail, and without a driver there is nothing to ask.
Lost(ok) == IF ~present \/ ~ok THEN 0 ELSE IF Unseen > kLostMax THEN kLostMax ELSE Unseen

LostSeen(ok) == IF present /\ ok THEN driverLost ELSE lostSeen

PollDue == Since(lastLostPoll) >= kLostPollMs

\* Mutation of WindowOver: a deadline is compared instead of a difference.
WindowOverDeadline == now >= windowStart + kWindowMs

WindowOver == Since(windowStart) >= kWindowMs

\* A count over the window, per second; integer division.
Rate(count) == (count * kWindowMs) \div Since(windowStart)

\* Mutation of Roll: the losses of a window stay for the next.
RollKeepsLost(f, l, excess) ==
  /\ framesPerSec' = Rate(f) /\ lostPerSec' = Rate(l)
  /\ window' = [frames |-> f, lost |-> l, elapsed |-> Since(windowStart)]
  /\ frames' = 0 /\ lost' = l
  /\ reported' = (reported + l + excess) % CounterWrap
  /\ windowStart' = now

\* CanStats::tick() when the window is over.
Roll(f, l, excess) ==
  /\ framesPerSec' = Rate(f) /\ lostPerSec' = Rate(l)
  /\ window' = [frames |-> f, lost |-> l, elapsed |-> Since(windowStart)]
  /\ frames' = 0 /\ lost' = 0
  /\ reported' = (reported + l + excess) % CounterWrap
  /\ windowStart' = now

Fill(f, l, excess) ==
  /\ frames' = f /\ lost' = l
  /\ reported' = (reported + excess) % CounterWrap
  /\ UNCHANGED <<windowStart, framesPerSec, lostPerSec, window>>

\* A pass: the frames it took, the losses if their poll is due, the window.
\* delay(1) at the end of loop() puts the next pass at least 1 ms later.
PumpStats(arrived, ok, d) ==
  LET f == frames + arrived
      l == lost + (IF PollDue THEN Lost(ok) ELSE 0)
      excess == IF PollDue /\ present /\ ok /\ Unseen > kLostMax THEN Unseen - kLostMax ELSE 0
  IN  /\ present \/ arrived = 0
      /\ lostSeen' = IF PollDue THEN LostSeen(ok) ELSE lostSeen
      /\ lastLostPoll' = IF PollDue THEN now ELSE lastLostPoll
      /\ IF WindowOver THEN Roll(f, l, excess) ELSE Fill(f, l, excess)
      /\ now' = (now + d) % Wrap
      /\ UNCHANGED driverVars

Pass == \E arrived \in 0 .. MaxArrivals, ok \in BOOLEAN, d \in 1 .. MaxStep :
          PumpStats(arrived, ok, d)

Next == ControllerLoses \/ Pass

Spec == Init /\ [][Next]_vars

-----------------------------------------------------------------------------
(* busStatus(), as buildStatus() calls it on the published rates.          *)

\* Mutation of Status: losses are looked at only when frames arrive.
StatusFramesFirst ==
  IF ~present THEN "Starting"
  ELSE IF framesPerSec = 0 THEN "Silent"
  ELSE IF lostPerSec > 0 THEN "Lossy"
  ELSE "Healthy"

Status ==
  IF ~present THEN "Starting"
  ELSE IF framesPerSec = 0 /\ lostPerSec = 0 THEN "Silent"
  ELSE IF lostPerSec > 0 THEN "Lossy"
  ELSE "Healthy"

-----------------------------------------------------------------------------
TypeOK ==
  /\ present \in BOOLEAN
  /\ now \in 0 .. Wrap - 1 /\ windowStart \in 0 .. Wrap - 1
  /\ lastLostPoll \in 0 .. Wrap - 1
  /\ driverLost \in 0 .. CounterWrap - 1 /\ lostSeen \in 0 .. CounterWrap - 1
  /\ frames \in Nat /\ lost \in Nat
  /\ framesPerSec \in Nat /\ lostPerSec \in Nat
  /\ reported \in 0 .. CounterWrap - 1
  /\ window \in [frames : Nat, lost : Nat, elapsed : Nat]

\* A window never grows without bound: whatever millis() does, it is rolled by
\* the first pass that finds it a second old.
WindowBounded ==
  /\ TypeOK
  /\ Since(windowStart) < kWindowMs + MaxStep
  /\ frames <= MaxArrivals * kWindowMs

\* Every loss the driver was seen to count is in exactly one window, published
\* or being filled; the only losses in none are those one poll cannot report.
LossesConserved == (reported + lost) % CounterWrap = lostSeen

\* What the screen says of the bus is never worse than the window was: Lossy
\* means frames were lost in it, Healthy that frames came, and a window with a
\* whole second's worth of losses is never called Silent.
StatusWarranted ==
  /\ Status = "Lossy" => window.lost > 0
  /\ Status = "Healthy" => window.frames > 0
  /\ Status = "Silent" => window.frames * kWindowMs < window.elapsed
                            /\ window.lost * kWindowMs < window.elapsed

\* Stated by BusStatus.h:22-30: Healthy means that in the window frames arrived
\* and none was lost, and a window with losses is not Silent.  (The status is
\* computed from rates, and a loss in a window longer than a second is a rate
\* of zero.)
HealthyMeansNoLoss ==
  present /\ window.lost > 0 => Status = "Lossy"
=============================================================================
