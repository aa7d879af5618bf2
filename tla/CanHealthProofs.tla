-------------------------- MODULE CanHealthProofs ---------------------------
(***************************************************************************)
(* CanHealth for every window, poll interval, wrap of the clock and of the *)
(* driver's counters: no window outlives its second by more than a pass,   *)
(* every loss is in one window, and the status says no more than its       *)
(* window held.                                                            *)
(***************************************************************************)
EXTENDS CanHealth, TLAPS

\* A remainder is in range, has a quotient, and is the only one that has.
LEMMA Remainder ==
  ASSUME NEW C \in Nat \ {0}, NEW n \in Int
  PROVE  n % C \in 0 .. C - 1 /\ n \div C \in Int /\ n = ((n \div C) * C) + (n % C)
  OBVIOUS

LEMMA RemainderUnique ==
  ASSUME NEW C \in Nat \ {0}, NEW q \in Int, NEW r \in 0 .. C - 1
  PROVE  (q * C + r) % C = r
  OBVIOUS

LEMMA Quotient ==
  ASSUME NEW C \in Nat \ {0}, NEW n \in Nat
  PROVE  n \div C \in Nat /\ (n \div C = 0 <=> n < C)
  OBVIOUS

LEMMA Multiples ==
  ASSUME NEW C \in Int, NEW a \in Int, NEW b \in Int
  PROVE  a * C + b * C = (a + b) * C /\ a * C - b * C = (a - b) * C /\ a * C \in Int
  OBVIOUS

LEMMA Products ==
  ASSUME NEW m \in Nat, NEW a \in Nat, NEW b \in Nat, a < b
  PROVE  m * a \in Nat /\ m * b \in Nat /\ m * a + m <= m * b /\ m * (a + 1) = m * a + m
  OBVIOUS

\* Unsigned time goes on by what has passed, a wrap in between or not.
LEMMA Elapsed ==
  ASSUME NEW C \in Nat \ {0}, NEW t \in 0 .. C - 1, NEW w \in 0 .. C - 1, NEW d \in Nat,
         ((t - w) % C) + d < C
  PROVE  /\ (t + d) % C \in 0 .. C - 1
         /\ (((t + d) % C) - w) % C = ((t - w) % C) + d
<1> DEFINE p == (t - w) \div C
           q == (t + d) \div C
           e == (t - w) % C
           u == (t + d) % C
<1>1. e \in 0 .. C - 1 /\ p \in Int /\ t - w = p * C + e
  BY Remainder
<1>2. u \in 0 .. C - 1 /\ q \in Int /\ t + d = q * C + u
  <2>1. t + d \in Int
    OBVIOUS
  <2> QED
    BY <2>1, Remainder
<1>3. e + d < C
  OBVIOUS
<1> HIDE DEF p, q, e, u
<1>4. u - w = (p - q) * C + (e + d)
  <2>1. p * C - q * C = (p - q) * C /\ p * C \in Int /\ q * C \in Int
    BY <1>1, <1>2, Multiples
  <2> QED
    BY <1>1, <1>2, <2>1
<1>5. e + d \in 0 .. C - 1 /\ p - q \in Int
  BY <1>1, <1>2, <1>3
<1>6. (u - w) % C = e + d
  BY <1>4, <1>5, RemainderUnique
<1> QED
  BY <1>2, <1>6 DEF e, u

-----------------------------------------------------------------------------
\* The published rates are those of the window they are of.
RatesFollow ==
  /\ window.elapsed # 0
  /\ framesPerSec = (window.frames * kWindowMs) \div window.elapsed
  /\ lostPerSec = (window.lost * kWindowMs) \div window.elapsed

\* A pass takes at least a millisecond, so that the frames of a window are
\* bounded by its age, and by a whole window's worth.
FramesInTime ==
  /\ Since(windowStart) < kWindowMs + MaxStep
  /\ frames <= MaxArrivals * Since(windowStart)
  /\ frames <= MaxArrivals * kWindowMs

IInv == TypeOK /\ FramesInTime /\ LossesConserved /\ RatesFollow

LEMMA ConstantTypes ==
  /\ Wrap \in Nat \ {0} /\ CounterWrap \in Nat \ {0}
  /\ kWindowMs \in Nat \ {0} /\ kLostMax \in Nat
  /\ MaxStep \in Nat \ {0} /\ MaxArrivals \in Nat
  /\ Wrap > kWindowMs + MaxStep
  BY HealthAssumption

\* A pass that finds the window over begins a new one; one that does not finds
\* it younger than a wrap.
LEMMA WindowStep ==
  ASSUME IInv, NEW d \in 1 .. MaxStep, now' = (now + d) % Wrap
  PROVE  /\ now' \in 0 .. Wrap - 1
         /\ Since(windowStart) \in Nat
         /\ ~WindowOver /\ windowStart' = windowStart =>
              Since(windowStart)' = Since(windowStart) + d
         /\ windowStart' = now => Since(windowStart)' = d
<1>1. now \in 0 .. Wrap - 1 /\ windowStart \in 0 .. Wrap - 1
  BY DEF IInv, TypeOK
<1>2. Since(windowStart) \in Nat
  <2>1. now - windowStart \in Int
    BY <1>1, ConstantTypes
  <2>2. (now - windowStart) % Wrap \in 0 .. Wrap - 1
    BY <2>1, ConstantTypes, Remainder
  <2> QED
    BY <2>2, ConstantTypes DEF Since
<1>3. ASSUME ~WindowOver, windowStart' = windowStart
      PROVE  Since(windowStart)' = Since(windowStart) + d
  <2>1. Since(windowStart) + d < Wrap
    BY <1>2, <1>3, ConstantTypes DEF WindowOver
  <2>2. (now' - windowStart) % Wrap = Since(windowStart) + d
    BY <1>1, <2>1, ConstantTypes, Elapsed DEF Since
  <2> QED
    BY <1>3, <2>2 DEF Since
<1>4. (now' - now) % Wrap = d /\ now' \in 0 .. Wrap - 1
  <2>1. (now - now) % Wrap = 0
    <3>1. now - now = 0 * Wrap + 0 /\ 0 \in 0 .. Wrap - 1
      BY <1>1, ConstantTypes
    <3> QED
      BY <3>1, ConstantTypes, RemainderUnique
  <2>2. 0 + d < Wrap /\ 0 + d = d /\ d \in Nat
    BY ConstantTypes
  <2> QED
    BY <1>1, <2>1, <2>2, ConstantTypes, Elapsed
<1> QED
  BY <1>2, <1>3, <1>4 DEF Since

\* The losses one poll cannot report.
Excess(ok) == IF present /\ ok /\ Unseen > kLostMax THEN Unseen - kLostMax ELSE 0

\* The losses a poll reports, with those it cannot, are those it had not seen.
LEMMA LossStep ==
  ASSUME IInv, NEW ok \in BOOLEAN
  PROVE  /\ Lost(ok) \in Nat /\ Excess(ok) \in Nat
         /\ (reported + lost + (Lost(ok) + Excess(ok))) % CounterWrap = LostSeen(ok)
<1> DEFINE k == (reported + lost) \div CounterWrap
           j == (driverLost - lostSeen) \div CounterWrap
<1>1. /\ driverLost \in 0 .. CounterWrap - 1 /\ lostSeen \in 0 .. CounterWrap - 1
      /\ reported \in Nat /\ lost \in Nat /\ reported + lost \in Int
      /\ driverLost - lostSeen \in Int /\ present \in BOOLEAN
  BY ConstantTypes DEF IInv, TypeOK
<1>2. k \in Int /\ reported + lost = k * CounterWrap + lostSeen
  BY <1>1, ConstantTypes, Remainder DEF IInv, LossesConserved
<1>3. j \in Int /\ Unseen \in Nat /\ driverLost - lostSeen = j * CounterWrap + Unseen
  <2>1. /\ j \in Int
        /\ (driverLost - lostSeen) % CounterWrap \in 0 .. CounterWrap - 1
        /\ driverLost - lostSeen = j * CounterWrap + ((driverLost - lostSeen) % CounterWrap)
    BY <1>1, ConstantTypes, Remainder
  <2> QED
    BY <2>1, ConstantTypes DEF Unseen
<1>4. /\ Lost(ok) \in Nat /\ Excess(ok) \in Nat
      /\ Lost(ok) + Excess(ok) = IF present /\ ok THEN Unseen ELSE 0
  BY <1>1, <1>3, ConstantTypes DEF Lost, Excess
<1> HIDE DEF k, j
<1>5. k * CounterWrap \in Int /\ j * CounterWrap \in Int
      /\ k * CounterWrap - j * CounterWrap = (k - j) * CounterWrap /\ k - j \in Int
  BY <1>2, <1>3, ConstantTypes, Multiples
<1>6. CASE present /\ ok
  <2>1. reported + lost + (Lost(ok) + Excess(ok)) = (k - j) * CounterWrap + driverLost
    <3>1. Lost(ok) + Excess(ok) = Unseen
      BY <1>4, <1>6
    <3>2. reported + lost + Unseen = (k * CounterWrap - j * CounterWrap) + driverLost
      BY <1>1, <1>2, <1>3, <1>5
    <3> QED
      BY <1>5, <3>1, <3>2
  <2>2. LostSeen(ok) = driverLost
    BY <1>6 DEF LostSeen
  <2> QED
    BY <1>1, <1>3, <1>4, <1>5, <2>1, <2>2, ConstantTypes, RemainderUnique
<1>7. CASE ~(present /\ ok)
  <2>1. reported + lost + (Lost(ok) + Excess(ok)) = k * CounterWrap + lostSeen
    BY <1>1, <1>2, <1>4, <1>5, <1>7
  <2>2. LostSeen(ok) = lostSeen
    BY <1>7 DEF LostSeen
  <2> QED
    BY <1>1, <1>2, <1>3, <1>4, <2>1, <2>2, ConstantTypes, RemainderUnique
<1> QED
  BY <1>6, <1>7

\* What is added to a sum after its remainder was taken.
LEMMA SumOfRemainder ==
  ASSUME NEW C \in Nat \ {0}, NEW a \in Nat, NEW b \in Nat
  PROVE  ((a % C) + b) % C = (a + b) % C
<1> DEFINE r == a % C
           s == (a + b) % C
           p == a \div C
           q == (a + b) \div C
<1>1. a + b \in Int
  OBVIOUS
<1>2. r \in 0 .. C - 1 /\ p \in Int /\ a = p * C + r
  BY Remainder
<1>3. s \in 0 .. C - 1 /\ q \in Int /\ a + b = q * C + s
  BY <1>1, Remainder
<1> HIDE DEF r, s, p, q
<1>4. q * C - p * C = (q - p) * C /\ p * C \in Int /\ q * C \in Int /\ q - p \in Int
  BY <1>2, <1>3, Multiples
<1>5. r + b = (q - p) * C + s
  <2>1. r + b = (q * C - p * C) + s
    BY <1>2, <1>3, <1>4
  <2> QED
    BY <1>4, <2>1
<1>6. (r + b) % C = s
  BY <1>3, <1>4, <1>5, RemainderUnique
<1> QED
  BY <1>6 DEF r, s

LEMMA InitIInv == Init => IInv
<1> SUFFICES ASSUME Init PROVE IInv
  OBVIOUS
<1>1. 0 = 0 * Wrap + 0 /\ 0 = 0 * CounterWrap + 0 /\ 0 \in 0 .. Wrap - 1 /\ 0 \in 0 .. CounterWrap - 1
  BY ConstantTypes
<1>2. 0 % Wrap = 0 /\ 0 % CounterWrap = 0
  BY <1>1, ConstantTypes, RemainderUnique
<1>3. TypeOK
  BY <1>1, ConstantTypes DEF Init, TypeOK, NoWindow
<1>4. Since(windowStart) = 0
  BY <1>2 DEF Init, Since
<1>5. FramesInTime
  BY <1>4, ConstantTypes DEF Init, FramesInTime
<1>6. LossesConserved
  BY <1>2 DEF Init, LossesConserved
<1>7. RatesFollow
  <2>1. 0 * kWindowMs = 0 /\ 0 < kWindowMs
    BY ConstantTypes
  <2>2. 0 \div kWindowMs = 0
    BY <2>1, ConstantTypes, Quotient
  <2> QED
    BY <2>1, <2>2, ConstantTypes DEF Init, RatesFollow, NoWindow
<1> QED
  BY <1>3, <1>5, <1>6, <1>7 DEF IInv

\* The controller's own step changes only what a poll has yet to see.
LEMMA LoseKeepsIInv ==
  ASSUME IInv, ControllerLoses
  PROVE  IInv'
<1>1. driverLost' \in 0 .. CounterWrap - 1
  <2>1. driverLost + 1 \in Int
    BY ConstantTypes DEF IInv, TypeOK
  <2> QED
    BY <2>1, ConstantTypes, Remainder DEF ControllerLoses
<1>2. UNCHANGED <<present, now, pollVars, statsVars>>
  BY DEF ControllerLoses
<1> QED
  BY <1>1, <1>2 DEF IInv, TypeOK, FramesInTime, Since, LossesConserved, RatesFollow,
                    pollVars, statsVars

LEMMA PassKeepsIInv ==
  ASSUME IInv, NEW arrived \in 0 .. MaxArrivals, NEW ok \in BOOLEAN, NEW d \in 1 .. MaxStep,
         PumpStats(arrived, ok, d)
  PROVE  IInv'
<1> DEFINE f == frames + arrived
           l == lost + (IF PollDue THEN Lost(ok) ELSE 0)
           x == IF PollDue THEN Excess(ok) ELSE 0
<1>1. /\ lostSeen' = IF PollDue THEN LostSeen(ok) ELSE lostSeen
      /\ lastLostPoll' = IF PollDue THEN now ELSE lastLostPoll
      /\ IF WindowOver THEN Roll(f, l, x) ELSE Fill(f, l, x)
      /\ now' = (now + d) % Wrap
      /\ UNCHANGED <<present, driverLost>>
  <2>1. x = IF PollDue /\ present /\ ok /\ Unseen > kLostMax THEN Unseen - kLostMax ELSE 0
    BY DEF Excess
  <2> QED
    BY <2>1 DEF PumpStats, driverVars
<1>2. /\ present \in BOOLEAN /\ now \in 0 .. Wrap - 1 /\ windowStart \in 0 .. Wrap - 1
      /\ lastLostPoll \in 0 .. Wrap - 1
      /\ driverLost \in 0 .. CounterWrap - 1 /\ lostSeen \in 0 .. CounterWrap - 1
      /\ reported \in 0 .. CounterWrap - 1
      /\ frames \in Nat /\ lost \in Nat /\ framesPerSec \in Nat /\ lostPerSec \in Nat
      /\ window \in [frames : Nat, lost : Nat, elapsed : Nat]
  BY DEF IInv, TypeOK
<1>3. Lost(ok) \in Nat /\ Excess(ok) \in Nat
  BY LossStep
<1>4. f \in Nat /\ l \in Nat /\ x \in Nat /\ reported + l + x \in Nat
  BY <1>2, <1>3, ConstantTypes
<1>5. (reported + l + x) % CounterWrap = lostSeen'
  <2>1. CASE PollDue
    <3>1. reported + l + x = reported + lost + (Lost(ok) + Excess(ok))
      BY <1>2, <1>3, <2>1, ConstantTypes
    <3> QED
      BY <1>1, <2>1, <3>1, LossStep
  <2>2. CASE ~PollDue
    <3>1. reported + l + x = reported + lost
      BY <1>2, <2>2, ConstantTypes
    <3> QED
      BY <1>1, <2>2, <3>1 DEF IInv, LossesConserved
  <2> QED
    BY <2>1, <2>2
<1>6. /\ now' \in 0 .. Wrap - 1
      /\ Since(windowStart) \in Nat
      /\ ~WindowOver /\ windowStart' = windowStart =>
           Since(windowStart)' = Since(windowStart) + d
      /\ windowStart' = now => Since(windowStart)' = d
  BY <1>1, WindowStep
<1>7. lostSeen' \in 0 .. CounterWrap - 1 /\ lastLostPoll' \in 0 .. Wrap - 1
  BY <1>1, <1>2 DEF LostSeen
<1> HIDE DEF f, l, x
<1>8. CASE WindowOver
  <2> DEFINE e == Since(windowStart)
  <2>1. /\ framesPerSec' = (f * kWindowMs) \div e /\ lostPerSec' = (l * kWindowMs) \div e
        /\ window' = [frames |-> f, lost |-> l, elapsed |-> e]
        /\ frames' = 0 /\ lost' = 0
        /\ reported' = (reported + l + x) % CounterWrap
        /\ windowStart' = now
    BY <1>1, <1>8 DEF Roll, Rate
  <2>2. e \in Nat \ {0}
    BY <1>6, <1>8, ConstantTypes DEF WindowOver
  <2>3. reported' \in 0 .. CounterWrap - 1
    BY <1>4, <2>1, ConstantTypes, Remainder
  <2>4. framesPerSec' \in Nat /\ lostPerSec' \in Nat
    <3>1. f * kWindowMs \in Nat /\ l * kWindowMs \in Nat
      BY <1>4, ConstantTypes
    <3> QED
      BY <2>1, <2>2, <3>1, Quotient
  <2>5. TypeOK'
    BY <1>1, <1>2, <1>4, <1>6, <1>7, <2>1, <2>2, <2>3, <2>4 DEF TypeOK
  <2>6. FramesInTime'
    <3>1. Since(windowStart)' = d
      BY <1>6, <2>1
    <3>2. d < kWindowMs + MaxStep /\ MaxArrivals * d \in Nat /\ MaxArrivals * kWindowMs \in Nat
      BY ConstantTypes
    <3> QED
      BY <2>1, <3>1, <3>2 DEF FramesInTime
  <2>7. LossesConserved'
    <3>1. reported' = lostSeen' /\ reported' + lost' = 0 * CounterWrap + reported'
      BY <1>5, <2>1, <2>3, ConstantTypes
    <3> QED
      BY <2>3, <3>1, ConstantTypes, RemainderUnique DEF LossesConserved
  <2>8. RatesFollow'
    BY <2>1, <2>2 DEF RatesFollow
  <2> QED
    BY <2>5, <2>6, <2>7, <2>8 DEF IInv
<1>9. CASE ~WindowOver
  <2> DEFINE e == Since(windowStart)
  <2>1. /\ frames' = f /\ lost' = l
        /\ reported' = (reported + x) % CounterWrap
        /\ UNCHANGED <<windowStart, framesPerSec, lostPerSec, window>>
    BY <1>1, <1>9 DEF Fill
  <2>2. e < kWindowMs /\ e \in Nat
    BY <1>6, <1>9, ConstantTypes DEF WindowOver
  <2>3. reported + x \in Nat /\ reported' \in 0 .. CounterWrap - 1
    <3>1. reported + x \in Nat
      BY <1>2, <1>4, ConstantTypes
    <3> QED
      BY <2>1, <3>1, ConstantTypes, Remainder
  <2>4. TypeOK'
    BY <1>1, <1>2, <1>4, <1>6, <1>7, <2>1, <2>3 DEF TypeOK
  <2>5. FramesInTime'
    <3>1. Since(windowStart)' = e + d
      BY <1>6, <1>9, <2>1
    <3>2. MaxArrivals * e + MaxArrivals <= MaxArrivals * (e + d)
      BY <2>2, ConstantTypes, Products
    <3>3. MaxArrivals * e + MaxArrivals <= MaxArrivals * kWindowMs
      BY <2>2, ConstantTypes, Products
    <3>4. frames <= MaxArrivals * e
      BY DEF IInv, FramesInTime
    <3>5. frames' <= MaxArrivals * e + MaxArrivals
      BY <1>2, <2>1, <2>2, <3>4, ConstantTypes DEF f
    <3>6. /\ MaxArrivals * e \in Nat /\ MaxArrivals * (e + d) \in Nat
          /\ MaxArrivals * kWindowMs \in Nat /\ frames' \in Nat
      BY <1>4, <2>1, <2>2, ConstantTypes
    <3>7. frames' <= MaxArrivals * (e + d) /\ frames' <= MaxArrivals * kWindowMs
      <4> HIDE DEF e
      <4> QED
        BY <3>2, <3>3, <3>5, <3>6, ConstantTypes
    <3>8. e + d < kWindowMs + MaxStep
      BY <2>2, ConstantTypes
    <3> QED
      BY <3>1, <3>7, <3>8 DEF FramesInTime
  <2>6. LossesConserved'
    <3>1. (((reported + x) % CounterWrap) + l) % CounterWrap = (reported + x + l) % CounterWrap
      BY <1>4, <2>3, ConstantTypes, SumOfRemainder
    <3>2. reported + x + l = reported + l + x
      BY <1>2, <1>4, ConstantTypes
    <3> QED
      BY <1>5, <2>1, <3>1, <3>2 DEF LossesConserved
  <2>7. RatesFollow'
    BY <2>1 DEF IInv, RatesFollow
  <2> QED
    BY <2>4, <2>5, <2>6, <2>7 DEF IInv
<1> QED
  BY <1>8, <1>9

LEMMA NextIInv == IInv /\ [Next]_vars => IInv'
<1> SUFFICES ASSUME IInv, [Next]_vars PROVE IInv'
  OBVIOUS
<1>1. CASE ControllerLoses
  BY <1>1, LoseKeepsIInv
<1>2. CASE Pass
  BY <1>2, PassKeepsIInv DEF Pass
<1>3. CASE UNCHANGED vars
  BY <1>3 DEF vars, driverVars, pollVars, statsVars,
              IInv, TypeOK, FramesInTime, Since, LossesConserved, RatesFollow
<1> QED
  BY <1>1, <1>2, <1>3 DEF Next

LEMMA Invariance == Spec => []IInv
  BY InitIInv, NextIInv, PTL DEF Spec

-----------------------------------------------------------------------------
\* Whatever millis() does, a window is rolled by the first pass that finds it a
\* second old, and holds no more frames than passes can have taken.
THEOREM WindowsAreBounded == Spec => []WindowBounded
<1>1. IInv => WindowBounded
  BY DEF IInv, FramesInTime, WindowBounded
<1> QED
  BY <1>1, Invariance, PTL

\* Every loss the driver was seen to count is in one window, whatever the
\* counters' width and however often they wrap.
THEOREM EveryLossCounted == Spec => []LossesConserved
<1>1. IInv => LossesConserved
  BY DEF IInv
<1> QED
  BY <1>1, Invariance, PTL

\* Lossy means a loss, Healthy a frame, and Silent less than one a second of
\* either, for every length of the window and every rounding.
THEOREM StatusIsWarranted == Spec => []StatusWarranted
<1>1. IInv => StatusWarranted
  <2> SUFFICES ASSUME IInv PROVE StatusWarranted
    OBVIOUS
  <2>1. /\ window.frames \in Nat /\ window.lost \in Nat /\ window.elapsed \in Nat \ {0}
        /\ kWindowMs \in Nat \ {0}
    BY ConstantTypes DEF IInv, TypeOK, RatesFollow
  <2>2. ASSUME NEW n \in Nat
        PROVE  /\ n * kWindowMs \in Nat
               /\ (n * kWindowMs) \div window.elapsed \in Nat
               /\ (n * kWindowMs) \div window.elapsed = 0 <=> n * kWindowMs < window.elapsed
               /\ n = 0 => (n * kWindowMs) \div window.elapsed = 0
    <3>1. n * kWindowMs \in Nat /\ (n = 0 => n * kWindowMs = 0)
      BY <2>1
    <3>2. 0 < window.elapsed
      BY <2>1
    <3> QED
      BY <2>1, <3>1, <3>2, Quotient
  <2>3. /\ framesPerSec \in Nat /\ lostPerSec \in Nat
        /\ framesPerSec = 0 <=> window.frames * kWindowMs < window.elapsed
        /\ lostPerSec = 0 <=> window.lost * kWindowMs < window.elapsed
        /\ window.frames = 0 => framesPerSec = 0
        /\ window.lost = 0 => lostPerSec = 0
    BY <2>1, <2>2 DEF IInv, RatesFollow
  <2> QED
    BY <2>1, <2>3 DEF StatusWarranted, Status
<1> QED
  BY <1>1, Invariance, PTL
=============================================================================
