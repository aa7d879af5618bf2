----------------------------- MODULE HoldProofs -----------------------------
(***************************************************************************)
(* The button for every choice of its times, every number of clicks and    *)
(* every sampling of the contact.  Coherent is inductive as it stands; a   *)
(* reported gesture is judged against what the finger did, for which       *)
(* Follows and Counted tie the detector's memory to that history.          *)
(***************************************************************************)
EXTENDS HoldGestures, SequenceTheorems, TLAPS

\* An age stays one, and neither shrinks nor falls below what it had reached.
LEMMA LaterProperties ==
  ASSUME NEW age \in Age, NEW d \in 1 .. MaxStep
  PROVE  /\ Later(age, d) \in Age
         /\ Later(age, d) >= age
BY HoldAssumption DEF Later, Age, MaxAge

\* MaxAge is an age, and one at which every hold is over.
LEMMA MaxAgeProperties == MaxAge \in Age /\ 0 \in Age /\ MaxAge \in Nat /\ MaxAge >= kHoldMs
BY HoldAssumption DEF Age, MaxAge

\* classifyRelease() leaves the count of clicks below a full gesture.
LEMMA ClassifyProperties ==
  ASSUME Coherent, NEW first \in Age, NEW at \in Age, Classify(first, at)
  PROVE  /\ releasing' = FALSE
         /\ clicks' \in 0 .. kClicksForScreen - 1
         /\ firstAge' \in Age
         /\ event' \in {"None", "TripleClick"}
<1>1. PICK count \in Nat :
        /\ clicks' = IF count >= kClicksForScreen THEN 0 ELSE count
        /\ event' = IF count >= kClicksForScreen THEN "TripleClick" ELSE "None"
  <2>1. clicks \in Nat
    BY HoldAssumption DEF Coherent, TypeOK
  <2> DEFINE n == IF LongPress THEN 0 ELSE IF StartsSequence(first, at) THEN 1 ELSE clicks + 1
  <2>2. n \in Nat
    BY <2>1
  <2> HIDE DEF n
  <2>3. /\ clicks' = IF n >= kClicksForScreen THEN 0 ELSE n
        /\ event' = IF n >= kClicksForScreen THEN "TripleClick" ELSE "None"
    BY DEF Classify, n
  <2> QED
    BY <2>2, <2>3
<1>2. clicks' \in 0 .. kClicksForScreen - 1
  <2>1. CASE count >= kClicksForScreen
    <3>1. clicks' = 0
      BY <1>1, <2>1
    <3> QED
      BY <3>1, HoldAssumption
  <2>2. CASE ~(count >= kClicksForScreen)
    <3>1. clicks' = count
      BY <1>1, <2>2
    <3> QED
      BY <3>1, <2>2, HoldAssumption
  <2> QED
    BY <2>1, <2>2
<1>3. firstAge' \in Age /\ releasing' = FALSE
  BY DEF Classify
<1>4. event' \in {"None", "TripleClick"}
  BY <1>1
<1> QED
  BY <1>2, <1>3, <1>4

\* While the button is down a hold is remembered only once it is over.
LEMMA HoldOrNotProperties ==
  ASSUME Coherent, NEW d \in 1 .. MaxStep, HoldOrNot(Later(pressAge, d), d)
  PROVE  /\ pressAge' \in Age /\ firstAge' \in Age
         /\ fired' \in BOOLEAN /\ clicks' \in 0 .. kClicksForScreen - 1
         /\ event' \in {"None", "Hold"}
         /\ fired' => clicks' = 0 /\ pressAge' >= kHoldMs
<1> DEFINE age == Later(pressAge, d)
<1>1. age \in Age /\ age >= pressAge /\ Later(firstAge, d) \in Age
  BY LaterProperties DEF Coherent, TypeOK
<1>2. pressAge' = age /\ firstAge' = Later(firstAge, d)
  BY DEF HoldOrNot
<1>3. age \in Int /\ pressAge \in Int /\ kHoldMs \in Int /\ 0 \in 0 .. kClicksForScreen - 1
  BY <1>1, MaxAgeProperties, HoldAssumption DEF Age, Coherent, TypeOK
<1>4. CASE ~fired /\ age >= kHoldMs
  <2>1. fired' = TRUE /\ clicks' = 0 /\ event' = "Hold"
    BY <1>4 DEF HoldOrNot
  <2> QED
    BY <1>1, <1>2, <1>3, <1>4, <2>1
<1>5. CASE ~(~fired /\ age >= kHoldMs)
  <2>1. fired' = fired /\ clicks' = clicks /\ event' = "None"
    BY <1>5 DEF HoldOrNot
  <2>2. fired => clicks = 0 /\ pressAge >= kHoldMs
    BY DEF Coherent
  <2>3. fired \in BOOLEAN /\ clicks \in 0 .. kClicksForScreen - 1
    BY DEF Coherent, TypeOK
  <2>4. fired => age >= kHoldMs
    BY <1>1, <1>3, <2>2
  <2> HIDE DEF age
  <2> QED
    BY <1>1, <1>2, <2>1, <2>2, <2>3, <2>4
<1> QED
  BY <1>4, <1>5

\* The detector starts with nothing remembered.
LEMMA InitCoherent == Init => Coherent
<1> SUFFICES ASSUME Init PROVE Coherent
  OBVIOUS
<1>1. 0 \in 0 .. kClicksForScreen - 1
  BY HoldAssumption
<1>2. TypeOK
  BY <1>1, MaxAgeProperties DEF Init, TypeOK
<1> QED
  BY <1>2 DEF Init, Coherent

\* Every sample, down or up, keeps the detector's memory consistent.
LEMMA StepCoherent ==
  ASSUME Coherent, [Next]_vars
  PROVE  Coherent'
<1>1. ASSUME NEW d \in 1 .. MaxStep, Held(d)
      PROVE  Coherent'
  <2>1. /\ pressed' = TRUE /\ releasing' = FALSE /\ lastPressMs' = lastPressMs
        /\ releaseAge' \in Age
    BY <1>1, LaterProperties DEF Held, Coherent, TypeOK
  <2>2. HoldOrNot(Later(pressAge, d), d)
    BY <1>1 DEF Held
  <2> QED
    BY <2>1, <2>2, HoldOrNotProperties DEF Coherent, TypeOK
<1>2. ASSUME NEW d \in 1 .. MaxStep, Bounce(d)
      PROVE  Coherent'
  <2>1. /\ pressed' = TRUE /\ releasing' = FALSE /\ lastPressMs' = lastPressMs
        /\ releaseAge' \in Age
    BY <1>2, LaterProperties DEF Bounce, Coherent, TypeOK
  <2>2. HoldOrNot(Later(pressAge, d), d)
    BY <1>2 DEF Bounce
  <2> QED
    BY <2>1, <2>2, HoldOrNotProperties DEF Coherent, TypeOK
<1>3. ASSUME NEW d \in 1 .. MaxStep, NewPress(d)
      PROVE  Coherent'
  <2>1. /\ pressed' = TRUE /\ fired' = FALSE /\ pressAge' \in Age
        /\ releaseAge' \in Age /\ lastPressMs' \in Age
    BY <1>3, LaterProperties, MaxAgeProperties DEF NewPress, Coherent, TypeOK
  <2>2. Later(firstAge, d) \in Age
    BY LaterProperties DEF Coherent, TypeOK
  <2>3. CASE releasing
    <3> DEFINE at == Later(releaseAge, d) - kDebounceMs
    <3>1. Later(releaseAge, d) \in Age /\ ~(Later(releaseAge, d) < kDebounceMs)
      BY <1>3, <2>3, LaterProperties DEF NewPress, Bouncing, Coherent, TypeOK
    <3>2. at \in Age
      BY <3>1, HoldAssumption DEF Age, MaxAge
    <3>3. Classify(Later(firstAge, d), at)
      BY <1>3, <2>3 DEF NewPress
    <3> HIDE DEF at
    <3> QED
      BY <2>1, <2>2, <3>2, <3>3, ClassifyProperties DEF Coherent, TypeOK
  <2>4. CASE ~releasing
    BY <1>3, <2>1, <2>2, <2>4 DEF NewPress, Coherent, TypeOK
  <2> QED
    BY <2>3, <2>4
<1>4. ASSUME NEW d \in 1 .. MaxStep, Release(d)
      PROVE  Coherent'
  <2>1. /\ Later(pressAge, d) \in Age /\ Later(firstAge, d) \in Age
        /\ Later(pressAge, d) >= pressAge
    BY LaterProperties DEF Coherent, TypeOK
  <2>2. TypeOK'
    BY <1>4, <2>1, MaxAgeProperties DEF Release, Coherent, TypeOK
  <2>3. fired => Later(pressAge, d) >= kHoldMs
    BY <2>1, HoldAssumption DEF Coherent, TypeOK, Age, MaxAge
  <2> QED
    BY <1>4, <2>2, <2>3 DEF Release, Coherent
<1>5. ASSUME NEW d \in 1 .. MaxStep, Confirm(d)
      PROVE  Coherent'
  <2>1. Later(firstAge, d) \in Age /\ Classify(Later(firstAge, d), 0)
    BY <1>5, LaterProperties DEF Confirm, Coherent, TypeOK
  <2>2. /\ pressed' = pressed /\ fired' = FALSE /\ lastPressMs' = lastPressMs
        /\ pressAge' \in Age /\ releaseAge' \in Age
    BY <1>5, LaterProperties DEF Confirm, Coherent, TypeOK
  <2> QED
    BY <2>1, <2>2, ClassifyProperties, MaxAgeProperties DEF Coherent, TypeOK
<1>6. ASSUME NEW d \in 1 .. MaxStep, StillUp(d)
      PROVE  Coherent'
  <2>1. /\ Later(pressAge, d) \in Age /\ Later(firstAge, d) \in Age
        /\ Later(releaseAge, d) \in Age /\ Later(pressAge, d) >= pressAge
    BY LaterProperties DEF Coherent, TypeOK
  <2>2. TypeOK'
    BY <1>6, <2>1 DEF StillUp, Coherent, TypeOK
  <2>3. fired => Later(pressAge, d) >= kHoldMs
    BY <2>1, HoldAssumption DEF Coherent, TypeOK, Age, MaxAge
  <2> QED
    BY <1>6, <2>2, <2>3 DEF StillUp, Coherent
<1>7. CASE UNCHANGED vars
  BY <1>7 DEF vars, Coherent, TypeOK
<1> QED
  BY <1>1, <1>2, <1>3, <1>4, <1>5, <1>6, <1>7 DEF Next, Down, Up

\* However the contact bounces and however late it is sampled, the detector
\* never waits for a release while the button is down, remembers a hold only
\* until its release is confirmed, and only one that lasted the hold time.
THEOREM DetectorCoherent == Spec => []Coherent
<1>1. Init => Coherent
  BY InitCoherent
<1>2. Coherent /\ [Next]_vars => Coherent'
  BY StepCoherent
<1> QED
  BY <1>1, <1>2, PTL DEF Spec

-----------------------------------------------------------------------------
\* The detector and the finger agree: on whether the contact is closed and
\* for how long it has been open, on how long ago the press began until its
\* release is confirmed, and on whether this press was reported.
Follows ==
  /\ open \in Age \cup {Closed} /\ contact \in Age /\ answered \in BOOLEAN
  /\ pressed <=> open = Closed
  /\ releasing => open = releaseAge
  /\ ~pressed /\ ~releasing => open >= kDebounceMs
  /\ pressed \/ releasing => contact = pressAge /\ (answered => fired)

\* A press is over for the finger exactly when it is for the detector.
LEMMA OverProperties ==
  ASSUME Coherent, Follows, NEW d \in 1 .. MaxStep
  PROVE  /\ pressed => ~Over(d)
         /\ releasing => (Over(d) <=> Later(releaseAge, d) >= kDebounceMs)
         /\ ~pressed /\ ~releasing => Over(d)
<1>1. releaseAge \in Age /\ d \in Nat /\ kDebounceMs \in Nat /\ MaxAge >= kDebounceMs /\ MaxAge \in Nat
  BY HoldAssumption DEF Coherent, TypeOK, MaxAge
<1>2. pressed => ~Over(d)
  BY DEF Follows, Over
<1>3. ASSUME releasing
      PROVE  Over(d) <=> Later(releaseAge, d) >= kDebounceMs
  <2>1. open = releaseAge /\ open # Closed
    BY <1>3 DEF Follows, Coherent
  <2> QED
    BY <1>1, <2>1 DEF Over, Later, Age
<1>4. ASSUME ~pressed, ~releasing
      PROVE  Over(d)
  <2>1. open # Closed /\ open \in Age /\ open >= kDebounceMs
    BY <1>4 DEF Follows
  <2> QED
    BY <1>1, <2>1 DEF Over, Age
<1> QED
  BY <1>2, <1>3, <1>4

\* The finger starts having done nothing.
LEMMA InitFollows == HInit => Follows
<1> SUFFICES ASSUME HInit PROVE Follows
  OBVIOUS
<1>1. MaxAge >= kDebounceMs
  BY HoldAssumption DEF MaxAge
<1> QED
  <2>1. open = MaxAge /\ contact = MaxAge /\ answered = FALSE /\ ~pressed /\ ~releasing
    BY DEF HInit, Init
  <2>2. MaxAge # Closed
    BY MaxAgeProperties DEF Closed
  <2> QED
    BY <1>1, <2>1, <2>2, MaxAgeProperties DEF Follows

\* A sample of the closed contact keeps the two in agreement.
LEMMA DownFollows ==
  ASSUME Coherent, Follows, NEW d \in 1 .. MaxStep, SeeDown(d)
  PROVE  Follows'
<1>1. /\ open' = Closed
      /\ contact' = IF Over(d) THEN 0 ELSE Later(contact, d)
      /\ answered' = (event' = "Hold" \/ (answered /\ ~Over(d)))
  BY DEF SeeDown
<1>2. contact' \in Age /\ answered' \in BOOLEAN /\ Later(pressAge, d) \in Age
  BY <1>1, LaterProperties, MaxAgeProperties DEF Follows, Coherent, TypeOK
<1>3. CASE Held(d) \/ Bounce(d)
  <2>1. pressed' = TRUE /\ releasing' = FALSE /\ HoldOrNot(Later(pressAge, d), d)
    BY <1>3 DEF Held, Bounce, Coherent, TypeOK
  <2>2. ~Over(d) /\ (pressed \/ releasing)
    <3>1. CASE Held(d)
      BY <3>1, OverProperties DEF Held
    <3>2. CASE Bounce(d)
      <4>1. releasing /\ Later(releaseAge, d) < kDebounceMs /\ Later(releaseAge, d) \in Age
        BY <3>2, LaterProperties DEF Bounce, Bouncing, Coherent, TypeOK
      <4> QED
        BY <4>1, OverProperties, HoldAssumption DEF Age
    <3> QED
      BY <1>3, <3>1, <3>2
  <2>3. contact' = pressAge'
    BY <1>1, <2>1, <2>2 DEF HoldOrNot, Follows
  <2>4. answered' => fired'
    <3>1. CASE event' = "Hold"
      BY <2>1, <3>1 DEF HoldOrNot
    <3>2. CASE event' # "Hold"
      <4>1. answered' => fired
        BY <1>1, <2>2, <3>2 DEF Follows
      <4>2. fired => fired'
        BY <2>1 DEF HoldOrNot
      <4> QED
        BY <4>1, <4>2
    <3> QED
      BY <3>1, <3>2
  <2> QED
    BY <1>1, <1>2, <2>1, <2>3, <2>4 DEF Follows
<1>4. CASE NewPress(d)
  <2>1. pressed' = TRUE /\ pressAge' = 0 /\ ~pressed /\ ~Bouncing(d)
    BY <1>4 DEF NewPress
  <2>2. releasing' = FALSE /\ event' # "Hold"
    <3>1. CASE releasing
      <4>1. PICK a, b : Classify(a, b)
        BY <1>4, <3>1 DEF NewPress
      <4> QED
        BY <4>1 DEF Classify
    <3>2. CASE ~releasing
      BY <1>4, <3>2 DEF NewPress, Coherent, TypeOK
    <3> QED
      BY <3>1, <3>2
  <2>3. Over(d)
    <3>1. CASE releasing
      <4>1. Later(releaseAge, d) \in Age /\ ~(Later(releaseAge, d) < kDebounceMs)
        BY <2>1, <3>1, LaterProperties DEF Bouncing, Coherent, TypeOK
      <4> QED
        BY <3>1, <4>1, OverProperties, HoldAssumption DEF Age
    <3>2. CASE ~releasing
      BY <2>1, <3>2, OverProperties
    <3> QED
      BY <3>1, <3>2
  <2> QED
    BY <1>1, <1>2, <2>1, <2>2, <2>3 DEF Follows
<1> QED
  BY <1>3, <1>4 DEF SeeDown, Down

\* A sample of the open contact does too.
LEMMA UpFollows ==
  ASSUME Coherent, Follows, NEW d \in 1 .. MaxStep, SeeUp(d)
  PROVE  Follows'
<1>1. /\ open' = IF open = Closed THEN 0 ELSE Later(open, d)
      /\ contact' = Later(contact, d) /\ answered' = answered
  BY DEF SeeUp
<1>2. open' \in Age /\ contact' \in Age /\ answered' \in BOOLEAN /\ open' # Closed
  <2>1. open' \in Age
    BY <1>1, LaterProperties, MaxAgeProperties DEF Follows
  <2> QED
    BY <1>1, <2>1, LaterProperties DEF Follows, Closed, Age
<1>3. CASE Release(d)
  <2>1. open' = 0 /\ pressed' = FALSE /\ releasing' = TRUE /\ releaseAge' = 0
    BY <1>1, <1>3 DEF Release, Follows
  <2>2. contact' = pressAge' /\ (answered' => fired')
    BY <1>1, <1>3 DEF Release, Follows
  <2> QED
    BY <1>2, <2>1, <2>2 DEF Follows
<1>4. CASE Confirm(d)
  <2>1. /\ pressed' = FALSE /\ releasing' = FALSE /\ open = releaseAge /\ open # Closed
        /\ Later(releaseAge, d) >= kDebounceMs
    BY <1>4 DEF Confirm, Classify, Follows, Coherent, TypeOK
  <2> QED
    BY <1>1, <1>2, <2>1 DEF Follows
<1>5. CASE StillUp(d)
  <2>1. pressed' = FALSE /\ releasing' = releasing /\ fired' = fired /\ open # Closed
    BY <1>5 DEF StillUp, Follows, Coherent, TypeOK
  <2>2. releasing' => open' = releaseAge' /\ contact' = pressAge' /\ (answered' => fired')
    BY <1>1, <1>5, <2>1 DEF StillUp, Follows
  <2>3. ~releasing' => open' >= kDebounceMs
    <3>1. ASSUME ~releasing PROVE open \in Age /\ open >= kDebounceMs
      BY <1>5, <2>1, <3>1 DEF StillUp, Follows
    <3>2. ASSUME ~releasing PROVE Later(open, d) \in Age /\ Later(open, d) >= open
      BY <3>1, <3>2, LaterProperties
    <3> QED
      BY <1>1, <2>1, <3>1, <3>2, HoldAssumption DEF Age
  <2> QED
    BY <1>2, <2>1, <2>2, <2>3 DEF Follows
<1> QED
  BY <1>3, <1>4, <1>5 DEF SeeUp, Up

\* Watching the finger leaves the detector as it was.
LEMMA WatchedStep ==
  ASSUME Coherent, Follows, [HNext]_<<vars, historyVars>>
  PROVE  Coherent' /\ Follows'
<1>1. ASSUME NEW d \in 1 .. MaxStep, SeeDown(d)
      PROVE  Coherent' /\ Follows'
  <2>1. [Next]_vars
    BY <1>1 DEF SeeDown, Next
  <2> QED
    BY <1>1, <2>1, StepCoherent, DownFollows
<1>2. ASSUME NEW d \in 1 .. MaxStep, SeeUp(d)
      PROVE  Coherent' /\ Follows'
  <2>1. [Next]_vars
    BY <1>2 DEF SeeUp, Next
  <2> QED
    BY <1>2, <2>1, StepCoherent, UpFollows
<1>3. ASSUME UNCHANGED <<vars, historyVars>>
      PROVE  Coherent' /\ Follows'
  BY <1>3 DEF vars, historyVars, Coherent, TypeOK, Follows
<1> QED
  BY <1>1, <1>2, <1>3 DEF HNext

\* A sample that reports a hold finds the button down for the hold time, and
\* the press not reported before.
LEMMA HoldWarranted ==
  ASSUME Coherent, Follows, NEW d \in 1 .. MaxStep, SeeDown(d) \/ SeeUp(d), event' = "Hold"
  PROVE  contact' >= kHoldMs /\ ~answered
<1>1. /\ SeeDown(d) /\ (Held(d) \/ Bounce(d))
  <2>1. ASSUME NewPress(d) PROVE FALSE
    BY <2>1 DEF NewPress, Classify
  <2>2. ASSUME Up(d) PROVE FALSE
    BY <2>2 DEF Up, Release, Confirm, StillUp, Classify
  <2> QED
    BY <2>1, <2>2 DEF SeeDown, SeeUp, Down
<1>2. HoldOrNot(Later(pressAge, d), d) /\ (pressed \/ releasing)
  BY <1>1 DEF Held, Bounce, Bouncing
<1>3. ~fired /\ pressAge' >= kHoldMs
  BY <1>2 DEF HoldOrNot
<1>4. contact' = pressAge'
  <2>1. Follows' /\ pressed'
    BY <1>1, DownFollows DEF Held, Bounce
  <2> QED
    BY <2>1 DEF Follows
<1> QED
  BY <1>2, <1>3, <1>4 DEF Follows

\* However the contact bounces and however late it is sampled, a hold is only
\* reported of a button that has been down for the hold time, and only once
\* for a press: radio modes are not swapped by a bounce, nor twice.
THEOREM HoldIsEarned == HSpec => HoldEarned
<1>1. HInit => Coherent /\ Follows
  BY InitCoherent, InitFollows DEF HInit
<1>2. Coherent /\ Follows /\ [HNext]_<<vars, historyVars>> => (Coherent /\ Follows)'
  BY WatchedStep
<1>3. Coherent /\ Follows /\ [HNext]_<<vars, historyVars>>
        => [event' = "Hold" => contact' >= kHoldMs /\ ~answered]_<<vars, historyVars>>
  BY HoldWarranted DEF HNext
<1> QED
  BY <1>1, <1>2, <1>3, PTL DEF HSpec, HoldEarned

-----------------------------------------------------------------------------
(* The triple click.  The presses the finger made against the clicks the   *)
(* detector counts and the age of the first of them.                       *)

RecentAge == 0 .. MaxRecent

Ordered(s) == s \in Seq(RecentAge) /\ \A i, j \in DOMAIN s : i <= j => s[j] <= s[i]

\* A press that ended r ago was confirmed f ago: the debounce time later, or
\* at the next sample.
Near(r, f) == f + kDebounceMs <= r /\ (f < MaxAge => r < f + kDebounceMs + MaxStep)

\* The n clicks that are counted are the last n presses, the first of them
\* confirmed f ago; or all that was too long ago for either to tell.
Counted(s, n, f) ==
  \/ n = 0
  \/ s = <<>> /\ f = MaxAge
  \/ n <= Len(s) /\ Near(s[Len(s) - n + 1], f)

Quick(s) == s[1] < MaxRecent /\ s[1] - s[Len(s)] <= kMultiClickWindowMs - MaxStep

\* No press of a quick series goes uncounted, and its last one makes the gesture.
AllCounted(s, n, e) ==
  Len(s) \in 1 .. kClicksForScreen /\ Quick(s) =>
    IF Len(s) = kClicksForScreen THEN e = "TripleClick" ELSE e # "None" \/ n = Len(s)

Recorded ==
  /\ Ordered(recent) /\ \A i \in DOMAIN recent : open <= recent[i]
  /\ releasing => releaseAge < kDebounceMs
  /\ event # "None" => clicks = 0
  /\ Counted(recent, clicks, firstAge) /\ AllCounted(recent, clicks, event)
  /\ TripleEarned

LEMMA Numbers ==
  /\ MaxAge \in Nat /\ MaxStep \in Nat \ {0} /\ MaxRecent \in Nat
  /\ kDebounceMs \in Nat \ {0} /\ kMultiClickWindowMs \in Nat \ {0} /\ kHoldMs \in Nat \ {0}
  /\ kClicksForScreen \in Nat \ {0} /\ kMultiClickWindowMs < kHoldMs
  /\ MaxAge = kHoldMs + MaxStep + kDebounceMs /\ MaxRecent = MaxAge + MaxStep + kDebounceMs
BY HoldAssumption DEF MaxAge, MaxRecent

-----------------------------------------------------------------------------
(* What a sample does to the recent presses.                               *)

Aged(s, d) ==
  [i \in DOMAIN s |-> IF s[i] + d < MaxRecent THEN s[i] + d ELSE MaxRecent]

LEMMA AgedProperties ==
  ASSUME NEW s, Ordered(s), NEW d \in 1 .. MaxStep
  PROVE  /\ Ordered(Aged(s, d)) /\ Len(Aged(s, d)) = Len(s) /\ Len(s) \in Nat
         /\ DOMAIN s = 1 .. Len(s) /\ DOMAIN Aged(s, d) = 1 .. Len(s)
         /\ \A i \in 1 .. Len(s) :
              /\ s[i] \in RecentAge
              /\ Aged(s, d)[i] = IF s[i] + d < MaxRecent THEN s[i] + d ELSE MaxRecent
<1>1. s \in Seq(RecentAge) /\ Len(s) \in Nat /\ DOMAIN s = 1 .. Len(s)
  BY DEF Ordered
<1>2. \A i \in 1 .. Len(s) : s[i] \in RecentAge
  BY <1>1
<1>3. \A i \in 1 .. Len(s) :
        /\ Aged(s, d)[i] = IF s[i] + d < MaxRecent THEN s[i] + d ELSE MaxRecent
        /\ Aged(s, d)[i] \in RecentAge
  BY <1>1, <1>2, Numbers DEF Aged, RecentAge
<1>4. Aged(s, d) = [i \in 1 .. Len(s) |-> Aged(s, d)[i]]
  BY <1>1 DEF Aged
<1>5. Aged(s, d) \in Seq(RecentAge) /\ Len(Aged(s, d)) = Len(s) /\ DOMAIN Aged(s, d) = 1 .. Len(s)
  BY <1>1, <1>3, <1>4
<1>6. ASSUME NEW i \in 1 .. Len(s), NEW j \in 1 .. Len(s), i <= j
      PROVE  Aged(s, d)[j] <= Aged(s, d)[i]
  <2>1. s[j] <= s[i] /\ s[i] \in RecentAge /\ s[j] \in RecentAge
    BY <1>1, <1>2, <1>6 DEF Ordered
  <2> QED
    BY <1>3, <2>1, Numbers DEF RecentAge
<1>7. Ordered(Aged(s, d))
  BY <1>5, <1>6 DEF Ordered
<1> QED
  BY <1>1, <1>2, <1>3, <1>5, <1>7

\* Growing older together leaves a press near its click ...
LEMMA NearLater ==
  ASSUME NEW r \in RecentAge, NEW f \in Age, NEW d \in 1 .. MaxStep, Near(r, f)
  PROVE  Near(IF r + d < MaxRecent THEN r + d ELSE MaxRecent, Later(f, d))
BY Numbers DEF RecentAge, Age, Near, Later

\* ... and the presses counted.
LEMMA CountedLater ==
  ASSUME NEW s, Ordered(s), NEW n \in Nat, NEW f \in Age, NEW d \in 1 .. MaxStep,
         Counted(s, n, f)
  PROVE  Counted(Aged(s, d), n, Later(f, d))
<1>1. CASE n = 0
  BY <1>1 DEF Counted
<1>2. CASE s = <<>> /\ f = MaxAge
  <2>1. Aged(s, d) = <<>>
    BY <1>2, AgedProperties, EmptySeq DEF Ordered
  <2>2. Later(f, d) = MaxAge
    BY <1>2, Numbers DEF Later
  <2> QED
    BY <2>1, <2>2 DEF Counted
<1>3. CASE n # 0 /\ n <= Len(s) /\ Near(s[Len(s) - n + 1], f)
  <2> DEFINE i == Len(s) - n + 1
  <2>1. i \in 1 .. Len(s)
    BY <1>3, AgedProperties
  <2>2. s[i] \in RecentAge /\ Len(Aged(s, d)) = Len(s)
        /\ Aged(s, d)[i] = IF s[i] + d < MaxRecent THEN s[i] + d ELSE MaxRecent
    BY <2>1, AgedProperties
  <2>3. Near(Aged(s, d)[i], Later(f, d))
    BY <1>3, <2>2, NearLater
  <2> QED
    BY <1>3, <2>2, <2>3 DEF Counted
<1> QED
  BY <1>1, <1>2, <1>3 DEF Counted

\* A series that is quick was quick.
LEMMA QuickLater ==
  ASSUME NEW s, Ordered(s), Len(s) # 0, NEW d \in 1 .. MaxStep, Quick(Aged(s, d))
  PROVE  Quick(s) /\ Aged(s, d)[1] = s[1] + d /\ Aged(s, d)[Len(s)] = s[Len(s)] + d
<1>1. /\ Len(s) \in Nat /\ 1 \in 1 .. Len(s) /\ Len(s) \in 1 .. Len(s)
      /\ Len(Aged(s, d)) = Len(s)
  BY AgedProperties
<1>2. /\ s[1] \in RecentAge /\ s[Len(s)] \in RecentAge /\ s[Len(s)] <= s[1]
      /\ Aged(s, d)[1] = IF s[1] + d < MaxRecent THEN s[1] + d ELSE MaxRecent
      /\ Aged(s, d)[Len(s)] = IF s[Len(s)] + d < MaxRecent THEN s[Len(s)] + d ELSE MaxRecent
  BY <1>1, AgedProperties DEF Ordered
<1> QED
  BY <1>1, <1>2, Numbers DEF Quick, RecentAge

\* Forgetting presses that are too long ago, or too many, loses no count.
LEMMA KeepProperties ==
  ASSUME NEW s, Ordered(s), NEW n \in 0 .. kClicksForScreen - 1, NEW f \in Age, NEW e,
         Counted(s, n, f), AllCounted(s, n, e)
  PROVE  /\ Ordered(KeepRecent(s)) /\ Counted(KeepRecent(s), n, f)
         /\ AllCounted(KeepRecent(s), n, e)
         /\ \A x : (\A i \in DOMAIN s : x <= s[i])
                     => \A i \in DOMAIN KeepRecent(s) : x <= KeepRecent(s)[i]
<1>1. s \in Seq(RecentAge) /\ Len(s) \in Nat /\ DOMAIN s = 1 .. Len(s)
  BY DEF Ordered
<1>2. CASE s # <<>> /\ s[Len(s)] = MaxRecent
  <2>1. KeepRecent(s) = <<>>
    BY <1>2 DEF KeepRecent
  <2>2. Ordered(<<>>) /\ Len(<<>>) = 0 /\ DOMAIN <<>> = {}
    BY DEF Ordered
  <2>3. n = 0 \/ f = MaxAge
    <3>1. SUFFICES ASSUME n # 0 PROVE f = MaxAge
      OBVIOUS
    <3> DEFINE i == Len(s) - n + 1
    <3>2. n <= Len(s) /\ Near(s[i], f)
      BY <1>2, <3>1 DEF Counted
    <3>3. i \in 1 .. Len(s) /\ Len(s) \in 1 .. Len(s) /\ i <= Len(s)
      BY <1>1, <3>1, <3>2, Numbers
    <3>4. MaxRecent <= s[i] /\ s[i] \in RecentAge
      BY <1>1, <1>2, <3>3 DEF Ordered
    <3> HIDE DEF i
    <3> QED
      BY <3>2, <3>4, Numbers DEF Near, RecentAge, Age
  <2> QED
    BY <2>1, <2>2, <2>3 DEF Counted, AllCounted
<1>3. CASE ~(s # <<>> /\ s[Len(s)] = MaxRecent) /\ Len(s) > kClicksForScreen + 1
  <2>1. KeepRecent(s) = Tail(s)
    BY <1>3 DEF KeepRecent
  <2>2. /\ Tail(s) \in Seq(RecentAge) /\ Len(Tail(s)) = Len(s) - 1
        /\ \A i \in 1 .. Len(s) - 1 : Tail(s)[i] = s[i + 1]
        /\ DOMAIN Tail(s) = 1 .. Len(s) - 1
    BY <1>1, <1>3, Numbers, HeadTailProperties, EmptySeq
  <2>3. Ordered(Tail(s))
    BY <1>1, <2>2 DEF Ordered
  <2>4. Counted(Tail(s), n, f)
    <3>1. SUFFICES ASSUME n # 0 PROVE n <= Len(Tail(s)) /\ Near(Tail(s)[Len(Tail(s)) - n + 1], f)
      BY DEF Counted
    <3>2. Near(s[Len(s) - n + 1], f)
      BY <1>3, <3>1, Numbers DEF Counted
    <3>3. Len(s) - n \in 1 .. Len(s) - 1 /\ n <= Len(Tail(s))
      BY <1>1, <1>3, <2>2, <3>1, Numbers
    <3>4. Tail(s)[Len(s) - n] = s[Len(s) - n + 1] /\ Len(Tail(s)) - n + 1 = Len(s) - n
      BY <1>1, <2>2, <3>3, Numbers
    <3> QED
      BY <3>2, <3>3, <3>4
  <2>5. AllCounted(Tail(s), n, e)
    <3>1. ~(Len(Tail(s)) \in 1 .. kClicksForScreen)
      BY <1>1, <1>3, <2>2, Numbers
    <3> QED
      BY <3>1 DEF AllCounted
  <2>6. ASSUME NEW x, \A i \in DOMAIN s : x <= s[i]
        PROVE  \A i \in DOMAIN Tail(s) : x <= Tail(s)[i]
    BY <1>1, <2>2, <2>6
  <2> QED
    BY <2>1, <2>3, <2>4, <2>5, <2>6
<1>4. CASE KeepRecent(s) = s
  BY <1>4
<1> QED
  BY <1>2, <1>3, <1>4 DEF KeepRecent

-----------------------------------------------------------------------------
(* The two kinds of sample: one that ends no press, and one that finds a   *)
(* press over, whose end it classifies.                                    *)

Quiet(d) ==
  /\ recent' = KeepRecent(Older(d))
  /\ firstAge' = Later(firstAge, d)
  /\ \/ event' = "None" /\ clicks' = clicks
     \/ event' = "Hold" /\ clicks' = 0

Finished(d, at) ==
  /\ Classify(Later(firstAge, d), at)
  /\ recent' = KeepRecent(IF LongPress THEN <<>> ELSE Append(Older(d), open + d))
  /\ open \in Age /\ at < MaxStep /\ Near(open + d, at)

\* A release that is waited for was sampled within the debounce time, so it
\* is confirmed at the first sample after that, or as of its end.
LEMMA ConfirmedInTime ==
  ASSUME Coherent, Follows, Recorded, NEW d \in 1 .. MaxStep, releasing,
         Later(releaseAge, d) >= kDebounceMs
  PROVE  /\ Over(d) /\ open \in Age /\ Near(open + d, 0)
         /\ Later(releaseAge, d) - kDebounceMs \in Age
         /\ Later(releaseAge, d) - kDebounceMs < MaxStep
         /\ Near(open + d, Later(releaseAge, d) - kDebounceMs)
<1>1. Over(d) /\ open = releaseAge /\ releaseAge \in Age /\ releaseAge < kDebounceMs
  BY OverProperties DEF Follows, Recorded, Coherent, TypeOK
<1>2. Later(releaseAge, d) = releaseAge + d
  BY <1>1, Numbers DEF Later, Age
<1> QED
  BY <1>1, <1>2, Numbers DEF Age, Near

LEMMA DownKinds ==
  ASSUME Coherent, Follows, Recorded, NEW d \in 1 .. MaxStep, SeeDown(d)
  PROVE  /\ Quiet(d) \/ \E at \in Age : Finished(d, at)
         /\ releasing' = FALSE
<1>1. recent' = KeepRecent(WithPress(d)) /\ Down(d)
  BY DEF SeeDown
<1>2. CASE Held(d) \/ Bounce(d)
  <2>1. HoldOrNot(Later(pressAge, d), d) /\ releasing' = FALSE
    BY <1>2 DEF Held, Bounce, Coherent, TypeOK
  <2>2. ~(releasing /\ Over(d))
    <3>1. CASE Held(d)
      BY <3>1, OverProperties DEF Held
    <3>2. CASE Bounce(d)
      <4>1. releasing /\ Later(releaseAge, d) < kDebounceMs /\ Later(releaseAge, d) \in Age
        BY <3>2, LaterProperties DEF Bounce, Bouncing, Coherent, TypeOK
      <4> QED
        BY <4>1, OverProperties, HoldAssumption DEF Age
    <3> QED
      BY <1>2, <3>1, <3>2
  <2>3. Quiet(d)
    BY <1>1, <2>1, <2>2 DEF HoldOrNot, WithPress, Quiet
  <2> QED
    BY <2>1, <2>3
<1>3. CASE NewPress(d) /\ releasing
  <2> DEFINE at == Later(releaseAge, d) - kDebounceMs
  <2>1. Classify(Later(firstAge, d), at)
    BY <1>3 DEF NewPress
  <2>2. Later(releaseAge, d) >= kDebounceMs
    <3>1. Later(releaseAge, d) \in Age /\ ~(Later(releaseAge, d) < kDebounceMs)
      BY <1>3, LaterProperties DEF NewPress, Bouncing, Coherent, TypeOK
    <3> QED
      BY <3>1, Numbers DEF Age
  <2>3. Over(d) /\ open \in Age /\ at \in Age /\ at < MaxStep /\ Near(open + d, at)
    BY <1>3, <2>2, ConfirmedInTime
  <2> HIDE DEF at
  <2>4. Finished(d, at)
    BY <1>1, <1>3, <2>1, <2>3 DEF WithPress, Finished
  <2> QED
    BY <2>1, <2>3, <2>4 DEF Classify
<1>4. CASE NewPress(d) /\ ~releasing
  <2>1. /\ event' = "None" /\ firstAge' = Later(firstAge, d) /\ clicks' = clicks
        /\ releasing' = FALSE
    BY <1>4 DEF NewPress, Coherent, TypeOK
  <2> QED
    BY <1>1, <1>4, <2>1 DEF WithPress, Quiet
<1> QED
  BY <1>1, <1>2, <1>3, <1>4 DEF Down

LEMMA UpKinds ==
  ASSUME Coherent, Follows, Recorded, NEW d \in 1 .. MaxStep, SeeUp(d)
  PROVE  /\ Quiet(d) \/ \E at \in Age : Finished(d, at)
         /\ releasing' => releaseAge' < kDebounceMs
<1>1. recent' = KeepRecent(WithPress(d)) /\ Up(d)
  BY DEF SeeUp
<1>2. CASE Release(d)
  <2>1. /\ event' = "None" /\ firstAge' = Later(firstAge, d) /\ clicks' = clicks
        /\ ~releasing /\ releaseAge' = 0
    BY <1>2 DEF Release, Coherent
  <2> QED
    BY <1>1, <2>1, Numbers DEF WithPress, Quiet
<1>3. CASE Confirm(d)
  <2>1. Classify(Later(firstAge, d), 0) /\ releasing /\ Later(releaseAge, d) >= kDebounceMs
    BY <1>3 DEF Confirm
  <2>2. Over(d) /\ open \in Age /\ Near(open + d, 0)
    BY <2>1, ConfirmedInTime
  <2>3. Finished(d, 0) /\ 0 \in Age
    BY <1>1, <2>1, <2>2, Numbers DEF WithPress, Finished, Age
  <2> QED
    BY <2>1, <2>3 DEF Classify
<1>4. CASE StillUp(d)
  <2>1. /\ event' = "None" /\ firstAge' = Later(firstAge, d) /\ clicks' = clicks
        /\ releasing' = releasing /\ releaseAge' = Later(releaseAge, d)
        /\ releasing => Later(releaseAge, d) < kDebounceMs
    BY <1>4 DEF StillUp
  <2>2. ~(releasing /\ Over(d))
    <3>1. Later(releaseAge, d) \in Age
      BY LaterProperties DEF Coherent, TypeOK
    <3> QED
      BY <2>1, <3>1, OverProperties, Numbers DEF Age
  <2> QED
    BY <1>1, <2>1, <2>2 DEF WithPress, Quiet
<1> QED
  BY <1>1, <1>2, <1>3, <1>4 DEF Up

\* What the presses are before this sample adds one.
LEMMA OlderProperties ==
  ASSUME Coherent, Follows, Recorded, NEW d \in 1 .. MaxStep
  PROVE  /\ Ordered(Older(d)) /\ Counted(Older(d), clicks, Later(firstAge, d))
         /\ AllCounted(Older(d), clicks, "None")
         /\ \A i \in DOMAIN Older(d) : open + d <= Older(d)[i]
         /\ Later(firstAge, d) \in Age
<1>1. /\ Ordered(recent) /\ Counted(recent, clicks, firstAge) /\ AllCounted(recent, clicks, event)
      /\ clicks \in Nat /\ firstAge \in Age /\ open \in Age \cup {Closed}
      /\ \A i \in DOMAIN recent : open <= recent[i]
  BY DEF Recorded, Coherent, TypeOK, Follows
<1>2. Later(firstAge, d) \in Age
  BY <1>1, LaterProperties
<1>3. CASE event # "None"
  <2>1. Older(d) = <<>> /\ clicks = 0
    BY <1>3 DEF Older, Recorded
  <2>2. Ordered(<<>>) /\ Len(<<>>) = 0 /\ DOMAIN <<>> = {}
    BY DEF Ordered
  <2> QED
    BY <1>2, <2>1, <2>2 DEF Counted, AllCounted
<1>4. CASE event = "None"
  <2>1. Older(d) = Aged(recent, d)
    BY <1>4 DEF Older, Aged
  <2>2. Ordered(Aged(recent, d)) /\ Counted(Aged(recent, d), clicks, Later(firstAge, d))
    BY <1>1, AgedProperties, CountedLater
  <2>3. AllCounted(Aged(recent, d), clicks, "None")
    <3>1. SUFFICES ASSUME Len(recent) \in 1 .. kClicksForScreen, Quick(Aged(recent, d))
                   PROVE  Len(recent) # kClicksForScreen /\ clicks = Len(recent)
      BY <1>1, AgedProperties DEF AllCounted
    <3>2. Quick(recent)
      BY <1>1, <3>1, QuickLater
    <3> QED
      BY <1>1, <1>4, <3>1, <3>2 DEF AllCounted
  <2>4. ASSUME NEW i \in DOMAIN Aged(recent, d)
        PROVE  open + d <= Aged(recent, d)[i]
    <3>1. /\ i \in DOMAIN recent /\ recent[i] \in RecentAge
          /\ Aged(recent, d)[i] = IF recent[i] + d < MaxRecent THEN recent[i] + d ELSE MaxRecent
      BY <1>1, <2>4, AgedProperties
    <3>2. open <= recent[i]
      BY <1>1, <3>1
    <3> QED
      BY <1>1, <3>1, <3>2, Numbers DEF RecentAge, Age, Closed
  <2> QED
    BY <1>2, <2>1, <2>2, <2>3, <2>4
<1> QED
  BY <1>3, <1>4

LEMMA QuietRecorded ==
  ASSUME Coherent, Follows, Recorded, Coherent', NEW d \in 1 .. MaxStep, Quiet(d),
         open' <= open + d, open' \in Int, releasing' => releaseAge' < kDebounceMs
  PROVE  Recorded'
<1> DEFINE s == Older(d)
<1>1. /\ Ordered(s) /\ Counted(s, clicks, firstAge') /\ AllCounted(s, clicks, "None")
      /\ \A i \in DOMAIN s : open + d <= s[i]
      /\ firstAge' \in Age /\ recent' = KeepRecent(s)
  BY OlderProperties DEF Quiet
<1>2. clicks' \in 0 .. kClicksForScreen - 1
  BY DEF Coherent, TypeOK
<1> HIDE DEF s
<1>3. Counted(s, clicks', firstAge') /\ AllCounted(s, clicks', event')
  <2>1. CASE event' = "None" /\ clicks' = clicks
    BY <1>1, <2>1
  <2>2. CASE event' = "Hold" /\ clicks' = 0
    BY <1>1, <2>2 DEF Counted, AllCounted
  <2> QED
    BY <2>1, <2>2 DEF Quiet
<1>4. \A i \in DOMAIN s : open' <= s[i]
  <2>1. SUFFICES ASSUME NEW i \in DOMAIN s PROVE open' <= s[i]
    OBVIOUS
  <2>2. s[i] \in Int /\ open + d <= s[i]
    BY <1>1, Numbers DEF Ordered, RecentAge
  <2> QED
    BY <2>2 DEF Follows, Age, Closed
<1>5. /\ Ordered(recent') /\ Counted(recent', clicks', firstAge')
      /\ AllCounted(recent', clicks', event') /\ \A i \in DOMAIN recent' : open' <= recent'[i]
  BY <1>1, <1>2, <1>3, <1>4, KeepProperties
<1>6. TripleEarned' /\ (event' # "None" => clicks' = 0)
  BY DEF Quiet, TripleEarned
<1> QED
  BY <1>5, <1>6 DEF Recorded

\* A short press goes onto the presses, and is counted if they are quick.
LEMMA ShortRecorded ==
  ASSUME Coherent, Follows, Recorded, Coherent', NEW d \in 1 .. MaxStep, NEW at \in Age,
         Finished(d, at), ~LongPress,
         open' <= open + d, open' \in Int, ~releasing'
  PROVE  Recorded'
<1> DEFINE o == Older(d)
           L == open + d
           s == Append(o, L)
           F == Later(firstAge, d)
           starts == StartsSequence(F, at)
           count == IF starts THEN 1 ELSE clicks + 1
           k == kClicksForScreen
<1>1. /\ Ordered(o) /\ Counted(o, clicks, F) /\ AllCounted(o, clicks, "None")
      /\ \A i \in DOMAIN o : L <= o[i]
      /\ F \in Age /\ recent' = KeepRecent(s)
  BY OlderProperties DEF Finished
<1>2. /\ L \in Nat /\ L <= MaxAge + MaxStep /\ L \in RecentAge /\ L < MaxRecent
      /\ Near(L, at) /\ at < MaxStep /\ open' <= L
  <2>1. open \in Age /\ Near(L, at) /\ at < MaxStep
    BY DEF Finished
  <2> QED
    BY <2>1, Numbers DEF Age, RecentAge
<1>3. /\ clicks' = IF count >= k THEN 0 ELSE count
      /\ event' = IF count >= k THEN "TripleClick" ELSE "None"
      /\ firstAge' = IF starts THEN at ELSE F
  BY DEF Finished, Classify
<1>4. clicks \in 0 .. k - 1 /\ k \in Nat \ {0} /\ count \in 1 .. k /\ firstAge' \in Age
      /\ clicks' \in 0 .. k - 1 /\ (starts <=> clicks = 0 \/ F - at > kMultiClickWindowMs)
  <2>1. clicks \in 0 .. k - 1 /\ firstAge' \in Age /\ clicks' \in 0 .. k - 1
    BY DEF Coherent, TypeOK
  <2> QED
    BY <2>1, Numbers DEF StartsSequence
<1> HIDE DEF L, o, F, starts
<1>5. /\ s \in Seq(RecentAge) /\ Len(s) = Len(o) + 1 /\ Len(o) \in Nat
      /\ DOMAIN s = 1 .. Len(o) + 1 /\ DOMAIN o = 1 .. Len(o)
      /\ \A i \in 1 .. Len(o) : s[i] = o[i] /\ o[i] \in RecentAge
      /\ s[Len(o) + 1] = L
  <2>1. o \in Seq(RecentAge)
    BY <1>1 DEF Ordered
  <2> QED
    BY <1>2, <2>1, AppendProperties
<1> HIDE DEF s, count
<1>6. Ordered(s) /\ \A i \in DOMAIN s : open' <= s[i]
  <2>1. ASSUME NEW i \in 1 .. Len(o) + 1, NEW j \in 1 .. Len(o) + 1, i <= j
        PROVE  s[j] <= s[i]
    <3>1. CASE j = Len(o) + 1 /\ i # j
      BY <1>1, <1>5, <2>1, <3>1
    <3>2. CASE j # Len(o) + 1
      BY <1>1, <1>5, <2>1, <3>2 DEF Ordered
    <3>3. CASE i = j
      BY <1>2, <1>5, <3>3, Numbers DEF RecentAge
    <3> QED
      BY <3>1, <3>2, <3>3
  <2>2. ASSUME NEW i \in 1 .. Len(o) + 1
        PROVE  open' <= s[i]
    <3>1. CASE i = Len(o) + 1
      BY <1>2, <1>5, <3>1
    <3>2. CASE i # Len(o) + 1
      <4>1. i \in 1 .. Len(o)
        BY <1>5, <3>2
      <4>2. s[i] = o[i] /\ o[i] \in RecentAge
        BY <1>5, <4>1
      <4>3. L <= o[i]
        BY <1>1, <1>5, <4>1
      <4> QED
        BY <1>2, <4>2, <4>3, Numbers DEF RecentAge
    <3> QED
      BY <3>1, <3>2
  <2> QED
    BY <1>5, <2>1, <2>2 DEF Ordered
\* A press that joins a sequence is the next after those that are counted.
<1>7. ASSUME ~starts
      PROVE  /\ clicks # 0 /\ clicks <= Len(o) /\ count = clicks + 1
             /\ Len(o) - clicks + 1 \in 1 .. Len(o)
             /\ Near(o[Len(o) - clicks + 1], F) /\ F < MaxAge /\ F - at <= kMultiClickWindowMs
  <2>1. clicks # 0 /\ F - at <= kMultiClickWindowMs /\ count = clicks + 1
    BY <1>1, <1>4, <1>7, Numbers DEF count, Age
  <2>2. F < MaxAge
    BY <1>1, <1>2, <2>1, Numbers DEF Age
  <2>3. clicks <= Len(o) /\ Near(o[Len(o) - clicks + 1], F)
    BY <1>1, <2>1, <2>2, Numbers DEF Counted
  <2> QED
    BY <1>4, <1>5, <2>1, <2>2, <2>3
<1>8. Counted(s, clicks', firstAge')
  <2>1. CASE starts
    <3>1. count = 1 /\ firstAge' = at
      BY <1>3, <2>1 DEF count
    <3>2. CASE clicks' = 0
      BY <3>2 DEF Counted
    <3>3. CASE clicks' = 1
      BY <1>2, <1>5, <3>1, <3>3 DEF Counted
    <3> QED
      BY <1>3, <3>1, <3>2, <3>3
  <2>2. CASE ~starts
    <3>1. firstAge' = F /\ s[Len(o) - clicks + 1] = o[Len(o) - clicks + 1]
      BY <1>3, <1>5, <1>7, <2>2
    <3>2. CASE clicks' = 0
      BY <3>2 DEF Counted
    <3>3. CASE clicks' = clicks + 1
      <4>1. Len(s) - clicks' + 1 = Len(o) - clicks + 1 /\ clicks' <= Len(s)
        BY <1>4, <1>5, <1>7, <2>2, <3>3
      <4> QED
        BY <1>7, <2>2, <3>1, <4>1 DEF Counted
    <3> QED
      BY <1>3, <1>7, <2>2, <3>2, <3>3
  <2> QED
    BY <2>1, <2>2
<1>9. AllCounted(s, clicks', event')
  <2>1. SUFFICES ASSUME Len(o) + 1 <= k, Quick(s)
                 PROVE  count = Len(o) + 1
    <3>1. ASSUME count = Len(o) + 1
          PROVE  IF Len(s) = k THEN event' = "TripleClick"
                               ELSE event' # "None" \/ clicks' = Len(s)
      BY <1>3, <1>4, <1>5, <3>1
    <3> QED
      BY <1>4, <1>5, <3>1 DEF AllCounted
  <2>2. CASE Len(o) = 0
    <3>1. starts
      BY <1>7, <1>4, <2>2
    <3> QED
      BY <2>2, <3>1 DEF count
  <2>3. CASE Len(o) # 0
    <3>1. /\ s[1] = o[1] /\ o[1] \in RecentAge /\ o[Len(o)] \in RecentAge /\ L <= o[Len(o)]
          /\ s[Len(s)] = L
      BY <1>1, <1>5, <2>3
    <3>2. o[1] < MaxRecent /\ o[1] - L <= kMultiClickWindowMs - MaxStep
      BY <2>1, <3>1 DEF Quick
    <3>3. Quick(o)
      BY <1>2, <3>1, <3>2, Numbers DEF Quick, RecentAge
    <3>4. clicks = Len(o)
      <4>1. Len(o) \in Nat /\ Len(o) # 0 /\ Len(o) + 1 <= kClicksForScreen
        BY <1>5, <2>1, <2>3
      <4>2. Len(o) \in 1 .. kClicksForScreen /\ Len(o) # kClicksForScreen
        BY <4>1, Numbers
      <4> QED
        BY <1>1, <3>3, <4>2 DEF AllCounted
    <3>5. Near(o[1], F)
      <4>1. o # <<>>
        BY <2>3
      <4>2. Len(o) - clicks + 1 = 1
        BY <1>5, <3>4
      <4> QED
        BY <1>1, <2>3, <3>4, <4>1, <4>2 DEF Counted
    <3>6. ~starts
      <4>1. F - at <= kMultiClickWindowMs
        BY <1>1, <1>2, <3>1, <3>2, <3>5, Numbers DEF Near, Age, RecentAge
      <4> QED
        BY <1>1, <1>4, <2>3, <3>4, <4>1, Numbers DEF Age
    <3> QED
      BY <1>7, <3>4, <3>6
  <2> QED
    BY <2>2, <2>3
<1>10. \/ KeepRecent(s) = s
       \/ Len(s) > k + 1 /\ KeepRecent(s) = Tail(s)
  <2>1. s[Len(s)] # MaxRecent
    <3>1. s[Len(s)] = L
      BY <1>5
    <3> QED
      BY <1>2, <3>1, Numbers
  <2> QED
    BY <2>1 DEF KeepRecent
<1>11. ASSUME count >= k
       PROVE  /\ Len(s) >= k
              /\ s[Len(s) - k + 1] < MaxRecent
              /\ s[Len(s) - k + 1] - s[Len(s)] <= kMultiClickWindowMs + MaxStep
  <2>1. count = k
    BY <1>4, <1>11
  <2>2. CASE starts
    <3>1. k = 1 /\ s[Len(s) - k + 1] = L /\ s[Len(s)] = L
      BY <1>5, <2>1, <2>2 DEF count
    <3> QED
      BY <1>2, <1>5, <3>1, Numbers
  <2>3. CASE ~starts
    <3>1. /\ k = clicks + 1 /\ s[Len(s) - k + 1] = o[Len(o) - clicks + 1] /\ s[Len(s)] = L
          /\ o[Len(o) - clicks + 1] \in RecentAge /\ Len(s) >= k
      BY <1>4, <1>5, <1>7, <2>1, <2>3
    <3> DEFINE r == o[Len(o) - clicks + 1]
    <3>2. r \in RecentAge /\ r < F + kDebounceMs + MaxStep /\ F < MaxAge
          /\ F - at <= kMultiClickWindowMs
      BY <1>7, <2>3, <3>1 DEF Near
    <3> HIDE DEF r
    <3>3. r < MaxRecent /\ r - L <= kMultiClickWindowMs + MaxStep
      BY <1>1, <1>2, <3>2, Numbers DEF Near, Age, RecentAge
    <3> QED
      BY <3>1, <3>3 DEF r
  <2> QED
    BY <2>2, <2>3
<1>12. TripleEarned'
  <2>1. SUFFICES ASSUME event' = "TripleClick"
                 PROVE  LET t == KeepRecent(s) IN
                          /\ Len(t) >= k /\ t[Len(t) - k + 1] < MaxRecent
                          /\ t[Len(t) - k + 1] - t[Len(t)] <= kMultiClickWindowMs + MaxStep
    BY <1>1 DEF TripleEarned, LastWithin
  <2>2. count >= k
    BY <1>3, <2>1
  <2>3. CASE KeepRecent(s) = s
    BY <1>11, <2>2, <2>3
  <2>4. CASE Len(s) > k + 1 /\ KeepRecent(s) = Tail(s)
    <3>1. /\ Len(Tail(s)) = Len(s) - 1
          /\ \A i \in 1 .. Len(s) - 1 : Tail(s)[i] = s[i + 1]
      BY <1>4, <1>5, <2>4, HeadTailProperties, EmptySeq
    <3>2. /\ Len(Tail(s)) >= k
          /\ Tail(s)[Len(Tail(s)) - k + 1] = s[Len(s) - k + 1]
          /\ Tail(s)[Len(Tail(s))] = s[Len(s)]
      <4>1. Len(s) - k \in 1 .. Len(s) - 1 /\ Len(s) - 1 \in 1 .. Len(s) - 1
        BY <1>4, <1>5, <2>4
      <4>2. Tail(s)[Len(s) - k] = s[Len(s) - k + 1] /\ Tail(s)[Len(s) - 1] = s[Len(s)]
        BY <1>4, <1>5, <3>1, <4>1
      <4>3. Len(Tail(s)) - k + 1 = Len(s) - k /\ Len(Tail(s)) >= k
        <5>1. Len(s) \in Nat /\ Len(s) > kClicksForScreen + 1 /\ Len(Tail(s)) = Len(s) - 1
          BY <1>5, <2>4, <3>1
        <5> QED
          BY <5>1, Numbers
      <4> QED
        BY <3>1, <4>2, <4>3
    <3> QED
      BY <1>11, <2>2, <2>4, <3>2
  <2> QED
    BY <1>10, <2>3, <2>4
<1>13. event' # "None" => clicks' = 0
  BY <1>3
<1>14. /\ Ordered(recent') /\ Counted(recent', clicks', firstAge')
       /\ AllCounted(recent', clicks', event') /\ \A i \in DOMAIN recent' : open' <= recent'[i]
  BY <1>1, <1>4, <1>6, <1>8, <1>9, KeepProperties
<1> QED
  BY <1>12, <1>13, <1>14 DEF Recorded

\* A long press clears both sides.
LEMMA LongRecorded ==
  ASSUME Coherent', NEW d \in 1 .. MaxStep, NEW at \in Age, Finished(d, at), LongPress,
         ~releasing'
  PROVE  Recorded'
<1>1. clicks' = 0 /\ event' = "None"
  BY Numbers DEF Finished, Classify
<1>2. recent' = <<>>
  BY DEF Finished, KeepRecent
<1>3. Ordered(<<>>) /\ Len(<<>>) = 0 /\ DOMAIN <<>> = {}
  BY DEF Ordered
<1> QED
  BY <1>1, <1>2, <1>3 DEF Recorded, Counted, AllCounted, TripleEarned

\* Every sample keeps the count and the presses together.
LEMMA RecordedStep ==
  ASSUME Coherent, Follows, Recorded, Coherent', Follows', [HNext]_<<vars, historyVars>>
  PROVE  Recorded'
<1>1. ASSUME NEW d \in 1 .. MaxStep, SeeDown(d) \/ SeeUp(d)
      PROVE  Recorded'
  <2>1. /\ Quiet(d) \/ \E at \in Age : Finished(d, at)
        /\ releasing' => releaseAge' < kDebounceMs
    BY <1>1, DownKinds, UpKinds
  <2>2. open' <= open + d /\ open' \in Int
    BY <1>1, Numbers DEF SeeDown, SeeUp, Later, Follows, Age, Closed
  <2>3. CASE Quiet(d)
    BY <2>1, <2>2, <2>3, QuietRecorded
  <2>4. ASSUME NEW at \in Age, Finished(d, at)
        PROVE  Recorded'
    <3>1. ~releasing'
      BY <2>4 DEF Finished, Classify
    <3> QED
      BY <2>2, <2>4, <3>1, ShortRecorded, LongRecorded
  <2> QED
    BY <2>1, <2>3, <2>4
<1>2. CASE UNCHANGED <<vars, historyVars>>
  BY <1>2 DEF vars, historyVars, Recorded, TripleEarned, LastWithin
<1> QED
  BY <1>1, <1>2 DEF HNext

LEMMA InitRecorded == HInit => Recorded
<1> SUFFICES ASSUME HInit PROVE Recorded
  OBVIOUS
<1>1. recent = <<>> /\ clicks = 0 /\ event = "None" /\ ~releasing
  BY DEF HInit, Init
<1>2. Ordered(<<>>) /\ Len(<<>>) = 0 /\ DOMAIN <<>> = {}
  BY DEF Ordered
<1> QED
  BY <1>1, <1>2 DEF Recorded, Counted, AllCounted, TripleEarned

THEOREM RecordedAlways == HSpec => []Recorded
<1>1. HInit => Coherent /\ Follows /\ Recorded
  BY InitCoherent, InitFollows, InitRecorded DEF HInit
<1>2. Coherent /\ Follows /\ Recorded /\ [HNext]_<<vars, historyVars>>
        => (Coherent /\ Follows /\ Recorded)'
  BY WatchedStep, RecordedStep
<1> QED
  BY <1>1, <1>2, PTL DEF HSpec

\* A triple click is three presses that each ended for good, none of them
\* long, within the window, give or take a sample: the screen is not changed
\* by bounces, nor by presses further apart.
THEOREM TripleIsEarned == HSpec => []TripleEarned
<1>1. Recorded => TripleEarned
  BY DEF Recorded
<1> QED
  BY <1>1, RecordedAlways, PTL

\* Three short presses after a pause, well within the window, are reported,
\* even when no sample falls between two of them.
THEOREM TripleIsReported == HSpec => []TripleReported
<1>1. Recorded => TripleReported
  <2> SUFFICES ASSUME Recorded, Len(recent) = kClicksForScreen,
                      LastWithin(kMultiClickWindowMs - MaxStep)
               PROVE  event = "TripleClick"
    BY DEF TripleReported
  <2>1. Len(recent) - kClicksForScreen + 1 = 1 /\ Len(recent) \in 1 .. kClicksForScreen
    BY Numbers
  <2>2. Quick(recent)
    BY <2>1 DEF LastWithin, Quick
  <2> QED
    BY <2>1, <2>2 DEF Recorded, AllCounted
<1> QED
  BY <1>1, RecordedAlways, PTL
=============================================================================
