---------------------------- MODULE HoldDetector ----------------------------
(***************************************************************************)
(* The one button's two gestures: HoldDetector turns samples of a bouncing *)
(* contact into a Hold, reported while the button is still down, or a      *)
(* TripleClick.  A step is one call of update().                           *)
(*                                                                         *)
(* The code keeps the times of three events and only ever uses them as     *)
(* nowMs - time; they are kept here as that difference, at the last call.  *)
(* An age stops growing at MaxAge, where every comparison has its answer.  *)
(***************************************************************************)
EXTENDS Integers

CONSTANTS
  kHoldMs, kDebounceMs, kClickMaxMs, kMultiClickWindowMs,
  kClicksForScreen,
  MaxStep    \* the longest time between two samples: loop() may be held up

ASSUME HoldAssumption ==
  /\ {kHoldMs, kDebounceMs, kClickMaxMs, kMultiClickWindowMs} \subseteq Nat \ {0}
  /\ kClickMaxMs < kMultiClickWindowMs /\ kMultiClickWindowMs < kHoldMs
  /\ kClicksForScreen \in Nat \ {0} /\ MaxStep \in Nat \ {0}

MaxAge == kHoldMs + MaxStep + kDebounceMs

Age == 0 .. MaxAge

VARIABLES
  pressed, fired, releasing, clicks,
  pressAge,      \* nowMs - pressStartMs_
  releaseAge,    \* nowMs - releaseStartMs_
  firstAge,      \* nowMs - firstClickMs_
  lastPressMs,
  event          \* what update() returned

vars == <<pressed, fired, releasing, clicks, pressAge, releaseAge, firstAge,
          lastPressMs, event>>

Init ==
  /\ pressed = FALSE /\ fired = FALSE /\ releasing = FALSE /\ clicks = 0
  /\ pressAge = MaxAge /\ releaseAge = MaxAge /\ firstAge = MaxAge
  /\ lastPressMs = 0
  /\ event = "None"

\* An age d milliseconds on.
Later(age, d) == IF age + d < MaxAge THEN age + d ELSE MaxAge

-----------------------------------------------------------------------------
LongPress == lastPressMs >= kClickMaxMs

\* Mutation of StartsSequence: a click too late for the sequence joins it.
StartsSequenceNever(first, at) == clicks = 0

StartsSequence(first, at) == clicks = 0 \/ first - at > kMultiClickWindowMs

\* classifyRelease(), of a release confirmed `at` milliseconds ago; first is
\* the age of the sequence's first click.
Classify(first, at) ==
  /\ releasing' = FALSE
  /\ LET count == IF LongPress THEN 0 ELSE IF StartsSequence(first, at) THEN 1 ELSE clicks + 1
         triple == count >= kClicksForScreen
     IN  /\ clicks' = IF triple THEN 0 ELSE count
         /\ event' = IF triple THEN "TripleClick" ELSE "None"
         /\ firstAge' = IF ~LongPress /\ StartsSequence(first, at) THEN at ELSE first

\* Mutation of HoldOrNot: the hold is reported again at every sample.
HoldAgain(age, d) ==
  /\ pressAge' = age
  /\ firstAge' = Later(firstAge, d)
  /\ IF age >= kHoldMs
       THEN fired' = TRUE /\ clicks' = 0 /\ event' = "Hold"
       ELSE event' = "None" /\ UNCHANGED <<fired, clicks>>

\* Still down: a hold is reported once, and ends a sequence of clicks.
HoldOrNot(age, d) ==
  /\ pressAge' = age
  /\ firstAge' = Later(firstAge, d)
  /\ IF ~fired /\ age >= kHoldMs
       THEN fired' = TRUE /\ clicks' = 0 /\ event' = "Hold"
       ELSE event' = "None" /\ UNCHANGED <<fired, clicks>>

-----------------------------------------------------------------------------
Held(d) ==
  /\ pressed
  /\ HoldOrNot(Later(pressAge, d), d)
  /\ releaseAge' = Later(releaseAge, d)
  /\ UNCHANGED <<pressed, releasing, lastPressMs>>

Bouncing(d) == releasing /\ Later(releaseAge, d) < kDebounceMs

\* Mutation of Bounce: the release is still waited for.
BounceStillReleasing(d) ==
  /\ ~pressed /\ Bouncing(d)
  /\ pressed' = TRUE
  /\ HoldOrNot(Later(pressAge, d), d)
  /\ releaseAge' = Later(releaseAge, d)
  /\ UNCHANGED <<releasing, lastPressMs>>

\* The contact is back too soon: the press never ended.
Bounce(d) ==
  /\ ~pressed /\ Bouncing(d)
  /\ pressed' = TRUE /\ releasing' = FALSE
  /\ HoldOrNot(Later(pressAge, d), d)
  /\ releaseAge' = Later(releaseAge, d)
  /\ UNCHANGED lastPressMs

\* Mutation of NewPress: a release nobody sampled is forgotten.
NewPressDropsClick(d) ==
  /\ ~pressed /\ ~Bouncing(d)
  /\ pressed' = TRUE /\ fired' = FALSE /\ pressAge' = 0
  /\ releaseAge' = Later(releaseAge, d)
  /\ releasing' = FALSE
  /\ event' = "None" /\ firstAge' = Later(firstAge, d)
  /\ UNCHANGED <<clicks, lastPressMs>>

\* A real press; a release nobody sampled to its end is classified first, as
\* of the moment it would have been confirmed.
NewPress(d) ==
  /\ ~pressed /\ ~Bouncing(d)
  /\ pressed' = TRUE /\ fired' = FALSE /\ pressAge' = 0
  /\ releaseAge' = Later(releaseAge, d)
  /\ IF releasing
       THEN Classify(Later(firstAge, d), Later(releaseAge, d) - kDebounceMs)
       ELSE event' = "None" /\ firstAge' = Later(firstAge, d) /\ UNCHANGED <<releasing, clicks>>
  /\ UNCHANGED lastPressMs

\* The contact opens, perhaps to bounce.
Release(d) ==
  /\ pressed
  /\ pressed' = FALSE /\ releasing' = TRUE
  /\ releaseAge' = 0
  /\ lastPressMs' = Later(pressAge, d)
  /\ pressAge' = Later(pressAge, d) /\ firstAge' = Later(firstAge, d)
  /\ event' = "None"
  /\ UNCHANGED <<fired, clicks>>

\* The release has outlasted the debounce window.
Confirm(d) ==
  /\ ~pressed /\ releasing /\ Later(releaseAge, d) >= kDebounceMs
  /\ fired' = FALSE
  /\ Classify(Later(firstAge, d), 0)
  /\ pressAge' = Later(pressAge, d) /\ releaseAge' = Later(releaseAge, d)
  /\ UNCHANGED <<pressed, lastPressMs>>

StillUp(d) ==
  /\ ~pressed /\ (releasing => Later(releaseAge, d) < kDebounceMs)
  /\ event' = "None"
  /\ pressAge' = Later(pressAge, d) /\ releaseAge' = Later(releaseAge, d)
  /\ firstAge' = Later(firstAge, d)
  /\ UNCHANGED <<pressed, fired, releasing, clicks, lastPressMs>>

\* update(down, nowMs), d milliseconds after the last call.
Down(d) == Held(d) \/ Bounce(d) \/ NewPress(d)
Up(d) == Release(d) \/ Confirm(d) \/ StillUp(d)

Next == \E d \in 1 .. MaxStep : Down(d) \/ Up(d)

Spec == Init /\ [][Next]_vars

-----------------------------------------------------------------------------
TypeOK ==
  /\ pressed \in BOOLEAN /\ fired \in BOOLEAN /\ releasing \in BOOLEAN
  /\ clicks \in 0 .. kClicksForScreen - 1
  /\ pressAge \in Age /\ releaseAge \in Age /\ firstAge \in Age
  /\ lastPressMs \in Age
  /\ event \in {"None", "Hold", "TripleClick"}

\* The detector's memory is consistent whatever the contact does: it never
\* waits for a release while the button is down, a hold is remembered only
\* until the release that ends it is confirmed, and a hold has ended the
\* sequence of clicks before it.
Coherent ==
  /\ TypeOK
  /\ releasing => ~pressed
  /\ fired => (pressed \/ releasing) /\ clicks = 0 /\ pressAge >= kHoldMs
=============================================================================
