---------------------------- MODULE HoldGestures ----------------------------
(***************************************************************************)
(* HoldDetector together with what a finger did, as far as the samples     *)
(* show it: history that the detector does not have, against which its     *)
(* gestures are judged.                                                    *)
(***************************************************************************)
EXTENDS HoldDetector, Sequences

VARIABLES
  open,       \* how long the contact has been open, or Closed
  contact,    \* how long ago the press began, bounces left out
  answered,   \* this press has been reported as a hold
  recent      \* how long ago the latest short presses ended, oldest first,
              \* since the last gesture, long press or pause

Closed == -1

historyVars == <<open, contact, answered, recent>>

HInit ==
  /\ Init
  /\ open = MaxAge /\ contact = MaxAge /\ answered = FALSE
  /\ recent = <<>>

\* A press is over once its contact has been open for the debounce time.
Over(d) == open # Closed /\ open + d >= kDebounceMs

\* Ages of presses stop growing here, beyond what any window spans.
MaxRecent == MaxAge + MaxStep + kDebounceMs

Older(d) ==
  IF event # "None" THEN <<>>
  ELSE [i \in DOMAIN recent |-> IF recent[i] + d < MaxRecent THEN recent[i] + d ELSE MaxRecent]

\* The recent presses, with the one that this sample finds over.
WithPress(d) ==
  IF ~(releasing /\ Over(d)) THEN Older(d)
  ELSE IF LongPress THEN <<>>
  ELSE Append(Older(d), open + d)

\* A pause no window spans is forgotten, and so is the fifth press back.
KeepRecent(s) ==
  IF s # <<>> /\ s[Len(s)] = MaxRecent THEN <<>>
  ELSE IF Len(s) > kClicksForScreen + 1 THEN Tail(s) ELSE s

SeeDown(d) ==
  /\ Down(d)
  /\ open' = Closed
  /\ contact' = IF Over(d) THEN 0 ELSE Later(contact, d)
  /\ answered' = (event' = "Hold" \/ (answered /\ ~Over(d)))
  /\ recent' = KeepRecent(WithPress(d))

SeeUp(d) ==
  /\ Up(d)
  /\ open' = IF open = Closed THEN 0 ELSE Later(open, d)
  /\ contact' = Later(contact, d)
  /\ recent' = KeepRecent(WithPress(d))
  /\ UNCHANGED answered

HNext == \E d \in 1 .. MaxStep : SeeDown(d) \/ SeeUp(d)

HSpec == HInit /\ [][HNext]_<<vars, historyVars>>

-----------------------------------------------------------------------------
\* The last kClicksForScreen short presses ended within ms of each other.
LastWithin(ms) ==
  /\ Len(recent) >= kClicksForScreen
  /\ LET first == recent[Len(recent) - kClicksForScreen + 1]
     IN  first < MaxRecent /\ first - recent[Len(recent)] <= ms

\* A hold is reported only of a button that has been down for the hold time,
\* bounces apart, and once for a press.
HoldEarned ==
  [][event' = "Hold" => contact' >= kHoldMs /\ ~answered]_<<vars, historyVars>>

\* A triple click is three presses that each ended for good, none of them
\* long, within the window; late samples stretch it by one step at most.
TripleEarned == event = "TripleClick" => LastWithin(kMultiClickWindowMs + MaxStep)

\* Three short presses after a pause, well within the window, are reported,
\* even when no sample falls between two of them.
TripleReported ==
  Len(recent) = kClicksForScreen /\ LastWithin(kMultiClickWindowMs - MaxStep)
    => event = "TripleClick"

\* Stated by HoldDetector.h:9: a triple click is three short presses inside
\* the window.  (A stray press a little earlier makes the code lose one.)
ThreeAreTriple == LastWithin(kMultiClickWindowMs - MaxStep) => event = "TripleClick"
=============================================================================
