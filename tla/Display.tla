------------------------------ MODULE Display -------------------------------
(***************************************************************************)
(* What the panel shows: tick() of OledDisplay and of TftDisplay, one of   *)
(* which a board has.  loop() builds a status in every pass; the panel is  *)
(* redrawn at most once in kMinRedraw and only when something that is      *)
(* drawn has changed.  The TFT also shows the log, which the web server's  *)
(* task writes at any time and loop() between two ticks.  Time is in units *)
(* of half the resolution of holdMs.                                       *)
(***************************************************************************)
EXTENDS LogRing

CONSTANTS
  LoopTask,    \* the task that runs loop(); it logs between its ticks
  kMinRedraw,  \* kMinRedrawIntervalMs
  kHoldStep,   \* the resolution holdMs is compared at: 100 ms
  kSecond,     \* the resolution of uptimeMs
  kHold,       \* HoldDetector::kHoldMs
  Wrap,        \* millis() wraps here
  MaxStep,     \* the longest time between two passes
  MaxEvents    \* bound: presses, releases, changes of a field and lines logged

ASSUME DisplayAssumption ==
  /\ kRows \in Nat \ {0} /\ MaxLines \in Nat /\ Free \notin Tasks
  /\ LoopTask \in Tasks
  /\ {kMinRedraw, kHoldStep, kSecond, kHold, MaxStep} \subseteq Nat \ {0}
  /\ kSecond % kHoldStep = 0 /\ kHold % kHoldStep = 0  \* 1000, 3000 and 100 ms
  /\ MaxEvents \in Nat /\ Wrap \in Nat /\ Wrap > kMinRedraw + MaxStep

VARIABLES
  board,          \* "oled" or "tft"
  now,            \* millis()
  pressed, hold,  \* the button, and HoldDetector::heldMs()
  fields,         \* what else there is to show
  events,         \* bound
  at,             \* where loop() is in tick()
  lastDraw,       \* lastDrawMs_
  everDrawn,      \* drawnOnce_, headerDrawn_
  drawn,          \* drawnStatus_: what the panel was last drawn from
  built,          \* history: the status of the last tick() that was not too early
  seen, console,  \* TftDisplay::tick()'s revision; console_
  drawnRevision,  \* drawnRevision_
  shown           \* the rows on the panel

worldVars == <<board, pressed, fields, events>>
clockVars == <<now, hold>>
panelVars == <<lastDraw, everDrawn, drawn, built>>
consoleVars == <<seen, console, drawnRevision, shown>>
vars == <<logVars, worldVars, clockVars, at, panelVars, consoleVars>>

\* What the header shows besides holdMs, which screen is on, and what there is
\* on each of the two; of the GPS screen the hour and the minute are apart.
Fields == [header : 0 .. 1, screen : {"gps", "can"}, gps : 0 .. 1, clock : 0 .. 1, can : 0 .. 1]

\* buildStatus() at time t, the button having been held for h.
Status(t, h) == [fields |-> fields, hold |-> h, up |-> t \div kSecond]

NoRows == [i \in Slots |-> Blank]

Init ==
  /\ LogInit
  /\ board \in {"oled", "tft"}
  /\ now = 0 /\ pressed = FALSE /\ hold = 0
  /\ fields = [header |-> 0, screen |-> "gps", gps |-> 0, clock |-> 0, can |-> 0]
  /\ events = 0
  /\ at = "pass" /\ lastDraw = 0 /\ everDrawn = FALSE
  /\ drawn = Status(0, 0) /\ built = Status(0, 0)
  /\ seen = 0 /\ console = NoRows /\ drawnRevision = 0 /\ shown = NoRows

-----------------------------------------------------------------------------
(* What is on the panel, and what makes it be redrawn.                     *)

\* The seconds of a hold in progress that are left, rounded up; 0 for none.
Countdown(h) == IF h > 0 /\ h < kHold THEN (kHold - h + kSecond - 1) \div kSecond ELSE 0

\* drawHeader() of the TFT: the header with the countdown, and the uptime.
TftPicture(s) == [countdown |-> Countdown(s.hold), header |-> s.fields.header, up |-> s.up]

\* drawGpsScreen(), with the time of day below the rest, or drawCanScreen().
ScreenPicture(s) ==
  IF s.fields.screen = "gps" THEN <<"gps", s.fields.gps, s.fields.clock>>
                             ELSE <<"can", s.fields.can>>

\* draw() of the OLED: the header with the countdown, and the screen that is on.
OledPicture(s) ==
  [countdown |-> Countdown(s.hold), header |-> s.fields.header, screen |-> ScreenPicture(s)]

Picture(s) == IF board = "tft" THEN TftPicture(s) ELSE OledPicture(s)

\* a is the status of this pass, b the one that was drawn.
TftHeaderDiffers(a, b) ==
  \/ a.fields.header # b.fields.header
  \/ a.hold \div kHoldStep # b.hold \div kHoldStep
  \/ a.up # b.up

OledHeaderDiffers(a, b) ==
  \/ a.fields.header # b.fields.header
  \/ a.hold \div kHoldStep # b.hold \div kHoldStep
  \/ a.fields.screen # b.fields.screen

\* Mutation of ScreenDiffers: the screen that was on is compared, whatever it is.
ScreenDiffersGps(a, b) == a.fields.gps # b.fields.gps

\* gpsScreenDiffers() compares the seconds, which are among `gps`, but neither
\* the hour nor the minute.
ScreenDiffers(a, b) ==
  IF a.fields.screen = "gps" THEN a.fields.gps # b.fields.gps ELSE a.fields.can # b.fields.can

Differs(a, b) ==
  IF board = "tft" THEN TftHeaderDiffers(a, b)
  ELSE OledHeaderDiffers(a, b) \/ ScreenDiffers(a, b)

-----------------------------------------------------------------------------
(* tick()                                                                  *)

\* heldMs() d later; only its buckets matter once the hold has fired.
Held(d) ==
  IF ~pressed THEN 0
  ELSE IF hold + d < kHold THEN hold + d
  ELSE kHold + ((hold + d - kHold) % (2 * kHoldStep))

\* The panel is redrawn at most once in kMinRedraw.
TooEarly(t) == (t - lastDraw) % Wrap < kMinRedraw

\* A pass of loop(), up to the log of a TFT.
Pass(d) ==
  /\ at = "pass" /\ doing[LoopTask] = "idle"
  /\ now' = (now + d) % Wrap /\ hold' = Held(d)
  /\ IF TooEarly(now')
       THEN UNCHANGED <<panelVars, at>>
       ELSE LET s == Status(now', hold')
            IN  /\ lastDraw' = now' /\ built' = s
                /\ drawn' = IF ~everDrawn \/ Differs(s, drawn) THEN s ELSE drawn
                /\ everDrawn' = TRUE
                /\ at' = IF board = "tft" THEN "log" ELSE "pass"
  /\ UNCHANGED <<logVars, worldVars, consoleVars>>

ReadRevision ==
  /\ at = "log"
  /\ seen' = revision
  /\ at' = IF revision # drawnRevision THEN "snapshot" ELSE "pass"
  /\ UNCHANGED <<logVars, worldVars, clockVars, panelVars, console, drawnRevision, shown>>

\* snapshot() waits for the mutex and copies the ring under it.
Snapshot ==
  /\ at = "snapshot" /\ MayTake
  /\ console' = Rows
  /\ at' = "draw"
  /\ UNCHANGED <<logVars, worldVars, clockVars, panelVars, seen, drawnRevision, shown>>

\* Mutation of Remembered: the revision is read once more after drawing.
RememberedLate == revision

Remembered == seen

DrawLog ==
  /\ at = "draw"
  /\ shown' = console /\ drawnRevision' = Remembered
  /\ at' = "pass"
  /\ UNCHANGED <<logVars, worldVars, clockVars, panelVars, seen, console>>

LoopStep == (\E d \in 1 .. MaxStep : Pass(d)) \/ ReadRevision \/ Snapshot \/ DrawLog

-----------------------------------------------------------------------------
(* What goes on meanwhile.                                                 *)

Eventful == events + emitted < MaxEvents

\* An OLED shows no log, so what is logged beside one is left out.
BeginLine(t) ==
  /\ Eventful /\ board = "tft"
  /\ t = LoopTask => at = "pass"
  /\ Format(t)
  /\ UNCHANGED <<worldVars, clockVars, at, panelVars, consoleVars>>

FinishLine(t) == Emit(t) /\ UNCHANGED <<worldVars, clockVars, at, panelVars, consoleVars>>

\* The button goes down or up, or something there is to show changes, between
\* two passes.  A TFT shows neither of the two screens.
World ==
  /\ Eventful /\ at = "pass"
  /\ events' = events + 1
  /\ \/ pressed' = ~pressed /\ hold' = 0 /\ fields' = fields
     \/ /\ \E f \in IF board = "tft" THEN {"header"} ELSE DOMAIN fields :
             fields' \in {g \in Fields : g[f] # fields[f] /\ \A h \in DOMAIN g \ {f} : g[h] = fields[h]}
        /\ UNCHANGED <<pressed, hold>>
  /\ UNCHANGED <<logVars, board, now, at, panelVars, consoleVars>>

Next == LoopStep \/ World \/ \E t \in Tasks : BeginLine(t) \/ FinishLine(t)

Spec == Init /\ [][Next]_vars /\ WF_vars(LoopStep) /\ \A t \in Tasks : WF_vars(FinishLine(t))

-----------------------------------------------------------------------------
TypeOK ==
  /\ now \in 0 .. Wrap - 1 /\ lastDraw \in 0 .. Wrap - 1
  /\ hold \in 0 .. kHold + 2 * kHoldStep - 1
  /\ ~pressed => hold = 0
  /\ fields \in Fields /\ at \in {"pass", "log", "snapshot", "draw"}
  /\ console \in [Slots -> 0 .. MaxLines] /\ shown \in [Slots -> 0 .. MaxLines]
  /\ seen \in 0 .. MaxLines /\ drawnRevision \in 0 .. MaxLines

AtClock(s, c) == [s EXCEPT !.fields.clock = c]

SamePress == (drawn.hold > 0) = (built.hold > 0)

\* Nothing that is drawn freezes but the hour and the minute: after a tick()
\* that was not too early the panel shows the status it was given, although it
\* was not redrawn for what is not visible; only the time of day may be an older
\* one, see DrawnIsCurrent.  The other exception is a press shorter than the
\* resolution holdMs is compared at, see HoldGoes.  OledDisplay.cpp:14-16.
PanelCurrent ==
  /\ TypeOK
  /\ SamePress => Picture(drawn) = Picture(AtClock(built, drawn.fields.clock))

\* A line that is logged while the panel reads and draws the log is shown
\* later: once the tasks are quiet the panel has the latest lines.
ConsoleCatchesUp == <>[](board = "tft" => shown = LatestRows)

\* Stated by OledDisplay.cpp:14-16, as what comparing every drawn field is for:
\* the countdown does not stay on the panel once the button is up.  (It does, on
\* the OLED, when something else made the panel be redrawn in the first 100 ms
\* of the press: 0 and 1 to 99 ms compare equal and are drawn differently.)
HoldGoes == [](hold = 0 /\ ~pressed => <>(pressed \/ Countdown(drawn.hold) = 0))

\* Stated by OledDisplay.cpp:14-16, "a field that IS drawn and omitted here
\* freezes on a stale value": none is omitted, and the panel shows the whole of
\* the status.  (The hour and the minute are drawn at 229-232 and omitted at
\* 22-32: when only they have changed since the fix that was drawn, as when the
\* fixes stop at one second and come back at the same second of another minute,
\* the time stays wrong until something that is compared changes.)
DrawnIsCurrent == SamePress => Picture(drawn) = Picture(built)
=============================================================================
