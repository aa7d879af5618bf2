# teletrack: a TLA+ verification of the firmware

Paths without a directory are under `src/src/`.

teletrack is ESP32 firmware that sends GPS fixes and CAN frames to the
RaceChrono app over BLE, and is configured over a WiFi portal.  Most of it is
small and sequential, and well covered by host tests.  What those tests do not
reach is what happens *between* its parts: `loop()` shares memory with two other
tasks without a lock, all times are unsigned differences of a 32-bit
`millis()`, and every buffer is small and fixed.  This project models these
parts in TLA+, checks them with TLC and proves most of their safety properties
with TLAPS.

## 1. Inventory

### Who runs

| actor | runs | touches |
|---|---|---|
| `loop()` task (core 1) | `main.cpp:397-448`, one pass after another, `delay(1)` at the end | everything except the callbacks |
| NimBLE host task (core 0) | `ServerCallbacks`, `FilterCallbacks` (`ble/BleLink.cpp:56-106`) | `g_connected`, `g_hasConn`, the filter queue's head, log flags |
| web server task (AsyncTCP) | `WebUi`, `ConfigService`, `NvsStore` | `App::settings`, `ConfigPortal`'s rename flag and its time, flash |
| TWAI driver, GPS UART, flash, NimBLE controller | libraries | counters, queues, advertising, connection |
| the world | a client, a finger on the button, a bus, power | |

A pass of `loop()`: act on a pending rename; poll the button (mode switch or
screen); drain the GPS; `pumpCanBus` (apply filter commands, report losses,
judge up to 32 frames, poll lost frames at 10 Hz, roll the statistics window);
then either the portal's tick or, in BLE mode, produce a fix and
`BleLink::tick`.

### Components

| component | state | operations | correct when |
|---|---|---|---|
| Filter command queue (`BleLink.cpp:29-50, 89-106, 265-277`) | slots, lengths, two atomic indices, overflow counter | `onWrite`, `takeFilterCommand` | a bounded FIFO: no slot shared by the tasks, no command torn, lost only when full |
| BLE link (`BleLink.cpp`) | `g_connected`, `g_hasConn`, `connected_`, advertising | callbacks, `begin`, `end`, `tick` | what `loop()` believes catches up; back on the air in BLE mode, silent in WiFi mode |
| Radio mode (`main.cpp:102-132, 397-448`, `radio/RadioMode.*`) | mode, pending switch, portal up | `handle`, `switchComplete`, start, stop | portal and link exclude each other in any order of renames and switches |
| Telemetry ring (`ble/TelemetryRing.*`) | 256 packets, drop counter | `push`, `drain` | holds nothing that no client asked for; oldest lost when full |
| RaceChrono GPS (`ble/RaceChronoGps.*`) | previous hour, sync bits | `updateSyncBits`, encoders | the two characteristics agree on the hour |
| CAN filter (`can/CanFilter.*`) | up to 64 entries, allow-all, default interval, drop counter | `applyCommand`, `shouldNotify` | a frame goes out exactly when the client's commands say so |
| CAN statistics and status (`can/CanStats.*`, `can/BusStatus.*`, `CanBus::takeLost`) | window counters, published rates, driver counters seen | `recordFrame`, `recordLost`, `tick`, `busStatus` | every loss in one window; status warranted by it |
| Settings, save, storage (`config/internal/*`, `config/Settings.*`) | settings in RAM, two keys in flash | `load`, `save`, `applyJson`, `handleSave` | an answered save survives; a refused one leaves no trace |
| Config portal (`config/ConfigPortal.*`) | rename flag, its time | `begin`, `end`, `flagRenamePending` | no rename is lost; the response leaves before the restart |
| Mode button (`radio/HoldDetector.*`) | debounce state, click count, three times | `update` | a hold once per held press; a triple click for three short presses |
| Body of a save (`config/internal/WebUi.*`, `ConfigApi.cpp`) | one buffer, its owner, overflow | `collectBody`, `handleSave`, `applyJson` | never overrun; a body judged as the request that sent it; the answer true |
| UBX parser (`gps/UbxParser.*`) | framing state, sums, 92 bytes | `feed` | resynchronises; takes exactly the whole, right messages |
| GPS receiver (`gps/GpsReceiver.*`, `main.cpp:114-123`) | baud, rate, present | `begin`, `tick` | finds the module wherever the last run left it, and configures it |
| Log (`core/Log.*`, `core/LogRing.*`) | ring of 20 lines behind a mutex, revision | `emit`, `append`, `row`, `snapshot` | the rows are the latest lines, in order |
| Display (`ui/*`) | what was last drawn and when, a copy of the log | `tick` | nothing that is drawn freezes; no line is missed |
| PMU, web page, tools | | | not modelled, see section 7 |

### What is hard to test here

Every hazard is listed at its line in `PROJECT.json`.  In groups:

* **Interleaving of tasks**: the queue's slots; `end()` against `onConnect` and
  `onDisconnect`; the rename flag raised before its time is written; settings
  overwritten in place while a radio reads its name.
* **Stale copies**: `connected_` is one pass old when a fix is published; the
  loss counters are reset between two reports; a disconnection completes after
  the mode it belonged to.
* **Unsigned time**: windows, intervals, debounce and the flush delay across the
  wrap of `millis()`, and a time stamped later than the `now` it is compared to.
* **Limits**: queue, filter table, statistics polls, truncated rates.
* **Partial failure and power loss**: two flash keys written one after the
  other; a radio that does not start; a driver that does not answer.
* **Sequences of gestures**: bounces, unsampled releases, stray clicks.
* **Bytes and pieces that are not what they seem**: a length read from the
  middle of a broken message, a body whose pieces alternate with another's, a
  request at the address of one that is gone.
* **A device with a memory of its own**: the GPS module keeps half of a
  configuration through a reset of the firmware, and refuses what does not fit
  the other half.

## 2. Modules

| module | models | abstract specification |
|---|---|---|
| `BoundedFifo` | (specification) a queue that loses what comes when it is full | |
| `FilterQueue` | the queue, one memory access per step | implements `BoundedFifo` |
| `FilterQueueProofs` | its invariants and its refinement, proved | |
| `BleLink` | NimBLE stack, callbacks, `begin`, `end`, `tick` | |
| `RadioLoop` | a pass of `loop()` for the radios; EXTENDS `BleLink` | |
| `RadioLoopProofs` | its invariants, proved | |
| `FilterPolicy` | (specification) which frames a client asked for, in terms of ages | |
| `CanFilter` | the table: entries, timestamps, `applyCommand`, `shouldNotify` | |
| `CanPump` | `pumpCanBus`: queue, filter, reports; EXTENDS `CanFilter` | implements `FilterPolicy`; takes its queue from `BoundedFifo`'s promise |
| `CanPumpProofs` | the filter table, the order of commands and frames, and that the filter keeps its policy, proved | `ImplementsPolicy` for all constants |
| `CanHealth` | driver counters, polls, windows, rates, status | |
| `CanHealthProofs` | its invariants, proved | |
| `ConfigSave` | `handleSave` to flash, rename flag, restart, power failure | |
| `HoldDetector` | `update()` | |
| `HoldGestures` | what the finger did (history); EXTENDS `HoldDetector` | |
| `HoldProofs` | the detector's coherence, that holds and triple clicks are earned, and that none is missed, proved | |
| `UbxFraming` | (specification) what a UBX message is, as a sequence of bytes | |
| `UbxParser` | `feed()`, one byte a step; EXTENDS `UbxFraming` | is in step with a reader that keeps all the bytes (`InStep`) |
| `GpsReceiver` | `begin()`, a message a step, the module at the other end, resets, rate changes | |
| `GpsProofs` | all the invariants of `UbxParser` and `GpsReceiver`, proved | |
| `WebSave` | `collectBody`, `handleSave`, `applyJson`, requests at their addresses | |
| `ConfigProofs` | all the invariants of `ConfigSave` and `WebSave`, proved | |
| `LogRing` | `emit()` of several tasks, the ring's slots and indices | rows are the tail of the sequence of lines (`RowsAreLatest`) |
| `Display` | `tick()` of the OLED and of the TFT; EXTENDS `LogRing` | |
| `DisplayProofs` | `RowsAreLatest` and `PanelCurrent`, proved | |
| `MC*` | what TLC's instances need, and their bounds in words; `HoldGestures` is run as it is | |

How state and actions correspond to the code is recorded definition by
definition in `PROJECT.json` "map"; names of variables are the code's names.
The conventions:

* **A step is one shared access.**  Where two tasks meet (`FilterQueue`,
  `BleLink`/`RadioLoop`, `ConfigSave`, `LogRing`/`Display`), a function is cut at every access to
  memory the other task also touches, with a program counter per task
  (`hostPc`, `loopPc`, `pc`, `web`, `loop`, `doing`, `at`).  Where only one
  task runs (`HoldDetector`, `CanHealth`, `UbxParser`, `WebSave`), a step is one
  whole call.  `GpsReceiver` cuts `begin()` at every message it sends, because a
  reset may come between any two.  `CanPump` cuts
  `pumpCanBus` into one step per command and one per frame, because the host
  task publishes commands in between.
* **Memory order.**  The queue's indices are release/acquire atomics, so
  interleaving is what the build gives.  `settings.deviceName` has no such
  protection: a name read while the other task overwrites it is the old one, the
  new one, or `Torn` (`ConfigSave!Mixed`).
* **Time** is a counter modulo `Wrap`, compared by the same unsigned
  differences as in the code.  `HoldDetector` only ever uses such differences,
  so it keeps them (`pressAge` for `nowMs - pressStartMs_`), capped where no
  comparison can change any more.  `GpsReceiver` takes `millis()` only where
  `probe()` compares it with a deadline instead of taking a difference: it may be
  any of `ProbeTimes`, at the first `begin()` far from the wrap.
* **Data** is abstract: a command is a record of what it asks for, a fix is its
  hour, a name is a model value, a body is a sequence of numbered pieces and what
  it says, a line of the log is its number.
* **Failure** is a nondeterministic branch where the code tests for one: either
  radio's start, each flash write, opening flash, the TWAI status call; and
  `PowerFails` at any step of `ConfigSave`.
* **Definitions marked "Mutation of"** stand beside the definition they mutate:
  each is a plausible bug which makes the property named in `PROJECT.json`
  "mutants" fail.  No specification uses them.
* **History variables** (`session`, `notice`, `atPassStart`, `unlogged`, `deaf`, `verdict`, `window`,
  `reported`, `suspect`, `borrowed`, `sinceFlag`, `message`, `away`, `fresh`,
  `unread`, `undisturbed`, `last`, `appended`, `built`, and those of
  `HoldGestures`) record what a property needs and guard no step.  Three of them
  name an exception that the code makes: `notice` (a client that slipped through
  `end()`), `unlogged` (the losses a command clears leave it) and `deaf` (a probe
  that did not listen).
* **The module is part of the model.**  `GpsReceiver` models the MAX-M10S by what
  `GpsReceiver.cpp` says of it: it keeps RAM through a warm reset, may be in
  backup, refuses a rate its constellations cannot meet, and answers nothing.  On
  a noisy line any listening may hear a sync pair and any message may be lost.

## 3. Runs

Properties named here are commented where they are defined.

| run | question | bounds |
|---|---|---|
| `filter_queue` | Is the queue a FIFO under every interleaving, and is it emptied? | depth 4 (three usable), four writes of which one is oversized, overflow counter modulo 2 |
| `radio_loop` | Do modes, renames, connections and fixes keep the link, the portal, the ring and the sync bits right, does BLE come back, and is a client served? | two connections, a ring of three, two packets a tick, two hours, sync modulo 4 |
| `radio_stale` | *violated*: is nothing buffered ahead of a client? | same |
| `can_pump` | Does the filter forward what was asked for, across the wrap, and is every loss logged? | three ids, a table of two, intervals 0 and 2, two commands, `Wrap` 8 starting at 6, three ticks, one frame a pass |
| `can_health` | Is every loss counted once and the status warranted? | windows of three ticks, polls of two, a poll that reports at most one loss, `Wrap` 6, driver counters modulo 4 |
| `config_save` | Do answered saves survive, and does every rename reach the radio? | two names, two rates, flush delay 2, passes of at most 1, `Wrap` 4, any number of saves and power failures |
| `config_flush` | *violated*: is the flush delay kept? | same |
| `hold` | Are gestures reported exactly when the presses warrant them? | debounce 2, click 4, window 9, hold 10, samples up to 3 apart |
| `ubx` | Is the parser where a reader of all the bytes is, whatever comes, and how long can it be deaf? | bytes of three values, payloads up to four of which two fit, any stream |
| `gps` | Is the module found and configured, over resets at any point? | the firmware's speeds and rates, a module at 9600 or 38400 and 1 or 5 Hz, asleep or not, dead or not, any set of refusals, noise or none, one save, two resets; `Wrap` 1000, and `millis()` at 0, at the last moment whose deadline is before the wrap, at the next one and at the last of all when a probe begins to listen |
| `web` | Whose body is judged, and is the answer true? | two addresses, three requests, bodies of up to three pieces for a buffer of two, ten things a body can say |
| `display` | Does the log keep its lines, and does the panel show what is? | both panels, two tasks, a ring of two lines, four events, two values of each group of fields, `Wrap` 8 |

**Why these bounds are enough.**  In each run the interesting case is reached,
which is what the mutations show: weakening the code makes the property fail
under the same bounds.  The queue wraps around its four slots at every phase of
the other task, with full, empty and one-short-of-full.  Two connections give a
client, its departure at any step of a pass, and the next client.  A ring of
three would overflow if packets piled up.  Three ids against a table of two give
the refused id; time starts two ticks before the wrap and the interval spans it.
`can_pump` and `can_health` keep `Wrap` larger than anything measured, as 2^32 is
to the code.  `can_health` has windows longer than a second, polls that fail,
and polls that find more than they can report.  `config_save` has no bound on
the number of saves or failures at all, only on values and on how long a pass of
`loop()` lasts.  In `hold` the times are
in the order of the firmware's (debounce 30, click 500, window 1200, hold 3000 ms),
and a sample may come later than the debounce time, as after a redraw.

`ubx` has no bound on the stream: the state is finite because only the beginning
of the message under way is kept.  With three byte values the class byte equals
the second sync byte, so that payloads contain beginnings of messages, and
declared lengths reach twice what is believed.  In `gps` two resets allow a
configuration that is interrupted, one that is interrupted again in another
place, and one that is finished.  In `web` three requests are one that leaves
something behind, one that disturbs and one that is judged.  In `display` four
lines in a ring of two make the oldest line change slots and come round.

Two bounds deserve a word.  `MaxWrites` (`can_pump`) stops the client after two
commands; the table is full after two ids, a clear by `denyAll` is followed by
another request, and longer sequences are the queue's business, which
`filter_queue` has unbounded.  `MaxSessions` (`radio_loop`) is a bound of the
state, not of the argument: the proofs of section 5 hold for every value.

Counters that only diagnose (`overflows`, `droppedUnknown`) wrap modulo a small
number, `CounterMod`, as they do modulo 2^32 in the code.  A counter that comes
exactly round between two reports hides losses.  In the code 2^32 of them would
have to be lost in a pass, so the model keeps fewer than `CounterMod` between two
reports: of commands by a guard of `OverflowCommand`, of ids because a pass has no
more than `kFramesPerPass` frames (`PumpAssumption`).

## 4. Fairness

| specification | assumed | because |
|---|---|---|
| `FilterQueue` | the loop's steps; a write begun by the host is finished | `loop()` is called for ever; callbacks return.  Nobody has to write. |
| `RadioLoop` | the loop's steps; callbacks return; a requested disconnect completes | the same, and the controller's supervision timeout.  A client may stay or stay away for ever, and no button, fix or save is owed. |
| `CanPump` | the loop's steps; a pass ends | a pass takes at most 32 frames |
| `ConfigSave` | both tasks' steps; time passes | a request that is being handled is handled to its end.  No save has to begin; power may fail for ever. |
| `Display` | the loop's steps; a task that has begun a line finishes it | `loop()` is called for ever; `append` is short and the mutex is waited for without a limit.  Nobody has to log. |

No strong fairness is used.  `CanHealth`, `HoldDetector`, `UbxParser`,
`GpsReceiver` and `WebSave` have only safety properties: they promise nothing
beyond each call.

## 5. What is proved

For every value of the constants that satisfies the assumptions named in the
component's module (`DepthAssumption`, `LenAssumption`, `NoBytesAssumption` and
`CounterAssumption` for the queue; `SessionsAssumption`, `RingAssumption` and
`SyncAssumption` for the radios; `FilterAssumption`, `HealthAssumption`,
`ConfigAssumption`, `WebAssumption`, `HoldAssumption`, `FramingAssumption`,
`ReceiverAssumption`, `DisplayAssumption` and `PumpAssumption` for the rest), which
TLC also evaluates on its instances.  With what is proved below every invariant and
every action property the passing runs check is a theorem; two conjuncts of the
assumptions were found by the proofs, and are true of the firmware's constants:

* `kPvtBits * kMaxRateHz <= kTargetBaud` (`ReceiverAssumption`): 25 fixes a second of
  100 bytes are 25000 of 115200 bits.  Without it `FitsLine` would be false at the
  highest rate.
* `kHoldStep` divides `kSecond` and `kHold` (`DisplayAssumption`): the OLED shows
  whole seconds left of 3000 ms and compares tenths (100 ms).  If a tenth could
  straddle a second, the countdown would freeze within it.

`Absent \notin LegalNames \cup Nat` (`WebAssumption`) says that a missing field is not
a value, which TLC's model values are by nature.

**`FilterQueueProofs`**

* `Invariance`: `IInv` holds always.  `NoTornCommand` alone is not inductive: it
  speaks of what was taken, and depends on what the slots held.  `SlotsWhole`
  says that every slot between tail and head holds one whole accepted command.
  To keep it, `HostInv` says that a write under way has passed the test for room
  and what it has stored so far, and `LoopInv` that a read under way has found
  something at the tail and what it has copied so far.
* `SlotExclusion` (`NoSharedSlot`) and `DeliveredWhole` (`NoTornCommand`) follow.
* `Refinement` (`ImplementsFifo`): publishing maps to `BoundedFifo`'s enqueue,
  releasing to its dequeue, an overflow to its loss, everything else stutters.
  The lemmas about `Contents` before it say how the sequence between tail and
  head changes when either index moves, the wrap included.

**`RadioLoopProofs`**

* `Invariance`: `IInv` holds always.  `LinkDownInWifi` and `PortalExclusive` need
  `LinkInv` (a believed client means BLE mode or `end()` not finished) and
  `ModeInv` (which parts of a pass a mode reaches).  `RingBacklog` needs
  `RingInv`: while a client is believed in and this pass has not produced yet,
  the ring is *empty*, because a pass that ends believing in a client has just
  drained it.  `SyncCoherent` is kept because at most one packet waits, and the
  time is written in the step that pushes it.
* `RingNeverOverflows`, `NoLinkInWifi`, `OneRadioHeld`, `TimeAgrees` follow.

**`CanPumpProofs`**

* `TableStaysWhole` (`TableOK`): the filter table keeps one entry for each id, for
  any set of ids, any intervals and any size of the table.  It is nearly inductive:
  `find()` returns *the* entry of an id only because there is one, so that the
  rewriting of an entry and the entering of another each need a lemma.
* `CommandsBeforeFrames` (`CommandsFirst`) needs the account of the queue
  (`Accounted`): what was written is what was applied and what still waits.
* `PolicyImplemented` (`ImplementsPolicy`): every step of the pump is a step of
  `FilterPolicy` or none.  `RateIn` and `AgeIn` name what the policy sees of the
  table; `PutProperties` says that writing one entry, in place or at the end, makes
  one id followed anew and leaves the others alone.  A millisecond count that wraps
  means an age only while it has not gone round: `Recent` says that no notification
  is older than the run, and `ClockStep` that a difference below the wrap grows with
  the clock.  `PumpAssumption` keeps a run shorter than one turn of `millis()` and
  asks for a longest interval, beyond which the policy tells no ages apart.

**`CanHealthProofs`**

* `WindowsAreBounded` (`WindowBounded`) needs `FramesInTime`: a pass takes at least
  a millisecond, so a window holds no more frames than its age allows.  The clock
  wraps; `Elapsed` says that an unsigned difference goes on by what has passed as
  long as it stays below the wrap, and `HealthAssumption` says that a window and a
  pass together do.
* `EveryLossCounted` (`LossesConserved`) is inductive.  `LossStep` says that what a
  poll reports, with what is beyond its range, is what the driver counted since the
  last one, modulo the width of its counters.
* `StatusIsWarranted` (`StatusWarranted`) follows from `RatesFollow`, which ties the
  published rates to the published window, and from what a truncated quotient
  of zero says (`Quotient`).

**`ConfigProofs`, saving (`ConfigSave`)**

* `SavesAreDurable` (`Durable`) needs `SaveInv`: at each step of a save, what flash
  holds already and what the handler remembers of before.
* `NoRenameLost` (`NameOnAir`) needs `NameInv`: either a start that will read the name
  is due or under way, or the radio has it.  `StartDue` lists where that obligation
  can be: with the web task about to flag it, in the flag, or in one of the steps of
  `loop()` after it took the flag.
* `SettingsAreWhole` (`TypeOK`): memory and flash only ever hold settings the device can
  run with.

**`ConfigProofs`, the body of a save (`WebSave`)**

* `WebInvariance`: `WebInv` holds always.  `JudgedAsOwn` speaks of an answer given
  long after the pieces came, and of a request other clients may have interrupted;
  `GatheredInv` is what it needs.  As long as the callbacks of one request are the
  only ones that ran since its first piece, the buffer has its address, exactly the
  pieces that came (`Pieces`), or nothing and the overflow flag if it cannot fit.
  `ArrivingInv` says that no two requests under way have the same number, so that a
  piece of another ends that claim.  `PiecesContinue` says that a body so far and
  its next pieces are the body so far.
* `BufferNeverOverrun` (`WebTypeOK`): the buffer never holds more than it can, although
  the declared total, which is tested once, bounds nothing when pieces of other
  bodies are mixed in: it is the test at every piece that counts.
* `UndisturbedIsJudgedAsOwn` (`JudgedAsOwn`) and `AnswersAreTrue` (`AnswerTrue`) follow;
  the second rests on `StatusProperties`, by which an accepted rate is one that
  survives being stored in eight bits.

**`HoldProofs`**

* `DetectorCoherent` (`Coherent`): inductive as it stands, for any choice of the
  times that `HoldAssumption` admits.
* `HoldIsEarned` (`HoldEarned`), an action property: a hold is reported of a press
  that is long enough, and once.  The detector does not see the finger, only
  samples; `Follows` ties its memory to the history of the contact, bounces
  included.
* `TripleIsEarned` (`TripleEarned`) and `TripleIsReported` (`TripleReported`), for any
  number of clicks: `Counted` says that the clicks counted are the latest presses,
  the first of them confirmed the debounce time after it ended or at the next sample
  (`Near`), and `AllCounted` that a quick series has every press counted.  A sample
  either ends no press (`Quiet`) or classifies one (`Finished`).  That a press nobody
  samples the end of still counts rests on `ConfirmedInTime`.

**`GpsProofs`, the parser (`UbxParser`)**

* `ParserInStep` (`InStep`): for any stream, any width of a byte and any constants
  of the protocol, the parser's state is the byte a reader would await who keeps
  everything and asks for the latest place a message can begin.  `Registers` says
  what the parser's few registers are of that reader's sequence; `HuntProperties`
  and `ExtendProperties` say how a byte changes it, between messages and in one.
* `SilenceIsBounded` (`SilenceBounded`) follows: a length that is believed is at most
  `kMaxPayload`, wherever its two bytes came from.

* `DecodedIsWhatCame` (`DecodedIsReceived`): `DataInv` says what the registers hold of the
  message under way: its class and id, as much of its payload as fits, and the two
  running sums.  That these are the sums of *all* the bytes so far is a statement
  about a recursive definition.  `Sums` is a recursive function of the position, and
  `Induction` proves what is needed of it without an induction rule over an operator:
  a set of positions that has no least counterexample has none, by the library's
  facts about well-founded relations (`NatLessThanWellFounded`, `WFMin`).
  `FletcherProperties` is the consequence: a byte adds itself to the first sum and
  the first sum to the second, also modulo the width of a byte.

**`GpsProofs`, the receiver (`GpsReceiver`)**

* `ReceiverInv` is inductive, whatever is saved, reset or refused between two messages.
  It has four parts.  `PlaceInv`: fixes are only ever turned on at the highest speed;
  this holds *across* resets of the firmware, which forget where `begin()` was while
  the module does not, and is why the speed must come first.  `SweepInv`: a speed
  tried in vain is not the one of a module that is heard.  `ToldInv`: the messages
  sent so far have had their effect, each unless it was refused; the rate rests on the
  constellations told before.  `RateInv`: `begin()` has the rate of the settings.
  What `SweepInv` says of a speed holds if its probe listened: near the wrap of
  `millis()` it does not, `deaf` records that, and `HeardIsFound` excepts it.
  `HeardProperties` is what a listening probe hears.
* `ReceiverTyped`, `FixesFit` (`FitsLine`), `HeardIsFound` (`FoundIfHeard`) and
  `ReceiverConfigured` (`Configured`) follow.

**`DisplayProofs`**

* `LogStaysInOrder` (`RowsAreLatest`): `MutexInv` says that only the holder of the
  mutex is in `append()`; `RingInv` says what the slots from `head` on hold at each
  of its steps, the one not yet copied left out; `CountInv` that no line that has
  begun is counted twice.
* `PanelStaysCurrent` (`PanelCurrent`): `PanelInv` says that what was last drawn *compares*
  equal to what was built last.  That it then *looks* equal at the time of day that was
  drawn is `PictureProperties`: every field that is drawn is compared but the hour and
  the minute of the OLED, and of those compared coarsely the picture is coarser still.  For the
  countdown this is `CountdownProperties`, about a quotient that is rounded up.

The rest is model-checked only: liveness (`PublishedIsTaken`, `BackOnAir`,
`ClientServed`, `LossReported`, `NameReachesAir`, `ConsoleCatchesUp`), because proofs
under fairness need ENABLED, which the prover does not have.

## 6. What the models found

Two runs check, and refute, what the repository says of itself; the quotations
are in `PROJECT.json` "findings".

1. `radio_stale` (`NothingBuffered`).  A fix published while `connected_` is stale
   stays in the ring: the next `tick()` returns without draining.  It is the first
   packet the next client gets.  `RingBacklog` shows that it is never more than
   one.
2. `config_flush` (`FlushDelayKept`).  `loop()` may see the flag with the previous
   time beside it, or a time later than its own `now`; either way the difference
   is huge and the radio is restarted before the response has left.

### Further documented claims the code does not keep

Each has a property, in the module that EXTENDS the component, and a
configuration under which TLC shows the counterexample.

| claim | command | what happens |
|---|---|---|
| `radio/RadioMode.h:5`: "exactly one is up at a time"; `ble/BleLink.cpp:193-195`: "so the radio is silent" (`SilentInWifi`) | `tlc -config RadioSilent.cfg MCRadioLoop` | `end()` stops advertising and *then* asks the stack to drop the peer.  When that completes, the stack advertises again by itself (`BleLink.cpp:76` relies on it), with the portal up. |
| `ble/BleLink.cpp:193-195`: "the peer is dropped" (`AllServed`) | `tlc -config RadioUnserved.cfg MCRadioLoop` | `onConnect` runs inside `end()`: its flag is raised before `end()` lowers it, its handle is stored after `end()` looked for one.  The peer stays connected, and `loop()` never hears of it; back in BLE mode it is sent nothing, and as the only connection it keeps the next one out.  `ClientServed` says what remains true. |
| `main.cpp:264-265`: "Both counters exist so a loss is noticed" (`NoLossErased`) | `tlc -config CanErased.cfg MCCanPump` | A pass applies its commands before it reports, and a deny-all or allow-all resets the count: ids refused in the frame loop of the pass before are never logged.  `LossReported` says what remains true. |
| `can/BusStatus.h:22-30`: "Frames are arriving and none are being lost." (`HealthyMeansNoLoss`) | `tlc -config CanHealthDoc.cfg MCCanHealth` | The status is judged from truncated rates.  One lost frame in a window a little over a second is a rate of 0: the bus shows as healthy, or silent.  `StatusWarranted` says what remains true. |
| `docs/superpowers/specs/2026-09-06-phase1-config-portal-design.md:120-123` (under `src/`): "All-or-nothing." (`AllOrNothing`) | `tlc -config ConfigHalf.cfg MCConfigSave` | A refused second key leaves the first one written; memory is rolled back and flash is not. |
| `radio/HoldDetector.h:9`: "three short presses inside kMultiClickWindowMs" (`ThreeAreTriple`) | `tlc -config HoldStray.cfg HoldGestures` | The window runs from the first click of a sequence; a stray click shortly before three quick ones splits them over two sequences. |
| `gps/GpsReceiver.h:8-9`: "finds the baud the module is currently using" (`FoundIfThere`) | `tlc -config GpsLost.cfg MCGpsReceiver` | A module that sends once a second may say nothing in the 270 ms of the probe at its speed.  It is then absent, and `startCurrentMode()` never looks again, because it asks `present()` first.  `FoundIfHeard` says what remains true: from 4 Hz up, the module is found, if the probe listens at all. |
| the same lines, of a module that sends all the time (`FoundIfTalkative`) | `tlc -config GpsWrap.cfg MCGpsReceiver` | `probe()` compares `millis()` with a deadline (`gps/GpsReceiver.cpp:137-139`).  In the last 250 ms before `millis()` wraps the deadline is behind it at once and nothing is read.  A radio restarted for a new rate in that moment loses the module for good. |
| `config/internal/WebUi.h:35-37`: "`owner_` guards against a completion handler reading a body that belonged to a different request" (`OwnBodyOnly`) | `tlc -config WebMixed.cfg MCWebSave` | `collectBody` looks at `owner_` for no piece but the first, which sets it: pieces of two bodies that arrive alternately make one. |
| `config/internal/WebUi.cpp:82-83`: a POST without a body "must not be judged on whatever the previous request left behind" (`NoBodyNothingJudged`) | `tlc -config WebReused.cfg MCWebSave` | It is, when it is allocated where a request was that went away after its body. |
| `ui/OledDisplay.cpp:14-16`: what "IS drawn and omitted here freezes on a stale value" (`HoldGoes`) | `tlc -config OledHold.cfg MCDisplay` | 0 and 1 to 99 ms of a hold compare equal and are drawn differently.  If something else makes the OLED redraw in the first 100 ms of a press, and the press is short, "HOLD 3s" stays until anything else changes.  On the TFT the uptime heals it within a second. |
| the same lines, of the time of day (`DrawnIsCurrent`) | `tlc -config OledClock.cfg MCDisplay` | The OLED draws `gpsFix.hour` and `gpsFix.minute` (229-232) and compares only the seconds (22-32).  A status that differs in nothing but the hour or the minute, as when fixes stop and come back at the same second of another minute, leaves the old time on the panel until something that is compared changes.  `PanelCurrent` says what remains true. |

Met while reading, and not a property of any model: `ui/OledDisplay.cpp:227-228`
and `gps/UbxParser.h:33-34` say that nothing is transmitted before the receiver's
clock is valid, while `main.cpp`'s `produceSample` sends either way and says so.

## 7. What is not modelled

* **PMU**: straight-line hardware set-up, no shared state.
* **Layout and formatting** of both panels, of the log and of JSON: `Display`
  compares *what* is drawn, not where; `WebSave` says which bodies are accepted.
* **`decodePvt()` and the RaceChrono packets**: arithmetic on the fields of a fix,
  covered by the host tests; the parser's payload stays a payload.
* **`GpsReceiver::tick()` and the UART's buffer**: `UbxParser` takes any bytes, so
  lost ones are among its streams.
* **A probe that runs across the wrap**: a deadline in the last milliseconds before
  `millis()` wraps may be jumped over by the loop's `delay(5)`; it then listens until
  something is heard.  The model has no time inside a probe: its step is taken when
  the probe ends.  A deadline beyond the wrap is modelled (`Listens`).
* **CAN driver set-up and `read()`, the access point, DNS**: library calls.
* **NVS's own format**: a conversion.  Only which bodies are accepted matters to
  `ConfigSave`, and those are the members of `Config`.
* **Log flags and MTU** (`BleLink.cpp:209-231`): only messages depend on them.
* **`ModeController`'s pending switch** is in `RadioLoop`; the screen switch on a
  triple click is not, since nothing but the display reads it.
* **The 49-day wrap of a half-finished click sequence**: ages stop at `MaxAge`.
* **`data/ui`, `tools/`, `docs/reference`, the generated page, tests**: assets,
  scripts, third-party code, and what was read to learn what is promised.

## 8. Plan

Done, in this order: `FilterQueue` with its proofs, `RadioLoop` with its proofs,
`CanPump`, `CanHealth`, `ConfigSave`, `HoldDetector`, `UbxParser`, `GpsReceiver`,
`WebSave`, `LogRing` and `Display`.

Of the theorems, done are those of section 5: every safety property of the passing
runs.  Next: that `LogRing` implements a bounded log, and `WebSave` what
`ConfigSave!Accept` takes of it, as refinements.

Left of the models: `TelemetryRing` as an array with indices, implementing the
bounded sequence that `RadioLoop!Push` and `Drain` use; the packing of the
RaceChrono packets; `CanStats`' set of ids.

## 9. Running it

    tlc -workers 2 -config MCFilterQueue.cfg MCFilterQueue.tla
    tlapm FilterQueueProofs.tla

and so on for each pair in `PROJECT.json` "runs".  The longest runs
(`config_save`, `can_pump`, `display`) take a minute or two.
