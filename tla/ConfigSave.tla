----------------------------- MODULE ConfigSave -----------------------------
(***************************************************************************)
(* A save of the configuration and the radio restart a new name requires.  *)
(* POST /api/config is handled on the web server's task, step by step:     *)
(* WebUi::handleSave, ConfigService::save, NvsStore::save.  loop() polls   *)
(* ConfigPortal's rename flag on its own task and reads the same Settings  *)
(* without a lock.  The device may lose power, and flash may refuse a      *)
(* write, between any two steps.                                           *)
(***************************************************************************)
EXTENDS Integers

CONSTANTS
  Names, Rates,          \* device names and sample rates validate() accepts
  Default,               \* Settings::defaults()
  NoKey,                 \* a key flash does not hold
  Torn,                  \* a name read while it is being overwritten
  kRenameFlushDelayMs,
  MaxPass,               \* the longest pass of loop()
  Wrap                   \* 2^32: millis() wraps here

Config == [name : Names, hz : Rates]

ASSUME ConfigAssumption ==
  /\ Default \in Config
  /\ NoKey \notin Names \cup Rates /\ Torn \notin Names
  /\ kRenameFlushDelayMs \in Nat \ {0} /\ MaxPass \in Nat \ {0}
  /\ Wrap \in Nat /\ Wrap > kRenameFlushDelayMs + MaxPass

VARIABLES
  settings,              \* App::settings, shared by both tasks
  nvs,                   \* what flash holds
  available,             \* NvsStore::available_
  web,                   \* where handleSave() is
  request, previous,     \* its locals: the accepted candidate, the old settings
  stamp,                 \* its local: the millis() it flags the rename with
  renamePending, renameFlaggedAtMs,  \* ConfigPortal
  loop, now,             \* where loop() is in its pass, the time it started with
  mode, radioName,       \* the radio it started, and the name it gave it
  millis,
  suspect,               \* history: no save has succeeded since one was cut short
  borrowed,              \* history: radioName was read during a save, and no rename
                         \* has succeeded since
  sinceFlag              \* history: time since a rename was answered, at most the delay

nvsVars == <<nvs, available>>
webVars == <<web, request, previous, stamp>>
flagVars == <<renamePending, renameFlaggedAtMs>>
radioVars == <<mode, radioName>>
loopVars == <<loop, now>>
vars == <<settings, nvsVars, webVars, flagVars, radioVars, loopVars, millis,
          suspect, borrowed, sinceFlag>>

\* Mutation of Load: a missing key is not looked for.
LoadUnchecked(stored) == stored

\* NvsStore::load(): a missing key yields the default.
Load(stored) ==
  [name |-> IF stored.name = NoKey THEN Default.name ELSE stored.name,
   hz   |-> IF stored.hz = NoKey THEN Default.hz ELSE stored.hz]

\* setup(): settings from flash if it opens, then the radio, in BLE mode.
Boot(stored) ==
  /\ available' \in BOOLEAN
  /\ settings' = IF available' THEN Load(stored) ELSE Default
  /\ radioName' = settings'.name /\ mode' = "Ble"
  /\ web' = "idle" /\ request' = Default /\ previous' = Default /\ stamp' = 0
  /\ renamePending' = FALSE /\ renameFlaggedAtMs' = 0
  /\ loop' = "top" /\ now' = 0 /\ millis' = 0
  /\ borrowed' = FALSE /\ sinceFlag' = kRenameFlushDelayMs

Init ==
  /\ nvs = [name |-> NoKey, hz |-> NoKey]
  /\ available \in BOOLEAN
  /\ settings = Default /\ radioName = Default.name /\ mode = "Ble"
  /\ web = "idle" /\ request = Default /\ previous = Default /\ stamp = 0
  /\ renamePending = FALSE /\ renameFlaggedAtMs = 0
  /\ loop = "top" /\ now = 0 /\ millis = 0
  /\ suspect = ~available
  /\ borrowed = FALSE /\ sinceFlag = kRenameFlushDelayMs

-----------------------------------------------------------------------------
(* The web server's task.                                                  *)

WebAt(from, to) == web = from /\ web' = to

Saving == web \notin {"idle", "flag", "stamp"}

PortalUp == mode = "Wifi" /\ loop \notin {"startForName", "startOther"}

\* A body that applyJson() accepts; one it refuses changes nothing.  The form
\* is served by the portal, so a request arrives only while that is up; it is
\* handled to its end whatever becomes of the portal.
Accept(s) ==
  /\ WebAt("idle", "apply")
  /\ PortalUp
  /\ request' = s /\ previous' = settings
  /\ UNCHANGED <<settings, nvsVars, stamp, flagVars, radioVars, loopVars, millis,
                 suspect, borrowed, sinceFlag>>

\* inOut = candidate, before anything is stored.
Apply ==
  /\ WebAt("apply", "storeName")
  /\ settings' = request
  /\ UNCHANGED <<nvsVars, request, previous, stamp, flagVars, radioVars, loopVars,
                 millis, suspect, borrowed, sinceFlag>>

\* putString(), then putUChar(): each may be refused, and the first is not
\* taken back when the second is.
StoreName ==
  /\ available
  /\ WebAt("storeName", "storeHz")
  /\ nvs' = [nvs EXCEPT !.name = settings.name]
  /\ suspect' = TRUE
  /\ UNCHANGED <<settings, available, request, previous, stamp, flagVars, radioVars,
                 loopVars, millis, borrowed, sinceFlag>>

StoreHz ==
  /\ WebAt("storeHz", "answer")
  /\ nvs' = [nvs EXCEPT !.hz = settings.hz]
  /\ suspect' = FALSE
  /\ UNCHANGED <<settings, available, request, previous, stamp, flagVars, radioVars,
                 loopVars, millis, borrowed, sinceFlag>>

\* Mutation of StoreRefused: the second refusal is not reported.
StoreRefusalIgnored ==
  /\ \/ WebAt("storeName", "rollback") /\ UNCHANGED suspect
     \/ WebAt("storeHz", "answer") /\ suspect' = FALSE
  /\ UNCHANGED <<settings, nvsVars, request, previous, stamp, flagVars, radioVars,
                 loopVars, millis, borrowed, sinceFlag>>

StoreRefused ==
  /\ \/ WebAt("storeName", "rollback")
     \/ WebAt("storeHz", "rollback")
  /\ UNCHANGED <<settings, nvsVars, request, previous, stamp, flagVars, radioVars,
                 loopVars, millis, suspect, borrowed, sinceFlag>>

\* settings = previous; the client gets a 500, and nothing is flagged.
RollBack ==
  /\ WebAt("rollback", "idle")
  /\ settings' = previous
  /\ request' = Default /\ previous' = Default
  /\ UNCHANGED <<nvsVars, stamp, flagVars, radioVars, loopVars, millis, suspect,
                 borrowed, sinceFlag>>

\* Mutation of Renamed: the old name is taken after the save.
RenamedTooLate == LET previousName == settings.name IN previousName # settings.name

Renamed == previous.name # settings.name

\* The 200 is queued; millis() is read for a rename.
Answer ==
  /\ web = "answer"
  /\ web' = IF Renamed THEN "flag" ELSE "idle"
  /\ stamp' = IF Renamed THEN millis ELSE 0
  /\ sinceFlag' = IF Renamed THEN 0 ELSE sinceFlag
  /\ borrowed' = (borrowed /\ ~Renamed)
  /\ request' = Default /\ previous' = Default
  /\ UNCHANGED <<settings, nvsVars, flagVars, radioVars, loopVars, millis, suspect>>

\* flagRenamePending(): the flag, and then its time.
FlagPending ==
  /\ WebAt("flag", "stamp")
  /\ renamePending' = TRUE
  /\ UNCHANGED <<settings, nvsVars, request, previous, stamp, renameFlaggedAtMs,
                 radioVars, loopVars, millis, suspect, borrowed, sinceFlag>>

FlagTime ==
  /\ WebAt("stamp", "idle")
  /\ renameFlaggedAtMs' = stamp /\ stamp' = 0
  /\ UNCHANGED <<settings, nvsVars, request, previous, renamePending, radioVars,
                 loopVars, millis, suspect, borrowed, sinceFlag>>

Web == \/ Apply \/ StoreName \/ StoreHz \/ StoreRefused
       \/ RollBack \/ Answer \/ FlagPending \/ FlagTime

-----------------------------------------------------------------------------
(* loop()'s task.                                                          *)

LoopAt(from, to) == loop = from /\ loop' = to

\* A pass starts with the time it works with, and with the rename flag.
LoopTop ==
  /\ LoopAt("top", "pending")
  /\ now' = millis
  /\ UNCHANGED <<settings, nvsVars, webVars, flagVars, radioVars, millis, suspect,
                 borrowed, sinceFlag>>

SeePending ==
  /\ loop = "pending"
  /\ loop' = IF renamePending THEN "age" ELSE "button"
  /\ UNCHANGED <<settings, nvsVars, webVars, flagVars, radioVars, now, millis,
                 suspect, borrowed, sinceFlag>>

\* Mutation of FlushDelayOver: a deadline is compared.
FlushDeadline == now >= renameFlaggedAtMs + kRenameFlushDelayMs

\* now - renameFlaggedAtMs(), in unsigned arithmetic.
FlushDelayOver == (now - renameFlaggedAtMs) % Wrap >= kRenameFlushDelayMs

SeeAge ==
  /\ loop = "age"
  /\ loop' = IF FlushDelayOver THEN "clear" ELSE "button"
  /\ UNCHANGED <<settings, nvsVars, webVars, flagVars, radioVars, now, millis,
                 suspect, borrowed, sinceFlag>>

\* clearRenamePending(), before the restart reads the name.
ClearPending ==
  /\ LoopAt("clear", "stopForName")
  /\ renamePending' = FALSE
  /\ UNCHANGED <<settings, nvsVars, webVars, renameFlaggedAtMs, radioVars, now,
                 millis, suspect, borrowed, sinceFlag>>

\* stopCurrentMode(): what the radio had not sent is lost with it.
StopForName ==
  /\ LoopAt("stopForName", "startForName")
  /\ UNCHANGED <<settings, nvsVars, webVars, flagVars, radioVars, now, millis,
                 suspect, borrowed, sinceFlag>>

\* The names a reader of settings.deviceName may get: while the other task
\* overwrites the array, the old one, the new one, or some of each.
Mixed(old, new) == IF old = new THEN {old} ELSE {old, new, Torn}

ReadName ==
  CASE web = "apply"    -> Mixed(settings.name, request.name)
    [] web = "rollback" -> Mixed(settings.name, previous.name)
    [] OTHER            -> {settings.name}

\* startCurrentMode(): the radio is given the name settings holds now.
Start ==
  /\ radioName' \in ReadName
  /\ borrowed' = Saving
  /\ UNCHANGED <<settings, nvsVars, webVars, now, millis, suspect, sinceFlag>>

StartForName == LoopAt("startForName", "button") /\ Start /\ UNCHANGED <<mode, flagVars>>

\* A held button switches the mode, and stops one radio and starts the other.
Hold ==
  /\ LoopAt("button", "startOther")
  /\ mode' = IF mode = "Ble" THEN "Wifi" ELSE "Ble"
  /\ UNCHANGED <<settings, nvsVars, webVars, flagVars, radioName, now, millis,
                 suspect, borrowed, sinceFlag>>

StartOther == LoopAt("startOther", "top") /\ Start /\ UNCHANGED <<mode, flagVars>>

NoHold ==
  /\ LoopAt("button", "top")
  /\ UNCHANGED <<settings, nvsVars, webVars, flagVars, radioVars, now, millis,
                 suspect, borrowed, sinceFlag>>

Loop == \/ LoopTop \/ SeePending \/ SeeAge \/ ClearPending \/ StopForName
        \/ StartForName \/ Hold \/ StartOther \/ NoHold

-----------------------------------------------------------------------------
(* The world: time passes, and power fails.                                *)

\* A pass of loop() lasts at most MaxPass.
Tick ==
  /\ (millis - now) % Wrap < MaxPass
  /\ millis' = (millis + 1) % Wrap
  /\ sinceFlag' = IF sinceFlag < kRenameFlushDelayMs THEN sinceFlag + 1 ELSE sinceFlag
  /\ UNCHANGED <<settings, nvsVars, webVars, flagVars, radioVars, loopVars, suspect,
                 borrowed>>

\* The device restarts with what flash holds.
PowerFails ==
  /\ Boot(nvs)
  /\ suspect' = (suspect \/ ~available')
  /\ UNCHANGED nvs

Next == (\E s \in Config : Accept(s)) \/ Web \/ Loop \/ Tick \/ PowerFails

Spec == Init /\ [][Next]_vars

\* Both tasks run and time passes; nobody has to ask for anything.
FairSpec == Spec /\ WF_vars(Web) /\ WF_vars(Loop) /\ WF_vars(Tick)

-----------------------------------------------------------------------------
TypeOK ==
  /\ settings \in Config /\ request \in Config /\ previous \in Config
  /\ nvs \in [name : Names \cup {NoKey}, hz : Rates \cup {NoKey}]
  /\ available \in BOOLEAN
  /\ web \in {"idle", "apply", "storeName", "storeHz", "rollback", "answer", "flag", "stamp"}
  /\ loop \in {"top", "pending", "age", "clear", "stopForName", "startForName",
              "button", "startOther"}
  /\ renamePending \in BOOLEAN
  /\ {renameFlaggedAtMs, stamp, now, millis} \subseteq 0 .. Wrap - 1
  /\ mode \in {"Ble", "Wifi"} /\ radioName \in Names \cup {Torn}
  /\ suspect \in BOOLEAN /\ borrowed \in BOOLEAN
  /\ sinceFlag \in 0 .. kRenameFlushDelayMs

\* What the device runs with, between saves, is what it would boot with: a save
\* answered with ok survives any crash, and a refused one leaves no trace,
\* unless one was cut short and none has succeeded since.
Durable == available /\ ~suspect /\ ~Saving => Load(nvs) = settings

\* When no save is being handled and no restart is due or under way, the radio
\* has the name that was saved last: no order of save, flag, clear and restart
\* loses a rename.  (A radio started during a save that is then rolled back
\* keeps the name it read: nothing flags the roll back.)
Settled == /\ web = "idle" /\ ~renamePending
           /\ loop \in {"top", "pending", "age", "button"}

NameOnAir == Settled /\ ~borrowed => radioName = settings.name

\* Once nobody saves any more, the radio ends up with the saved name.
NameReachesAir == <>[](web = "idle") => <>[](borrowed \/ radioName = settings.name)

\* Stated by ConfigPortal.h:51-54: loop() lets the flush delay pass after a
\* rename before it tears the radio down.  (Broken when the flag is seen before
\* its time is written, and when it is raised after the pass took its time.)
FlushDelayKept == [][StopForName => sinceFlag >= kRenameFlushDelayMs]_vars

\* Stated by the phase 1 design, lines 120-123: a save is all or nothing, and
\* flash never holds a new name with an old rate.
AllOrNothing == available /\ ~Saving => Load(nvs) = settings
=============================================================================
