----------------------------- MODULE RadioLoop -----------------------------
(***************************************************************************)
(* loop() of main.cpp as far as the radios go: the order in which a pass   *)
(* acts on a pending rename, on a held button, on a new fix and on the BLE *)
(* link, against the NimBLE host task (BleLink), the web server's task     *)
(* (which flags renames) and a client.  Each pass is cut at every access   *)
(* to state another task touches.                                          *)
(***************************************************************************)
EXTENDS BleLink, Sequences

CONSTANTS
  kCapacity,           \* TelemetryRing::kCapacity
  kMaxPacketsPerTick,  \* packets BleLink::tick notifies at most
  Hours,               \* values dateAndHour takes; 0 before the clock resolves
  SyncMod              \* 8: the sync counter has three bits

ASSUME RingAssumption ==
  /\ kCapacity \in Nat \ {0}
  /\ kMaxPacketsPerTick \in Nat \ {0}
ASSUME SyncAssumption == SyncMod \in Nat \ {0} /\ 0 \in Hours

VARIABLES
  pc,            \* where in its pass loop() is
  resume,        \* where a restart of the radio returns to
  mode,          \* ModeController::mode_
  switching,     \* ModeController::pending_
  portalUp,      \* the access point and its web server are running
  beginOk,       \* what the last BleLink::begin returned
  renamePending, \* ConfigPortal::renamePending_
  ring,          \* TelemetryRing: packets waiting to be notified
  dropped,       \* TelemetryRing::dropped_ is not zero
  prevHour,      \* RaceChronoGps::previousDateAndHour_
  syncBits,      \* RaceChronoGps::syncBits_
  timeChar       \* value of the GPS time characteristic

modeVars == <<mode, switching>>
ringVars == <<ring, dropped>>
gpsVars == <<prevHour, syncBits, timeChar>>
loopVars == <<pc, resume, modeVars, portalUp, beginOk, renamePending, ringVars, gpsVars>>
vars == <<linkVars, loopVars>>

\* setup() ends with startCurrentMode() in the boot mode.
Init ==
  /\ LinkInit
  /\ pc = "start" /\ resume = "rename"
  /\ mode = "ble" /\ switching = FALSE
  /\ portalUp = FALSE
  /\ beginOk = TRUE
  /\ renamePending = FALSE
  /\ ring = <<>> /\ dropped = FALSE
  /\ prevHour = 0 /\ syncBits = 0
  /\ timeChar = [hour |-> 0, sync |-> 0]

-----------------------------------------------------------------------------
(* The restart of a radio: stopCurrentMode(leaving), startCurrentMode().   *)

StopLabel(leaving) == IF leaving = "wifi" THEN "portalEnd" ELSE "endAdvertising"

PortalEnd ==
  /\ pc = "portalEnd"
  /\ portalUp' = FALSE
  /\ pc' = "start"
  /\ UNCHANGED <<linkVars, resume, modeVars, beginOk, renamePending, ringVars, gpsVars>>

LinkEnd ==
  /\ \/ pc = "endAdvertising" /\ EndStopAdvertising /\ pc' = "endDisconnect"
     \/ pc = "endDisconnect" /\ EndDisconnect
          /\ pc' = IF gHasConn THEN "endHandle" ELSE "endFlags"
     \/ pc = "endHandle" /\ EndForgetHandle /\ pc' = "endFlags"
     \/ pc = "endFlags" /\ EndForgetFlags /\ pc' = "start"
  /\ UNCHANGED <<resume, modeVars, portalUp, beginOk, renamePending, ringVars, gpsVars>>

\* Either radio may fail to start: that is logged, and the pass goes on.
StartPortal ==
  /\ pc = "start" /\ mode = "wifi"
  /\ \E ok \in BOOLEAN : portalUp' = ok
  /\ switching' = FALSE
  /\ pc' = resume
  /\ UNCHANGED <<linkVars, resume, mode, beginOk, renamePending, ringVars, gpsVars>>

StartLink ==
  /\ pc = "start" /\ mode = "ble"
  /\ \E ok \in BOOLEAN : Begin(ok) /\ beginOk' = ok
  /\ switching' = FALSE
  /\ pc' = resume
  /\ UNCHANGED <<resume, mode, portalUp, renamePending, ringVars, gpsVars>>

-----------------------------------------------------------------------------
(* A pass of loop().                                                       *)

\* The rename was flagged long enough ago: restart whichever radio is active.
RenameDue ==
  /\ pc = "rename" /\ renamePending
  /\ renamePending' = FALSE
  /\ pc' = StopLabel(mode)
  /\ resume' = "button"
  /\ UNCHANGED <<linkVars, modeVars, portalUp, beginOk, ringVars, gpsVars>>

\* No rename, or its flush delay has not passed.
RenameNotDue ==
  /\ pc = "rename"
  /\ pc' = "button"
  /\ UNCHANGED <<linkVars, resume, modeVars, portalUp, beginOk, renamePending,
                 ringVars, gpsVars>>

\* Mutation of ButtonHeld: the old radio is left running.
ButtonHeldNoStop ==
  /\ pc = "button" /\ ~switching
  /\ mode' = IF mode = "ble" THEN "wifi" ELSE "ble"
  /\ switching' = TRUE
  /\ pc' = "start"
  /\ resume' = "pump"
  /\ UNCHANGED <<linkVars, portalUp, beginOk, renamePending, ringVars, gpsVars>>

\* A Hold event: ModeController::handle flips the mode, then the radio left
\* goes down before the other comes up.
ButtonHeld ==
  /\ pc = "button" /\ ~switching
  /\ mode' = IF mode = "ble" THEN "wifi" ELSE "ble"
  /\ switching' = TRUE
  /\ pc' = StopLabel(mode)
  /\ resume' = "pump"
  /\ UNCHANGED <<linkVars, portalUp, beginOk, renamePending, ringVars, gpsVars>>

NoButton ==
  /\ pc = "button"
  /\ pc' = "pump"
  /\ UNCHANGED <<linkVars, resume, modeVars, portalUp, beginOk, renamePending,
                 ringVars, gpsVars>>

\* gpsRx.tick() and pumpCanBus() run in both modes; CanPump models the latter.
Pump ==
  /\ pc = "pump"
  /\ pc' = IF mode = "wifi" THEN "rename" ELSE "produce"
  /\ UNCHANGED <<linkVars, resume, modeVars, portalUp, beginOk, renamePending,
                 ringVars, gpsVars>>

-----------------------------------------------------------------------------
(* produceSample() and publishFix().                                       *)

\* Mutation of NextSync: the counter does not wrap.
NextSyncNoWrap(h) == IF h # prevHour THEN syncBits + 1 ELSE syncBits

\* RaceChronoGps::updateSyncBits for a fix taken in hour h.
NextSync(h) == IF h # prevHour THEN (syncBits + 1) % SyncMod ELSE syncBits

\* TelemetryRing::push: a full ring loses its oldest packet.
Push(sample) ==
  IF Len(ring) < kCapacity
    THEN ring' = Append(ring, sample) /\ UNCHANGED dropped
    ELSE ring' = Append(Tail(ring), sample) /\ dropped' = TRUE

\* Mutation of PublishFix: packets pile up while nobody is connected.
PublishFixAlways(h) ==
  /\ Push([session |-> session, hour |-> h, sync |-> NextSync(h)])
  /\ prevHour' = h /\ syncBits' = NextSync(h)
  /\ timeChar' = [hour |-> h, sync |-> NextSync(h)]

\* Mutation of PublishFix: the time is published before the counter moves.
PublishFixOldSync(h) ==
  /\ connected
  /\ Push([session |-> session, hour |-> h, sync |-> NextSync(h)])
  /\ prevHour' = h /\ syncBits' = NextSync(h)
  /\ timeChar' = [hour |-> h, sync |-> syncBits]

\* A fix taken in hour h, sent while loop() believes a client is there.  The
\* packet goes into the ring, the time straight to its characteristic.  (The
\* session is a history variable: the client the fix was taken for.)
PublishFix(h) ==
  /\ connected
  /\ Push([session |-> session, hour |-> h, sync |-> NextSync(h)])
  /\ prevHour' = h /\ syncBits' = NextSync(h)
  /\ timeChar' = [hour |-> h, sync |-> NextSync(h)]

Produce ==
  /\ pc = "produce"
  /\ \E h \in Hours : PublishFix(h)
  /\ pc' = "tick"
  /\ UNCHANGED <<linkVars, resume, modeVars, portalUp, beginOk, renamePending>>

\* No new fix, or no client.
NoSample ==
  /\ pc = "produce"
  /\ pc' = "tick"
  /\ UNCHANGED <<linkVars, resume, modeVars, portalUp, beginOk, renamePending,
                 ringVars, gpsVars>>

-----------------------------------------------------------------------------
(* BleLink::tick().                                                        *)

Tick ==
  /\ pc = "tick"
  /\ TickCopy
  /\ pc' = IF connected' THEN "drain" ELSE "rename"
  /\ UNCHANGED <<resume, modeVars, portalUp, beginOk, renamePending, ringVars, gpsVars>>

\* Every waiting packet is notified, up to kMaxPacketsPerTick of them.
Drain ==
  /\ pc = "drain"
  /\ ring' = SubSeq(ring, kMaxPacketsPerTick + 1, Len(ring))
  /\ pc' = "rename"
  /\ UNCHANGED <<linkVars, resume, modeVars, portalUp, beginOk, renamePending,
                 dropped, gpsVars>>

-----------------------------------------------------------------------------
\* The web server's task: a save that changed the name flags it.  It answers
\* requests only while the portal is up.
SaveRename ==
  /\ portalUp
  /\ renamePending' = TRUE
  /\ UNCHANGED <<linkVars, pc, resume, modeVars, portalUp, beginOk, ringVars, gpsVars>>

LoopStep == PortalEnd \/ LinkEnd \/ StartPortal \/ StartLink
              \/ RenameDue \/ RenameNotDue \/ ButtonHeld \/ NoButton \/ Pump
              \/ Produce \/ NoSample \/ Tick \/ Drain

Next == LoopStep \/ (HostStep /\ UNCHANGED loopVars) \/ SaveRename

Spec == Init /\ [][Next]_vars

\* loop() is called for ever, callbacks return, a requested disconnect
\* completes.  No client, fix, button or save is owed to anybody.
Fairness ==
  /\ WF_vars(LoopStep)
  /\ WF_vars(CallbackStep /\ UNCHANGED loopVars)
  /\ WF_vars(ClosingEnds /\ UNCHANGED loopVars)

FairSpec == Spec /\ Fairness

-----------------------------------------------------------------------------
(* Properties.                                                             *)

\* loop() is between stopping one radio and having started the next.
Restarting == pc \in {"portalEnd", "endAdvertising", "endDisconnect", "endHandle",
                      "endFlags", "start"}

Sample == [session : 0 .. MaxSessions, hour : Hours, sync : 0 .. SyncMod - 1]

PassTypeOK ==
  /\ pc \in {"rename", "button", "pump", "produce", "tick", "drain", "portalEnd",
             "endAdvertising", "endDisconnect", "endHandle", "endFlags", "start"}
  /\ resume \in {"rename", "button", "pump"}
  /\ mode \in {"ble", "wifi"}

FlagsTypeOK ==
  /\ switching \in BOOLEAN
  /\ portalUp \in BOOLEAN
  /\ beginOk \in BOOLEAN
  /\ renamePending \in BOOLEAN

PacketTypeOK ==
  /\ ring \in Seq(Sample)
  /\ dropped \in BOOLEAN
  /\ prevHour \in Hours
  /\ syncBits \in 0 .. SyncMod - 1
  /\ timeChar \in [hour : Hours, sync : 0 .. SyncMod - 1]

TypeOK == LinkTypeOK /\ PassTypeOK /\ FlagsTypeOK /\ PacketTypeOK

\* Whatever the callbacks do and however the modes are switched, at most one
\* packet ever waits: the ring never overwrites one, and one tick() empties it.
RingBacklog == Len(ring) <= 1 /\ ~dropped

\* pumpCanBus() runs in WiFi mode too, and would notify there if loop() still
\* believed in a client: once the switch is done it does not.
LinkDownInWifi == mode = "wifi" /\ ~Restarting => ~connected

\* The portal is never up while loop() holds a BLE link, and is down before
\* the link is begun again: the two share one front end.
PortalExclusive ==
  portalUp => /\ ~connected
              /\ mode = "wifi" \/ pc = "portalEnd"

\* A packet that waits was stamped with the sync bits and the hour that the
\* time characteristic holds now, so the client places it in the right hour.
SyncCoherent ==
  \A i \in DOMAIN ring :
    ring[i].sync = timeChar.sync /\ ring[i].hour = timeChar.hour

\* In BLE mode with no client the device is soon on the air again, unless
\* starting the advertisement failed.
BackOnAir ==
  (mode = "ble" /\ peer = "none")
    ~> (advertising \/ peer # "none" \/ mode # "ble" \/ ~beginOk)

\* In BLE mode a client that is connected is soon one loop() sends to, and one
\* that left is soon forgotten, however end(), begin() and the callbacks of
\* either interleave.  The exception is a client that slipped through end():
\* onConnect had not stored its handle yet when end() looked for one, and had
\* raised its flag when end() lowered it.
ClientServed ==
  /\ (mode = "ble" /\ peer = "up" /\ notice # "slipped")
       ~> (connected \/ peer # "up" \/ mode # "ble" \/ notice = "slipped")
  /\ (connected /\ peer = "none") ~> (~connected \/ peer # "none")

\* Stated by BleLink.cpp:193-195: the peer is dropped, so no client is left
\* behind by end(): ClientServed without its exception.  (One that slips
\* through stays connected, holds the only connection, and is sent nothing.)
AllServed ==
  (mode = "ble" /\ peer = "up") ~> (connected \/ peer # "up" \/ mode # "ble")

\* Stated by RadioMode.h:5 and BleLink.cpp:193-195: in WiFi mode the BLE radio
\* is silent.  (end() asks the stack to disconnect, and the disconnection
\* makes the stack advertise again.)
SilentInWifi == mode = "wifi" /\ ~Restarting => ~advertising

\* Stated by main.cpp:185-189: nothing is buffered ahead of a client.  Between
\* two passes, a packet that waits was taken for the client that is there.
\* (One taken while loop() had not yet noticed a disconnection stays in the
\* ring, and is the first thing the next client is sent.)
NothingBuffered ==
  pc = "rename" /\ callback = "idle" /\ gConnected =>
    \A i \in DOMAIN ring : ring[i].session = session

-----------------------------------------------------------------------------
(* The inductive invariant behind the four safety properties.              *)

InLinkEnd == pc \in {"endAdvertising", "endDisconnect", "endHandle", "endFlags"}

\* Which parts of a pass each mode reaches.
ModeInv ==
  /\ mode = "wifi" => pc \notin {"produce", "tick", "drain"}
  /\ portalUp => mode = "wifi" \/ pc = "portalEnd"
  /\ portalUp => ~InLinkEnd

\* loop() believes in a client only in BLE mode, until end() has run.
LinkInv ==
  /\ connected => mode = "ble" \/ InLinkEnd
  /\ connected => pc # "portalEnd"

\* The ring holds at most one packet, and none while the next may be made.
RingInv ==
  /\ Len(ring) <= 1
  /\ connected /\ pc \notin {"tick", "drain"} /\ ~InLinkEnd => ring = <<>>
  /\ ~dropped

IInv == TypeOK /\ ModeInv /\ LinkInv /\ RingInv /\ SyncCoherent
=============================================================================
