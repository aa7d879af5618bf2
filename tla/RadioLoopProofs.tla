-------------------------- MODULE RadioLoopProofs --------------------------
(***************************************************************************)
(* RadioLoop for every ring capacity, every number of clients and every    *)
(* interleaving of loop() with the BLE callbacks and the web server: the   *)
(* inductive invariant and the four safety properties it gives.            *)
(***************************************************************************)
EXTENDS RadioLoop, TLAPS

\* A single packet is a sequence of length one, and dropping it leaves none.
LEMMA SingletonRing ==
  ASSUME NEW sample \in Sample
  PROVE  /\ Append(<<>>, sample) \in Seq(Sample)
         /\ Len(Append(<<>>, sample)) = 1
         /\ \A i \in DOMAIN Append(<<>>, sample) : Append(<<>>, sample)[i] = sample
OBVIOUS

\* The empty ring.
LEMMA EmptyRing == <<>> \in Seq(Sample) /\ Len(<<>>) = 0 /\ DOMAIN <<>> = {}
OBVIOUS

\* One tick() empties a ring that holds at most one packet.
LEMMA DrainEmpties ==
  ASSUME NEW r \in Seq(Sample), Len(r) <= 1
  PROVE  SubSeq(r, kMaxPacketsPerTick + 1, Len(r)) = <<>>
<1>1. kMaxPacketsPerTick + 1 > Len(r) /\ kMaxPacketsPerTick + 1 \in Nat /\ Len(r) \in Nat
  BY RingAssumption
<1> QED
  BY <1>1

\* Each part of the type invariant, for a step that leaves its variables alone.
LEMMA LinkTypeKept ==
  ASSUME LinkTypeOK, UNCHANGED linkVars
  PROVE  LinkTypeOK'
BY DEF LinkTypeOK, linkVars, stackVars, hostVars

LEMMA PacketTypeKept ==
  ASSUME PacketTypeOK, UNCHANGED <<ringVars, gpsVars>>
  PROVE  PacketTypeOK'
BY DEF PacketTypeOK, ringVars, gpsVars

\* Nothing the host task does touches what loop() owns, and it keeps the
\* types of what it shares.
LEMMA HostStepTypes ==
  ASSUME LinkTypeOK, HostStep
  PROVE  LinkTypeOK' /\ UNCHANGED connected
<1>1. CASE PeerConnects
  <2>1. session' \in 0 .. MaxSessions
    BY <1>1, SessionsAssumption DEF LinkTypeOK, PeerConnects
  <2> QED
    BY <1>1, <2>1 DEF LinkTypeOK, PeerConnects
<1>2. CASE PeerGone
  BY <1>2 DEF LinkTypeOK, PeerGone
<1>3. CASE OnConnectFlag
  BY <1>3 DEF LinkTypeOK, OnConnectFlag, stackVars
<1>4. CASE OnConnectHandle
  BY <1>4 DEF LinkTypeOK, OnConnectHandle, stackVars
<1>5. CASE OnDisconnectFlag
  BY <1>5 DEF LinkTypeOK, OnDisconnectFlag, stackVars
<1>6. CASE OnDisconnectHandle
  BY <1>6 DEF LinkTypeOK, OnDisconnectHandle, stackVars
<1>7. CASE StackReadvertises
  BY <1>7 DEF LinkTypeOK, StackReadvertises
<1> QED
  BY <1>1, <1>2, <1>3, <1>4, <1>5, <1>6, <1>7 DEF HostStep, CallbackStep

\* The parts of end(), and begin(), keep the types of the link.
LEMMA LinkOpTypes ==
  ASSUME LinkTypeOK,
         \/ EndStopAdvertising \/ EndDisconnect \/ EndForgetHandle \/ EndForgetFlags
         \/ TickCopy \/ \E ok \in BOOLEAN : Begin(ok)
  PROVE  LinkTypeOK'
<1>1. CASE EndStopAdvertising
  BY <1>1 DEF LinkTypeOK, EndStopAdvertising, hostVars
<1>2. CASE EndDisconnect
  BY <1>2 DEF LinkTypeOK, EndDisconnect, hostVars
<1>3. CASE EndForgetHandle
  BY <1>3 DEF LinkTypeOK, EndForgetHandle, stackVars
<1>4. CASE EndForgetFlags
  BY <1>4 DEF LinkTypeOK, EndForgetFlags, stackVars
<1>5. CASE TickCopy
  BY <1>5 DEF LinkTypeOK, TickCopy, stackVars, hostVars
<1>6. ASSUME NEW ok \in BOOLEAN, Begin(ok) PROVE LinkTypeOK'
  BY <1>6 DEF LinkTypeOK, Begin, hostVars
<1> QED
  BY <1>1, <1>2, <1>3, <1>4, <1>5, <1>6

\* What setup() leaves satisfies the invariant.
LEMMA InitInv == Init => IInv
<1> USE SyncAssumption, SessionsAssumption
<1> SUFFICES ASSUME Init PROVE IInv
  OBVIOUS
<1>1. LinkTypeOK
  <2>1. session \in 0 .. MaxSessions
    BY DEF Init, LinkInit
  <2> QED
    BY <2>1 DEF Init, LinkInit, LinkTypeOK
<1>2. PassTypeOK /\ FlagsTypeOK
  BY DEF Init, PassTypeOK, FlagsTypeOK
<1>3. PacketTypeOK
  <2>1. 0 \in 0 .. SyncMod - 1
    OBVIOUS
  <2>2. ring \in Seq(Sample)
    BY EmptyRing DEF Init
  <2> QED
    BY <2>1, <2>2 DEF Init, PacketTypeOK
<1>4. ModeInv /\ LinkInv /\ RingInv /\ SyncCoherent
  BY DEF Init, LinkInit, ModeInv, LinkInv, RingInv, InLinkEnd, SyncCoherent
<1> QED
  BY <1>1, <1>2, <1>3, <1>4 DEF IInv, TypeOK

\* SyncCoherent, for a step that leaves the ring and the characteristic alone.
LEMMA RingUntouched ==
  ASSUME SyncCoherent, UNCHANGED <<ring, timeChar>>
  PROVE  SyncCoherent'
BY DEF SyncCoherent

\* The restart of a radio preserves the invariant: connected is cleared by
\* end() before the other radio comes up.
LEMMA RestartInv ==
  ASSUME IInv, PortalEnd \/ LinkEnd \/ StartPortal \/ StartLink
  PROVE  IInv'
<1>1. UNCHANGED <<ringVars, gpsVars>>
  BY DEF PortalEnd, LinkEnd, StartPortal, StartLink
<1>2. LinkTypeOK'
  BY LinkOpTypes, LinkTypeKept DEF IInv, TypeOK, PortalEnd, LinkEnd, StartPortal, StartLink
<1>3. PacketTypeOK' /\ SyncCoherent'
  BY <1>1, PacketTypeKept, RingUntouched DEF IInv, TypeOK, ringVars, gpsVars
<1>4. PassTypeOK'
  BY DEF IInv, TypeOK, PassTypeOK, PortalEnd, LinkEnd, StartPortal, StartLink, modeVars
<1>5. FlagsTypeOK'
  BY DEF IInv, TypeOK, FlagsTypeOK, PortalEnd, LinkEnd, StartPortal, StartLink, modeVars
<1>6. ModeInv'
  BY DEF IInv, TypeOK, PassTypeOK, ModeInv, InLinkEnd, PortalEnd, LinkEnd, StartPortal, StartLink,
         modeVars
<1>7. LinkInv' /\ RingInv'
  <2>1. CASE PortalEnd
    BY <1>1, <2>1 DEF IInv, LinkInv, RingInv, InLinkEnd, PortalEnd, linkVars, modeVars, ringVars
  <2>2. CASE LinkEnd
    BY <1>1, <2>2 DEF IInv, LinkInv, RingInv, InLinkEnd, LinkEnd, EndStopAdvertising,
                      EndDisconnect, EndForgetHandle, EndForgetFlags, modeVars, ringVars
  <2>3. CASE StartPortal
    BY <1>1, <2>3 DEF IInv, TypeOK, PassTypeOK, LinkInv, RingInv, InLinkEnd, StartPortal,
                      linkVars, modeVars, ringVars
  <2>4. CASE StartLink
    BY <1>1, <2>4 DEF IInv, TypeOK, PassTypeOK, LinkInv, RingInv, InLinkEnd, StartLink, Begin,
                      modeVars, ringVars
  <2> QED
    BY <2>1, <2>2, <2>3, <2>4
<1> QED
  BY <1>2, <1>3, <1>4, <1>5, <1>6, <1>7 DEF IInv, TypeOK

\* The rename and the button: they only choose what the pass does next.
LEMMA DecideInv ==
  ASSUME IInv, RenameDue \/ RenameNotDue \/ ButtonHeld \/ NoButton \/ Pump \/ NoSample
  PROVE  IInv'
<1>1. UNCHANGED <<linkVars, portalUp, beginOk, ringVars, gpsVars>>
  BY DEF RenameDue, RenameNotDue, ButtonHeld, NoButton, Pump, NoSample
<1>2. LinkTypeOK' /\ PacketTypeOK' /\ SyncCoherent'
  BY <1>1, LinkTypeKept, PacketTypeKept, RingUntouched DEF IInv, TypeOK, ringVars, gpsVars
<1>3. PassTypeOK'
  BY DEF IInv, TypeOK, PassTypeOK, StopLabel, RenameDue, RenameNotDue, ButtonHeld, NoButton,
         Pump, NoSample, modeVars
<1>4. FlagsTypeOK'
  BY <1>1 DEF IInv, TypeOK, FlagsTypeOK, RenameDue, RenameNotDue, ButtonHeld, NoButton,
              Pump, NoSample, modeVars
<1>5. ModeInv' /\ LinkInv'
  BY <1>1 DEF IInv, RenameDue, RenameNotDue, ButtonHeld, NoButton, Pump, NoSample, StopLabel,
              TypeOK, PassTypeOK, ModeInv, LinkInv, InLinkEnd, linkVars, modeVars
<1>6. RingInv'
  BY <1>1 DEF IInv, RenameDue, RenameNotDue, ButtonHeld, NoButton, Pump, NoSample, StopLabel,
              TypeOK, PassTypeOK, RingInv, LinkInv, InLinkEnd, linkVars, modeVars, ringVars
<1> QED
  BY <1>2, <1>3, <1>4, <1>5, <1>6 DEF IInv, TypeOK

\* publishFix(): it runs only with an empty ring, so the packet it pushes is
\* alone there, and carries the bits the time characteristic gets.
LEMMA ProduceInv ==
  ASSUME IInv, Produce
  PROVE  IInv'
<1> USE SyncAssumption
<1>1. PICK h \in Hours : PublishFix(h)
  BY DEF Produce
<1> DEFINE sample == [session |-> session, hour |-> h, sync |-> NextSync(h)]
<1>2. pc = "produce" /\ pc' = "tick" /\ connected
  BY <1>1 DEF Produce, PublishFix
<1>3. ring = <<>> /\ mode = "ble"
  BY <1>2 DEF IInv, RingInv, ModeInv, LinkInv, InLinkEnd, TypeOK, PassTypeOK
<1>4. NextSync(h) \in 0 .. SyncMod - 1
  <2>1. syncBits \in 0 .. SyncMod - 1
    BY DEF IInv, TypeOK, PacketTypeOK
  <2>2. (syncBits + 1) % SyncMod \in 0 .. SyncMod - 1
    BY <2>1
  <2> QED
    BY <2>1, <2>2 DEF NextSync
<1>5. sample \in Sample
  BY <1>4 DEF IInv, TypeOK, LinkTypeOK, Sample
<1>6. ring' = Append(<<>>, sample) /\ dropped' = dropped
  <2>1. Len(ring) = 0 /\ 0 < kCapacity
    BY <1>3, RingAssumption
  <2> QED
    BY <1>1, <1>3, <2>1 DEF PublishFix, Push
<1> HIDE DEF sample
<1>7. ring' \in Seq(Sample) /\ Len(ring') = 1 /\ \A i \in DOMAIN ring' : ring'[i] = sample
  BY <1>5, <1>6, SingletonRing
<1>8. TypeOK'
  <2>1. LinkTypeOK'
    BY LinkTypeKept DEF IInv, TypeOK, Produce
  <2>2. PassTypeOK' /\ FlagsTypeOK'
    BY DEF IInv, TypeOK, PassTypeOK, FlagsTypeOK, Produce, modeVars
  <2>3. PacketTypeOK'
    BY <1>1, <1>4, <1>6, <1>7 DEF IInv, TypeOK, PacketTypeOK, PublishFix
  <2> QED
    BY <2>1, <2>2, <2>3 DEF TypeOK
<1>9. ModeInv' /\ LinkInv'
  BY <1>2, <1>3 DEF IInv, Produce, ModeInv, LinkInv, InLinkEnd, linkVars, modeVars
<1>10. RingInv'
  BY <1>2, <1>6, <1>7 DEF IInv, RingInv
<1>11. SyncCoherent'
  BY <1>1, <1>7 DEF SyncCoherent, PublishFix, sample
<1> QED
  BY <1>8, <1>9, <1>10, <1>11 DEF IInv

\* tick(): the copy of the flag, then the packets.
LEMMA TickInv ==
  ASSUME IInv, Tick
  PROVE  IInv'
<1>1. LinkTypeOK' /\ PacketTypeOK' /\ SyncCoherent'
  BY LinkOpTypes, PacketTypeKept, RingUntouched DEF IInv, TypeOK, Tick, ringVars, gpsVars
<1>2. PassTypeOK' /\ FlagsTypeOK'
  BY DEF IInv, TypeOK, PassTypeOK, FlagsTypeOK, Tick, modeVars
<1>3. ModeInv' /\ LinkInv'
  BY DEF IInv, Tick, TypeOK, PassTypeOK, ModeInv, LinkInv, InLinkEnd, modeVars
<1>4. RingInv'
  BY DEF IInv, Tick, RingInv, InLinkEnd, ringVars
<1> QED
  BY <1>1, <1>2, <1>3, <1>4 DEF IInv, TypeOK

LEMMA DrainInv ==
  ASSUME IInv, Drain
  PROVE  IInv'
<1>1. ring \in Seq(Sample) /\ Len(ring) <= 1
  <2>1. ring \in Seq(Sample) /\ Len(ring) \in Nat
    BY DEF IInv, TypeOK, PacketTypeOK
  <2>2. ring = <<>> => Len(ring) = 0
    OBVIOUS
  <2> QED
    BY <2>1, <2>2 DEF IInv, RingInv
<1>2. ring' = <<>>
  BY <1>1, DrainEmpties DEF Drain
<1>3. LinkTypeOK'
  BY LinkTypeKept DEF IInv, TypeOK, Drain
<1>4. PassTypeOK' /\ FlagsTypeOK'
  BY DEF IInv, TypeOK, PassTypeOK, FlagsTypeOK, Drain, modeVars
<1>5. PacketTypeOK'
  BY <1>2, EmptyRing DEF IInv, TypeOK, PacketTypeOK, Drain, gpsVars
<1>6. ModeInv' /\ LinkInv'
  BY DEF IInv, Drain, ModeInv, LinkInv, InLinkEnd, linkVars, modeVars
<1>7. RingInv'
  <2>1. Len(ring') <= 1
    BY <1>2, EmptyRing
  <2> QED
    BY <1>2, <2>1 DEF IInv, Drain, RingInv
<1>8. SyncCoherent'
  <2>1. DOMAIN ring' = {}
    BY <1>2, EmptyRing
  <2> QED
    BY <2>1 DEF SyncCoherent
<1> QED
  BY <1>3, <1>4, <1>5, <1>6, <1>7, <1>8 DEF IInv, TypeOK

\* Every step preserves the invariant.
LEMMA StepInv ==
  ASSUME IInv, [Next]_vars
  PROVE  IInv'
<1>1. CASE LoopStep
  BY <1>1, RestartInv, DecideInv, ProduceInv, TickInv, DrainInv DEF LoopStep
<1>2. CASE HostStep /\ UNCHANGED loopVars
  <2>1. LinkTypeOK' /\ UNCHANGED connected
    BY <1>2, HostStepTypes DEF IInv, TypeOK
  <2>2. PacketTypeOK' /\ SyncCoherent'
    BY <1>2, PacketTypeKept, RingUntouched DEF IInv, TypeOK, loopVars, ringVars, gpsVars
  <2>3. PassTypeOK' /\ FlagsTypeOK'
    BY <1>2 DEF IInv, TypeOK, PassTypeOK, FlagsTypeOK, loopVars, modeVars
  <2>4. ModeInv' /\ LinkInv' /\ RingInv'
    BY <1>2, <2>1 DEF IInv, ModeInv, LinkInv, RingInv, InLinkEnd, loopVars, modeVars, ringVars
  <2> QED
    BY <2>1, <2>2, <2>3, <2>4 DEF IInv, TypeOK
<1>3. CASE SaveRename \/ UNCHANGED vars
  <2>1. UNCHANGED <<linkVars, pc, resume, modeVars, portalUp, beginOk, ringVars, gpsVars>>
    BY <1>3 DEF SaveRename, vars, loopVars
  <2>2. LinkTypeOK' /\ PacketTypeOK' /\ SyncCoherent'
    BY <2>1, LinkTypeKept, PacketTypeKept, RingUntouched DEF IInv, TypeOK, ringVars, gpsVars
  <2>3. renamePending' \in BOOLEAN
    BY <1>3 DEF IInv, TypeOK, FlagsTypeOK, SaveRename, vars, loopVars
  <2>4. PassTypeOK' /\ FlagsTypeOK'
    BY <2>1, <2>3 DEF IInv, TypeOK, PassTypeOK, FlagsTypeOK, modeVars
  <2>5. ModeInv' /\ LinkInv' /\ RingInv'
    BY <2>1 DEF IInv, ModeInv, LinkInv, RingInv, InLinkEnd, linkVars, modeVars, ringVars
  <2> QED
    BY <2>2, <2>4, <2>5 DEF IInv, TypeOK
<1> QED
  BY <1>1, <1>2, <1>3 DEF Next

\* The invariant holds in every reachable state.
THEOREM Invariance == Spec => []IInv
<1>1. Init => IInv
  BY InitInv
<1>2. IInv /\ [Next]_vars => IInv'
  BY StepInv
<1> QED
  BY <1>1, <1>2, PTL DEF Spec

\* At most one packet ever waits in the ring, and none is overwritten.
THEOREM RingNeverOverflows == Spec => []RingBacklog
<1>1. IInv => RingBacklog
  <2> SUFFICES ASSUME IInv PROVE RingBacklog
    OBVIOUS
  <2>1. ring = <<>> => Len(ring) = 0
    OBVIOUS
  <2>2. Len(ring) <= 1
    BY <2>1 DEF IInv, RingInv
  <2> QED
    BY <2>2 DEF IInv, RingInv, RingBacklog
<1> QED
  BY <1>1, Invariance, PTL

\* Nothing is notified over BLE while the configuration portal is the radio.
THEOREM NoLinkInWifi == Spec => []LinkDownInWifi
<1>1. IInv => LinkDownInWifi
  BY DEF IInv, LinkInv, LinkDownInWifi, Restarting, InLinkEnd
<1> QED
  BY <1>1, Invariance, PTL

\* The portal is up only while loop() has let go of the BLE link.
THEOREM OneRadioHeld == Spec => []PortalExclusive
<1>1. IInv => PortalExclusive
  BY DEF IInv, ModeInv, LinkInv, PortalExclusive, InLinkEnd, TypeOK
<1> QED
  BY <1>1, Invariance, PTL

\* The packet that waits and the time characteristic agree on the hour.
THEOREM TimeAgrees == Spec => []SyncCoherent
<1>1. IInv => SyncCoherent
  BY DEF IInv
<1> QED
  BY <1>1, Invariance, PTL
=============================================================================
