---------------------------- MODULE GpsReceiver -----------------------------
(***************************************************************************)
(* GpsReceiver::begin() and the module at the other end of Serial1.        *)
(* begin() looks for the module at three speeds, raises the speed and      *)
(* configures it; loop() runs it again when a restart of the radio finds   *)
(* that the rate was changed.  Nothing is acknowledged.  The module keeps  *)
(* what it was told through a reset of the firmware, also one in the       *)
(* middle of begin(), and loses it when the power goes.                    *)
(***************************************************************************)
EXTENDS Integers, Sequences

CONSTANTS
  kMaxRateHz,            \* the fastest rate of the module
  kMaxConcurrentRateHz,  \* the fastest with more than one constellation
  kWakeMs, kProbeMs,     \* the pause before, and the time for, listening at a speed
  Wrap,                  \* 2^32: millis() wraps here
  ProbeTimes,            \* values of millis() at which listening may begin
  kPvtBits,              \* a NAV-PVT on the line: 100 bytes of 10 bits
  Requests,              \* the rates the settings can hold
  FactoryBauds, FactoryRates,  \* what the module may come up with after power on
  MaxSaves, MaxResets    \* bounds on what happens to the device

kTargetBaud == 115200
kBaudCandidates == <<115200, 38400, 9600>>
Concerns == {"nmea", "pvt", "gnss", "rate"}

ASSUME ReceiverAssumption ==
  /\ kMaxRateHz \in Nat \ {0} /\ kMaxConcurrentRateHz \in 1 .. kMaxRateHz
  /\ kWakeMs \in Nat /\ kPvtBits \in Nat /\ Wrap \in Nat
  /\ kProbeMs \in 1 .. Wrap - 1 /\ 0 \in ProbeTimes /\ ProbeTimes \subseteq 0 .. Wrap - 1
  /\ Requests \subseteq Nat
  /\ \A b \in FactoryBauds : \E i \in DOMAIN kBaudCandidates : kBaudCandidates[i] = b
  /\ FactoryRates \subseteq 1 .. kMaxRateHz
  /\ kPvtBits * kMaxRateHz <= kTargetBaud  \* 25 fixes of 100 bytes a second
  /\ MaxSaves \in Nat /\ MaxResets \in Nat

VARIABLES
  alive, noisy,  \* the module works; the line can carry garbage
  rejects,       \* the concerns whose VALSET the module refuses
  factory,       \* the speed and rate it comes up with
  module,        \* what the module has in RAM, and whether it is in backup
  pc,            \* where loop() is
  trying, step,  \* in begin(): the speed being tried, the VALSET to be sent
  hostBaud,      \* of Serial1
  rate,          \* begin()'s argument, adjusted
  present, rateHz,  \* present_, rateHz_
  sampleHz,      \* Settings::sampleHz
  unread,        \* history: the rate was saved after begin() or the guard read it
  deaf,          \* history: begin() came to the module's speed and did not listen
  saves, resets  \* bounds

worldVars == <<alive, noisy, rejects, factory>>
hostVars == <<pc, trying, step, hostBaud, rate, present, rateHz>>
settingVars == <<sampleHz, unread, saves>>
receiverVars == <<worldVars, module, hostVars, settingVars, deaf, resets>>

\* The module after power on; left in backup, it is so until it is woken.
FactoryDefaults(asleep) ==
  [baud |-> factory.baud, rate |-> factory.rate, pvt |-> FALSE, nmea |-> TRUE,
   single |-> FALSE, asleep |-> asleep]

Factories == [baud : FactoryBauds, rate : FactoryRates]

ReceiverInit ==
  /\ alive \in BOOLEAN /\ noisy \in BOOLEAN
  /\ rejects \in SUBSET Concerns
  /\ factory \in Factories
  /\ module \in {FactoryDefaults(asleep) : asleep \in BOOLEAN}
  /\ pc = "begin" /\ trying = 1 /\ step = 1
  /\ hostBaud = 0 /\ rate = 0
  /\ present = FALSE /\ rateHz = 0
  /\ sampleHz \in Requests /\ unread = FALSE /\ deaf = FALSE
  /\ saves = 0 /\ resets = 0

-----------------------------------------------------------------------------
(* The module and the line.                                                *)

Talks == alive /\ (module.nmea \/ module.pvt)

\* It sends something while begin() is at its speed; what comes in during the
\* pause waits in the UART's buffer.
Talkative == Talks /\ 1000 <= (kWakeMs + kProbeMs) * module.rate

\* Evidence at the speed baud: sure if the module is awake and sends often
\* enough; possible if it speaks at that speed at all; and garbage may hold a
\* '$' or a sync pair.
Evidence(baud, awake) ==
  LET here == awake /\ module.baud = baud
  IN  IF here /\ Talkative THEN {TRUE}
      ELSE IF (here /\ Talks) \/ noisy THEN BOOLEAN ELSE {FALSE}

\* Whether a VALSET sent now takes effect; noise may garble it.
Takes == IF ~alive \/ hostBaud # module.baud THEN {FALSE} ELSE IF noisy THEN BOOLEAN ELSE {TRUE}

\* A rate the module cannot meet with its constellations is refused.
Refused(c) == c \in rejects \/ (c = "rate" /\ rate > kMaxConcurrentRateHz /\ ~module.single)

Obey(c) ==
  module' =
    CASE c = "nmea" -> [module EXCEPT !.nmea = FALSE]
      [] c = "pvt" -> [module EXCEPT !.pvt = TRUE]
      [] c = "gnss" -> [module EXCEPT !.single = rate > kMaxConcurrentRateHz]
      [] c = "rate" -> [module EXCEPT !.rate = rate]

-----------------------------------------------------------------------------
(* begin()                                                                 *)

EffectiveRate(requested) ==
  IF requested = 0 THEN 1 ELSE IF requested > kMaxRateHz THEN kMaxRateHz ELSE requested

BeginStarts ==
  /\ pc = "begin"
  /\ rate' = EffectiveRate(sampleHz) /\ unread' = FALSE /\ deaf' = FALSE
  /\ pc' = "probe" /\ trying' = 1
  /\ UNCHANGED <<worldVars, module, step, hostBaud, present, rateHz, sampleHz, saves, resets>>

\* Mutation of Wakes: nothing is written before listening.
WakesNot == FALSE

\* probe() writes before it listens, which wakes a module in backup.
Wakes == TRUE

\* Mutation of LastTry: the sweep goes on past the list.
LastTryLate == Len(kBaudCandidates) + 1

LastTry == Len(kBaudCandidates)

NextTry == trying + 1

\* The loop of probe() runs while millis() is below a deadline.  One beyond the
\* wrap is behind it at once, and not a byte is looked at.
Listens(t) == t < (t + kProbeMs) % Wrap

\* millis() begins at 0 with the firmware, so a wrap is far from the first
\* begin(), which is the one that has no rate yet.
Instants == IF rateHz = 0 THEN {t \in ProbeTimes : t + kProbeMs < Wrap} ELSE ProbeTimes

Heard(baud, awake, t) == IF Listens(t) THEN Evidence(baud, awake) ELSE {FALSE}

\* probe() at one speed.  (A deadline just before the wrap may be jumped over by
\* the loop's delay(5); it then goes on until something is heard, and until
\* then this step is not taken.)
Probe ==
  /\ pc = "probe"
  /\ hostBaud' = kBaudCandidates[trying]
  /\ module' = [module EXCEPT !.asleep = @ /\ ~Wakes]
  /\ \E t \in Instants :
       /\ deaf' = (deaf \/ (~Listens(t) /\ module.baud = kBaudCandidates[trying]))
       /\ \E heard \in Heard(kBaudCandidates[trying], ~module'.asleep, t) :
            /\ pc' = IF heard THEN "configure" ELSE IF NextTry > LastTry THEN "run" ELSE "probe"
            /\ trying' = IF heard \/ NextTry > LastTry THEN 1 ELSE NextTry
            /\ present' = IF ~heard /\ NextTry > LastTry THEN FALSE ELSE present
  /\ step' = 1
  /\ UNCHANGED <<worldVars, rate, rateHz, settingVars, resets>>

\* Mutations of Order: the speed is raised last; the rate comes before the
\* constellations.
OrderBaudLast == <<"nmea", "pvt", "gnss", "rate", "baud">>
OrderRateFirst == <<"baud", "nmea", "pvt", "rate", "gnss">>

Order == <<"baud", "nmea", "pvt", "gnss", "rate">>

\* Serial1 follows without knowing whether the module did.
RaiseBaud ==
  /\ \E taken \in Takes :
       module' = IF taken THEN [module EXCEPT !.baud = kTargetBaud] ELSE module
  /\ hostBaud' = kTargetBaud

SendValset(c) ==
  /\ \E taken \in Takes :
       IF taken /\ ~Refused(c) THEN Obey(c) ELSE UNCHANGED module
  /\ UNCHANGED hostBaud

Configure ==
  /\ pc = "configure"
  /\ IF Order[step] = "baud" THEN RaiseBaud ELSE SendValset(Order[step])
  /\ IF step < Len(Order)
       THEN step' = step + 1 /\ UNCHANGED <<pc, present, rateHz>>
       ELSE step' = 1 /\ pc' = "run" /\ present' = TRUE /\ rateHz' = rate
  /\ UNCHANGED <<worldVars, trying, rate, settingVars, deaf, resets>>

-----------------------------------------------------------------------------
(* loop(), the settings, resets.                                           *)

\* The guard of startCurrentMode().
RateChanged == rateHz # EffectiveRate(sampleHz)

\* A rename or a mode switch restarts the radio, and perhaps the receiver.
Restart ==
  /\ pc = "run"
  /\ pc' = IF present /\ RateChanged THEN "begin" ELSE "run"
  /\ unread' = FALSE
  /\ UNCHANGED <<worldVars, module, trying, step, hostBaud, rate, present, rateHz, sampleHz, saves,
                 deaf, resets>>

\* The web server's task stores a rate, at any time.
Save(hz) ==
  /\ saves < MaxSaves
  /\ hz # sampleHz
  /\ sampleHz' = hz /\ unread' = TRUE /\ saves' = saves + 1
  /\ UNCHANGED <<worldVars, module, hostVars, deaf, resets>>

HostForgets ==
  /\ pc' = "begin" /\ trying' = 1 /\ step' = 1 /\ hostBaud' = 0 /\ rate' = 0
  /\ present' = FALSE /\ rateHz' = 0 /\ unread' = FALSE /\ deaf' = FALSE
  /\ resets' = resets + 1

WarmReset ==
  /\ resets < MaxResets
  /\ HostForgets
  /\ UNCHANGED <<worldVars, module, sampleHz, saves>>

PowerCycle ==
  /\ resets < MaxResets
  /\ HostForgets
  /\ module' = FactoryDefaults(FALSE)
  /\ UNCHANGED <<worldVars, sampleHz, saves>>

LoopStep == BeginStarts \/ Probe \/ Configure
World == Restart \/ WarmReset \/ PowerCycle \/ \E hz \in Requests : Save(hz)
ReceiverNext == LoopStep \/ World

ReceiverSpec == ReceiverInit /\ [][ReceiverNext]_receiverVars

-----------------------------------------------------------------------------
Modules ==
  [baud : FactoryBauds \cup {kTargetBaud}, rate : 1 .. kMaxRateHz,
   pvt : BOOLEAN, nmea : BOOLEAN, single : BOOLEAN, asleep : BOOLEAN]

\* Serial1 is closed or at a speed begin() tries.
Bauds == {0} \cup {kBaudCandidates[i] : i \in DOMAIN kBaudCandidates}

ReceiverTypeOK ==
  /\ {alive, noisy, present, unread, deaf} \subseteq BOOLEAN
  /\ rejects \subseteq Concerns /\ factory \in Factories /\ module \in Modules
  /\ pc \in {"begin", "probe", "configure", "run"}
  /\ trying \in DOMAIN kBaudCandidates /\ step \in DOMAIN Order
  /\ hostBaud \in Bauds
  /\ rate \in 0 .. kMaxRateHz /\ rateHz \in 0 .. kMaxRateHz
  /\ sampleHz \in Requests

\* Whatever is reset in the middle of whatever, the module is never told to
\* send more fixes a second than its line can carry.  GpsReceiver.cpp:172-173.
FitsLine == module.pvt => kPvtBits * module.rate <= module.baud

\* A module that speaks while begin() listens at its speed is found, asleep or
\* not, at whichever speed the last run of the firmware left it.  The exceptions
\* are a module too slow to speak in that time, and a deadline beyond the wrap
\* of millis(), for which begin() did not listen at the module's speed.
FoundIfHeard == pc = "run" /\ ~noisy /\ Talkative /\ ~deaf => present

\* On a clean line a receiver believed present is there, at the speed of
\* Serial1, and does everything it was told and did not refuse, whatever it was
\* configured to before: a rate that needs one constellation is reached, and a
\* lower one has all of them again.
AsTold ==
  /\ alive /\ module.baud = hostBaud
  /\ "nmea" \notin rejects => ~module.nmea
  /\ "pvt" \notin rejects => module.pvt
  /\ "gnss" \notin rejects => module.single = (rateHz > kMaxConcurrentRateHz)
  /\ rejects = {} => module.rate = rateHz

\* ... and the rate it was told is the one of the settings, unless that was
\* saved after the last restart of the radio.  main.cpp:114-123.
Configured ==
  pc = "run" /\ present =>
    /\ ~noisy => AsTold
    /\ ~unread => rateHz = EffectiveRate(sampleHz)

\* Stated by GpsReceiver.h:8-9 and GpsReceiver.cpp:24-28: begin() finds the
\* speed the module is using.  (A module that sends once a second may well be
\* silent for the 270 ms begin() listens at its speed, and is then never looked
\* for again.)
FoundIfThere == pc = "run" /\ ~noisy /\ Talks /\ ~deaf => present

\* Stated by the same lines: FoundIfHeard without the exception of the wrap.  (A
\* radio restarted for a new rate in the last 250 ms before millis() wraps takes
\* the module for absent, although it sends all the time, and that for good.)
FoundIfTalkative == pc = "run" /\ ~noisy /\ Talkative => present
=============================================================================
