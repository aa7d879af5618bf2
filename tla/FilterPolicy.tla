---------------------------- MODULE FilterPolicy ----------------------------
(***************************************************************************)
(* What the CAN filter promises RaceChrono, without tables or timestamps:  *)
(* which ids it forwards, at most how often each, and that the first frame *)
(* of an id is never held back.  Time is the age of each id's last         *)
(* notification.  CanPump implements it.                                   *)
(***************************************************************************)
EXTENDS Naturals, FiniteSets

CONSTANTS
  CanId, Interval,  \* the ids on the bus and the intervals a client asks for
  MaxIds,           \* how many ids can be followed at once
  MaxStep,          \* the longest time between two passes
  Never             \* the age of an id that was never notified

VARIABLES
  all,       \* forward ids nobody asked for, at the default interval
  default,   \* that interval
  rate,      \* the interval of each id that is followed
  age,       \* time since the last notification of each, capped
  verdict    \* the last frame judged, and whether it went out

vars == <<all, default, rate, age, verdict>>

\* No interval tells ages above the longest one apart.
OldAge == CHOOSE m \in Interval : \A i \in Interval : i <= m

Nothing == [x \in {} |-> 0]
NoVerdict == [id |-> Never, sent |-> FALSE]

Init ==
  /\ all = FALSE /\ default = 0
  /\ rate = Nothing /\ age = Nothing
  /\ verdict = NoVerdict

\* Forget every id; from now on forward nothing, or everything at interval i.
Restart(allow, i) ==
  /\ all' = allow /\ default' = i
  /\ rate' = Nothing /\ age' = Nothing
  /\ UNCHANGED verdict

\* Follow id at interval i from now on.
Follow(id, i, a) ==
  /\ rate' = [x \in DOMAIN rate \cup {id} |-> IF x = id THEN i ELSE rate[x]]
  /\ age' = [x \in DOMAIN rate \cup {id} |-> IF x = id THEN a ELSE age[x]]

\* A request for one id; changing the rate of one that is followed does not
\* make its next frame due any earlier than its last notification says.
Ask(id, i) ==
  /\ id \in DOMAIN rate \/ Cardinality(DOMAIN rate) < MaxIds
  /\ Follow(id, i, IF id \in DOMAIN rate THEN age[id] ELSE Never)
  /\ UNCHANGED <<all, default, verdict>>

Due(id) == age[id] = Never \/ age[id] >= rate[id]

\* A frame goes out: its id is followed and due, or was just discovered.
Send(id) ==
  /\ \/ id \in DOMAIN rate /\ Due(id) /\ Follow(id, rate[id], 0)
     \/ /\ id \notin DOMAIN rate /\ all /\ Cardinality(DOMAIN rate) < MaxIds
        /\ Follow(id, default, 0)
  /\ verdict' = [id |-> id, sent |-> TRUE]
  /\ UNCHANGED <<all, default>>

\* A frame is held: not due yet, not asked for, or one id too many.
Hold(id) ==
  /\ \/ id \in DOMAIN rate /\ ~Due(id)
     \/ id \notin DOMAIN rate /\ ~all
     \/ id \notin DOMAIN rate /\ Cardinality(DOMAIN rate) = MaxIds
  /\ verdict' = [id |-> id, sent |-> FALSE]
  /\ UNCHANGED <<all, default, rate, age>>

Elapse(d) ==
  /\ age' = [x \in DOMAIN age |->
               IF age[x] = Never THEN Never
               ELSE IF age[x] + d > OldAge THEN OldAge ELSE age[x] + d]
  /\ verdict' = NoVerdict
  /\ UNCHANGED <<all, default, rate>>

Next ==
  \/ \E allow \in BOOLEAN, i \in Interval : Restart(allow, i)
  \/ \E id \in CanId, i \in Interval : Ask(id, i)
  \/ \E id \in CanId : Send(id) \/ Hold(id)
  \/ \E d \in 0 .. MaxStep : Elapse(d)

Spec == Init /\ [][Next]_vars
=============================================================================
