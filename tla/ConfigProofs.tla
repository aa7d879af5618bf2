---------------------------- MODULE ConfigProofs ----------------------------
(***************************************************************************)
(* ConfigSave for every set of names and rates, every interleaving of the  *)
(* web server's task with loop(), and power failing at any point: what is  *)
(* acknowledged survives, and no rename is lost.  And WebSave, the way of  *)
(* a body to that save, for any number of addresses, requests and pieces.  *)
(***************************************************************************)
EXTENDS ConfigSave, WebSave, SequenceTheorems, TLAPS

\* What the settings go back to if the save in progress fails.
Before == IF web \in {"storeName", "storeHz", "rollback", "answer"} THEN previous ELSE settings

\* While a save is handled its locals are the settings before it, and flash
\* follows: it has the new name when the rate is about to be stored, and both
\* when the answer is about to be given.
SaveInv ==
  /\ web = "apply" => previous = settings
  /\ web = "storeHz" => available /\ suspect /\ nvs.name = settings.name
  /\ web = "answer" => Load(nvs) = settings
  /\ available /\ ~suspect /\ web # "answer" => Load(nvs) = Before

\* A radio start that will read the name is due or under way.
StartDue ==
  \/ web = "flag" \/ renamePending
  \/ loop \in {"clear", "stopForName", "startForName", "startOther"}

NameInv == borrowed \/ StartDue \/ radioName = Before.name

IInv == TypeOK /\ SaveInv /\ NameInv

\* Whatever flash holds, load() yields a configuration; and it yields what was
\* stored whole.
LEMMA LoadProperties ==
  ASSUME NEW stored \in [name : Names \cup {NoKey}, hz : Rates \cup {NoKey}]
  PROVE  /\ Load(stored) \in Config
         /\ \A s \in Config : stored = s => Load(stored) = s
<1>1. Default.name \in Names /\ Default.hz \in Rates
  BY ConfigAssumption DEF Config
<1>2. Load(stored) \in Config
  BY <1>1 DEF Load, Config
<1>3. ASSUME NEW s \in Config, stored = s
      PROVE  Load(stored) = s
  <2>1. s.name # NoKey /\ s.hz # NoKey /\ s = [name |-> s.name, hz |-> s.hz]
    BY ConfigAssumption DEF Config
  <2> QED
    BY <1>3, <2>1 DEF Load
<1> QED
  BY <1>2, <1>3

LEMMA DefaultProperties == Default \in Config /\ Default.name \in Names
BY ConfigAssumption DEF Config

LEMMA InitInv == Init => IInv
<1> SUFFICES ASSUME Init PROVE IInv
  OBVIOUS
<1>1. TypeOK
  <2>1. 0 \in 0 .. Wrap - 1 /\ kRenameFlushDelayMs \in 0 .. kRenameFlushDelayMs
    BY ConfigAssumption
  <2> QED
    BY <2>1, DefaultProperties DEF Init, TypeOK
<1>2. Load(nvs) = settings
  <2>1. Default = [name |-> Default.name, hz |-> Default.hz]
    BY DefaultProperties DEF Config
  <2> QED
    BY <2>1 DEF Init, Load
<1>3. SaveInv /\ NameInv
  BY <1>2 DEF Init, SaveInv, NameInv, Before
<1> QED
  BY <1>1, <1>3 DEF IInv

-----------------------------------------------------------------------------
\* Every step of the web server's task keeps the invariant.
LEMMA AcceptKeepsInv ==
  ASSUME IInv, NEW s \in Config, Accept(s)
  PROVE  IInv'
<1>1. TypeOK'
  BY DEF Accept, WebAt, nvsVars, flagVars, radioVars, loopVars, IInv, TypeOK
<1>2. SaveInv' /\ NameInv'
  BY DEF Accept, WebAt, nvsVars, flagVars, radioVars, loopVars, IInv, SaveInv, NameInv,
         Before, StartDue, Load
<1> QED
  BY <1>1, <1>2 DEF IInv

LEMMA WebKeepsInv ==
  ASSUME IInv, Web
  PROVE  IInv'
<1> USE DEF WebAt, nvsVars, flagVars, radioVars, loopVars
<1>1. CASE Apply
  <2>1. TypeOK'
    BY <1>1 DEF Apply, IInv, TypeOK
  <2>2. SaveInv' /\ NameInv'
    BY <1>1 DEF Apply, IInv, SaveInv, NameInv, Before, StartDue, Load
  <2> QED
    BY <2>1, <2>2 DEF IInv
<1>2. CASE StoreName
  <2>1. settings.name \in Names
    BY DEF IInv, TypeOK, Config
  <2>2. TypeOK'
    BY <1>2, <2>1 DEF StoreName, IInv, TypeOK
  <2>3. nvs'.name = settings.name
    BY <1>2 DEF StoreName, IInv, TypeOK
  <2>4. SaveInv' /\ NameInv'
    BY <1>2, <2>3 DEF StoreName, IInv, SaveInv, NameInv, Before, StartDue
  <2> QED
    BY <2>2, <2>4 DEF IInv
<1>3. CASE StoreHz
  <2>1. settings.hz \in Rates /\ settings \in Config
    BY DEF IInv, TypeOK, Config
  <2>2. TypeOK'
    BY <1>3, <2>1 DEF StoreHz, IInv, TypeOK
  <2>3. nvs' = settings
    BY <1>3, <2>1 DEF StoreHz, IInv, SaveInv, TypeOK, Config
  <2>4. Load(nvs') = settings
    BY <2>1, <2>2, <2>3, LoadProperties DEF TypeOK
  <2>5. SaveInv' /\ NameInv'
    BY <1>3, <2>4 DEF StoreHz, IInv, SaveInv, NameInv, Before, StartDue, Load
  <2> QED
    BY <2>2, <2>5 DEF IInv
<1>4. CASE StoreRefused
  <2>1. TypeOK'
    BY <1>4 DEF StoreRefused, IInv, TypeOK
  <2>2. SaveInv' /\ NameInv'
    BY <1>4 DEF StoreRefused, IInv, SaveInv, NameInv, Before, StartDue, Load
  <2> QED
    BY <2>1, <2>2 DEF IInv
<1>5. CASE RollBack
  <2>1. TypeOK'
    BY <1>5, DefaultProperties DEF RollBack, IInv, TypeOK
  <2>2. SaveInv' /\ NameInv'
    BY <1>5 DEF RollBack, IInv, SaveInv, NameInv, Before, StartDue, Load
  <2> QED
    BY <2>1, <2>2 DEF IInv
<1>6. CASE Answer
  <2>1. TypeOK'
    <3>1. 0 \in 0 .. Wrap - 1 /\ 0 \in 0 .. kRenameFlushDelayMs
      BY ConfigAssumption
    <3>2. stamp' \in 0 .. Wrap - 1 /\ sinceFlag' \in 0 .. kRenameFlushDelayMs
      BY <1>6, <3>1 DEF Answer, IInv, TypeOK
    <3> QED
      BY <1>6, <3>2, DefaultProperties DEF Answer, IInv, TypeOK
  <2>2. SaveInv'
    BY <1>6 DEF Answer, IInv, SaveInv, Before, Load
  <2>3. NameInv'
    BY <1>6 DEF Answer, IInv, NameInv, Before, StartDue, Renamed
  <2> QED
    BY <2>1, <2>2, <2>3 DEF IInv
<1>7. CASE FlagPending
  <2>1. TypeOK'
    BY <1>7 DEF FlagPending, IInv, TypeOK
  <2>2. SaveInv' /\ NameInv'
    BY <1>7 DEF FlagPending, IInv, SaveInv, NameInv, Before, StartDue, Load
  <2> QED
    BY <2>1, <2>2 DEF IInv
<1>8. CASE FlagTime
  <2>1. TypeOK'
    <3>1. 0 \in 0 .. Wrap - 1
      BY ConfigAssumption
    <3> QED
      BY <1>8, <3>1 DEF FlagTime, IInv, TypeOK
  <2>2. SaveInv' /\ NameInv'
    BY <1>8 DEF FlagTime, IInv, SaveInv, NameInv, Before, StartDue, Load
  <2> QED
    BY <2>1, <2>2 DEF IInv
<1> QED
  BY <1>1, <1>2, <1>3, <1>4, <1>5, <1>6, <1>7, <1>8 DEF Web

-----------------------------------------------------------------------------
\* A radio that starts while nothing is being saved has the name of the
\* settings; one that starts during a save has borrowed it.
LEMMA StartProperties ==
  ASSUME IInv, Start
  PROVE  /\ radioName' \in Names \cup {Torn}
         /\ borrowed' \in BOOLEAN
         /\ borrowed' \/ (radioName' = settings.name /\ Before = settings)
         /\ SaveInv'
<1>1. settings.name \in Names /\ request.name \in Names /\ previous.name \in Names
  BY DEF IInv, TypeOK, Config
<1>2. radioName' \in Names \cup {Torn}
  BY <1>1 DEF Start, ReadName, Mixed
<1>3. ASSUME ~Saving
      PROVE  radioName' = settings.name /\ Before = settings
  <2>1. web \in {"idle", "flag", "stamp"}
    BY <1>3 DEF Saving
  <2> QED
    BY <2>1 DEF Start, ReadName, Before
<1>4. SaveInv'
  BY DEF Start, nvsVars, webVars, IInv, SaveInv, Before, Load
<1> QED
  BY <1>2, <1>3, <1>4 DEF Start, Saving

\* Every step of loop() keeps the invariant.
LEMMA LoopKeepsInv ==
  ASSUME IInv, Loop
  PROVE  IInv'
<1> USE DEF LoopAt, nvsVars, webVars, flagVars, radioVars
<1>1. CASE LoopTop \/ SeePending \/ SeeAge \/ NoHold \/ StopForName
  <2>1. TypeOK'
    BY <1>1 DEF LoopTop, SeePending, SeeAge, NoHold, StopForName, IInv, TypeOK
  <2>2. SaveInv'
    BY <1>1 DEF LoopTop, SeePending, SeeAge, NoHold, StopForName, IInv, SaveInv, Before, Load
  <2>3. NameInv'
    BY <1>1 DEF LoopTop, SeePending, SeeAge, NoHold, StopForName, IInv, NameInv, Before, StartDue
  <2> QED
    BY <2>1, <2>2, <2>3 DEF IInv
<1>2. CASE ClearPending
  <2>1. TypeOK'
    BY <1>2 DEF ClearPending, IInv, TypeOK
  <2>2. SaveInv' /\ NameInv'
    BY <1>2 DEF ClearPending, IInv, SaveInv, NameInv, Before, StartDue, Load
  <2> QED
    BY <2>1, <2>2 DEF IInv
<1>3. CASE Hold
  <2>1. TypeOK'
    BY <1>3 DEF Hold, IInv, TypeOK
  <2>2. SaveInv' /\ NameInv'
    BY <1>3 DEF Hold, IInv, SaveInv, NameInv, Before, StartDue, Load
  <2> QED
    BY <2>1, <2>2 DEF IInv
<1>4. CASE StartForName \/ StartOther
  <2>1. Start
    BY <1>4 DEF StartForName, StartOther
  <2>2. TypeOK'
    BY <1>4, <2>1, StartProperties DEF StartForName, StartOther, Start, IInv, TypeOK
  <2>3. Before' = Before /\ settings' = settings
    BY <2>1 DEF Start, Before
  <2>4. NameInv'
    BY <2>1, <2>3, StartProperties DEF NameInv
  <2> QED
    BY <2>1, <2>2, <2>4, StartProperties DEF IInv
<1> QED
  BY <1>1, <1>2, <1>3, <1>4 DEF Loop

\* The passing of time does, and so does a restart with what flash holds.
LEMMA TickKeepsInv ==
  ASSUME IInv, Tick
  PROVE  IInv'
<1>1. millis' \in 0 .. Wrap - 1 /\ sinceFlag' \in 0 .. kRenameFlushDelayMs
  BY ConfigAssumption DEF Tick, IInv, TypeOK
<1>2. TypeOK'
  BY <1>1 DEF Tick, nvsVars, webVars, flagVars, radioVars, loopVars, IInv, TypeOK
<1>3. SaveInv' /\ NameInv'
  BY DEF Tick, nvsVars, webVars, flagVars, radioVars, loopVars, IInv, SaveInv, NameInv,
         Before, StartDue, Load
<1> QED
  BY <1>2, <1>3 DEF IInv

LEMMA RestartKeepsInv ==
  ASSUME IInv, PowerFails
  PROVE  IInv'
<1>1. /\ nvs' = nvs /\ available' \in BOOLEAN /\ suspect' = (suspect \/ ~available')
      /\ settings' = IF available' THEN Load(nvs) ELSE Default
      /\ radioName' = settings'.name /\ mode' = "Ble"
      /\ web' = "idle" /\ request' = Default /\ previous' = Default /\ stamp' = 0
      /\ renamePending' = FALSE /\ renameFlaggedAtMs' = 0
      /\ loop' = "top" /\ now' = 0 /\ millis' = 0
      /\ borrowed' = FALSE /\ sinceFlag' = kRenameFlushDelayMs
  BY DEF PowerFails, Boot
<1>2. settings' \in Config /\ settings'.name \in Names
  <2>1. Load(nvs) \in Config
    BY LoadProperties DEF IInv, TypeOK
  <2> QED
    BY <1>1, <2>1, DefaultProperties DEF Config
<1>3. 0 \in 0 .. Wrap - 1 /\ kRenameFlushDelayMs \in 0 .. kRenameFlushDelayMs
  BY ConfigAssumption
<1>4. TypeOK'
  BY <1>1, <1>2, <1>3, DefaultProperties DEF IInv, TypeOK
<1>5. SaveInv' /\ NameInv'
  BY <1>1 DEF SaveInv, NameInv, Before, Load
<1> QED
  BY <1>4, <1>5 DEF IInv

\* The inductive invariant of saving.
THEOREM Invariance == Spec => []IInv
<1>1. Init => IInv
  BY InitInv
<1>2. IInv /\ [Next]_vars => IInv'
  <2>1. IInv /\ UNCHANGED vars => IInv'
    BY DEF vars, nvsVars, webVars, flagVars, radioVars, loopVars, IInv, TypeOK, SaveInv,
           NameInv, Before, StartDue, Load
  <2> QED
    BY <2>1, AcceptKeepsInv, WebKeepsInv, LoopKeepsInv, TickKeepsInv, RestartKeepsInv DEF Next
<1> QED
  BY <1>1, <1>2, PTL DEF Spec

\* The settings in memory are always ones the device can run with, and flash
\* has one key, the other, both or none of such a configuration.
THEOREM SettingsAreWhole == Spec => []TypeOK
<1>1. IInv => TypeOK
  BY DEF IInv
<1> QED
  BY <1>1, Invariance, PTL

\* Wherever power fails and whichever store is refused: a save that was answered
\* with ok is what the device boots with, and a refused one leaves no trace,
\* unless one was cut short and none has succeeded since.
THEOREM SavesAreDurable == Spec => []Durable
<1>1. IInv => Durable
  BY DEF IInv, SaveInv, Durable, Saving, Before, TypeOK
<1> QED
  BY <1>1, Invariance, PTL

\* However the two tasks interleave, no order of save, flag, clear and restart
\* leaves the radio with a name that is not the saved one.
THEOREM NoRenameLost == Spec => []NameOnAir
<1>1. IInv => NameOnAir
  BY DEF IInv, NameInv, NameOnAir, Settled, StartDue, Before
<1> QED
  BY <1>1, Invariance, PTL
-----------------------------------------------------------------------------
(* WebSave: a body is gathered as one although the callbacks of several    *)
(* requests alternate.                                                     *)

\* A piece: the number of its request and its place in the body.
AnyPiece == Nat \X Nat

Posts == [post : 1 .. MaxPosts, total : 0 .. MaxTotal, sent : 0 .. MaxTotal]

\* Every request has a number of its own, an earlier one than those to come.
ArrivingInv ==
  /\ requests \in [Addrs -> Posts \cup {None}]
  /\ \A a \in Addrs : requests[a] # None =>
       requests[a].post <= posts /\ requests[a].sent <= requests[a].total
  /\ \A a, b \in Addrs : a # b /\ requests[a] # None /\ requests[b] # None =>
       requests[a].post # requests[b].post

BufferInv ==
  /\ body \in Seq(AnyPiece) /\ Len(body) <= kMaxBody
  /\ owner \in Addrs \cup {None} /\ bodyOverflow \in BOOLEAN
  /\ settings_ \in Settings
  /\ posts \in 0 .. MaxPosts /\ undisturbed \in 0 .. posts

\* The buffer holds what has come of the request r from a, unless it is too
\* large for it.
Gathered(a, r) ==
  /\ r.sent > 0
  /\ owner = a /\ bodyOverflow = ~Fits(r.total)
  /\ body = IF Fits(r.total) THEN Pieces(r.post, 1, r.sent) ELSE <<>>

GatheredInv ==
  \A a \in Addrs :
    requests[a] # None /\ undisturbed = requests[a].post => Gathered(a, requests[a])

AnswerInv == JudgedAsOwn /\ AnswerTrue

WebInv == ArrivingInv /\ BufferInv /\ GatheredInv /\ AnswerInv

LEMMA PiecesAre ==
  ASSUME NEW post \in Nat, NEW k \in Nat, NEW n \in Nat
  PROVE  /\ Pieces(post, k + 1, k + n) \in Seq(AnyPiece)
         /\ Len(Pieces(post, k + 1, k + n)) = n
         /\ \A i \in 1 .. n : Pieces(post, k + 1, k + n)[i] = <<post, k + i>>
<1> DEFINE p == [i \in 1 .. n |-> <<post, k + i>>]
<1>1. (k + n) - (k + 1) + 1 = n /\ \A i \in 1 .. n : (k + 1) + i - 1 = k + i
  OBVIOUS
<1>2. Pieces(post, k + 1, k + n) = p
  BY <1>1 DEF Pieces
<1>3. \A i \in 1 .. n : <<post, k + i>> \in AnyPiece
  BY DEF AnyPiece
<1>4. p \in [1 .. n -> AnyPiece] /\ \A i \in 1 .. n : p[i] = <<post, k + i>>
  BY <1>3
<1> HIDE DEF p
<1>5. p \in Seq(AnyPiece) /\ Len(p) = n
  BY <1>4
<1> QED
  BY <1>2, <1>4, <1>5

\* n pieces after the first m.
Continue(post, m, n) ==
  /\ Pieces(post, m + 1, m + n) \in Seq(AnyPiece) /\ Len(Pieces(post, m + 1, m + n)) = n
  /\ Pieces(post, 1, m) \in Seq(AnyPiece) /\ Len(Pieces(post, 1, m)) = m
  /\ Pieces(post, 1, m) \o Pieces(post, m + 1, m + n) = Pieces(post, 1, m + n)

LEMMA PiecesContinue ==
  ASSUME NEW post \in Nat, NEW m \in Nat, NEW n \in Nat
  PROVE  Continue(post, m, n)
<1> DEFINE p == Pieces(post, 1, m)
           q == Pieces(post, m + 1, m + n)
           whole == Pieces(post, 1, m + n)
<1>1. /\ q \in Seq(AnyPiece) /\ Len(q) = n
      /\ \A i \in 1 .. n : q[i] = <<post, m + i>>
  BY PiecesAre
<1>2. \A j \in Nat : /\ Pieces(post, 1, j) \in Seq(AnyPiece) /\ Len(Pieces(post, 1, j)) = j
                     /\ \A i \in 1 .. j : Pieces(post, 1, j)[i] = <<post, i>>
  <2> SUFFICES ASSUME NEW j \in Nat
               PROVE  /\ Pieces(post, 1, j) \in Seq(AnyPiece) /\ Len(Pieces(post, 1, j)) = j
                      /\ \A i \in 1 .. j : Pieces(post, 1, j)[i] = <<post, i>>
    OBVIOUS
  <2>1. PICK z \in Nat : z = 0
    OBVIOUS
  <2>2. /\ Pieces(post, z + 1, z + j) \in Seq(AnyPiece) /\ Len(Pieces(post, z + 1, z + j)) = j
        /\ \A i \in 1 .. j : Pieces(post, z + 1, z + j)[i] = <<post, z + i>>
    BY PiecesAre
  <2>3. z + 1 = 1 /\ z + j = j /\ \A i \in 1 .. j : z + i = i
    BY <2>1
  <2> QED
    BY <2>2, <2>3
<1>3. /\ p \in Seq(AnyPiece) /\ Len(p) = m
      /\ \A i \in 1 .. m : p[i] = <<post, i>>
  BY <1>2
<1>4. m + n \in Nat
  OBVIOUS
<1>5. /\ whole \in Seq(AnyPiece) /\ Len(whole) = m + n
      /\ \A i \in 1 .. m + n : whole[i] = <<post, i>>
  BY <1>2, <1>4
<1> HIDE DEF p, q, whole
<1>6. /\ p \o q \in Seq(AnyPiece) /\ Len(p \o q) = m + n
      /\ \A i \in 1 .. m + n : (p \o q)[i] = IF i <= m THEN p[i] ELSE q[i - m]
  BY <1>1, <1>3, ConcatProperties
<1>7. ASSUME NEW i \in 1 .. m + n PROVE (p \o q)[i] = whole[i]
  <2>1. CASE i <= m
    <3>1. i \in 1 .. m
      BY <2>1
    <3> QED
      BY <1>3, <1>5, <1>6, <2>1, <3>1
  <2>2. CASE ~(i <= m)
    <3>1. i - m \in 1 .. n /\ m + (i - m) = i
      BY <2>2
    <3>2. q[i - m] = <<post, m + (i - m)>>
      BY <1>1, <3>1
    <3> QED
      BY <1>5, <1>6, <2>2, <3>1, <3>2
  <2> QED
    BY <2>1, <2>2
<1>8. p \o q = whole
  BY <1>5, <1>6, <1>7, SeqEqual
<1> QED
  BY <1>1, <1>3, <1>8 DEF Continue, p, q, whole

LEMMA InitWeb == WebInit => WebInv
<1> SUFFICES ASSUME WebInit PROVE WebInv
  OBVIOUS
<1>1. ArrivingInv /\ GatheredInv
  BY DEF WebInit, ArrivingInv, GatheredInv
<1>2. <<>> \in Seq(AnyPiece) /\ Len(<<>>) = 0
  OBVIOUS
<1>3. BufferInv
  <2>1. 0 <= kMaxBody /\ 0 \in 0 .. MaxPosts /\ 0 \in 0 .. 0
    BY WebAssumption
  <2>2. body = <<>> /\ posts = 0 /\ undisturbed = 0
    BY DEF WebInit
  <2>3. body \in Seq(AnyPiece) /\ Len(body) <= kMaxBody
    BY <1>2, <2>1, <2>2
  <2>4. owner \in Addrs \cup {None} /\ bodyOverflow \in BOOLEAN /\ settings_ \in Settings
    BY DEF WebInit
  <2> QED
    BY <2>1, <2>2, <2>3, <2>4 DEF BufferInv
<1>4. AnswerInv
  BY DEF WebInit, NoAnswer, AnswerInv, JudgedAsOwn, AnswerTrue
<1> QED
  BY <1>1, <1>3, <1>4 DEF WebInv

LEMMA OpenKeeps ==
  ASSUME WebInv, NEW a \in Addrs, NEW total \in 0 .. MaxTotal, Open(a, total)
  PROVE  WebInv'
<1> DEFINE r == [post |-> posts + 1, total |-> total, sent |-> 0]
<1>1. /\ requests' = [requests EXCEPT ![a] = r] /\ posts' = posts + 1 /\ posts < MaxPosts
      /\ UNCHANGED <<owner, body, bodyOverflow, settings_, undisturbed, last>>
  BY DEF Open, bufferVars
<1>2. /\ posts \in Nat /\ posts <= MaxPosts /\ undisturbed \in 0 .. posts
      /\ posts' \in 0 .. MaxPosts /\ undisturbed \in 0 .. posts'
      /\ r \in Posts /\ r.post = posts + 1 /\ r.sent = 0 /\ r.total = total
  BY <1>1, WebAssumption DEF WebInv, BufferInv, Posts
<1> HIDE DEF r
<1>3. requests'[a] = r /\ \A b \in Addrs : b # a => requests'[b] = requests[b]
  BY <1>1 DEF WebInv, ArrivingInv
<1>4. \A b \in Addrs : requests[b] # None => requests[b] \in Posts /\ requests[b].post <= posts
  BY DEF WebInv, ArrivingInv
<1>5. \A b \in Addrs : requests[b] # None => requests[b].post \in Nat /\ requests[b].post < r.post
  BY <1>2, <1>4 DEF Posts
<1>6. ArrivingInv'
  <2>1. requests' \in [Addrs -> Posts \cup {None}]
    BY <1>1, <1>2 DEF WebInv, ArrivingInv
  <2>2. ASSUME NEW b \in Addrs, requests'[b] # None
        PROVE  requests'[b].post <= posts' /\ requests'[b].sent <= requests'[b].total
    <3>1. CASE b = a
      BY <1>1, <1>2, <1>3, <3>1
    <3>2. CASE b # a
      <4>1. requests[b] # None /\ requests'[b] = requests[b]
        BY <1>3, <2>2, <3>2
      <4>2. requests[b].post <= posts' /\ requests[b].sent <= requests[b].total
        BY <1>1, <1>2, <1>5, <4>1 DEF WebInv, ArrivingInv
      <4> QED
        BY <4>1, <4>2
    <3> QED
      BY <3>1, <3>2
  <2>3. ASSUME NEW b \in Addrs, NEW d \in Addrs, b # d, requests'[b] # None, requests'[d] # None
        PROVE  requests'[b].post # requests'[d].post
    BY <1>2, <1>3, <1>5, <2>3 DEF WebInv, ArrivingInv
  <2> QED
    BY <2>1, <2>2, <2>3 DEF ArrivingInv
<1>7. BufferInv'
  BY <1>1, <1>2 DEF WebInv, BufferInv
<1>8. GatheredInv'
  <2> SUFFICES ASSUME NEW b \in Addrs, requests'[b] # None, undisturbed' = requests'[b].post
               PROVE  Gathered(b, requests[b])' /\ b # a
    BY DEF GatheredInv
  <2>1. b # a
    BY <1>1, <1>2, <1>3
  <2>2. Gathered(b, requests[b])
    BY <1>1, <1>3, <2>1 DEF WebInv, GatheredInv
  <2> QED
    BY <1>1, <1>3, <2>1, <2>2 DEF Gathered, Fits, Pieces
<1>9. AnswerInv'
  BY <1>1 DEF WebInv, AnswerInv, JudgedAsOwn, AnswerTrue, Pieces
<1> QED
  BY <1>6, <1>7, <1>8, <1>9 DEF WebInv

\* A request goes, abandoned or answered: its number is nobody's.
LEMMA GoneKeeps ==
  ASSUME WebInv, NEW a \in Addrs, requests' = [requests EXCEPT ![a] = None], UNCHANGED posts
  PROVE  /\ ArrivingInv'
         /\ \A b \in Addrs : requests'[b] # None => requests'[b] = requests[b] /\ b # a
<1>1. requests'[a] = None /\ \A b \in Addrs : b # a => requests'[b] = requests[b]
  BY DEF WebInv, ArrivingInv
<1>2. \A b \in Addrs : requests'[b] # None => requests'[b] = requests[b] /\ b # a
  BY <1>1
<1>3. requests' \in [Addrs -> Posts \cup {None}]
  BY DEF WebInv, ArrivingInv
<1>4. ArrivingInv'
  BY <1>2, <1>3 DEF WebInv, ArrivingInv
<1> QED
  BY <1>2, <1>4

LEMMA AbortKeeps ==
  ASSUME WebInv, NEW a \in Addrs, Abort(a)
  PROVE  WebInv'
<1>1. /\ requests' = [requests EXCEPT ![a] = None]
      /\ UNCHANGED <<owner, body, bodyOverflow, settings_, posts, undisturbed, last>>
  BY DEF Abort, bufferVars
<1>2. /\ ArrivingInv'
      /\ \A b \in Addrs : requests'[b] # None => requests'[b] = requests[b] /\ b # a
  BY <1>1, GoneKeeps
<1>3. BufferInv'
  BY <1>1 DEF WebInv, BufferInv
<1>4. GatheredInv'
  BY <1>1, <1>2 DEF WebInv, GatheredInv, Gathered, Fits, Pieces
<1>5. AnswerInv'
  BY <1>1 DEF WebInv, AnswerInv, JudgedAsOwn, AnswerTrue, Pieces
<1> QED
  BY <1>2, <1>3, <1>4, <1>5 DEF WebInv

\* The next pieces of a request: the buffer has them, or it overflowed.
LEMMA CollectProperties ==
  ASSUME WebInv, NEW a \in Addrs, NEW n \in 1 .. MaxTotal, CollectBody(a, n)
  PROVE  LET r == requests[a]
             s == [r EXCEPT !.sent = @ + n]
         IN  /\ r \in Posts /\ r # None /\ s \in Posts
             /\ s.post = r.post /\ s.total = r.total /\ s.sent = r.sent + n
             /\ s.sent <= s.total
             /\ requests' = [requests EXCEPT ![a] = s]
             /\ undisturbed' \in {0, r.post}
             /\ undisturbed' = r.post => Gathered(a, requests[a])'
             /\ body' \in Seq(AnyPiece) /\ Len(body') <= kMaxBody
             /\ owner' \in Addrs \cup {None} /\ bodyOverflow' \in BOOLEAN
<1> DEFINE r == requests[a]
           s == [r EXCEPT !.sent = @ + n]
           base == Base(r.sent)
           over == IF r.sent = 0 THEN ~Fits(r.total) ELSE bodyOverflow
<1>1. /\ r # None /\ n <= r.total - r.sent
      /\ requests' = [requests EXCEPT ![a].sent = @ + n]
      /\ owner' = IF r.sent = 0 THEN a ELSE owner
      /\ \/ over /\ bodyOverflow' = TRUE /\ body' = base
         \/ /\ ~over /\ Fits(Len(base) + n) /\ bodyOverflow' = FALSE
            /\ body' = base \o Pieces(r.post, r.sent + 1, r.sent + n)
         \/ ~over /\ ~Fits(Len(base) + n) /\ bodyOverflow' = TRUE /\ body' = <<>>
      /\ undisturbed' = IF r.sent = 0 \/ undisturbed = r.post THEN r.post ELSE 0
  BY DEF CollectBody
<1>2. requests' = [requests EXCEPT ![a] = s] /\ r \in Posts
  BY <1>1 DEF WebInv, ArrivingInv
<1>3. /\ r.post \in 1 .. MaxPosts /\ r.total \in 0 .. MaxTotal /\ r.sent \in 0 .. MaxTotal
      /\ n \in Nat /\ r.sent + n <= r.total
  BY <1>1, <1>2, WebAssumption DEF Posts
<1>4. /\ s.post = r.post /\ s.total = r.total /\ s.sent = r.sent + n /\ s \in Posts
      /\ s.sent <= s.total
  <2>1. r.sent + n \in 0 .. MaxTotal
    BY <1>3, WebAssumption
  <2> QED
    BY <1>2, <1>3, <2>1 DEF Posts
<1>5. base \in Seq(AnyPiece) /\ Len(base) <= kMaxBody
  <2>1. <<>> \in Seq(AnyPiece) /\ Len(<<>>) <= kMaxBody
    BY WebAssumption
  <2> QED
    BY <2>1 DEF Base, WebInv, BufferInv
<1>6. undisturbed = r.post => Gathered(a, r)
  BY <1>1 DEF WebInv, GatheredInv
<1> DEFINE more == Pieces(r.post, r.sent + 1, r.sent + n)
<1>7. /\ more \in Seq(AnyPiece) /\ Len(more) = n
      /\ Pieces(r.post, 1, r.sent) \in Seq(AnyPiece) /\ Len(Pieces(r.post, 1, r.sent)) = r.sent
      /\ Pieces(r.post, 1, r.sent) \o more = Pieces(r.post, 1, r.sent + n)
      /\ Pieces(r.post, 1, 0) = <<>>
  <2>1. r.post \in Nat /\ r.sent \in Nat /\ n \in Nat
    BY <1>3, WebAssumption
  <2>2. Continue(r.post, r.sent, n) /\ Continue(r.post, 0, 0)
    BY <2>1, PiecesContinue
  <2>3. Pieces(r.post, 1, 0) = <<>>
    <3>1. Pieces(r.post, 1, 0) \in Seq(AnyPiece) /\ Len(Pieces(r.post, 1, 0)) = 0
      BY <2>2 DEF Continue
    <3> QED
      BY <3>1, EmptySeq
  <2> QED
    BY <2>2, <2>3 DEF Continue
<1>8. /\ r.post \in Nat /\ r.post # 0 /\ r.sent \in Nat /\ r.total \in Nat /\ n > 0
      /\ r.sent + n > 0 /\ r.sent + n <= r.total /\ s.sent = r.sent + n
  BY <1>3, <1>4, WebAssumption
<1> HIDE DEF s, base, more, over
<1>9. body' \in Seq(AnyPiece) /\ Len(body') <= kMaxBody
  <2>1. <<>> \in Seq(AnyPiece) /\ Len(<<>>) <= kMaxBody
    BY WebAssumption
  <2>2. base \o more \in Seq(AnyPiece) /\ Len(base \o more) = Len(base) + n
    BY <1>5, <1>7, ConcatProperties
  <2>3. Fits(Len(base) + n) => Len(base) + n <= kMaxBody
    BY DEF Fits
  <2> QED
    BY <1>1, <1>5, <2>1, <2>2, <2>3 DEF more
<1>10. undisturbed' = r.post => Gathered(a, requests[a])'
  <2> SUFFICES ASSUME undisturbed' = r.post PROVE Gathered(a, requests[a])'
    OBVIOUS
  <2>1. r.sent = 0 \/ Gathered(a, r)
    BY <1>1, <1>6, <1>8
  <2>2. owner' = a /\ requests'[a] = s
    BY <1>1, <1>2, <2>1 DEF Gathered, WebInv, ArrivingInv
  <2>3. over = ~Fits(r.total)
    BY <1>8, <2>1 DEF Gathered, over
  <2>4. base = IF Fits(r.total) THEN Pieces(r.post, 1, r.sent) ELSE <<>>
    BY <1>7, <1>8, <2>1 DEF Gathered, base, Base
  <2>5. CASE Fits(r.total)
    <3>1. Len(base) = r.sent /\ r.total <= kMaxBody
      BY <1>7, <2>4, <2>5 DEF Fits
    <3>2. Fits(Len(base) + n)
      BY <1>8, <3>1, WebAssumption DEF Fits
    <3>3. bodyOverflow' = FALSE /\ body' = Pieces(r.post, 1, r.sent + n)
      BY <1>1, <1>7, <2>3, <2>4, <2>5, <3>2 DEF more
    <3> QED
      BY <1>4, <1>8, <2>2, <2>5, <3>3 DEF Gathered, Fits
  <2>6. CASE ~Fits(r.total)
    <3>1. bodyOverflow' = TRUE /\ body' = <<>>
      BY <1>1, <2>3, <2>4, <2>6
    <3> QED
      BY <1>4, <1>8, <2>2, <2>6, <3>1 DEF Gathered, Fits
  <2> QED
    BY <2>5, <2>6
<1>11. /\ undisturbed' \in {0, r.post}
       /\ owner' \in Addrs \cup {None} /\ bodyOverflow' \in BOOLEAN
  BY <1>1 DEF WebInv, BufferInv
<1> QED
  BY <1>1, <1>2, <1>4, <1>9, <1>10, <1>11 DEF s

LEMMA CollectKeeps ==
  ASSUME WebInv, NEW a \in Addrs, NEW n \in 1 .. MaxTotal, CollectBody(a, n)
  PROVE  WebInv'
<1> DEFINE r == requests[a]
           s == [r EXCEPT !.sent = @ + n]
<1>1. /\ r \in Posts /\ r # None /\ s \in Posts
      /\ s.post = r.post /\ s.total = r.total /\ s.sent <= s.total
      /\ requests' = [requests EXCEPT ![a] = s]
      /\ undisturbed' \in {0, r.post}
      /\ undisturbed' = r.post => Gathered(a, requests[a])'
      /\ body' \in Seq(AnyPiece) /\ Len(body') <= kMaxBody
      /\ owner' \in Addrs \cup {None} /\ bodyOverflow' \in BOOLEAN
  BY CollectProperties
<1>2. UNCHANGED <<settings_, posts, last>>
  BY DEF CollectBody
<1> HIDE DEF s
<1>3. requests'[a] = s /\ \A b \in Addrs : b # a => requests'[b] = requests[b]
  BY <1>1 DEF WebInv, ArrivingInv
<1>4. r.post \in Nat /\ r.post # 0 /\ r.post <= posts /\ posts \in Nat
  BY <1>1, WebAssumption DEF WebInv, ArrivingInv, BufferInv, Posts
<1>5. ArrivingInv'
  <2>1. requests' \in [Addrs -> Posts \cup {None}]
    BY <1>1 DEF WebInv, ArrivingInv
  <2>2. ASSUME NEW b \in Addrs, requests'[b] # None
        PROVE  requests'[b].post <= posts' /\ requests'[b].sent <= requests'[b].total
    BY <1>1, <1>2, <1>3, <1>4, <2>2 DEF WebInv, ArrivingInv
  <2>3. ASSUME NEW b \in Addrs, NEW d \in Addrs, b # d, requests'[b] # None, requests'[d] # None
        PROVE  requests'[b].post # requests'[d].post
    BY <1>1, <1>3, <2>3 DEF WebInv, ArrivingInv
  <2> QED
    BY <2>1, <2>2, <2>3 DEF ArrivingInv
<1>6. BufferInv'
  <2>1. undisturbed' \in 0 .. posts' /\ posts' \in 0 .. MaxPosts /\ settings_' \in Settings
    BY <1>1, <1>2, <1>4 DEF WebInv, BufferInv
  <2> QED
    BY <1>1, <2>1 DEF BufferInv
<1>7. GatheredInv'
  <2> SUFFICES ASSUME NEW b \in Addrs, requests'[b] # None, undisturbed' = requests'[b].post
               PROVE  Gathered(b, requests[b])'
    BY DEF GatheredInv
  <2>1. CASE b = a
    BY <1>1, <1>3, <2>1
  <2>2. CASE b # a
    <3>1. requests'[b] = requests[b] /\ requests[b].post # r.post /\ requests[b] \in Posts
      BY <1>1, <1>3, <2>2 DEF WebInv, ArrivingInv
    <3>2. requests[b].post # 0
      BY <3>1 DEF Posts
    <3> QED
      BY <1>1, <3>1, <3>2
  <2> QED
    BY <2>1, <2>2
<1>8. AnswerInv'
  BY <1>2 DEF WebInv, AnswerInv, JudgedAsOwn, AnswerTrue, Pieces
<1> QED
  BY <1>5, <1>6, <1>7, <1>8 DEF WebInv

\* What handleSave() answers: by size, then by what the body says.
LEMMA StatusProperties ==
  ASSUME NEW a \in Addrs, NEW c \in Contents, NEW stored \in BOOLEAN,
         settings_ \in Settings
  PROVE  /\ Status(a, c, stored) = 413 <=> TooLarge(a)
         /\ Status(a, c, stored) = 200 =>
              /\ Candidate(c) \in Settings
              /\ Candidate(c).name = IF c.name = Absent THEN settings_.name ELSE c.name
              /\ Candidate(c).hz = IF c.hz = Absent THEN settings_.hz ELSE c.hz
<1>1. Status(a, c, stored) = 413 <=> TooLarge(a)
  BY DEF Status
<1>2. ASSUME Acceptable(c)
      PROVE  /\ Candidate(c) \in Settings
             /\ Candidate(c).name = IF c.name = Absent THEN settings_.name ELSE c.name
             /\ Candidate(c).hz = IF c.hz = Absent THEN settings_.hz ELSE c.hz
  <2>1. c.name \in LegalNames \/ c.name = Absent
    BY <1>2 DEF Acceptable, NameOk
  <2>2. c.hz \in ValidHz \/ c.hz = Absent
    BY <1>2 DEF Acceptable, HzOk
  <2>3. Absent \notin LegalNames /\ Absent \notin Nat
    BY WebAssumption
  <2>4. \A hz \in ValidHz : hz \in Nat /\ hz % 256 = hz
    BY WebAssumption
  <2>5. settings_.name \in LegalNames /\ settings_.hz \in ValidHz
    BY DEF Settings
  <2> DEFINE name == IF c.name \in LegalNames THEN c.name ELSE settings_.name
             hz == IF c.hz \in Nat THEN c.hz % 256 ELSE settings_.hz
  <2>6. name \in LegalNames /\ name = IF c.name = Absent THEN settings_.name ELSE c.name
    BY <2>1, <2>3, <2>5
  <2>7. hz \in ValidHz /\ hz = IF c.hz = Absent THEN settings_.hz ELSE c.hz
    BY <2>2, <2>3, <2>4, <2>5
  <2>8. Candidate(c) = [name |-> name, hz |-> hz]
    BY DEF Candidate
  <2> HIDE DEF name, hz
  <2> QED
    BY <2>6, <2>7, <2>8 DEF Settings
<1>3. Status(a, c, stored) = 200 => Acceptable(c)
  BY DEF Status
<1> QED
  BY <1>1, <1>2, <1>3

LEMMA HandleKeeps ==
  ASSUME WebInv, NEW a \in Addrs, NEW c \in Contents, NEW stored \in BOOLEAN,
         HandleSave(a, c, stored)
  PROVE  WebInv'
<1> DEFINE r == requests[a]
           status == Status(a, c, stored)
<1>1. /\ r # None /\ r.sent = r.total
      /\ settings_' = IF status = 200 THEN Candidate(c) ELSE settings_
      /\ last' = [post |-> r.post, total |-> r.total, alone |-> undisturbed = r.post,
                  status |-> status, judged |-> Judged(a), content |-> c,
                  before |-> settings_, after |-> settings_']
      /\ owner' = None /\ body' = <<>> /\ bodyOverflow' = FALSE
      /\ requests' = [requests EXCEPT ![a] = None]
      /\ undisturbed' = IF undisturbed = r.post THEN r.post ELSE 0
      /\ posts' = posts
  BY DEF HandleSave
<1>2. /\ ArrivingInv'
      /\ \A b \in Addrs : requests'[b] # None => requests'[b] = requests[b] /\ b # a
  BY <1>1, GoneKeeps
<1>3. r \in Posts /\ r.post <= posts /\ r.post \in Nat /\ r.total \in Nat
  BY <1>1 DEF WebInv, ArrivingInv, Posts
<1>4. settings_ \in Settings
  BY DEF WebInv, BufferInv
<1>5. /\ status = 413 <=> TooLarge(a)
      /\ status = 200 =>
           /\ Candidate(c) \in Settings
           /\ Candidate(c).name = IF c.name = Absent THEN settings_.name ELSE c.name
           /\ Candidate(c).hz = IF c.hz = Absent THEN settings_.hz ELSE c.hz
  BY <1>4, StatusProperties
<1> HIDE DEF status
<1>6. BufferInv'
  <2>1. <<>> \in Seq(AnyPiece) /\ Len(<<>>) <= kMaxBody
    BY WebAssumption
  <2>2. undisturbed' \in 0 .. posts'
    BY <1>1 DEF WebInv, BufferInv
  <2>3. settings_' \in Settings
    BY <1>1, <1>4, <1>5
  <2>4. posts' \in 0 .. MaxPosts
    BY <1>1 DEF WebInv, BufferInv
  <2>5. owner' \in Addrs \cup {None} /\ bodyOverflow' \in BOOLEAN
    BY <1>1
  <2> QED
    BY <1>1, <2>1, <2>2, <2>3, <2>4, <2>5 DEF BufferInv
<1>7. GatheredInv'
  <2> SUFFICES ASSUME NEW b \in Addrs, requests'[b] # None, undisturbed' = requests'[b].post
               PROVE  FALSE
    BY DEF GatheredInv
  <2>1. requests[b] # None /\ b # a /\ requests'[b].post = requests[b].post
    BY <1>2
  <2>2. requests[b] \in Posts /\ requests[b].post # r.post
    BY <1>1, <2>1 DEF WebInv, ArrivingInv
  <2>3. requests[b].post # 0
    BY <2>2 DEF Posts
  <2> QED
    BY <1>1, <2>1, <2>2, <2>3
<1>8. JudgedAsOwn'
  <2> SUFFICES ASSUME last'.alone PROVE JudgedAsOwn'
    BY DEF JudgedAsOwn
  <2> DEFINE alone == undisturbed = r.post
  <2>1. alone
    <3>1. last'.alone = alone
      BY <1>1
    <3> HIDE DEF alone
    <3> QED
      BY <3>1
  <2>2. Gathered(a, r)
    BY <1>1, <2>1 DEF WebInv, GatheredInv
  <2>3. TooLarge(a) <=> r.total > kMaxBody
    <3>1. TooLarge(a) <=> ~Fits(r.total)
      BY <2>2 DEF Gathered, TooLarge, Owned
    <3>2. Fits(r.total) <=> ~(r.total > kMaxBody)
      BY <1>3, WebAssumption DEF Fits
    <3> QED
      BY <3>1, <3>2
  <2>4. Judged(a) = IF Fits(r.total) THEN Pieces(r.post, 1, r.total) ELSE <<>>
    BY <1>1, <2>2 DEF Gathered, Judged, Owned
  <2>5. CASE r.total > kMaxBody
    BY <1>1, <1>5, <2>3, <2>5 DEF JudgedAsOwn
  <2>6. CASE ~(r.total > kMaxBody)
    <3>1. Fits(r.total)
      BY <1>3, <2>6, WebAssumption DEF Fits
    <3> QED
      BY <1>1, <1>5, <2>3, <2>4, <2>6, <3>1 DEF JudgedAsOwn
  <2> QED
    BY <2>5, <2>6
<1>9. AnswerTrue'
  <2>1. CASE status = 200
    BY <1>1, <1>5, <2>1 DEF AnswerTrue
  <2>2. CASE status # 200
    BY <1>1, <2>2 DEF AnswerTrue
  <2> QED
    BY <2>1, <2>2
<1> QED
  BY <1>2, <1>6, <1>7, <1>8, <1>9 DEF WebInv, AnswerInv

-----------------------------------------------------------------------------
\* The inductive invariant of a POST's way to its answer.
THEOREM WebInvariance == WebSpec => []WebInv
<1>1. WebInv /\ [WebNext]_webSaveVars => WebInv'
  <2> SUFFICES ASSUME WebInv, [WebNext]_webSaveVars PROVE WebInv'
    OBVIOUS
  <2>1. CASE WebNext
    BY <2>1, OpenKeeps, AbortKeeps, CollectKeeps, HandleKeeps DEF WebNext
  <2>2. CASE UNCHANGED webSaveVars
    BY <2>2 DEF webSaveVars, bufferVars, WebInv, ArrivingInv, BufferInv, GatheredInv,
                Gathered, Fits, Pieces, AnswerInv, JudgedAsOwn, AnswerTrue
  <2> QED
    BY <2>1, <2>2
<1> QED
  BY <1>1, InitWeb, PTL DEF WebSpec

\* The buffer is never overrun, however the pieces of any number of bodies of
\* any length alternate, and the settings stay ones that would be accepted.
THEOREM BufferNeverOverrun == WebSpec => []WebTypeOK
<1>1. WebInv => WebTypeOK
  <2> SUFFICES ASSUME WebInv PROVE WebTypeOK
    OBVIOUS
  <2>1. ASSUME NEW a \in Addrs, requests[a] # None
        PROVE  /\ requests[a].post \in 1 .. posts
               /\ requests[a].total \in 0 .. MaxTotal
               /\ requests[a].sent \in 0 .. requests[a].total
    <3>1. /\ requests[a] \in Posts
          /\ requests[a].post <= posts /\ requests[a].sent <= requests[a].total
      BY <2>1 DEF WebInv, ArrivingInv
    <3>2. posts \in Nat
      BY DEF WebInv, BufferInv
    <3> QED
      BY <3>1, <3>2, WebAssumption DEF Posts
  <2>2. posts \in 0 .. MaxPosts /\ undisturbed \in 0 .. MaxPosts
    BY WebAssumption DEF WebInv, BufferInv
  <2> QED
    BY <2>1, <2>2 DEF WebInv, BufferInv, WebTypeOK
<1> QED
  BY <1>1, WebInvariance, PTL

\* A body no other body cut into is judged whole and as its own, or refused for
\* its size exactly when it is too large, whatever came before it.
THEOREM UndisturbedIsJudgedAsOwn == WebSpec => []JudgedAsOwn
<1>1. WebInv => JudgedAsOwn
  BY DEF WebInv, AnswerInv
<1> QED
  BY <1>1, WebInvariance, PTL

\* A 200 means that the settings are what the body asked for, and any other
\* answer that they are what they were, for every content a body can have.
THEOREM AnswersAreTrue == WebSpec => []AnswerTrue
<1>1. WebInv => AnswerTrue
  BY DEF WebInv, AnswerInv
<1> QED
  BY <1>1, WebInvariance, PTL
=============================================================================
