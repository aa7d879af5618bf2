------------------------------ MODULE WebSave -------------------------------
(***************************************************************************)
(* A POST to /api/config, from the pieces of its body to the answer: the   *)
(* one buffer of WebUi, ConfigService::save and ConfigApi::applyJson.      *)
(* Every step is a callback on the web server's task; connections send at  *)
(* their own pace, so the callbacks of several requests may alternate.  A  *)
(* request is known by its address, which is free again once it is gone.   *)
(***************************************************************************)
EXTENDS Integers, Sequences

CONSTANTS
  Addrs,       \* where requests can be allocated
  None,        \* no address: nullptr
  kMaxBody,    \* kMaxBodyBytes, in pieces
  LegalNames,  \* the legal names
  ValidHz,     \* the rates isValidSampleHz() accepts
  Contents,    \* what a body can say: [name, hz], or Garbage
  Garbage,     \* a body that is not a JSON object
  Absent,      \* a field that is not in the body
  Mistyped,    \* a field of the wrong type; null is one
  TooLong,     \* a name that does not fit
  Illegal,     \* a name with a character that is not allowed
  MaxPosts, MaxTotal  \* bounds: requests, and pieces of a body

Settings == [name : LegalNames, hz : ValidHz]

ASSUME WebAssumption ==
  /\ None \notin Addrs /\ Garbage \in Contents
  /\ kMaxBody \in Nat \ {0} /\ MaxPosts \in Nat /\ MaxTotal \in Nat
  /\ ValidHz \subseteq 0 .. 255
  /\ Absent \notin LegalNames \cup Nat
  /\ Contents \subseteq [name : LegalNames \cup {Absent, Mistyped, TooLong, Illegal},
                         hz : Nat \cup {Absent, Mistyped}] \cup {Garbage}

VARIABLES
  requests,    \* the requests being received, by address
  owner, body, bodyOverflow,  \* WebUi: owner_, the bodyLen_ pieces of body_, bodyOverflow_
  settings_,   \* Settings
  posts,       \* how many requests there were; also gives each its number
  undisturbed, \* history: the request whose callbacks alone ran since its first piece, or 0
  last         \* history: the last answer, and what it was based on

bufferVars == <<owner, body, bodyOverflow>>
webSaveVars == <<requests, bufferVars, settings_, posts, undisturbed, last>>

NoAnswer == [post |-> 0, total |-> 0, alone |-> FALSE, status |-> 0, judged |-> <<>>,
             content |-> Garbage, before |-> settings_, after |-> settings_]

WebInit ==
  /\ requests = [a \in Addrs |-> None]
  /\ owner = None /\ body = <<>> /\ bodyOverflow = FALSE
  /\ settings_ \in Settings
  /\ posts = 0 /\ undisturbed = 0
  /\ last = NoAnswer

\* The pieces from..to of a request's body.
Pieces(post, from, to) == [i \in 1 .. to - from + 1 |-> <<post, from + i - 1>>]

-----------------------------------------------------------------------------
(* Requests come and go.                                                   *)

\* The headers of a request have arrived.
Open(a, total) ==
  /\ requests[a] = None /\ posts < MaxPosts
  /\ posts' = posts + 1
  /\ requests' = [requests EXCEPT ![a] = [post |-> posts + 1, total |-> total, sent |-> 0]]
  /\ UNCHANGED <<bufferVars, settings_, undisturbed, last>>

\* The client is gone before it has sent everything.  No callback runs.
Abort(a) ==
  /\ requests[a] # None
  /\ requests' = [requests EXCEPT ![a] = None]
  /\ UNCHANGED <<bufferVars, settings_, posts, undisturbed, last>>

-----------------------------------------------------------------------------
(* collectBody()                                                           *)

\* Mutation of Fits: the declared length is relied on.
FitsAlways(len) == TRUE

Fits(len) == len <= kMaxBody

\* Mutation of Base: a first piece does not clear the buffer.
BaseKept(index) == body

\* What the pieces of a request are appended to.
Base(index) == IF index = 0 THEN <<>> ELSE body

\* n more pieces of the request at a.
CollectBody(a, n) ==
  LET r == requests[a]
      over == IF r.sent = 0 THEN ~Fits(r.total) ELSE bodyOverflow
  IN  /\ r # None /\ n <= r.total - r.sent
      /\ requests' = [requests EXCEPT ![a].sent = @ + n]
      /\ owner' = IF r.sent = 0 THEN a ELSE owner
      /\ IF over
           THEN bodyOverflow' = TRUE /\ body' = Base(r.sent)
           ELSE IF Fits(Len(Base(r.sent)) + n)
                  THEN /\ bodyOverflow' = FALSE
                       /\ body' = Base(r.sent) \o Pieces(r.post, r.sent + 1, r.sent + n)
                  ELSE bodyOverflow' = TRUE /\ body' = <<>>
      /\ undisturbed' = IF r.sent = 0 \/ undisturbed = r.post THEN r.post ELSE 0
      /\ UNCHANGED <<settings_, posts, last>>

-----------------------------------------------------------------------------
(* applyJson(): a candidate, which replaces the settings only when every   *)
(* field of it checks out.                                                 *)

\* Mutation of HzOk: the number is narrowed before it is checked.
HzOkNarrowed(hz) == hz = Absent \/ (hz # Mistyped /\ (hz % 256) \in ValidHz)

HzOk(hz) == hz = Absent \/ (hz # Mistyped /\ hz <= 255 /\ hz \in ValidHz)

\* A name of the wrong type or too long is a type error; validate() refuses
\* the illegal one.
NameOk(name) == name \in LegalNames \cup {Absent}

Acceptable(c) == c # Garbage /\ NameOk(c.name) /\ HzOk(c.hz)

Candidate(c) ==
  [name |-> IF c.name \in LegalNames THEN c.name ELSE settings_.name,
   hz |-> IF c.hz \in Nat THEN c.hz % 256 ELSE settings_.hz]

-----------------------------------------------------------------------------
(* handleSave() and ConfigService::save()                                  *)

\* The buffer was begun by a request at this address.
Owned(a) == owner = a

\* What save() is given to judge, when it is not too large.
Judged(a) == IF Owned(a) THEN body ELSE <<>>

TooLarge(a) == Owned(a) /\ bodyOverflow

\* The answer to a body that says c, if flash takes the settings or not.
Status(a, c, stored) ==
  IF TooLarge(a) THEN 413
  ELSE IF ~Acceptable(c) THEN 400
  ELSE IF stored THEN 200 ELSE 500

HandleSave(a, c, stored) ==
  LET r == requests[a]
      status == Status(a, c, stored)
  IN  /\ r # None /\ r.sent = r.total
      /\ Judged(a) = <<>> => c = Garbage
      /\ settings_' = IF status = 200 THEN Candidate(c) ELSE settings_
      /\ last' = [post |-> r.post, total |-> r.total, alone |-> undisturbed = r.post,
                  status |-> status, judged |-> Judged(a), content |-> c,
                  before |-> settings_, after |-> settings_']
      /\ owner' = None /\ body' = <<>> /\ bodyOverflow' = FALSE
      /\ requests' = [requests EXCEPT ![a] = None]
      /\ undisturbed' = IF undisturbed = r.post THEN r.post ELSE 0
      /\ UNCHANGED posts

WebNext ==
  \E a \in Addrs :
    \/ \E total \in 0 .. MaxTotal : Open(a, total)
    \/ Abort(a)
    \/ \E n \in 1 .. MaxTotal : CollectBody(a, n)
    \/ \E c \in Contents, stored \in BOOLEAN : HandleSave(a, c, stored)

WebSpec == WebInit /\ [][WebNext]_webSaveVars

-----------------------------------------------------------------------------
\* The buffer is never overrun, however the pieces of several bodies alternate,
\* and the settings are at all times ones that would be accepted.
WebTypeOK ==
  /\ \A a \in Addrs :
       requests[a] # None =>
         /\ requests[a].post \in 1 .. posts
         /\ requests[a].total \in 0 .. MaxTotal /\ requests[a].sent \in 0 .. requests[a].total
  /\ owner \in Addrs \cup {None} /\ bodyOverflow \in BOOLEAN
  /\ Len(body) <= kMaxBody
  /\ settings_ \in Settings
  /\ posts \in 0 .. MaxPosts /\ undisturbed \in 0 .. MaxPosts

\* A body that arrives without the pieces of another between its own is judged
\* whole and as its own, or refused as too large exactly when it is, whatever
\* mixture, abandoned body or reused address came before it.
JudgedAsOwn ==
  last.alone =>
    IF last.total > kMaxBody THEN last.status = 413
    ELSE last.status # 413 /\ last.judged = Pieces(last.post, 1, last.total)

\* An answer tells what became of the settings: after a 200 they are what the
\* body asked for, field by field and with nothing of it dropped; after any
\* other answer they are untouched.
AnswerTrue ==
  IF last.status = 200
    THEN /\ last.after.name = IF last.content.name = Absent THEN last.before.name
                              ELSE last.content.name
         /\ last.after.hz = IF last.content.hz = Absent THEN last.before.hz
                            ELSE last.content.hz
    ELSE last.after = last.before

\* Stated by WebUi.h:35-37: owner_ guards against a completion handler reading
\* a body that belonged to a different request.  (It is not looked at when a
\* piece other than the first arrives.)
OwnBodyOnly ==
  last.total > 0 => \A i \in DOMAIN last.judged : last.judged[i][1] = last.post

\* Stated by WebUi.cpp:82-83: a POST that never reached collectBody must not be
\* judged on whatever the previous request left behind.  (It is, when it was
\* allocated where a request was that was abandoned after its body.)
NoBodyNothingJudged == last.total = 0 => last.judged = <<>>
=============================================================================
