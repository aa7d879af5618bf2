------------------------------ MODULE BleLink ------------------------------
(***************************************************************************)
(* The BLE connection of ble/BleLink.cpp: the flags the NimBLE host task   *)
(* raises in its callbacks, the copy loop() works from, and the stack under *)
(* them (a library, modelled from how BleLink uses it).  The operations of *)
(* loop() are steps to be ordered by RadioLoop; each is one access to what *)
(* the two tasks share.                                                    *)
(***************************************************************************)
EXTENDS Naturals

CONSTANT MaxSessions   \* bound: connections a run may see

ASSUME SessionsAssumption == MaxSessions \in Nat

VARIABLES
  advertising,  \* the controller is advertising
  peer,         \* the link itself: "none", "up", or "closing" once told to drop
  session,      \* how many peers have connected so far
  callback,     \* the host task's position inside a callback
  gConnected,   \* g_connected
  gHasConn,     \* g_hasConn
  connected,    \* BleLink::connected_, loop()'s copy of g_connected
  notice        \* history: what end() made of this peer: "none", "told" to go,
                \* or "slipped": its flag was cleared and it was not told

stackVars == <<advertising, peer, session, notice>>
hostVars == <<callback, gConnected, gHasConn>>
linkVars == <<stackVars, hostVars, connected>>

LinkInit ==
  /\ advertising = FALSE
  /\ peer = "none"
  /\ session = 0
  /\ callback = "idle"
  /\ gConnected = FALSE
  /\ gHasConn = FALSE
  /\ connected = FALSE
  /\ notice = "none"

-----------------------------------------------------------------------------
(* The stack and the callbacks, on the host task.                          *)

\* A central connects to the advertisement; only one connection is allowed,
\* and advertising stops with it.
PeerConnects ==
  /\ advertising /\ peer = "none" /\ callback = "idle"
  /\ session < MaxSessions
  /\ peer' = "up"
  /\ advertising' = FALSE
  /\ session' = session + 1
  /\ notice' = "none"
  /\ callback' = "onConnect"
  /\ UNCHANGED <<gConnected, gHasConn, connected>>

OnConnectFlag ==
  /\ callback = "onConnect"
  /\ gConnected' = TRUE
  /\ callback' = "onConnectHandle"
  /\ UNCHANGED <<stackVars, gHasConn, connected>>

\* The handle first, then the flag that says it is valid.
OnConnectHandle ==
  /\ callback = "onConnectHandle"
  /\ gHasConn' = TRUE
  /\ callback' = "idle"
  /\ UNCHANGED <<stackVars, gConnected, connected>>

\* The peer goes away by itself, or the disconnect it was sent completes.
PeerGone ==
  /\ callback = "idle"
  /\ peer # "none"
  /\ peer' = "none"
  /\ notice' = "none"
  /\ callback' = "onDisconnect"
  /\ UNCHANGED <<advertising, session, gConnected, gHasConn, connected>>

OnDisconnectFlag ==
  /\ callback = "onDisconnect"
  /\ gConnected' = FALSE
  /\ callback' = "onDisconnectHandle"
  /\ UNCHANGED <<stackVars, gHasConn, connected>>

OnDisconnectHandle ==
  /\ callback = "onDisconnectHandle"
  /\ gHasConn' = FALSE
  /\ callback' = "readvertise"
  /\ UNCHANGED <<stackVars, gConnected, connected>>

\* m_advertiseOnDisconnect: the stack restarts advertising when the callback
\* has returned.
StackReadvertises ==
  /\ callback = "readvertise"
  /\ advertising' = TRUE
  /\ callback' = "idle"
  /\ UNCHANGED <<peer, session, notice, gConnected, gHasConn, connected>>

CallbackStep == OnConnectFlag \/ OnConnectHandle \/ OnDisconnectFlag
                  \/ OnDisconnectHandle \/ StackReadvertises

\* A disconnect that was sent completes (a peer that is up may stay for ever).
ClosingEnds == peer = "closing" /\ PeerGone

HostStep == PeerConnects \/ PeerGone \/ CallbackStep

-----------------------------------------------------------------------------
(* BleLink's operations, on loop().                                        *)

\* Mutation of Begin: the name comes back, the advertising does not.
BeginNameOnly(ok) == UNCHANGED linkVars

\* begin(): advertising->start() may fail, and nothing retries it.  With a
\* peer still connected the stack does not advertise.
Begin(ok) ==
  /\ advertising' = IF ok /\ peer = "none" THEN TRUE ELSE advertising
  /\ UNCHANGED <<peer, session, notice, hostVars, connected>>

\* end(), one shared access at a time.
EndStopAdvertising ==
  /\ advertising' = FALSE
  /\ UNCHANGED <<peer, session, notice, hostVars, connected>>

\* Mutation of EndDisconnect: the peer is forgotten without being asked to go.
EndDisconnectSilent ==
  /\ notice' = IF gHasConn /\ peer = "up" THEN "told" ELSE notice
  /\ UNCHANGED <<advertising, peer, session, hostVars, connected>>

\* The test of g_hasConn and, when it is set, the disconnect request.
EndDisconnect ==
  /\ IF gHasConn /\ peer = "up"
       THEN peer' = "closing" /\ notice' = "told"
       ELSE UNCHANGED <<peer, notice>>
  /\ UNCHANGED <<advertising, session, hostVars, connected>>

\* Only when the test found the flag set: what onConnect stores between the
\* test and the end of end() stays.
EndForgetHandle ==
  /\ gHasConn' = FALSE
  /\ UNCHANGED <<stackVars, callback, gConnected, connected>>

\* Mutation of EndForgetFlags: loop()'s own copy is left as it was.
EndForgetFlagsShared ==
  /\ gConnected' = FALSE
  /\ UNCHANGED <<stackVars, callback, gHasConn, connected>>

EndForgetFlags ==
  /\ gConnected' = FALSE
  /\ connected' = FALSE
  /\ notice' = IF gConnected /\ peer = "up" /\ notice = "none" THEN "slipped" ELSE notice
  /\ UNCHANGED <<advertising, peer, session, callback, gHasConn>>

\* The start of tick().
TickCopy ==
  /\ connected' = gConnected
  /\ UNCHANGED <<stackVars, hostVars>>

-----------------------------------------------------------------------------
LinkTypeOK ==
  /\ advertising \in BOOLEAN
  /\ peer \in {"none", "up", "closing"}
  /\ session \in 0 .. MaxSessions
  /\ callback \in {"idle", "onConnect", "onConnectHandle", "onDisconnect",
                   "onDisconnectHandle", "readvertise"}
  /\ gConnected \in BOOLEAN
  /\ gHasConn \in BOOLEAN
  /\ connected \in BOOLEAN
  /\ notice \in {"none", "told", "slipped"}
=============================================================================
