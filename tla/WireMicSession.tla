---------------------------- MODULE WireMicSession ----------------------------
(***************************************************************************)
(* Desktops and phones that call each other over control channels: every   *)
(* ConnectionManager, every ControlClient and ControlServer, the user of   *)
(* each desktop and the network between them.                              *)
(*                                                                         *)
(* A Qt signal is a direct call, so what an end of a channel does and the  *)
(* slot it raises in its manager are one step.  Of a phone the module has  *)
(* the ControlClient; that its app dials and hangs up is all it knows.     *)
(***************************************************************************)
EXTENDS ConnectionManager

CONSTANTS
  MayDrop,   \* BOOLEAN: may the network lose a connection?
  MayQuit    \* hosts whose program may end

ASSUME SessionAssumption == MayDrop \in BOOLEAN /\ MayQuit \subseteq Hosts

Init == ChanInit /\ ManagerInit

\* A signal of the ControlClient of c, to a desktop that has slots for it.
\* m stands for the record after the slot.
Raise(h, m) == IF h \in Hosts THEN Set(h, m) ELSE UNCHANGED mgr

-----------------------------------------------------------------------------
(* Steps of the ControlClient of connection c *)

TlsEstablished(c) ==
  /\ conn[c].cli = "dialing" /\ Reachable(conn[c])
  /\ mgr[conn[c].target].running
  /\ conn' = [conn EXCEPT ![c] = Encrypted(@)]
  /\ UNCHANGED <<requestToSocket, mgr>>

\* The message at the head of the client's stream is msg.
ClientReads(c, msg) ==
  /\ ClientSocketOpen(conn[c]) /\ Reachable(conn[c])
  /\ conn[c].toClient # << >> /\ Head(conn[c].toClient) = msg

ReceiveAccept(c) ==
  LET h == conn[c].owner
  IN  /\ ClientReads(c, "ACCEPT")
      /\ conn' = [conn EXCEPT ![c] = ReadAccept(@)]
      /\ \E opened \in {TRUE} \cup (IF h \in AudioMayFail THEN {FALSE} ELSE {}) :
           Raise(h, OnOutgoingResponse(mgr[h], h, conn[c].req, TRUE, opened))
      /\ UNCHANGED requestToSocket

ReceiveReject(c) ==
  LET h == conn[c].owner
  IN  /\ ClientReads(c, "REJECT")
      /\ conn' = [conn EXCEPT ![c] = ReadReject(@)]
      /\ Raise(h, OnOutgoingResponse(mgr[h], h, conn[c].req, FALSE, FALSE))
      /\ UNCHANGED requestToSocket

ReceiveDisconnect(c) ==
  LET h == conn[c].owner
  IN  /\ ClientReads(c, "DISCONNECT")
      /\ conn' = [conn EXCEPT ![c] = ReadDisconnect(@)]
      /\ Raise(h, OnRemoteDisconnected(mgr[h]))
      /\ UNCHANGED requestToSocket

\* onDisconnected
ClientDisconnects(c) ==
  LET h == conn[c].owner
  IN  /\ conn' = [conn EXCEPT ![c] = ClientDisconnected(@)]
      /\ IF conn[c].cli = "session"
         THEN Raise(h, OnConnectionLost(mgr[h], conn[c].req))
         ELSE UNCHANGED mgr
      /\ UNCHANGED requestToSocket

\* The stream has ended. A session whose peer is gone without a word learns
\* it when its next keepalive is answered by a reset.
ClientReadsEnd(c) ==
  /\ \/ ClientReads(c, "FIN")
     \/ /\ conn[c].cli = "session" /\ conn[c].srv = "gone"
        /\ Reachable(conn[c]) /\ conn[c].toClient = << >>
  /\ ClientDisconnects(c)

\* The network has failed the socket.
ClientSocketError(c) ==
  /\ conn[c].cli = "dialing" \/ ClientSocketOpen(conn[c])
  /\ ~Reachable(conn[c])
  /\ ClientDisconnects(c)

\* onKeepAliveTimer, the third time no answer came.
KeepAlivesMissed(c) ==
  LET h == conn[c].owner
  IN  /\ conn[c].cli = "session" /\ ~Reachable(conn[c])
      /\ conn' = [conn EXCEPT ![c] = MissedKeepAlives(@)]
      /\ Raise(h, OnConnectionLost(mgr[h], conn[c].req))
      /\ UNCHANGED requestToSocket

\* onTimeout
RequestTimesOut(c) ==
  LET h == conn[c].owner
  IN  /\ TimeoutRunning(conn[c])
      /\ conn' = [conn EXCEPT ![c] = TimedOut(@)]
      /\ Raise(h, OnOutgoingTimedOut(mgr[h], conn[c].req))
      /\ UNCHANGED requestToSocket

-----------------------------------------------------------------------------
(* Steps of the ControlServer at the other end of connection c *)

ServerReads(c, msg) ==
  /\ InSessions(conn[c]) /\ Reachable(conn[c])
  /\ conn[c].toServer # << >> /\ Head(conn[c].toServer) = msg

ReceiveRequest(c) ==
  LET h == conn[c].target
      r == conn[c].req
      d == conn[c].owner
  IN  /\ ServerReads(c, "REQUEST")
      /\ Bind(h, r, c)
      /\ \E answer \in Answers(mgr[h], h, d) :
           /\ Set(h, OnIncomingRequest(mgr[h], h, r, d, answer))
           /\ conn' = [conn EXCEPT ![c] =
                         CASE answer = "accept" -> Accepted(ReadRequest(@))
                           [] answer = "prompt" -> ReadRequest(@)
                           [] answer \in {"decline", "fail"} -> Rejected(ReadRequest(@))]

ReceiveHangUp(c) ==
  LET h == conn[c].target
  IN  /\ ServerReads(c, "DISCONNECT")
      /\ conn' = [conn EXCEPT ![c] = ReadHangUp(@)]
      /\ IF conn[c].bound
         THEN /\ Unbind(h, conn[c].req)
              /\ Set(h, OnClientDisconnected(mgr[h], conn[c].req))
         ELSE UNCHANGED <<requestToSocket, mgr>>

\* onDisconnected, with what the closing socket still tells the client.
ServerSocketGone(c, msgs) ==
  LET h == conn[c].target
  IN  /\ conn' = [conn EXCEPT ![c] = ServerDisconnected(@, msgs)]
      /\ UnbindSocket(h, c)
      /\ IF conn[c].bound
         THEN Set(h, OnClientDisconnected(mgr[h], conn[c].req))
         ELSE UNCHANGED mgr

\* disconnectFromHost has written everything out.
ServerCloses(c) == conn[c].srv = "closing" /\ ServerSocketGone(c, <<"FIN">>)

ServerReadsEnd(c) == ServerReads(c, "FIN") /\ ServerSocketGone(c, << >>)

ServerSocketError(c) ==
  /\ InSessions(conn[c]) /\ ~Reachable(conn[c])
  /\ ServerSocketGone(c, << >>)

-----------------------------------------------------------------------------
(* Phones: one connection at a time, opened and dropped by their users. *)

PhoneDials(p, h) ==
  /\ mgr[h].running
  /\ \A k \in Conns : conn[k].owner = p => conn[k].cli \in {"closed", "gone"}
  /\ \E c \in Conns :
       /\ IsFresh(c)
       /\ conn' = [conn EXCEPT ![c] = Dialled(p, h, c)]
  /\ UNCHANGED <<requestToSocket, mgr>>

PhoneHangsUp(c) ==
  /\ conn[c].owner \in Phones
  /\ conn[c].cli \in {"dialing", "requested", "session", "spent"}
  /\ conn' = [conn EXCEPT ![c] = PhoneDropped(@)]
  /\ UNCHANGED <<requestToSocket, mgr>>

-----------------------------------------------------------------------------
\* What the event loops do with messages that arrived and timers that ran out.
ClientStep(c) ==
  \/ TlsEstablished(c)
  \/ ReceiveAccept(c)
  \/ ReceiveReject(c)
  \/ ReceiveDisconnect(c)
  \/ ClientReadsEnd(c)
  \/ KeepAlivesMissed(c)
  \/ RequestTimesOut(c)

ServerStep(c) ==
  \/ ReceiveRequest(c)
  \/ ReceiveHangUp(c)
  \/ ServerCloses(c)
  \/ ServerReadsEnd(c)

LinkChanges(c) ==
  /\ LinkDown(c) \/ LinkHeals(c)
  /\ UNCHANGED <<requestToSocket, mgr>>

Network(c) ==
  /\ MayDrop
  /\ LinkChanges(c) \/ ClientSocketError(c) \/ ServerSocketError(c)

User(h) ==
  \/ \E g \in Hosts : Dial(h, g)
  \/ \E p \in Phones : Invite(h, p)
  \/ ConnectFails(h)
  \/ Approve(h)
  \/ Refuse(h)
  \/ Disconnect(h)
  \/ \E d \in Devices : RevokeTrust(h, d)
  \/ h \in MayQuit /\ Quit(h)

Timer(h) == InviteTimeout(h) \/ ReconnectTick(h)

Next ==
  \/ \E c \in Conns : ClientStep(c) \/ ServerStep(c) \/ Network(c) \/ PhoneHangsUp(c)
  \/ \E h \in Hosts : User(h) \/ Timer(h)
  \/ \E p \in Phones, h \in Hosts : PhoneDials(p, h)

Spec == Init /\ [][Next]_vars

(***************************************************************************)
(* The event loops run, a link that is up delivers, and armed timers fire. *)
(* No fairness for users, for phones hanging up or for the network: an     *)
(* outage may last, and a socket that never writes need not notice it.     *)
(***************************************************************************)
Fairness ==
  /\ \A c \in Conns : WF_vars(ClientStep(c)) /\ WF_vars(ServerStep(c))
  /\ \A h \in Hosts : WF_vars(Timer(h))

FairSpec == Spec /\ Fairness

-----------------------------------------------------------------------------
(* What holds of every desktop, whatever users and network do *)

\* Every variable keeps its type.
TypeOK ==
  /\ conn \in [Conns -> ConnType]
  /\ requestToSocket \in [Hosts -> [Conns -> ConnOrNone]]
  /\ mgr \in [Hosts -> ManagerType]

\* ControlServer::accept looks its socket up with sessions_.at, and reject and
\* disconnectClient write to the pointer they find: an entry of
\* requestToSocket_ always names a socket that is in sessions_ under that id,
\* whichever of hang-up, redial under the same id and loss came first.
MappedSocketInSessions ==
  \A h \in Hosts, r \in Conns :
    LET c == requestToSocket[h][r]
    IN  c # None => /\ conn[c].target = h /\ conn[c].req = r
                    /\ conn[c].bound /\ InSessions(conn[c])

\* A request that waits for approval still has a socket to carry the answer:
\* accept and reject, which return silently without one, reach somebody.
PendingHasSocket ==
  \A h \in Hosts : \A r \in mgr[h].pending : requestToSocket[h][r] # None

\* The approval dialog never shows a request the manager has forgotten, for
\* approveIncoming would drop the user's answer without a word.
PromptIsPending ==
  \A h \in Hosts : mgr[h].prompt # None => mgr[h].prompt \in mgr[h].pending

\* While the virtual microphone is fed, the window says Streaming and the
\* socket of the caller is still there, so that its loss will be noticed.
ReceiverHasSocket ==
  \A h \in Hosts : mgr[h].audio = "receive" =>
    mgr[h].state = "Streaming" /\ requestToSocket[h][mgr[h].req] # None

\* The two maps of the server, the two sets of the manager and the dialog above it
\* agree about which requests have a socket, though four handlers change them one
\* at a time.
SocketsHeld ==
  MappedSocketInSessions /\ PendingHasSocket /\ PromptIsPending /\ ReceiverHasSocket

\* A desktop shown as Reconnecting or as AwaitingApproval has what ends that
\* state: the reconnect timer, or a request that is still pending.
WaitingStatesEnd ==
  \A h \in Hosts :
    /\ mgr[h].state = "Reconnecting" => mgr[h].reconnecting
    /\ mgr[h].state = "AwaitingApproval" => mgr[h].pending # {}

\* controlClient_ carries an id that an earlier connection brought up.
Redialled(m) == m.client # None /\ conn[m.client].req # m.client

\* No device is pinned in the trust store unless this desktop's user wanted
\* it: answered its request in this step, invited it or dialled it. Once a
\* desktop has redialled, the answer also pins the other end of whatever
\* request is active by then.
TrustHasConsent ==
  [][\A h \in Hosts : \A d \in mgr[h]'.trusted \ mgr[h].trusted :
       LET m == mgr[h]
       IN  \/ m.prompt \in m.pending \ mgr[h]'.pending /\ conn[m.prompt].owner = d
           \/ m.invited = d
           \/ m.req # None /\ conn[m.req].owner = h /\ conn[m.req].target = d
           \/ Redialled(m)]_vars

\* Nothing is under way on a connection whose network never failed.
Settled(c) ==
  /\ conn[c].link = "up" /\ conn[c].srv = "open"
  /\ conn[c].toServer = << >> /\ conn[c].toClient = << >>

\* Once nothing is under way, a desktop that plays a caller's microphone has
\* a caller whose client believes in the session too.
ReceiverHasCaller ==
  \A h \in Hosts : mgr[h].audio = "receive" =>
    LET c == requestToSocket[h][mgr[h].req]
    IN  Settled(c) => conn[c].cli = "session"

-----------------------------------------------------------------------------
(* What calls promise *)

\* The answer on its way to the client of cn is yes.
GrantUnderWay(cn) == \E i \in DOMAIN cn.toClient : cn.toClient[i] = "ACCEPT"

CallStage(cn) ==
  CASE cn.cli = "unused"  -> "idle"
    [] cn.cli = "session" -> "talking"
    [] cn.cli \notin {"unused", "session"} /\ GrantUnderWay(cn) -> "granted"
    [] cn.cli \in {"dialing", "requested"} /\ ~GrantUnderWay(cn) -> "calling"
    [] OTHER -> "over"

Line(cn) == [from |-> cn.owner, to |-> cn.target, id |-> cn.req]

Playing(m) == IF m.audio = "receive" THEN m.req ELSE None

Calls == INSTANCE AbstractCall WITH
  Calls <- Conns, Desktops <- Hosts, NoCall <- None, NoLine <- Line(UnusedConn),
  stage <- [c \in Conns |-> CallStage(conn[c])],
  line <- [c \in Conns |-> Line(conn[c])],
  heard <- [h \in Hosts |-> Playing(mgr[h])],
  speaking <- {h \in Hosts : mgr[h].audio = "send"}

\* Microphones are open at both ends only along calls that were granted: through
\* redials, late answers, crossing calls and lost messages, an answer is taken
\* once, a desktop begins to play exactly whom it grants, and nobody else meanwhile,
\* and a caller begins to speak only on the answer to a call of its own.
CallsAreGranted == Calls!CallSpec

-----------------------------------------------------------------------------
(* What holds of callers of one kind, or while the network holds *)

Heard(c) ==
  LET m == mgr[conn[c].target]
  IN  m.audio = "receive" /\ m.req = conn[c].req

\* Once nothing is under way, a phone that believes in its session is heard
\* by the desktop it called: no hang-up, refusal or second caller at the
\* desktop leaves a phone streaming into nothing.
PhoneIsHeard ==
  \A c \in Conns :
    conn[c].owner \in Phones /\ conn[c].cli = "session" /\ Settled(c) => Heard(c)

\* Idle means that nothing is connected: a called desktop that shows Idle and is
\* still active refuses every request in and out.
IdleIsInactive ==
  \A h \in Hosts : mgr[h].state = "Idle" => ~mgr[h].active

\* connectionEstablished is followed by an activeConnection() that exists
\* (connection_manager_test): Streaming is never shown over a manager that
\* takes itself for free.
StreamingIsActive ==
  \A h \in Hosts : mgr[h].state = "Streaming" => mgr[h].active

\* What the window shows and what refuses further calls, hasActiveConnection_,
\* are set by different branches; on a desktop that is called and never calls they
\* agree.  At the calling end they do not: a late answer to a redial shows
\* Streaming over a manager that has given up (ConnectionManager.cpp:829; README,
\* section 5).
StateIsTrue == IdleIsInactive /\ StreamingIsActive

\* hasActiveConnection_ refuses everybody else, so something that can clear
\* it is alive: the client and its timers, the caller's socket, or the
\* reconnect timer.
ActiveHasChannel ==
  \A h \in Hosts : mgr[h].active =>
    LET m == mgr[h]
    IN  \/ /\ m.client # None /\ conn[m.client].req = m.req
           /\ conn[m.client].cli \in {"dialing", "requested", "session"}
        \/ requestToSocket[h][m.req] # None
        \/ m.reconnecting

-----------------------------------------------------------------------------
(* What must happen, under FairSpec *)

\* A reconnect ends: Streaming again, or Idle after kReconnectWindowMs.
ReconnectEnds ==
  \A h \in Hosts : mgr[h].reconnecting ~> ~mgr[h].reconnecting

\* h plays the microphone of a caller that is gone.
Orphaned(h) ==
  /\ mgr[h].audio = "receive"
  /\ LET c == requestToSocket[h][mgr[h].req]
     IN  c # None /\ conn[c].link = "up" /\ conn[c].cli \in {"closed", "gone"}

\* A caller that hangs up, quits or times out is noticed at the other end,
\* unless the network fails.
HangUpIsHeard == \A h \in Hosts : Orphaned(h) ~> ~Orphaned(h)

\* A request that was sent is answered, or given up after 20 seconds
\* (PROTOCOL.md, section 3.3).
RequestEnds ==
  \A h \in Hosts : mgr[h].state = "RequestSent" ~> mgr[h].state # "RequestSent"

=============================================================================
