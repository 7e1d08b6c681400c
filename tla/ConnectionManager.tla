-------------------------- MODULE ConnectionManager --------------------------
(***************************************************************************)
(* core::ConnectionManager, one per desktop, with the two things above and *)
(* below it that decide what may reach it: AppController's pendingRequest_ *)
(* (the request the approval dialog shows) and the ControlClient it owns.  *)
(*                                                                         *)
(* The class lives on the Qt event loop, so a slot is one atomic step.     *)
(* Each operator here maps the record of one manager, m, to the record     *)
(* after a slot or a part of one; the actions that user and timers start   *)
(* follow, and the slots the channel raises are composed with the channel  *)
(* in WireMicSession.                                                      *)
(***************************************************************************)
EXTENDS ControlChannel

CONSTANTS
  Remember,        \* hosts with the setting rememberTrustedDevices
  AutoConnect,     \* hosts with the setting autoConnect
  OldProtocol,     \* phones that speak another protoVersion
  AudioMayFail,    \* hosts whose sockets or devices may refuse to open
  ReconnectTicks   \* kReconnectWindowMs / kReconnectRetryIntervalMs

ASSUME ManagerAssumption ==
  /\ Remember \subseteq Hosts
  /\ AutoConnect \subseteq Hosts
  /\ OldProtocol \subseteq Phones
  /\ AudioMayFail \subseteq Hosts
  /\ ReconnectTicks \in Nat

(***************************************************************************)
(* active      hasActiveConnection_                                        *)
(* state, req  activeConnection_.state, .activeRequestId (its device is    *)
(*             the other end of req, see PeerOf)                           *)
(* pending     the keys of pendingIncoming_                                *)
(* prompt      AppController::pendingRequest_                              *)
(* audio       which of audioReceiver_ and audioSender_ exists             *)
(* invited     invitedDeviceId_; inviteTimer_ runs while it is set         *)
(* reconnecting, inFlight, ticks                                           *)
(*             reconnectTimer_.isActive(), reconnectInFlight_, and the     *)
(*             ticks left before reconnectDeadline_                        *)
(* client      the connection of controlClient_                            *)
(* trusted     the devices pinned in trustedDevices_                       *)
(***************************************************************************)
ManagerState == {"Idle", "RequestSent", "AwaitingApproval", "Streaming",
                 "Reconnecting"}
Audio == {"off", "receive", "send"}

ManagerType ==
  [running      : BOOLEAN,
   active       : BOOLEAN,
   state        : ManagerState,
   req          : ConnOrNone,
   pending      : SUBSET Conns,
   prompt       : ConnOrNone,
   audio        : Audio,
   invited      : Phones \cup {NoDevice},
   reconnecting : BOOLEAN,
   inFlight     : BOOLEAN,
   ticks        : 0 .. ReconnectTicks,
   client       : ConnOrNone,
   trusted      : SUBSET Devices]

VARIABLE mgr     \* [Hosts -> ManagerType]

vars == <<conn, requestToSocket, mgr>>

\* A process that has just started, given the store it read from disk.
Started(store) ==
  [running |-> TRUE, active |-> FALSE, state |-> "Idle", req |-> None,
   pending |-> {}, prompt |-> None, audio |-> "off", invited |-> NoDevice,
   reconnecting |-> FALSE, inFlight |-> FALSE, ticks |-> 0, client |-> None,
   trusted |-> store]

ManagerInit == mgr = [h \in Hosts |-> Started({})]

\* activeConnection_.device, once a request is bound to it.
PeerOf(h, r) == IF conn[r].owner = h THEN conn[r].target ELSE conn[r].owner

Set(h, m) == mgr' = [mgr EXCEPT ![h] = m]

-----------------------------------------------------------------------------
(* Parts of slots *)

\* emit connectionFailed, to which AppController drops pendingRequest_.
Failed(m) == [m EXCEPT !.prompt = None]

\* Mutant: hasActiveConnection_ is not cleared.
EndedButActive(m) == [m EXCEPT !.audio = "off", !.state = "Idle"]

\* The statements every way back to Idle shares.
Ended(m) ==
  [m EXCEPT !.active = FALSE, !.audio = "off", !.state = "Idle"]

\* Mutant: reconnectTimer_ is not stopped.
ReconnectNotStopped(m) == [m EXCEPT !.inFlight = FALSE]

ReconnectStopped(m) == [m EXCEPT !.reconnecting = FALSE, !.inFlight = FALSE]

\* What trustedDevices_.Trust adds at h for device d.
Pinned(h, d) == IF h \in Remember THEN {d} ELSE {}

\* Auto-accept and approveIncoming, once startAudioReceive has succeeded:
\* trust, adopt, emit connectionEstablished.
Receiving(m, h, r, d) ==
  [m EXCEPT !.audio = "receive", !.trusted = @ \cup Pinned(h, d), !.req = r,
            !.active = TRUE, !.state = "Streaming", !.prompt = None]

\* The same when startAudioReceive, which stops all audio first, has failed.
ReceiveFailed(m) == Failed([m EXCEPT !.audio = "off", !.state = "Idle"])

-----------------------------------------------------------------------------
(* Slots connected to controlServer_ *)

\* Mutant: autoConnect alone accepts, the trust store is not asked.
AnswersUntrusted(m, h, d) ==
  IF m.active \/ m.pending # {} THEN {"decline"}
  ELSE IF m.invited = d \/ h \in AutoConnect THEN {"accept"} ELSE {"prompt"}

\* Mutant: hasActiveConnection_ is not looked at.
AnswersWhileActive(m, h, d) ==
  IF m.pending # {} \/ d \in OldProtocol THEN {"decline"}
  ELSE IF m.invited = d \/ (h \in Remember /\ d \in m.trusted /\ h \in AutoConnect)
       THEN {"accept"} ELSE {"prompt"}

(* onIncomingRequest. The answer is "decline" where the code rejects and    *)
(* returns at once, and "fail" where it rejects for want of audio.          *)
Answers(m, h, d) ==
  IF m.active \/ m.pending # {} \/ d \in OldProtocol THEN {"decline"}
  ELSE IF m.invited = d
          \/ (h \in Remember /\ d \in m.trusted /\ h \in AutoConnect)
       THEN {"accept"} \cup (IF h \in AudioMayFail THEN {"fail"} ELSE {})
       ELSE {"prompt"}

OnIncomingRequest(m, h, r, d, answer) ==
  LET welcome == [m EXCEPT !.invited = IF @ = d THEN NoDevice ELSE @]
  IN  CASE answer = "decline" -> m
        [] answer = "accept"  -> Receiving(welcome, h, r, d)
        [] answer = "fail"    -> ReceiveFailed(welcome)
        [] answer = "prompt"  ->
             [welcome EXCEPT !.pending = {r}, !.req = r,
                             !.state = "AwaitingApproval", !.prompt = r]

(* Mutant of the lambda on clientDisconnected: beside ending the active      *)
(* connection, it leaves the state.                                          *)
OnlyClosed(m, r) == IF m.active /\ m.req = r THEN Ended(m) ELSE m
StateKept(m, r) ==
  [OnlyClosed(m, r) EXCEPT !.pending = @ \ {r}, !.prompt = IF @ = r THEN None ELSE @]

(* The lambda on clientDisconnected: first the active connection, then the *)
(* pending request of that id, then AppController's copy of it.            *)
OnClientDisconnected(m, r) ==
  LET closed    == IF m.active /\ m.req = r THEN Ended(m) ELSE m
      cancelled == [closed EXCEPT
                      !.pending = @ \ {r},
                      !.state   = IF closed.req = r /\ ~closed.active
                                  THEN "Idle" ELSE @,
                      !.prompt  = IF @ = r THEN None ELSE @]
  IN  IF r \in m.pending THEN cancelled ELSE closed

-----------------------------------------------------------------------------
(* Slots connected to controlClient_ *)

\* onOutgoingResponse; opened says whether startAudioSend succeeds.
OnOutgoingResponse(m, h, r, accepted, opened) ==
  CASE r # m.req -> m
    [] r = m.req /\ ~accepted -> Failed(Ended(ReconnectStopped(m)))
    [] r = m.req /\ accepted ->
         [ReconnectStopped(m) EXCEPT
            !.trusted = @ \cup Pinned(h, PeerOf(h, r)),
            !.audio   = IF opened THEN "send" ELSE "off",
            !.state   = "Streaming",
            !.prompt  = None]

\* Mutant: the connection is not given up.
TimeoutIgnored(m, r) == IF r # m.req THEN m ELSE Failed([m EXCEPT !.inFlight = FALSE])

OnOutgoingTimedOut(m, r) ==
  CASE r # m.req -> m
    [] r = m.req /\ m.reconnecting  -> [m EXCEPT !.inFlight = FALSE]
    [] r = m.req /\ ~m.reconnecting -> Failed(Ended([m EXCEPT !.inFlight = FALSE]))

OnConnectionLost(m, r) ==
  IF r # m.req THEN m
  ELSE [m EXCEPT !.audio = "off", !.state = "Reconnecting",
                 !.ticks = ReconnectTicks, !.inFlight = FALSE,
                 !.reconnecting = TRUE]

OnRemoteDisconnected(m) == Ended(ReconnectStopped(m))

-----------------------------------------------------------------------------
(* User actions and timers *)

\* The Connect button of the device a request is out to, or in from, is
\* disabled (MainWindow::refreshConnectionUi).
BusyDevice(h) ==
  LET m == mgr[h]
  IN  CASE m.state \notin {"RequestSent", "AwaitingApproval"} -> NoDevice
        [] m.state \in {"RequestSent", "AwaitingApproval"} /\ m.req = None -> m.invited
        [] OTHER -> PeerOf(h, m.req)

\* createControlClient and connectToDevice: the client at hand is dropped,
\* connection c is opened to g with request r.
ClientReplaced(h, c, g, r) ==
  [k \in Conns |-> CASE k = c -> Dialled(h, g, r)
                     [] k # c /\ k = mgr[h].client -> Dropped(conn[k])
                     [] k # c /\ k # mgr[h].client -> conn[k]]

\* requestConnection to a device that listens, through dialDevice.
Dial(h, g) ==
  LET m == mgr[h]
  IN  /\ m.running /\ ~m.active
      /\ g # h
      /\ BusyDevice(h) # g
      /\ \E c \in Conns :
           /\ IsFresh(c)
           /\ conn' = ClientReplaced(h, c, g, c)
           /\ Set(h, [m EXCEPT !.client = c, !.req = c, !.active = TRUE,
                               !.inFlight = FALSE, !.state = "RequestSent"])
      /\ UNCHANGED requestToSocket

\* requestConnection to a device that does not, through inviteDevice.
Invite(h, p) ==
  LET m == mgr[h]
  IN  /\ m.running /\ ~m.active
      /\ BusyDevice(h) # p
      /\ Set(h, [m EXCEPT !.invited = p, !.req = None, !.inFlight = FALSE,
                          !.state = "RequestSent"])
      /\ UNCHANGED chanVars

\* requestConnection that gets no further than connectionFailed: there is a
\* connection already, or the invite could not be sent.
ConnectFails(h) ==
  LET m == mgr[h]
  IN  /\ m.running
      /\ m.active \/ Phones # {}
      /\ Set(h, Failed(m))
      /\ UNCHANGED chanVars

\* onInviteTimeout
InviteTimeout(h) ==
  LET m == mgr[h]
  IN  /\ m.invited # NoDevice
      /\ Set(h, IF m.active THEN [m EXCEPT !.invited = NoDevice]
                ELSE Failed([m EXCEPT !.invited = NoDevice, !.state = "Idle"]))
      /\ UNCHANGED chanVars

\* acceptPendingRequest, through approveIncoming.
Approve(h) ==
  LET m == mgr[h]
      r == m.prompt
      waiting == [m EXCEPT !.pending = @ \ {r}]
  IN  /\ r \in m.pending
      /\ \/ /\ Set(h, Receiving(waiting, h, r, conn[r].owner))
            /\ conn' = OnSocketOf(h, r, Accepted)
         \/ /\ h \in AudioMayFail
            /\ Set(h, ReceiveFailed(waiting))
            /\ conn' = OnSocketOf(h, r, Rejected)
      /\ UNCHANGED requestToSocket

\* rejectPendingRequest, through rejectIncoming.
Refuse(h) ==
  LET m == mgr[h]
      r == m.prompt
  IN  /\ r \in m.pending
      /\ conn' = OnSocketOf(h, r, Rejected)
      /\ Set(h, [m EXCEPT !.pending = @ \ {r}, !.prompt = None,
                          !.state = IF m.req = r /\ ~m.active THEN "Idle" ELSE @])
      /\ UNCHANGED requestToSocket

(* onReconnectTick: give up at the deadline, or redial with the same id.   *)
(* The last disjunct is a tick that finds a dial in flight, or, once        *)
(* MaxConns connections are used up, a tick that comes too late to dial.    *)
(* A redial without an id, which an invite sent in the meantime has         *)
(* cleared, is left out: empty ids are not modelled.                        *)
ReconnectTick(h) ==
  LET m == mgr[h]
      later == [m EXCEPT !.ticks = @ - 1]
  IN  /\ m.reconnecting
      /\ \/ /\ m.ticks = 0
            /\ Set(h, Failed(Ended(ReconnectStopped(m))))
            /\ UNCHANGED conn
         \/ /\ m.ticks > 0 /\ ~m.inFlight /\ m.req # None
            /\ \E c \in Conns :
                 /\ IsFresh(c)
                 /\ conn' = ClientReplaced(h, c, conn[m.client].target, m.req)
                 /\ Set(h, [later EXCEPT !.client = c, !.inFlight = TRUE])
         \/ /\ m.ticks > 0
            /\ m.inFlight \/ m.req = None \/ \A c \in Conns : ~IsFresh(c)
            /\ Set(h, later)
            /\ UNCHANGED conn
      /\ UNCHANGED requestToSocket

\* disconnectActive. The Disconnect button is there only while Streaming.
Disconnect(h) ==
  LET m == mgr[h]
      r == m.req
  IN  /\ m.state = "Streaming"
      /\ conn' = IF m.client # None
                 THEN [conn EXCEPT ![m.client] = Dropped(@)]
                 ELSE IF m.active THEN OnSocketOf(h, r, HungUp) ELSE conn
      /\ IF m.client = None /\ m.active THEN Unbind(h, r)
         ELSE UNCHANGED requestToSocket
      /\ Set(h, [Ended(ReconnectStopped(m)) EXCEPT
                   !.invited = NoDevice, !.client = None])

\* revokeTrust
RevokeTrust(h, d) ==
  /\ mgr[h].running
  /\ d \in mgr[h].trusted
  /\ mgr' = [mgr EXCEPT ![h].trusted = @ \ {d}]
  /\ UNCHANGED chanVars

\* stop() and the end of the process: every socket of the host is closed,
\* what is left is the trust store on disk.
Quit(h) ==
  LET m == mgr[h]
  IN  /\ m.running
      /\ conn' = [c \in Conns |->
                    CASE c = m.client -> Dropped(conn[c])
                      [] c # m.client /\ conn[c].target = h /\ InSessions(conn[c])
                           -> ServerDisconnected(conn[c], <<"FIN">>)
                      [] OTHER -> conn[c]]
      /\ requestToSocket' = [requestToSocket EXCEPT ![h] = [r \in Conns |-> None]]
      /\ Set(h, [Started(m.trusted) EXCEPT !.running = FALSE])

=============================================================================
