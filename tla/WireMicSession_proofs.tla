------------------------ MODULE WireMicSession_proofs ------------------------
(***************************************************************************)
(* Proofs, for any number of desktops, phones and connections, of every    *)
(* safety property that WireMicSession states:                             *)
(*                                                                         *)
(*   - types are kept, and the approval dialog shows a pending request;    *)
(*   - requestToSocket_ names sockets that are in sessions_, and whoever   *)
(*     waits for an answer, or is heard, has a socket;                     *)
(*   - waiting states end, trust has consent, a receiver has a caller;     *)
(*   - with one desktop, what it shows is true and its phones are heard;   *)
(*   - while nothing is lost, who refuses calls has what ends that;        *)
(*   - calls are granted before they are heard: AbstractCall is            *)
(*     implemented, step by step.                                          *)
(*                                                                         *)
(* The invariants that carry them:                                         *)
(*   TypeInv     TypeOK, and every number a manager or a map keeps names   *)
(*               a connection that was opened                              *)
(*   SessionInv  and the active request is not a pending one, without      *)
(*               which disconnectActive could unbind one that still waits  *)
(*   FlowInv     and what the two queues of a connection may hold, given   *)
(*               the phase of either end                                   *)
(*   WaitsInv    and what is behind the states that wait                   *)
(*   CallerInv   and a caller that is heard was sent its answer            *)
(*   LoneInv, PlayedInv    the same for one desktop and its phones         *)
(*   CalmInv     and how far both ends are, when nothing is ever lost      *)
(*   CallInv     and a grant is sent once, to a call that has none, and    *)
(*               whoever is played leaves nobody waiting for the dialog    *)
(***************************************************************************)
EXTENDS WireMicSession, SequenceTheorems, TLAPS

\* What one write puts into a queue is a queue.
LEMMA Queues ==
  /\ << >> \in ToServerQueue
  /\ <<"REQUEST">> \in ToServerQueue
  /\ <<"FIN">> \in ToServerQueue
  /\ <<"DISCONNECT", "FIN">> \in ToServerQueue
  /\ << >> \in ToClientQueue
  /\ <<"FIN">> \in ToClientQueue
  /\ <<"ACCEPT">> \in ToClientQueue
  /\ <<"REJECT">> \in ToClientQueue
  /\ <<"DISCONNECT">> \in ToClientQueue
BY DEF ToServerQueue, ToClientQueue, ToServerMsg, ToClientMsg

\* Reading and writing keep a queue's type.
LEMMA QueueOps ==
  /\ \A q \in ToServerQueue : q # << >> => Tail(q) \in ToServerQueue
  /\ \A q, msgs \in ToServerQueue : q \o msgs \in ToServerQueue
  /\ \A q \in ToClientQueue : q # << >> => Tail(q) \in ToClientQueue
  /\ \A q, msgs \in ToClientQueue : q \o msgs \in ToClientQueue
BY DEF ToServerQueue, ToClientQueue

\* What an end has queued for the other keeps its type, open or not.
LEMMA Sends ==
  ASSUME NEW cn \in ConnType
  PROVE  /\ \A msgs \in ToServerQueue : ToServer(cn, msgs) \in ToServerQueue
         /\ \A msgs \in ToClientQueue : ToClient(cn, msgs) \in ToClientQueue
BY Queues, QueueOps DEF ConnType, ToServer, ToClient

-----------------------------------------------------------------------------
Used(c) == conn[c].cli # "unused"

\* What a step does to a connection that exists: its ends and its request stay,
\* and a destroyed client stays destroyed.
Keeps(cn, new) ==
  /\ new \in ConnType
  /\ new.owner = cn.owner /\ new.target = cn.target /\ new.req = cn.req
  /\ new.cli # "unused"
  /\ cn.cli = "gone" => new.cli = "gone"

\* What a step that leaves the socket in sessions_ does to it.
KeepsSession(cn, new) ==
  /\ new.bound = cn.bound
  /\ InSessions(cn) => InSessions(new)

\* Every step of a client keeps the connection and what the server knows of it.
LEMMA ClientOps ==
  ASSUME NEW cn \in ConnType, cn.cli \notin {"unused", "gone"}
  PROVE  /\ Keeps(cn, Encrypted(cn))
         /\ Encrypted(cn).bound = cn.bound /\ InSessions(Encrypted(cn))
         /\ Keeps(cn, MissedKeepAlives(cn)) /\ KeepsSession(cn, MissedKeepAlives(cn))
         /\ Keeps(cn, ClientDisconnected(cn)) /\ KeepsSession(cn, ClientDisconnected(cn))
         /\ Keeps(cn, TimedOut(cn)) /\ KeepsSession(cn, TimedOut(cn))
         /\ cn.toClient # << >> =>
              /\ Keeps(cn, ReadAccept(cn)) /\ KeepsSession(cn, ReadAccept(cn))
              /\ Keeps(cn, ReadReject(cn)) /\ KeepsSession(cn, ReadReject(cn))
              /\ Keeps(cn, ReadDisconnect(cn)) /\ KeepsSession(cn, ReadDisconnect(cn))
<1> USE DEF Keeps, KeepsSession, InSessions
<1>1. /\ Keeps(cn, Encrypted(cn))
      /\ Encrypted(cn).bound = cn.bound /\ InSessions(Encrypted(cn))
  BY Queues DEF ConnType, Encrypted, ClientPhase, ServerPhase
<1>2. Keeps(cn, LoopLeft(cn)) /\ KeepsSession(cn, LoopLeft(cn))
  BY Queues, Sends DEF ConnType, LoopLeft, ClientPhase
<1>3. /\ Keeps(cn, TimedOut(cn)) /\ KeepsSession(cn, TimedOut(cn))
      /\ Keeps(cn, ClientDisconnected(cn)) /\ KeepsSession(cn, ClientDisconnected(cn))
      /\ Keeps(cn, MissedKeepAlives(cn)) /\ KeepsSession(cn, MissedKeepAlives(cn))
  <2>1. Keeps(cn, TimedOut(cn)) /\ KeepsSession(cn, TimedOut(cn))
    BY Queues, Sends DEF ConnType, TimedOut, ClientPhase
  <2>2. Keeps(cn, ClientDisconnected(cn)) /\ KeepsSession(cn, ClientDisconnected(cn))
    BY Queues DEF ConnType, ClientDisconnected, ClientPhase
  <2>3. Keeps(cn, MissedKeepAlives(cn)) /\ KeepsSession(cn, MissedKeepAlives(cn))
    BY <1>2 DEF ConnType, MissedKeepAlives, ClientPhase
  <2> QED BY <2>1, <2>2, <2>3
<1>4. ASSUME cn.toClient # << >>
      PROVE  /\ Keeps(cn, ReadAccept(cn)) /\ KeepsSession(cn, ReadAccept(cn))
             /\ Keeps(cn, ReadReject(cn)) /\ KeepsSession(cn, ReadReject(cn))
             /\ Keeps(cn, ReadDisconnect(cn)) /\ KeepsSession(cn, ReadDisconnect(cn))
  <2>1. Tail(cn.toClient) \in ToClientQueue
    BY <1>4, QueueOps DEF ConnType
  <2>2. /\ Keeps(cn, ReadAccept(cn)) /\ KeepsSession(cn, ReadAccept(cn))
        /\ Keeps(cn, ReadReject(cn)) /\ KeepsSession(cn, ReadReject(cn))
    BY <2>1 DEF ConnType, ReadAccept, ReadReject, ClientPhase
  <2>3. CASE cn.owner \in Phones
    BY <1>2, <2>2, <2>3 DEF ReadDisconnect
  <2>4. CASE cn.owner \notin Phones
    <3>1. Keeps(cn, ReadDisconnect(cn)) /\ KeepsSession(cn, ReadDisconnect(cn))
      BY <2>1, <2>4 DEF ConnType, ReadDisconnect, ClientPhase
    <3> QED BY <2>2, <3>1
  <2> QED BY <2>3, <2>4
<1> QED BY <1>1, <1>2, <1>3, <1>4

\* disconnectFromDevice and the destructor.
LEMMA DroppedOp ==
  ASSUME NEW cn \in ConnType
  PROVE  Keeps(cn, Dropped(cn)) /\ KeepsSession(cn, Dropped(cn)) /\ Dropped(cn).cli = "gone"
BY Queues, Sends DEF ConnType, Dropped, ClientPhase, Keeps, KeepsSession, InSessions

\* The same on a phone.
LEMMA PhoneDroppedOp ==
  ASSUME NEW cn \in ConnType
  PROVE  Keeps(cn, PhoneDropped(cn)) /\ KeepsSession(cn, PhoneDropped(cn))
BY Queues, Sends DEF ConnType, PhoneDropped, ClientPhase, Keeps, KeepsSession, InSessions

\* Every step of the server keeps the connection and the client's phase.
LEMMA ServerOps ==
  ASSUME NEW cn \in ConnType, cn.cli # "unused"
  PROVE  /\ Keeps(cn, Accepted(cn)) /\ KeepsSession(cn, Accepted(cn))
         /\ Keeps(cn, Rejected(cn)) /\ (InSessions(cn) => KeepsSession(cn, Rejected(cn)))
         /\ Keeps(cn, HungUp(cn))
         /\ Keeps(cn, ServerDisconnected(cn, << >>))
         /\ Keeps(cn, ServerDisconnected(cn, <<"FIN">>))
         /\ cn.toServer # << >> =>
              /\ Keeps(cn, ReadRequest(cn)) /\ ReadRequest(cn).bound
              /\ Keeps(cn, ReadHangUp(cn))
              /\ InSessions(cn) => InSessions(ReadRequest(cn)) /\ InSessions(ReadHangUp(cn))
<1> USE DEF Keeps, KeepsSession, InSessions
<1>1. /\ Keeps(cn, Accepted(cn)) /\ KeepsSession(cn, Accepted(cn))
      /\ Keeps(cn, Rejected(cn)) /\ (InSessions(cn) => KeepsSession(cn, Rejected(cn)))
      /\ Keeps(cn, HungUp(cn))
  BY Queues, Sends DEF ConnType, Accepted, Rejected, HungUp, ServerPhase
<1>2. /\ Keeps(cn, ServerDisconnected(cn, << >>))
      /\ Keeps(cn, ServerDisconnected(cn, <<"FIN">>))
  BY Queues, Sends DEF ConnType, ServerDisconnected, ServerPhase
<1>3. ASSUME cn.toServer # << >>
      PROVE  /\ Keeps(cn, ReadRequest(cn)) /\ ReadRequest(cn).bound
             /\ Keeps(cn, ReadHangUp(cn))
             /\ InSessions(cn) => InSessions(ReadRequest(cn)) /\ InSessions(ReadHangUp(cn))
  BY <1>3, QueueOps DEF ConnType, ReadRequest, ReadHangUp, ServerPhase
<1> QED BY <1>1, <1>2, <1>3

-----------------------------------------------------------------------------
(* The type invariant, and what it rests on *)

\* A connection number is blank or names a device, a desktop and a request
\* that was a connection's number before.
ConnShape ==
  \A c \in Conns :
    IF Used(c)
    THEN /\ conn[c].owner \in Devices /\ conn[c].target \in Hosts
         /\ conn[c].req \in Conns /\ Used(conn[c].req)
    ELSE conn[c] = UnusedConn

\* Whatever number a manager holds names a connection that exists.
Wellformed(m) ==
  /\ m.client # None => Used(m.client)
  /\ m.reconnecting => m.client # None
  /\ m.active => m.req # None
  /\ m.req # None => Used(m.req)
  /\ \A r \in m.pending : Used(r)
  /\ m.prompt # None => m.prompt \in m.pending

MgrShape == \A h \in Hosts : Wellformed(mgr[h])

\* The only client of a desktop that can still raise a signal is controlClient_.
LiveClient ==
  \A c \in Conns :
    conn[c].owner \in Hosts /\ conn[c].cli \notin {"unused", "gone"}
      => mgr[conn[c].owner].client = c

\* requestToSocket_ names sockets of connections that exist.
MappedUsed ==
  \A h \in Hosts, r \in Conns :
    requestToSocket[h][r] # None => Used(requestToSocket[h][r])

TypeInv == TypeOK /\ ConnShape /\ MgrShape /\ LiveClient /\ MappedUsed

-----------------------------------------------------------------------------
(* Slots *)

SlotResult(m, new) ==
  new \in ManagerType /\ Wellformed(new) /\ new.client = m.client

\* onIncomingRequest and the lambda on clientDisconnected keep a manager
\* well formed, and its client.
LEMMA IncomingSlots ==
  ASSUME NEW m \in ManagerType, Wellformed(m),
         NEW h \in Hosts, NEW r \in Conns, NEW d \in Devices, Used(r)
  PROVE  /\ \A answer \in Answers(m, h, d) :
              SlotResult(m, OnIncomingRequest(m, h, r, d, answer))
         /\ SlotResult(m, OnClientDisconnected(m, r))
<1>1. /\ m.trusted \cup Pinned(h, d) \in SUBSET Devices
      /\ {r} \in SUBSET Conns /\ m.pending \ {r} \in SUBSET Conns
      /\ r \in ConnOrNone /\ None \in ConnOrNone
      /\ (IF m.invited = d THEN NoDevice ELSE m.invited) \in Phones \cup {NoDevice}
  BY DEF ManagerType, Pinned, ConnOrNone
<1>2. r # None
  BY DEF Conns, None
<1>3. \A answer \in {"decline", "accept", "fail", "prompt"} :
         OnIncomingRequest(m, h, r, d, answer) \in ManagerType
  BY ZenonT(30), <1>1 DEF ManagerType, ManagerState, Audio, OnIncomingRequest, Receiving, ReceiveFailed, Failed
<1>4. ASSUME NEW answer \in {"decline", "accept", "fail", "prompt"}
      PROVE SlotResult(m, OnIncomingRequest(m, h, r, d, answer))
  BY <1>2, <1>3 DEF SlotResult, Wellformed, ManagerType, OnIncomingRequest, Receiving, ReceiveFailed, Failed
<1>5. Answers(m, h, d) \subseteq {"decline", "accept", "fail", "prompt"}
  BY DEF Answers
<1>6. OnClientDisconnected(m, r) \in ManagerType
  BY ZenonT(30), <1>1 DEF ManagerType, ManagerState, Audio, OnClientDisconnected, Ended
<1>7. SlotResult(m, OnClientDisconnected(m, r))
  BY <1>2, <1>6 DEF SlotResult, Wellformed, ManagerType, OnClientDisconnected, Ended
<1> QED BY <1>4, <1>5, <1>7

\* So do the slots connected to controlClient_.
LEMMA OutgoingSlots ==
  ASSUME NEW m \in ManagerType, Wellformed(m), ManagerAssumption,
         NEW h \in Hosts, NEW r \in Conns, PeerOf(h, r) \in Devices
  PROVE  /\ \A accepted, opened \in BOOLEAN :
              SlotResult(m, OnOutgoingResponse(m, h, r, accepted, opened))
         /\ SlotResult(m, OnOutgoingTimedOut(m, r))
         /\ m.client # None => SlotResult(m, OnConnectionLost(m, r))
         /\ SlotResult(m, OnRemoteDisconnected(m))
<1>1. /\ m.trusted \cup Pinned(h, PeerOf(h, r)) \in SUBSET Devices
      /\ None \in ConnOrNone
      /\ ReconnectTicks \in 0 .. ReconnectTicks
  BY DEF ManagerType, Pinned, ConnOrNone, ManagerAssumption
<1>2. ASSUME NEW accepted \in BOOLEAN, NEW opened \in BOOLEAN
      PROVE  SlotResult(m, OnOutgoingResponse(m, h, r, accepted, opened))
  <2>1. CASE r # m.req
    BY <2>1 DEF SlotResult, OnOutgoingResponse
  <2>2. CASE r = m.req /\ ~accepted
    BY <1>1, <2>2 DEF SlotResult, Wellformed, ManagerType, ManagerState, Audio,
                      OnOutgoingResponse, ReconnectStopped, Failed, Ended
  <2>3. CASE r = m.req /\ accepted
    BY <1>1, <2>3 DEF SlotResult, Wellformed, ManagerType, ManagerState, Audio,
                      OnOutgoingResponse, ReconnectStopped
  <2> QED BY <2>1, <2>2, <2>3
<1>3. SlotResult(m, OnOutgoingTimedOut(m, r))
  BY <1>1 DEF SlotResult, Wellformed, ManagerType, ManagerState, Audio,
              OnOutgoingTimedOut, Failed, Ended
<1>4. ASSUME m.client # None
      PROVE SlotResult(m, OnConnectionLost(m, r))
  BY ZenonT(30), <1>1, <1>4 DEF SlotResult, Wellformed, ManagerType, ManagerState, Audio, OnConnectionLost
<1>5. SlotResult(m, OnRemoteDisconnected(m))
  BY DEF SlotResult, Wellformed, ManagerType, ManagerState, Audio,
         OnRemoteDisconnected, ReconnectStopped, Ended
<1> QED BY <1>2, <1>3, <1>4, <1>5

-----------------------------------------------------------------------------
(* Steps that open no connection and drop no client *)

SameConns ==
  /\ conn' \in [Conns -> ConnType]
  /\ \A c \in Conns : IF Used(c) THEN Keeps(conn[c], conn'[c]) ELSE conn'[c] = conn[c]

SlotSteps ==
  /\ mgr' \in [Hosts -> ManagerType]
  /\ \A h \in Hosts : SlotResult(mgr[h], mgr'[h])

MapStep ==
  /\ requestToSocket' \in [Hosts -> [Conns -> ConnOrNone]]
  /\ \A h \in Hosts, r \in Conns :
       requestToSocket'[h][r] # None => Used(requestToSocket'[h][r])

\* A step that changes one connection as Keeps allows.
LEMMA OneConn ==
  ASSUME TypeInv, NEW c \in Conns, Used(c), NEW new, Keeps(conn[c], new),
         conn' = [conn EXCEPT ![c] = new]
  PROVE  SameConns
<1>1. conn \in [Conns -> ConnType] /\ new \in ConnType
  BY DEF TypeInv, TypeOK, Keeps
<1>2. conn' \in [Conns -> ConnType]
  BY <1>1
<1>3. \A k \in Conns : conn'[k] = IF k = c THEN new ELSE conn[k]
  BY <1>1
<1>4. \A k \in Conns : k # c /\ Used(k) => Keeps(conn[k], conn[k])
  BY <1>1 DEF Keeps, Used
<1> QED BY <1>2, <1>3, <1>4 DEF SameConns

\* A step that changes none.
LEMMA NoConn == ASSUME TypeInv, UNCHANGED conn PROVE SameConns
BY DEF TypeInv, TypeOK, SameConns, Keeps, Used

\* A step that runs one slot of one manager.
LEMMA OneSlot ==
  ASSUME TypeInv, NEW h \in Hosts, NEW new, SlotResult(mgr[h], new),
         mgr' = [mgr EXCEPT ![h] = new]
  PROVE  SlotSteps
BY DEF TypeInv, TypeOK, MgrShape, SlotSteps, SlotResult

\* A step that runs none.
LEMMA NoSlot == ASSUME TypeInv, UNCHANGED mgr PROVE SlotSteps
BY DEF TypeInv, TypeOK, MgrShape, SlotSteps, SlotResult

\* Such steps neither open a connection nor make one unused.
LEMMA UsedStays == ASSUME SameConns PROVE \A c \in Conns : Used(c)' <=> Used(c)
BY DEF SameConns, Keeps, Used

\* Such steps keep the type invariant.
LEMMA FrameStep ==
  ASSUME TypeInv, SameConns, SlotSteps, MapStep
  PROVE  TypeInv'
<1>1. TypeOK'
  BY DEF TypeOK, SameConns, SlotSteps, MapStep
<1>2. ConnShape'
  BY UsedStays DEF TypeInv, ConnShape, SameConns, Keeps
<1>3. MgrShape'
  <2> SUFFICES ASSUME NEW h \in Hosts PROVE Wellformed(mgr[h])'
    BY DEF MgrShape
  <2>1. Wellformed(mgr'[h]) /\ mgr'[h] \in ManagerType
    BY DEF SlotSteps, SlotResult
  <2> QED BY <2>1, UsedStays DEF Wellformed, ManagerType, ConnOrNone
<1>4. LiveClient'
  BY UsedStays DEF TypeInv, LiveClient, SameConns, Keeps, SlotSteps, SlotResult, Used
<1>5. MappedUsed'
  BY UsedStays DEF MapStep, MappedUsed, ConnOrNone
<1> QED BY <1>1, <1>2, <1>3, <1>4, <1>5 DEF TypeInv

\* Binding and unbinding a request keeps the type of requestToSocket_.
LEMMA MapSteps ==
  ASSUME TypeInv
  PROVE  /\ UNCHANGED requestToSocket => MapStep
         /\ \A h \in Hosts, r \in Conns :
              /\ Unbind(h, r) => MapStep
              /\ \A c \in Conns : Used(c) /\ Bind(h, r, c) => MapStep
<1>1. UNCHANGED requestToSocket => MapStep
  BY DEF MapStep, TypeInv, TypeOK, MappedUsed, Used
<1>2. ASSUME NEW h \in Hosts, NEW r \in Conns, NEW c \in ConnOrNone,
             c # None => Used(c), Bind(h, r, c)
      PROVE  MapStep
  <2>1. requestToSocket' \in [Hosts -> [Conns -> ConnOrNone]]
    BY <1>2 DEF TypeInv, TypeOK, Bind
  <2>2. \A g \in Hosts, k \in Conns :
           requestToSocket'[g][k] = IF g = h /\ k = r THEN c ELSE requestToSocket[g][k]
    BY <1>2 DEF TypeInv, TypeOK, Bind
  <2> QED BY <1>2, <2>1, <2>2 DEF MapStep, TypeInv, MappedUsed
<1> QED BY <1>1, <1>2 DEF Unbind, ConnOrNone

\* What the type invariant says of a connection that exists.
LEMMA UsedConns ==
  ASSUME TypeInv, NEW c \in Conns, Used(c)
  PROVE  /\ conn[c] \in ConnType /\ conn[c].cli # "unused"
         /\ conn[c].owner \in Devices /\ conn[c].target \in Hosts
         /\ conn[c].req \in Conns /\ Used(conn[c].req)
         /\ \A h \in Hosts : PeerOf(h, conn[c].req) \in Devices
BY DEF TypeInv, TypeOK, ConnShape, Used, PeerOf, Devices

\* A connection with a socket at either end, or a timer, exists.
LEMMA UsedWhen ==
  ASSUME TypeInv, NEW c \in Conns,
         \/ InSessions(conn[c]) \/ ClientSocketOpen(conn[c]) \/ TimeoutRunning(conn[c])
  PROVE  Used(c)
BY DEF TypeInv, ConnShape, Used, UnusedConn, InSessions, ClientSocketOpen, TimeoutRunning

\* A signal of a client runs a slot of its owner's manager, or none.
LEMMA RaiseStep ==
  ASSUME TypeInv, NEW h, NEW new, h \in Hosts => SlotResult(mgr[h], new), Raise(h, new)
  PROVE  SlotSteps
BY OneSlot, NoSlot DEF Raise, Set

\* What onReadyRead, the timers and the socket do at the client.
LEMMA ClientStepsType ==
  ASSUME TypeInv, NEW c \in Conns, ClientStep(c) \/ ClientSocketError(c)
  PROVE  TypeInv'
<1> USE SessionAssumption, ManagerAssumption DEF ClientReads
<1> DEFINE h == conn[c].owner
<1>1. ASSUME UNCHANGED requestToSocket PROVE MapStep
  BY <1>1, MapSteps
<1>2. ASSUME h \in Hosts PROVE mgr[h] \in ManagerType /\ Wellformed(mgr[h])
  BY <1>2 DEF TypeInv, TypeOK, MgrShape
<1>3. ASSUME h \in Hosts, conn[c].cli = "session"
      PROVE  SlotResult(mgr[h], OnConnectionLost(mgr[h], conn[c].req))
  <2>1. mgr[h].client # None
    BY <1>3 DEF TypeInv, LiveClient, Conns, None
  <2>2. Used(c)
    BY <1>3 DEF Used
  <2> QED BY <2>1, <2>2, <1>2, <1>3, UsedConns, OutgoingSlots
<1>4. CASE TlsEstablished(c)
  <2>1. Used(c) /\ MapStep /\ SlotSteps /\ Keeps(conn[c], Encrypted(conn[c]))
    BY <1>1, <1>4, NoSlot, UsedConns, ClientOps DEF TlsEstablished, Used
  <2> QED BY <1>4, <2>1, OneConn, FrameStep DEF TlsEstablished
<1>5. CASE ReceiveAccept(c)
  <2>1. Used(c) /\ MapStep /\ Keeps(conn[c], ReadAccept(conn[c]))
    BY <1>1, <1>5, UsedWhen, UsedConns, ClientOps DEF ReceiveAccept, ClientSocketOpen
  <2>2. PICK opened \in BOOLEAN :
          Raise(h, OnOutgoingResponse(mgr[h], h, conn[c].req, TRUE, opened))
    BY <1>5 DEF ReceiveAccept
  <2>3. SlotSteps
    BY <1>2, <2>1, <2>2, UsedConns, OutgoingSlots, RaiseStep
  <2> QED BY <1>5, <2>1, <2>3, OneConn, FrameStep DEF ReceiveAccept
<1>6. CASE ReceiveReject(c)
  <2>1. Used(c) /\ MapStep /\ Keeps(conn[c], ReadReject(conn[c]))
    BY <1>1, <1>6, UsedWhen, UsedConns, ClientOps DEF ReceiveReject, ClientSocketOpen
  <2>2. SlotSteps
    BY <1>2, <1>6, <2>1, UsedConns, OutgoingSlots, RaiseStep DEF ReceiveReject
  <2> QED BY <1>6, <2>1, <2>2, OneConn, FrameStep DEF ReceiveReject
<1>7. CASE ReceiveDisconnect(c)
  <2>1. Used(c) /\ MapStep /\ Keeps(conn[c], ReadDisconnect(conn[c]))
    BY <1>1, <1>7, UsedWhen, UsedConns, ClientOps DEF ReceiveDisconnect, ClientSocketOpen
  <2>2. SlotSteps
    BY <1>2, <1>7, <2>1, UsedConns, OutgoingSlots, RaiseStep DEF ReceiveDisconnect
  <2> QED BY <1>7, <2>1, <2>2, OneConn, FrameStep DEF ReceiveDisconnect
<1>8. CASE ClientReadsEnd(c) \/ ClientSocketError(c)
  <2>1. /\ ClientDisconnects(c) /\ MapStep
        /\ conn[c].cli \notin {"unused", "gone"}
    BY <1>1, <1>8 DEF ClientReadsEnd, ClientSocketError, ClientDisconnects, ClientSocketOpen
  <2>2. Used(c) /\ Keeps(conn[c], ClientDisconnected(conn[c]))
    BY <2>1, UsedConns, ClientOps DEF Used
  <2>3. SlotSteps
    BY <1>3, <2>1, NoSlot, RaiseStep DEF ClientDisconnects
  <2> QED BY <2>1, <2>2, <2>3, OneConn, FrameStep DEF ClientDisconnects
<1>9. CASE KeepAlivesMissed(c)
  <2>1. Used(c) /\ MapStep /\ Keeps(conn[c], MissedKeepAlives(conn[c]))
    BY <1>1, <1>9, UsedConns, ClientOps DEF KeepAlivesMissed, Used
  <2>2. SlotSteps
    BY <1>3, <1>9, RaiseStep DEF KeepAlivesMissed
  <2> QED BY <1>9, <2>1, <2>2, OneConn, FrameStep DEF KeepAlivesMissed
<1>10. CASE RequestTimesOut(c)
  <2>1. Used(c) /\ MapStep /\ Keeps(conn[c], TimedOut(conn[c]))
    BY <1>1, <1>10, UsedWhen, UsedConns, ClientOps DEF RequestTimesOut, TimeoutRunning
  <2>2. SlotSteps
    BY <1>2, <1>10, <2>1, UsedConns, OutgoingSlots, RaiseStep DEF RequestTimesOut
  <2> QED BY <1>10, <2>1, <2>2, OneConn, FrameStep DEF RequestTimesOut
<1> QED BY <1>4, <1>5, <1>6, <1>7, <1>8, <1>9, <1>10 DEF ClientStep

\* What onReadyRead and onDisconnected do at the server.
LEMMA ServerStepsType ==
  ASSUME TypeInv, NEW c \in Conns, ServerStep(c) \/ ServerSocketError(c)
  PROVE  TypeInv'
<1> USE SessionAssumption, ManagerAssumption DEF ServerReads
<1> DEFINE h == conn[c].target
           r == conn[c].req
<1>1. InSessions(conn[c])
  <2>1. CASE ServerCloses(c)
    BY <2>1 DEF ServerCloses, InSessions
  <2>2. CASE ReceiveRequest(c) \/ ReceiveHangUp(c)
    BY <2>2 DEF ReceiveRequest, ReceiveHangUp
  <2>3. CASE ServerReadsEnd(c) \/ ServerSocketError(c)
    BY <2>3 DEF ServerReadsEnd, ServerSocketError
  <2> QED BY <2>1, <2>2, <2>3 DEF ServerStep
<1>2. Used(c)
  BY <1>1, UsedWhen
<1>3. /\ h \in Hosts /\ r \in Conns /\ conn[c].owner \in Devices /\ Used(r)
      /\ mgr[h] \in ManagerType /\ Wellformed(mgr[h]) /\ conn[c] \in ConnType
      /\ conn[c].cli # "unused"
  BY <1>2, UsedConns DEF TypeInv, TypeOK, MgrShape
<1>4. ASSUME UNCHANGED requestToSocket \/ Unbind(h, r) \/ Bind(h, r, c)
      PROVE  MapStep
  BY <1>2, <1>3, <1>4, MapSteps
<1>5. SlotResult(mgr[h], OnClientDisconnected(mgr[h], r))
  BY <1>3, IncomingSlots
<1>6. CASE ReceiveRequest(c)
  <2>1. PICK answer \in Answers(mgr[h], h, conn[c].owner) :
          /\ Set(h, OnIncomingRequest(mgr[h], h, r, conn[c].owner, answer))
          /\ conn' = [conn EXCEPT ![c] =
                        CASE answer = "accept" -> Accepted(ReadRequest(@))
                          [] answer = "prompt" -> ReadRequest(@)
                          [] answer \in {"decline", "fail"} -> Rejected(ReadRequest(@))]
    BY <1>6 DEF ReceiveRequest
  <2>2. SlotSteps
    BY <1>3, <2>1, IncomingSlots, OneSlot DEF Set
  <2>3. answer \in {"decline", "accept", "fail", "prompt"}
    BY DEF Answers
  <2>4. Keeps(conn[c], ReadRequest(conn[c]))
    BY <1>3, <1>6, ServerOps DEF ReceiveRequest
  <2>5. /\ Keeps(conn[c], Accepted(ReadRequest(conn[c])))
        /\ Keeps(conn[c], Rejected(ReadRequest(conn[c])))
    BY <2>4, ServerOps DEF Keeps
  <2>6. SameConns
    <3>1. CASE answer = "accept"
      BY <3>1, <1>2, <2>1, <2>5, OneConn
    <3>2. CASE answer = "prompt"
      BY <3>2, <1>2, <2>1, <2>4, OneConn
    <3>3. CASE answer \in {"decline", "fail"}
      BY <3>3, <1>2, <2>1, <2>5, OneConn
    <3> QED BY <2>3, <3>1, <3>2, <3>3
  <2> QED BY <1>4, <1>6, <2>2, <2>6, FrameStep DEF ReceiveRequest
<1>7. CASE ReceiveHangUp(c)
  <2>1. Keeps(conn[c], ReadHangUp(conn[c]))
    BY <1>3, <1>7, ServerOps DEF ReceiveHangUp
  <2>2. SlotSteps
    BY <1>3, <1>5, <1>7, OneSlot, NoSlot DEF ReceiveHangUp, Set
  <2> QED BY <1>2, <1>4, <1>7, <2>1, <2>2, OneConn, FrameStep DEF ReceiveHangUp
<1>8. CASE ServerCloses(c) \/ ServerReadsEnd(c) \/ ServerSocketError(c)
  <2>1. PICK msgs \in {<< >>, <<"FIN">>} : ServerSocketGone(c, msgs)
    BY <1>8 DEF ServerCloses, ServerReadsEnd, ServerSocketError
  <2>2. Keeps(conn[c], ServerDisconnected(conn[c], msgs))
    BY <1>3, ServerOps
  <2>3. SlotSteps
    BY <1>3, <1>5, <2>1, OneSlot, NoSlot DEF ServerSocketGone, Set
  <2>4. MapStep
    BY <1>4, <2>1 DEF ServerSocketGone, UnbindSocket
  <2> QED BY <1>2, <2>1, <2>2, <2>3, <2>4, OneConn, FrameStep DEF ServerSocketGone
<1> QED BY <1>6, <1>7, <1>8 DEF ServerStep

\* An outage and its end change no manager and no end.
LEMMA LinkStepsType ==
  ASSUME TypeInv, NEW c \in Conns, LinkChanges(c) PROVE TypeInv'
<1>1. Used(c)
  BY DEF LinkChanges, LinkDown, LinkHeals, TypeInv, ConnShape, UnusedConn, Used,
         ClientSocketOpen, InSessions
<1>2. /\ Keeps(conn[c], [conn[c] EXCEPT !.link = "down"])
      /\ Keeps(conn[c], [conn[c] EXCEPT !.link = "healed"])
  BY <1>1, UsedConns DEF ConnType, Keeps, Link
<1>3. SameConns
  BY <1>1, <1>2, OneConn DEF LinkChanges, LinkDown, LinkHeals
<1> QED BY <1>3, NoSlot, MapSteps, FrameStep DEF LinkChanges

\* Nor does a phone that hangs up.
LEMMA PhoneHangsUpType ==
  ASSUME TypeInv, NEW c \in Conns, PhoneHangsUp(c) PROVE TypeInv'
<1>1. Used(c)
  BY DEF PhoneHangsUp, Used
<1>2. SameConns
  BY <1>1, UsedConns, PhoneDroppedOp, OneConn DEF PhoneHangsUp
<1> QED BY <1>2, NoSlot, MapSteps, FrameStep DEF PhoneHangsUp

\* What accept, reject and disconnectClient do to the socket they find.
LEMMA SocketOps ==
  ASSUME TypeInv, NEW h \in Hosts, NEW r \in Conns,
         \/ conn' = OnSocketOf(h, r, Accepted)
         \/ conn' = OnSocketOf(h, r, Rejected)
         \/ conn' = OnSocketOf(h, r, HungUp)
  PROVE  SameConns
<1>1. \A k \in Conns : Used(k) => /\ Keeps(conn[k], Accepted(conn[k]))
                                  /\ Keeps(conn[k], Rejected(conn[k]))
                                  /\ Keeps(conn[k], HungUp(conn[k]))
                                  /\ Keeps(conn[k], conn[k])
  BY ZenonT(30), UsedConns, ServerOps DEF Keeps
<1>2. \A k \in Conns : ~Used(k) => conn[k] \in ConnType /\ k # requestToSocket[h][r]
  BY DEF TypeInv, TypeOK, MappedUsed, Conns, None
<1> QED BY <1>1, <1>2 DEF SameConns, OnSocketOf, Keeps

-----------------------------------------------------------------------------
(* Steps that open a connection *)

\* Connection c is opened by d to g with request r; no other is, and the rest
\* keep their ends.
Opens(c, d, g, r) ==
  /\ ~Used(c)
  /\ conn' \in [Conns -> ConnType]
  /\ conn'[c] = Dialled(d, g, r)
  /\ \A k \in Conns \ {c} :
       IF Used(k) THEN Keeps(conn[k], conn'[k]) ELSE conn'[k] = conn[k]

\* Opening a connection keeps types and shapes.
LEMMA OpenStep ==
  ASSUME TypeInv, NEW c \in Conns, NEW d \in Devices, NEW g \in Hosts, NEW r \in Conns,
         Used(r) \/ r = c, Opens(c, d, g, r),
         mgr' \in [Hosts -> ManagerType],
         UNCHANGED requestToSocket
  PROVE  /\ TypeOK' /\ ConnShape' /\ MappedUsed'
         /\ \A k \in Conns : Used(k)' <=> Used(k) \/ k = c
<1>1. \A k \in Conns : Used(k)' <=> Used(k) \/ k = c
  BY DEF Opens, Keeps, Dialled, UnusedConn, Used
<1>2. TypeOK'
  BY DEF TypeInv, TypeOK, Opens
<1>3. ConnShape'
  <2> SUFFICES ASSUME NEW k \in Conns
               PROVE (IF Used(k)
                      THEN /\ conn[k].owner \in Devices /\ conn[k].target \in Hosts
                           /\ conn[k].req \in Conns /\ Used(conn[k].req)
                      ELSE conn[k] = UnusedConn)'
    BY DEF ConnShape
  <2>1. CASE k = c
    BY <1>1, <2>1 DEF Opens, Dialled, UnusedConn
  <2>2. CASE k # c
    BY <1>1, <2>2 DEF Opens, Keeps, TypeInv, ConnShape
  <2> QED BY <2>1, <2>2
<1>4. MappedUsed'
  BY <1>1 DEF TypeInv, TypeOK, MappedUsed, ConnOrNone
<1> QED BY <1>1, <1>2, <1>3, <1>4

\* A connection that was just dialled has its type.
LEMMA DialledType ==
  ASSUME NEW d \in Devices, NEW g \in Hosts, NEW r \in Conns
  PROVE  Dialled(d, g, r) \in ConnType
BY Queues DEF Dialled, UnusedConn, ConnType, ClientPhase, ServerPhase, Link, ConnOrNone

\* createControlClient and connectToDevice: the new client is the only live one.
LEMMA ReplaceStep ==
  ASSUME TypeInv, NEW h \in Hosts, NEW g \in Hosts, NEW c \in Conns, NEW r \in Conns,
         IsFresh(c), Used(r) \/ r = c,
         NEW new \in ManagerType, new.client = c, new.req = r,
         new.pending = mgr[h].pending, new.prompt = mgr[h].prompt,
         conn' = ClientReplaced(h, c, g, r),
         mgr' = [mgr EXCEPT ![h] = new],
         UNCHANGED requestToSocket
  PROVE  TypeInv'
<1>1. /\ conn \in [Conns -> ConnType] /\ mgr \in [Hosts -> ManagerType]
      /\ ~Used(c)
      /\ \A x \in Hosts : Wellformed(mgr[x])
  BY DEF TypeInv, TypeOK, MgrShape, IsFresh, Used
<1>2. \A k \in Conns : k = mgr[h].client => Used(k)
  BY <1>1 DEF Wellformed, Conns, None
<1>3. h \in Devices
  BY DEF Devices
<1>4. Opens(c, h, g, r)
  <2>1. \A k \in Conns \ {c} :
          conn'[k] = IF k = mgr[h].client THEN Dropped(conn[k]) ELSE conn[k]
    BY DEF ClientReplaced
  <2>2. \A k \in Conns \ {c} : IF Used(k) THEN Keeps(conn[k], conn'[k]) ELSE conn'[k] = conn[k]
    BY <1>1, <1>2, <2>1, DroppedOp DEF Keeps, Used
  <2>3. conn'[c] = Dialled(h, g, r)
    BY DEF ClientReplaced
  <2>4. conn' \in [Conns -> ConnType]
    <3>1. \A k \in Conns : conn'[k] \in ConnType
      BY <1>1, <1>3, <2>1, <2>3, DroppedOp, DialledType DEF Keeps
    <3> QED BY <3>1 DEF ClientReplaced
  <2> QED BY <1>1, <2>2, <2>3, <2>4 DEF Opens
<1>5. mgr' \in [Hosts -> ManagerType]
  BY <1>1
<1>6. /\ TypeOK' /\ ConnShape' /\ MappedUsed'
      /\ \A k \in Conns : Used(k)' <=> Used(k) \/ k = c
  BY <1>3, <1>4, <1>5, OpenStep
<1>7. MgrShape'
  <2> SUFFICES ASSUME NEW x \in Hosts PROVE Wellformed(mgr[x])'
    BY DEF MgrShape
  <2>1. Wellformed(mgr[x]) /\ mgr[x] \in ManagerType
    BY <1>1
  <2>2. CASE x # h
    <3>1. mgr'[x] = mgr[x]
      BY <1>1, <2>2
    <3> QED BY <1>6, <2>1, <3>1 DEF Wellformed, ManagerType, ConnOrNone
  <2>3. CASE x = h
    <3>1. mgr'[x] = new
      BY <1>1, <2>3
    <3> QED BY <1>6, <2>1, <2>3, <3>1 DEF Wellformed, ManagerType, ConnOrNone, Conns, None
  <2> QED BY <2>2, <2>3
<1>8. LiveClient'
  <2> SUFFICES ASSUME NEW k \in Conns,
                      conn'[k].owner \in Hosts, conn'[k].cli \notin {"unused", "gone"}
               PROVE  mgr'[conn'[k].owner].client = k
    BY DEF LiveClient
  <2>1. CASE k = c
    BY <1>1, <1>4, <2>1 DEF Opens, Dialled, UnusedConn
  <2>2. CASE k # c /\ k = mgr[h].client
    BY <1>1, <2>2, DroppedOp DEF ClientReplaced
  <2>3. CASE k # c /\ k # mgr[h].client
    <3>1. conn'[k] = conn[k]
      BY <2>3 DEF ClientReplaced
    <3> QED BY <1>1, <2>3, <3>1 DEF TypeInv, LiveClient
  <2> QED BY <2>1, <2>2, <2>3
<1> QED BY <1>6, <1>7, <1>8 DEF TypeInv

\* Steps after which desktop h has no client.
LEMMA ForgetStep ==
  ASSUME TypeInv, NEW h \in Hosts, NEW new \in ManagerType,
         Wellformed(new), new.client = None, SameConns, MapStep,
         mgr' = [mgr EXCEPT ![h] = new],
         mgr[h].client # None => conn'[mgr[h].client].cli = "gone"
  PROVE  TypeInv'
<1>1. mgr' \in [Hosts -> ManagerType] /\ mgr \in [Hosts -> ManagerType]
  BY DEF TypeInv, TypeOK
<1>2. TypeOK'
  BY <1>1 DEF TypeOK, SameConns, MapStep
<1>3. ConnShape'
  BY UsedStays DEF TypeInv, ConnShape, SameConns, Keeps
<1>4. MgrShape'
  <2> SUFFICES ASSUME NEW x \in Hosts PROVE Wellformed(mgr[x])'
    BY DEF MgrShape
  <2>1. Wellformed(mgr'[x]) /\ mgr'[x] \in ManagerType
    BY <1>1 DEF TypeInv, MgrShape
  <2> QED BY <2>1, UsedStays DEF Wellformed, ManagerType, ConnOrNone
<1>5. LiveClient'
  <2> SUFFICES ASSUME NEW k \in Conns,
                      conn'[k].owner \in Hosts, conn'[k].cli \notin {"unused", "gone"}
               PROVE  mgr'[conn'[k].owner].client = k
    BY DEF LiveClient
  <2>1. /\ conn'[k].owner = conn[k].owner /\ conn[k].cli \notin {"unused", "gone"}
    BY DEF SameConns, Keeps, Used
  <2>2. mgr[conn[k].owner].client = k
    BY <2>1 DEF TypeInv, LiveClient
  <2>3. conn[k].owner # h
    BY <2>2 DEF Conns, None
  <2> QED BY <1>1, <2>1, <2>2, <2>3
<1>6. MappedUsed'
  BY UsedStays DEF MapStep, MappedUsed, ConnOrNone
<1> QED BY <1>2, <1>3, <1>4, <1>5, <1>6 DEF TypeInv

-----------------------------------------------------------------------------
(* Users and timers *)

\* What the type invariant says of one desktop.
LEMMA ManagersHere ==
  ASSUME TypeInv, NEW h \in Hosts
  PROVE  mgr[h] \in ManagerType /\ Wellformed(mgr[h]) /\ h \in Devices
BY DEF TypeInv, TypeOK, MgrShape, Devices

\* requestConnection to a desktop.
LEMMA DialType ==
  ASSUME TypeInv, NEW h \in Hosts, NEW g \in Hosts, Dial(h, g) PROVE TypeInv'
<1> DEFINE m == mgr[h]
<1>1. PICK c \in Conns :
        /\ IsFresh(c)
        /\ conn' = ClientReplaced(h, c, g, c)
        /\ Set(h, [m EXCEPT !.client = c, !.req = c, !.active = TRUE,
                            !.inFlight = FALSE, !.state = "RequestSent"])
        /\ UNCHANGED requestToSocket
  BY DEF Dial
<1> DEFINE new == [m EXCEPT !.client = c, !.req = c, !.active = TRUE,
                            !.inFlight = FALSE, !.state = "RequestSent"]
<1>2. /\ new \in ManagerType /\ new.client = c /\ new.req = c
      /\ new.pending = m.pending /\ new.prompt = m.prompt
  BY ManagersHere DEF ManagerType, ManagerState, ConnOrNone
<1> HIDE DEF new
<1> QED BY <1>1, <1>2, ReplaceStep DEF Set, new

\* onReconnectTick.
LEMMA ReconnectTickType ==
  ASSUME TypeInv, ManagerAssumption, NEW h \in Hosts, ReconnectTick(h) PROVE TypeInv'
<1> DEFINE m == mgr[h]
           later == [m EXCEPT !.ticks = @ - 1]
<1>1. m \in ManagerType /\ Wellformed(m) /\ m.reconnecting
  BY ManagersHere DEF ReconnectTick
<1>2. CASE /\ m.ticks = 0
           /\ Set(h, Failed(Ended(ReconnectStopped(m))))
           /\ UNCHANGED conn
  <2>1. SlotResult(m, Failed(Ended(ReconnectStopped(m))))
    BY <1>1 DEF SlotResult, Wellformed, ManagerType, ManagerState, Audio,
                Failed, Ended, ReconnectStopped, ConnOrNone
  <2>2. SlotSteps
    BY <1>2, <2>1, OneSlot DEF Set
  <2> QED BY <1>2, <2>2, NoConn, MapSteps, FrameStep DEF ReconnectTick
<1>3. CASE /\ m.ticks > 0 /\ m.req # None
           /\ \E c \in Conns :
                /\ IsFresh(c)
                /\ conn' = ClientReplaced(h, c, conn[m.client].target, m.req)
                /\ Set(h, [later EXCEPT !.client = c, !.inFlight = TRUE])
  <2>1. PICK c \in Conns :
          /\ IsFresh(c)
          /\ conn' = ClientReplaced(h, c, conn[m.client].target, m.req)
          /\ Set(h, [later EXCEPT !.client = c, !.inFlight = TRUE])
    BY <1>3
  <2> DEFINE new == [later EXCEPT !.client = c, !.inFlight = TRUE]
  <2>2. m.ticks - 1 \in 0 .. ReconnectTicks
    BY <1>1, <1>3 DEF ManagerType, ManagerAssumption
  <2>3. /\ new \in ManagerType /\ new.client = c /\ new.req = m.req
        /\ new.pending = m.pending /\ new.prompt = m.prompt
    BY <1>1, <2>2 DEF ManagerType, ConnOrNone
  <2>4. m.req \in Conns /\ Used(m.req) /\ conn[m.client].target \in Hosts
    BY <1>1, <1>3, UsedConns DEF Wellformed, ManagerType, ConnOrNone
  <2> HIDE DEF new
  <2> QED BY <2>1, <2>3, <2>4, ReplaceStep DEF Set, new, ReconnectTick
<1>4. CASE m.ticks > 0 /\ Set(h, later) /\ UNCHANGED conn
  <2>1. m.ticks - 1 \in 0 .. ReconnectTicks
    BY <1>1, <1>4 DEF ManagerType, ManagerAssumption
  <2>2. SlotResult(m, later)
    BY <1>1, <2>1 DEF SlotResult, Wellformed, ManagerType
  <2>3. SlotSteps
    BY <1>4, <2>2, OneSlot DEF Set
  <2> QED BY <1>4, <2>3, NoConn, MapSteps, FrameStep DEF ReconnectTick
<1> QED BY <1>2, <1>3, <1>4 DEF ReconnectTick

\* disconnectActive.
LEMMA DisconnectType ==
  ASSUME TypeInv, NEW h \in Hosts, Disconnect(h) PROVE TypeInv'
<1> DEFINE m == mgr[h]
           new == [Ended(ReconnectStopped(m)) EXCEPT
                     !.invited = NoDevice, !.client = None]
<1>1. m \in ManagerType /\ Wellformed(m)
  BY ManagersHere
<1>2. /\ new \in ManagerType /\ Wellformed(new) /\ new.client = None
      /\ mgr' = [mgr EXCEPT ![h] = new]
  BY <1>1 DEF Wellformed, ManagerType, ManagerState, Audio, Ended, ReconnectStopped,
              ConnOrNone, Disconnect, Set
<1> HIDE DEF new
<1>3. CASE m.client # None
  <2>1. Used(m.client) /\ m.client \in Conns
    BY <1>1, <1>3 DEF Wellformed, ManagerType, ConnOrNone
  <2>2. conn' = [conn EXCEPT ![m.client] = Dropped(conn[m.client])] /\ UNCHANGED requestToSocket
    BY <1>3 DEF Disconnect
  <2>3. SameConns /\ conn'[m.client].cli = "gone"
    BY <2>1, <2>2, UsedConns, DroppedOp, OneConn DEF TypeInv, TypeOK
  <2> QED BY <1>2, <2>2, <2>3, MapSteps, ForgetStep
<1>4. CASE m.client = None /\ m.active /\ m.req # None
  <2>1. m.req \in Conns
    BY <1>1, <1>4 DEF ManagerType, ConnOrNone
  <2>2. SameConns /\ MapStep
    BY <1>4, <2>1, SocketOps, MapSteps DEF Disconnect
  <2> QED BY <1>2, <1>4, <2>2, ForgetStep
<1>5. CASE m.client = None /\ ~m.active
  <2>1. SameConns /\ MapStep
    BY <1>5, NoConn, MapSteps DEF Disconnect
  <2> QED BY <1>2, <1>5, <2>1, ForgetStep
<1> QED BY <1>1, <1>3, <1>4, <1>5 DEF Wellformed

\* stop and the end of the process.
LEMMA QuitType ==
  ASSUME TypeInv, NEW h \in Hosts, Quit(h) PROVE TypeInv'
<1> DEFINE m == mgr[h]
           new == [Started(m.trusted) EXCEPT !.running = FALSE]
<1>1. m \in ManagerType /\ Wellformed(m) /\ conn \in [Conns -> ConnType]
  BY ManagersHere DEF TypeInv, TypeOK
<1>2. /\ new \in ManagerType /\ Wellformed(new) /\ new.client = None
      /\ mgr' = [mgr EXCEPT ![h] = new]
  <2>1. 0 \in 0 .. ReconnectTicks
    BY ManagerAssumption
  <2> QED BY <1>1, <2>1 DEF Wellformed, ManagerType, ManagerState, Audio, Started,
                            ConnOrNone, Quit, Set
<1> HIDE DEF new
<1>3. /\ conn' = [c \in Conns |->
                    CASE c = m.client -> Dropped(conn[c])
                      [] c # m.client /\ conn[c].target = h /\ InSessions(conn[c])
                           -> ServerDisconnected(conn[c], <<"FIN">>)
                      [] OTHER -> conn[c]]
      /\ requestToSocket' = [requestToSocket EXCEPT ![h] = [r \in Conns |-> None]]
  BY DEF Quit
<1>4. \A c \in Conns : c = m.client \/ InSessions(conn[c]) => Used(c)
  BY <1>1, UsedWhen DEF Wellformed, Conns, None
<1>5. \A c \in Conns : IF Used(c) THEN Keeps(conn[c], conn'[c]) ELSE conn'[c] = conn[c]
  <2> SUFFICES ASSUME NEW c \in Conns
               PROVE  IF Used(c) THEN Keeps(conn[c], conn'[c]) ELSE conn'[c] = conn[c]
    OBVIOUS
  <2>1. CASE c = m.client
    BY <1>1, <1>3, <1>4, <2>1, DroppedOp
  <2>2. CASE c # m.client /\ conn[c].target = h /\ InSessions(conn[c])
    <3>1. conn'[c] = ServerDisconnected(conn[c], <<"FIN">>)
      BY <1>3, <2>2
    <3> QED BY <1>1, <1>4, <2>2, <3>1, ServerOps DEF Used
  <2>3. CASE c # m.client /\ ~(conn[c].target = h /\ InSessions(conn[c]))
    <3>1. conn'[c] = conn[c]
      BY <1>3, <2>3
    <3> QED BY <1>1, <3>1 DEF Keeps, Used
  <2> QED BY <2>1, <2>2, <2>3
<1>6. conn' \in [Conns -> ConnType]
  <2>1. \A c \in Conns : conn'[c] \in ConnType
    BY <1>1, <1>5 DEF Keeps
  <2> QED BY <1>3, <2>1
<1>7. SameConns
  BY <1>5, <1>6 DEF SameConns
<1>8. MapStep
  BY <1>3 DEF TypeInv, TypeOK, MappedUsed, MapStep, ConnOrNone
<1>9. m.client # None => conn'[m.client].cli = "gone"
  BY <1>1, <1>3, DroppedOp DEF ManagerType, ConnOrNone
<1> QED BY <1>2, <1>7, <1>8, <1>9, ForgetStep

\* approveIncoming and rejectIncoming.
LEMMA AnswerType ==
  ASSUME TypeInv, ManagerAssumption, NEW h \in Hosts, Approve(h) \/ Refuse(h)
  PROVE  TypeInv'
<1> DEFINE m == mgr[h]
           r == m.prompt
           waiting == [m EXCEPT !.pending = @ \ {r}]
<1>1. /\ m \in ManagerType /\ Wellformed(m) /\ r \in m.pending
      /\ r \in Conns /\ Used(r) /\ UNCHANGED requestToSocket
  BY ManagersHere DEF Approve, Refuse, Wellformed, ManagerType
<1>2. conn[r].owner \in Devices
  BY <1>1, UsedConns
<1>3. /\ m.trusted \cup Pinned(h, conn[r].owner) \in SUBSET Devices
      /\ m.pending \ {r} \in SUBSET Conns
      /\ r \in ConnOrNone /\ None \in ConnOrNone /\ r # None
  BY <1>1, <1>2 DEF ManagerType, Pinned, ConnOrNone, Conns, None
<1>4. CASE Set(h, Receiving(waiting, h, r, conn[r].owner)) /\ conn' = OnSocketOf(h, r, Accepted)
  <2>1. Receiving(waiting, h, r, conn[r].owner) \in ManagerType
    BY <1>1, <1>3 DEF ManagerType, ManagerState, Audio, Receiving
  <2>2. SlotResult(m, Receiving(waiting, h, r, conn[r].owner))
    BY <1>1, <1>3, <2>1 DEF SlotResult, Wellformed, ManagerType, Receiving
  <2> QED BY <1>1, <1>4, <2>2, OneSlot, SocketOps, MapSteps, FrameStep DEF Set
<1>5. CASE Set(h, ReceiveFailed(waiting)) /\ conn' = OnSocketOf(h, r, Rejected)
  <2>1. SlotResult(m, ReceiveFailed(waiting))
    BY <1>1, <1>3 DEF SlotResult, Wellformed, ManagerType, ManagerState, Audio,
                      ReceiveFailed, Failed
  <2> QED BY <1>1, <1>5, <2>1, OneSlot, SocketOps, MapSteps, FrameStep DEF Set
<1>6. CASE Refuse(h)
  <2> DEFINE new == [m EXCEPT !.pending = @ \ {r}, !.prompt = None,
                              !.state = IF m.req = r /\ ~m.active THEN "Idle" ELSE @]
  <2>1. Set(h, new) /\ conn' = OnSocketOf(h, r, Rejected)
    BY <1>6 DEF Refuse
  <2>2. SlotResult(m, new)
    BY <1>1, <1>3 DEF SlotResult, Wellformed, ManagerType, ManagerState
  <2> HIDE DEF new
  <2> QED BY <1>1, <2>1, <2>2, OneSlot, SocketOps, MapSteps, FrameStep DEF Set
<1> QED BY <1>4, <1>5, <1>6 DEF Approve

\* The user's and the timer's steps that touch no connection.
LEMMA OtherUserType ==
  ASSUME TypeInv, NEW h \in Hosts,
         \/ \E p \in Phones : Invite(h, p)
         \/ ConnectFails(h)
         \/ InviteTimeout(h)
         \/ \E d \in Devices : RevokeTrust(h, d)
  PROVE  TypeInv'
<1> DEFINE m == mgr[h]
<1>1. m \in ManagerType /\ Wellformed(m)
  BY ManagersHere
<1> USE DEF SlotResult, Wellformed, ManagerType, ManagerState, Audio, ConnOrNone, Failed
<1>2. UNCHANGED chanVars
  BY DEF Invite, ConnectFails, InviteTimeout, RevokeTrust
<1>3. ASSUME NEW p \in Phones, Invite(h, p) PROVE SlotSteps
  <2>1. SlotResult(m, [m EXCEPT !.invited = p, !.req = None, !.inFlight = FALSE,
                                !.state = "RequestSent"])
    BY <1>1, <1>3 DEF Invite
  <2> QED BY <1>3, <2>1, OneSlot DEF Invite, Set
<1>4. ASSUME ConnectFails(h) PROVE SlotSteps
  <2>1. SlotResult(m, Failed(m))
    BY <1>1
  <2> QED BY <1>4, <2>1, OneSlot DEF ConnectFails, Set
<1>5. ASSUME InviteTimeout(h) PROVE SlotSteps
  <2> DEFINE new == IF m.active THEN [m EXCEPT !.invited = NoDevice]
                    ELSE Failed([m EXCEPT !.invited = NoDevice, !.state = "Idle"])
  <2>1. SlotResult(m, new)
    BY <1>1
  <2>2. Set(h, new)
    BY <1>5 DEF InviteTimeout
  <2> QED BY <2>1, <2>2, OneSlot DEF Set
<1>6. ASSUME NEW d \in Devices, RevokeTrust(h, d) PROVE SlotSteps
  <2>1. SlotResult(m, [m EXCEPT !.trusted = @ \ {d}])
    BY <1>1
  <2>2. mgr' = [mgr EXCEPT ![h] = [m EXCEPT !.trusted = @ \ {d}]]
    BY <1>6 DEF RevokeTrust, TypeInv, TypeOK
  <2> QED BY <2>1, <2>2, OneSlot
<1> QED BY <1>2, <1>3, <1>4, <1>5, <1>6, NoConn, MapSteps, FrameStep DEF chanVars

\* A phone opens a connection, whose client no manager owns.
LEMMA PhoneDialsType ==
  ASSUME TypeInv, NEW p \in Phones, NEW h \in Hosts, PhoneDials(p, h) PROVE TypeInv'
<1>1. PICK c \in Conns : IsFresh(c) /\ conn' = [conn EXCEPT ![c] = Dialled(p, h, c)]
  BY DEF PhoneDials
<1>2. /\ conn \in [Conns -> ConnType] /\ p \in Devices
      /\ UNCHANGED <<requestToSocket, mgr>>
  BY DEF TypeInv, TypeOK, Devices, PhoneDials
<1>3. Opens(c, p, h, c)
  BY <1>1, <1>2, DialledType DEF Opens, IsFresh, Used, Keeps
<1>4. /\ TypeOK' /\ ConnShape' /\ MappedUsed'
      /\ \A k \in Conns : Used(k)' <=> Used(k) \/ k = c
  BY <1>2, <1>3, OpenStep DEF TypeInv, TypeOK
<1>5. MgrShape'
  BY <1>2, <1>4 DEF TypeInv, TypeOK, MgrShape, Wellformed, ManagerType, ConnOrNone
<1>6. LiveClient'
  BY <1>1, <1>2, ChannelAssumption DEF TypeInv, LiveClient, Dialled, UnusedConn
<1> QED BY <1>4, <1>5, <1>6 DEF TypeInv

-----------------------------------------------------------------------------
(* The type invariant is inductive *)

\* The type invariant holds at the start.
LEMMA InitType == ASSUME Init, ManagerAssumption PROVE TypeInv
<1>1. /\ conn = [c \in Conns |-> UnusedConn]
      /\ requestToSocket = [h \in Hosts |-> [r \in Conns |-> None]]
      /\ mgr = [h \in Hosts |-> Started({})]
  BY DEF Init, ChanInit, ManagerInit
<1>2. UnusedConn \in ConnType /\ None \in ConnOrNone
  BY Queues DEF UnusedConn, ConnType, ClientPhase, ServerPhase, Link, ConnOrNone
<1>3. Started({}) \in ManagerType /\ Wellformed(Started({}))
  BY <1>2 DEF Started, ManagerType, ManagerState, Audio, ManagerAssumption, Wellformed
<1>4. TypeOK
  BY <1>1, <1>2, <1>3 DEF TypeOK
<1>5. \A c \in Conns : ~Used(c)
  BY <1>1 DEF Used, UnusedConn
<1> QED
  BY <1>1, <1>3, <1>4, <1>5 DEF TypeInv, ConnShape, MgrShape, LiveClient, MappedUsed, Used

\* Every step, and every stutter, keeps the type invariant.
LEMMA NextType == ASSUME TypeInv, [Next]_vars PROVE TypeInv'
<1> USE ManagerAssumption
<1>1. CASE UNCHANGED vars
  BY <1>1, NoConn, NoSlot, MapSteps, FrameStep DEF vars
<1>2. ASSUME NEW c \in Conns,
             ClientStep(c) \/ ServerStep(c) \/ Network(c) \/ PhoneHangsUp(c)
      PROVE  TypeInv'
  BY <1>2, ClientStepsType, ServerStepsType, LinkStepsType, PhoneHangsUpType DEF Network
<1>3. ASSUME NEW h \in Hosts, User(h) \/ Timer(h)
      PROVE  TypeInv'
  BY <1>3, DialType, AnswerType, OtherUserType, DisconnectType, QuitType, ReconnectTickType
     DEF User, Timer
<1>4. ASSUME NEW p \in Phones, NEW h \in Hosts, PhoneDials(p, h)
      PROVE  TypeInv'
  BY <1>4, PhoneDialsType
<1> QED BY <1>1, <1>2, <1>3, <1>4 DEF Next

\* In every state every variable has its type, every number a manager or a map
\* keeps names a connection that was opened, and controlClient_ is the only
\* client of its desktop that can still raise a signal.
THEOREM TypeInvariant == Spec => []TypeInv
BY InitType, NextType, ManagerAssumption, PTL DEF Spec

\* Every variable keeps its type, for any number of desktops, phones and
\* connections.
THEOREM TypeCorrect == Spec => []TypeOK
<1>1. TypeInv => TypeOK
  BY DEF TypeInv
<1> QED BY <1>1, TypeInvariant, PTL

\* The approval dialog never shows a request that ConnectionManager has
\* forgotten, so the user's answer is never dropped.
THEOREM PromptAlwaysPending == Spec => []PromptIsPending
<1>1. TypeInv => PromptIsPending
  BY DEF TypeInv, MgrShape, Wellformed, PromptIsPending
<1> QED BY <1>1, TypeInvariant, PTL

-----------------------------------------------------------------------------
(* Sockets, requests and managers agree *)

\* What a manager keeps is backed by the entries map of requestToSocket_.
Coupled(map, m) ==
  /\ \A r \in m.pending : map[r] # None
  /\ m.active => m.req \notin m.pending
  /\ m.audio = "receive" => m.active /\ m.state = "Streaming" /\ map[m.req] # None

ManagersCoupled == \A h \in Hosts : Coupled(requestToSocket[h], mgr[h])

SessionInv == TypeInv /\ MappedSocketInSessions /\ ManagersCoupled

\* A slot that takes on no request, no connection and no caller.
Quiet(m, new) ==
  /\ new.pending \subseteq m.pending
  /\ new.active => m.active /\ new.req = m.req
  /\ new.audio = "receive" =>
       m.audio = "receive" /\ new.active /\ new.state = m.state

\* Slots that only give things up keep every manager coupled.
LEMMA QuietManagers ==
  ASSUME SessionInv, UNCHANGED requestToSocket,
         \A h \in Hosts : Quiet(mgr[h], mgr'[h])
  PROVE  ManagersCoupled'
BY DEF SessionInv, ManagersCoupled, Coupled, Quiet

\* So does a step that runs no slot and moves no entry.
LEMMA SameManagers ==
  ASSUME SessionInv, UNCHANGED <<requestToSocket, mgr>> PROVE ManagersCoupled'
BY DEF SessionInv, ManagersCoupled, Coupled

\* So does one such slot of one manager.
LEMMA QuietManager ==
  ASSUME SessionInv, UNCHANGED requestToSocket, NEW h \in Hosts, NEW new,
         Quiet(mgr[h], new), mgr' = [mgr EXCEPT ![h] = new]
  PROVE  ManagersCoupled'
<1>1. \A x \in Hosts : mgr'[x] = IF x = h THEN new ELSE mgr[x]
  BY DEF SessionInv, TypeInv, TypeOK
<1>2. \A x \in Hosts : Quiet(mgr[x], mgr'[x])
  BY <1>1 DEF Quiet, SessionInv, ManagersCoupled, Coupled
<1> QED BY <1>2, QuietManagers

\* The connection keeps its ends, and its socket stays in sessions_.
Holds(cn, new) ==
  new.target = cn.target /\ new.req = cn.req /\ KeepsSession(cn, new)

\* A step that moves no entry and takes no socket out of sessions_.
LEMMA SocketsStay ==
  ASSUME SessionInv, UNCHANGED requestToSocket,
         \A c \in Conns : Used(c) => Holds(conn[c], conn'[c])
  PROVE  MappedSocketInSessions'
<1> SUFFICES ASSUME NEW h \in Hosts, NEW r \in Conns, requestToSocket[h][r] # None
             PROVE  LET c == requestToSocket[h][r]
                    IN  /\ conn'[c].target = h /\ conn'[c].req = r
                        /\ conn'[c].bound /\ InSessions(conn'[c])
  BY DEF MappedSocketInSessions, InSessions
<1> DEFINE c == requestToSocket[h][r]
<1>1. c \in Conns /\ Used(c)
  BY DEF SessionInv, TypeInv, TypeOK, MappedUsed, ConnOrNone
<1>2. conn[c].target = h /\ conn[c].req = r /\ conn[c].bound /\ InSessions(conn[c])
  BY DEF SessionInv, MappedSocketInSessions
<1> QED BY <1>1, <1>2 DEF Holds, KeepsSession

\* The same for a step on one connection.
LEMMA SocketStays ==
  ASSUME SessionInv, UNCHANGED requestToSocket, NEW c \in Conns, NEW new,
         Holds(conn[c], new), conn' = [conn EXCEPT ![c] = new]
  PROVE  MappedSocketInSessions'
<1>1. \A k \in Conns : conn'[k] = IF k = c THEN new ELSE conn[k]
  BY DEF SessionInv, TypeInv, TypeOK
<1>2. \A k \in Conns : Holds(conn[k], conn'[k])
  BY <1>1 DEF Holds, KeepsSession
<1> QED BY <1>2, SocketsStay

\* processMessage binds a request to the socket it came from.
LEMMA SocketBound ==
  ASSUME SessionInv, NEW c \in Conns, Used(c), NEW new,
         new.target = conn[c].target, new.req = conn[c].req,
         new.bound, InSessions(new), conn' = [conn EXCEPT ![c] = new],
         Bind(conn[c].target, conn[c].req, c)
  PROVE  MappedSocketInSessions'
<1>1. \A k \in Conns : conn'[k] = IF k = c THEN new ELSE conn[k]
  BY DEF SessionInv, TypeInv, TypeOK
<1>2. conn[c].target \in Hosts /\ conn[c].req \in Conns
  BY UsedConns DEF SessionInv
<1>3. \A h \in Hosts, r \in Conns :
        requestToSocket'[h][r] = IF h = conn[c].target /\ r = conn[c].req
                                 THEN c ELSE requestToSocket[h][r]
  BY <1>2 DEF SessionInv, TypeInv, TypeOK, Bind
<1>4. \A h \in Hosts, r \in Conns : requestToSocket[h][r] \in Conns \cup {None}
  BY DEF SessionInv, TypeInv, TypeOK, ConnOrNone
<1> QED BY <1>1, <1>3, <1>4 DEF SessionInv, MappedSocketInSessions, InSessions

\* A socket that leaves sessions_, or forgets its request, leaves no entry behind.
LEMMA SocketFreed ==
  ASSUME SessionInv, NEW c \in Conns, Used(c), NEW new,
         conn' = [conn EXCEPT ![c] = new],
         \/ Unbind(conn[c].target, conn[c].req)
         \/ /\ UNCHANGED requestToSocket
            /\ ~conn[c].bound \/ requestToSocket[conn[c].target][conn[c].req] # c
  PROVE  MappedSocketInSessions'
<1>1. \A k \in Conns : k # c => conn'[k] = conn[k]
  BY DEF SessionInv, TypeInv, TypeOK
<1>2. conn[c].target \in Hosts /\ conn[c].req \in Conns
  BY UsedConns DEF SessionInv
<1>3. \A h \in Hosts, r \in Conns :
        requestToSocket'[h][r] # None =>
          requestToSocket'[h][r] = requestToSocket[h][r] /\ requestToSocket[h][r] # c
  <2> SUFFICES ASSUME NEW h \in Hosts, NEW r \in Conns, requestToSocket'[h][r] # None
               PROVE  requestToSocket'[h][r] = requestToSocket[h][r] /\ requestToSocket[h][r] # c
    OBVIOUS
  <2>1. requestToSocket'[h][r] = requestToSocket[h][r]
    BY <1>2 DEF SessionInv, TypeInv, TypeOK, Unbind, Bind
  <2>2. ASSUME requestToSocket[h][r] = c
        PROVE  conn[c].target = h /\ conn[c].req = r /\ conn[c].bound
    BY <2>2 DEF SessionInv, MappedSocketInSessions, Conns, None
  <2>3. ASSUME Unbind(conn[c].target, conn[c].req)
        PROVE  requestToSocket'[conn[c].target][conn[c].req] = None
    BY <1>2, <2>3 DEF SessionInv, TypeInv, TypeOK, Unbind, Bind
  <2> QED BY <2>1, <2>2, <2>3
<1>4. \A h \in Hosts, r \in Conns : requestToSocket[h][r] \in Conns \cup {None}
  BY DEF SessionInv, TypeInv, TypeOK, ConnOrNone
<1> QED BY <1>1, <1>3, <1>4 DEF SessionInv, MappedSocketInSessions, InSessions

-----------------------------------------------------------------------------
(* The session invariant is inductive: the steps of a client *)

\* No slot of controlClient_ takes on a request or a caller.
LEMMA QuietSlots ==
  ASSUME NEW map, NEW m \in ManagerType, Coupled(map, m), NEW h, NEW r
  PROVE  /\ \A accepted, opened \in BOOLEAN :
              Quiet(m, OnOutgoingResponse(m, h, r, accepted, opened))
         /\ Quiet(m, OnOutgoingTimedOut(m, r))
         /\ Quiet(m, OnConnectionLost(m, r))
         /\ Quiet(m, OnRemoteDisconnected(m))
BY DEF Coupled, Quiet, ManagerType, OnOutgoingResponse, OnOutgoingTimedOut, OnConnectionLost,
       OnRemoteDisconnected, ReconnectStopped, Failed, Ended

\* What onReadyRead, the timers and the socket do at the client.
LEMMA ClientStepsSession ==
  ASSUME SessionInv, NEW c \in Conns, ClientStep(c) \/ ClientSocketError(c)
  PROVE  MappedSocketInSessions' /\ ManagersCoupled'
<1> USE DEF ClientReads
<1> DEFINE h == conn[c].owner
           r == conn[c].req
<1>1. TypeInv
  BY DEF SessionInv
<1>2. ASSUME NEW new, UNCHANGED requestToSocket, Raise(h, new),
             h \in Hosts => Quiet(mgr[h], new)
      PROVE  ManagersCoupled'
  BY <1>2, QuietManager, SameManagers DEF Raise, Set
<1>3. ASSUME h \in Hosts
      PROVE  /\ \A accepted, opened \in BOOLEAN :
                  Quiet(mgr[h], OnOutgoingResponse(mgr[h], h, r, accepted, opened))
             /\ Quiet(mgr[h], OnOutgoingTimedOut(mgr[h], r))
             /\ Quiet(mgr[h], OnConnectionLost(mgr[h], r))
             /\ Quiet(mgr[h], OnRemoteDisconnected(mgr[h]))
  <2>1. mgr[h] \in ManagerType /\ Coupled(requestToSocket[h], mgr[h])
    BY <1>1, <1>3, ManagersHere DEF SessionInv, ManagersCoupled
  <2> QED BY <2>1, QuietSlots
<1>4. conn[c].cli \notin {"unused", "gone"} /\ UNCHANGED requestToSocket
  <2> USE DEF ClientSocketOpen, TimeoutRunning
  <2>1. CASE TlsEstablished(c) \/ KeepAlivesMissed(c) \/ RequestTimesOut(c)
    BY <2>1 DEF TlsEstablished, KeepAlivesMissed, RequestTimesOut
  <2>2. CASE ReceiveAccept(c) \/ ReceiveReject(c) \/ ReceiveDisconnect(c)
    BY <2>2 DEF ReceiveAccept, ReceiveReject, ReceiveDisconnect
  <2>3. CASE ClientReadsEnd(c) \/ ClientSocketError(c)
    BY <2>3 DEF ClientReadsEnd, ClientSocketError, ClientDisconnects
  <2> QED BY <2>1, <2>2, <2>3 DEF ClientStep
<1>5. conn[c] \in ConnType
  BY <1>1 DEF TypeInv, TypeOK
<1>6. /\ Holds(conn[c], MissedKeepAlives(conn[c]))
      /\ Holds(conn[c], ClientDisconnected(conn[c]))
      /\ Holds(conn[c], TimedOut(conn[c]))
      /\ conn[c].toClient # << >> => /\ Holds(conn[c], ReadAccept(conn[c]))
                                     /\ Holds(conn[c], ReadReject(conn[c]))
                                     /\ Holds(conn[c], ReadDisconnect(conn[c]))
      /\ Holds(conn[c], Encrypted(conn[c]))
  BY <1>4, <1>5, ClientOps DEF Holds, Keeps, KeepsSession
<1>7. CASE TlsEstablished(c)
  BY <1>6, <1>7, SocketStays, SameManagers DEF TlsEstablished
<1>8. CASE ReceiveAccept(c)
  <2>1. PICK opened \in BOOLEAN : Raise(h, OnOutgoingResponse(mgr[h], h, r, TRUE, opened))
    BY <1>8, SessionAssumption DEF ReceiveAccept
  <2>2. ManagersCoupled'
    BY <1>2, <1>3, <1>4, <2>1
  <2> QED BY <1>6, <1>8, <2>2, SocketStays DEF ReceiveAccept
<1>9. CASE ReceiveReject(c)
  BY <1>2, <1>3, <1>6, <1>9, SocketStays DEF ReceiveReject
<1>10. CASE ReceiveDisconnect(c)
  BY <1>2, <1>3, <1>6, <1>10, SocketStays DEF ReceiveDisconnect
<1>11. CASE ClientReadsEnd(c) \/ ClientSocketError(c)
  <2>1. ClientDisconnects(c)
    BY <1>11 DEF ClientReadsEnd, ClientSocketError
  <2> QED BY <1>2, <1>3, <1>6, <2>1, SocketStays, SameManagers DEF ClientDisconnects
<1>12. CASE KeepAlivesMissed(c)
  BY <1>2, <1>3, <1>6, <1>12, SocketStays DEF KeepAlivesMissed
<1>13. CASE RequestTimesOut(c)
  BY <1>2, <1>3, <1>6, <1>13, SocketStays DEF RequestTimesOut
<1> QED BY <1>7, <1>8, <1>9, <1>10, <1>11, <1>12, <1>13 DEF ClientStep

-----------------------------------------------------------------------------
(* ... the steps of a server *)

\* onIncomingRequest, on the map once the request is bound to its socket.
LEMMA IncomingCoupled ==
  ASSUME NEW map, NEW m \in ManagerType, Wellformed(m), Coupled(map, m),
         NEW h, NEW r \in Conns, NEW d, NEW answer \in Answers(m, h, d), NEW new,
         new[r] # None, \A k \in Conns \ {r} : new[k] = map[k]
  PROVE  Coupled(new, OnIncomingRequest(m, h, r, d, answer))
<1> USE DEF Coupled, ManagerType, OnIncomingRequest
<1>1. /\ m.pending \subseteq Conns /\ r # None
      /\ m.active => m.req \in Conns
  BY DEF Wellformed, ConnOrNone, Conns, None
<1>2. Coupled(new, m)
  BY <1>1
<1>3. CASE answer = "decline"
  BY <1>2, <1>3
<1>4. CASE answer = "accept"
  BY <1>1, <1>4 DEF Receiving, Answers
<1>5. CASE answer = "fail"
  BY <1>1, <1>2, <1>5 DEF ReceiveFailed, Failed
<1>6. CASE answer = "prompt"
  BY <1>1, <1>2, <1>6 DEF Answers
<1> QED BY <1>3, <1>4, <1>5, <1>6 DEF Answers

\* The lambda on clientDisconnected, on the map once the socket is forgotten.
LEMMA DisconnectedCoupled ==
  ASSUME NEW map, NEW m \in ManagerType, Wellformed(m), Coupled(map, m),
         NEW r \in Conns, NEW new, \A k \in Conns \ {r} : new[k] = map[k]
  PROVE  Coupled(new, OnClientDisconnected(m, r))
<1>1. m.pending \subseteq Conns /\ (m.active => m.req \in Conns)
  BY DEF Wellformed, ManagerType, ConnOrNone
<1> QED BY <1>1 DEF Coupled, ManagerType, OnClientDisconnected, Ended

\* What onReadyRead and onDisconnected do at the server.
LEMMA ServerStepsSession ==
  ASSUME SessionInv, NEW c \in Conns, ServerStep(c) \/ ServerSocketError(c)
  PROVE  MappedSocketInSessions' /\ ManagersCoupled'
<1> USE DEF ServerReads
<1> DEFINE h == conn[c].target
           r == conn[c].req
           d == conn[c].owner
<1>1. TypeInv
  BY DEF SessionInv
<1>2. InSessions(conn[c])
  <2>1. CASE ServerCloses(c)
    BY <2>1 DEF ServerCloses, InSessions
  <2>2. CASE ReceiveRequest(c) \/ ReceiveHangUp(c)
    BY <2>2 DEF ReceiveRequest, ReceiveHangUp
  <2>3. CASE ServerReadsEnd(c) \/ ServerSocketError(c)
    BY <2>3 DEF ServerReadsEnd, ServerSocketError
  <2> QED BY <2>1, <2>2, <2>3 DEF ServerStep
<1>3. /\ Used(c) /\ conn[c] \in ConnType /\ conn[c].cli # "unused"
      /\ h \in Hosts /\ r \in Conns
  BY <1>1, <1>2, UsedWhen, UsedConns
<1>4. /\ mgr[h] \in ManagerType /\ Wellformed(mgr[h])
      /\ Coupled(requestToSocket[h], mgr[h])
      /\ mgr \in [Hosts -> ManagerType]
      /\ requestToSocket \in [Hosts -> [Conns -> ConnOrNone]]
  BY <1>1, <1>3 DEF TypeInv, TypeOK, MgrShape, SessionInv, ManagersCoupled
\* The other desktops are as before.
<1>5. ASSUME NEW k, UNCHANGED requestToSocket \/ Bind(h, r, k),
             UNCHANGED mgr \/ (\E new : Set(h, new)),
             Coupled(requestToSocket'[h], mgr'[h])
      PROVE  ManagersCoupled'
  <2>1. \A x \in Hosts \ {h} : requestToSocket'[x] = requestToSocket[x] /\ mgr'[x] = mgr[x]
    BY <1>4, <1>5 DEF Bind, Set
  <2> QED BY <1>5, <2>1 DEF SessionInv, ManagersCoupled
<1>6. ASSUME NEW k, UNCHANGED requestToSocket \/ Bind(h, r, k)
      PROVE  \A x \in Conns \ {r} : requestToSocket'[h][x] = requestToSocket[h][x]
  BY <1>3, <1>4, <1>6 DEF Bind
<1>7. CASE ReceiveRequest(c)
  <2>1. PICK answer \in Answers(mgr[h], h, d) :
          /\ Set(h, OnIncomingRequest(mgr[h], h, r, d, answer))
          /\ conn' = [conn EXCEPT ![c] =
                        CASE answer = "accept" -> Accepted(ReadRequest(@))
                          [] answer = "prompt" -> ReadRequest(@)
                          [] answer \in {"decline", "fail"} -> Rejected(ReadRequest(@))]
    BY <1>7 DEF ReceiveRequest
  <2>2. Bind(h, r, c) /\ requestToSocket'[h][r] = c /\ c # None
    <3>1. Bind(h, r, c)
      BY <1>7 DEF ReceiveRequest
    <3>2. requestToSocket'[h][r] = c
      BY <1>3, <1>4, <3>1 DEF Bind
    <3>3. c # None
      BY DEF Conns, None
    <3> QED BY <3>1, <3>2, <3>3
  <2>3. mgr'[h] = OnIncomingRequest(mgr[h], h, r, d, answer)
    BY <1>3, <1>4, <2>1 DEF Set
  <2>4. Coupled(requestToSocket'[h], mgr'[h])
    BY <1>3, <1>4, <1>6, <2>2, <2>3, IncomingCoupled
  <2>5. ManagersCoupled'
    BY <1>5, <2>1, <2>2, <2>4
  <2>6. /\ answer \in {"decline", "accept", "fail", "prompt"}
        /\ conn[c].toServer # << >>
    BY <1>7 DEF Answers, ReceiveRequest
  <2>7. /\ Keeps(conn[c], ReadRequest(conn[c])) /\ ReadRequest(conn[c]).bound
        /\ InSessions(ReadRequest(conn[c]))
    BY <1>2, <1>3, <2>6, ServerOps
  <2>8. /\ Keeps(conn[c], Accepted(ReadRequest(conn[c])))
        /\ Keeps(conn[c], Rejected(ReadRequest(conn[c])))
        /\ Accepted(ReadRequest(conn[c])).bound /\ InSessions(Accepted(ReadRequest(conn[c])))
        /\ Rejected(ReadRequest(conn[c])).bound /\ InSessions(Rejected(ReadRequest(conn[c])))
    BY <2>7, ServerOps DEF Keeps, KeepsSession
  <2>9. PICK new : /\ conn' = [conn EXCEPT ![c] = new]
                   /\ Keeps(conn[c], new) /\ new.bound /\ InSessions(new)
    BY <2>1, <2>6, <2>7, <2>8
  <2> QED BY <1>3, <2>2, <2>5, <2>9, SocketBound DEF Keeps
<1>8. CASE ReceiveHangUp(c) /\ conn[c].bound
  <2>1. mgr'[h] = OnClientDisconnected(mgr[h], r) /\ Bind(h, r, None)
    BY <1>3, <1>4, <1>8 DEF ReceiveHangUp, Set, Unbind
  <2>2. Coupled(requestToSocket'[h], mgr'[h])
    <3>1. \A x \in Conns \ {r} : requestToSocket'[h][x] = requestToSocket[h][x]
      BY <1>6, <2>1
    <3> QED BY <1>3, <1>4, <2>1, <3>1, DisconnectedCoupled
  <2>3. ManagersCoupled'
    BY <1>5, <1>8, <2>1, <2>2 DEF ReceiveHangUp
  <2> QED BY <1>3, <1>8, <2>3, SocketFreed DEF ReceiveHangUp
<1>9. CASE ReceiveHangUp(c) /\ ~conn[c].bound
  BY <1>3, <1>9, SocketFreed, SameManagers DEF ReceiveHangUp
<1>10. CASE ServerCloses(c) \/ ServerReadsEnd(c) \/ ServerSocketError(c)
  <2>1. PICK msgs \in {<< >>, <<"FIN">>} : ServerSocketGone(c, msgs)
    BY <1>10 DEF ServerCloses, ServerReadsEnd, ServerSocketError
  <2>2. \/ Bind(h, r, None)
        \/ UNCHANGED requestToSocket /\ (~conn[c].bound \/ requestToSocket[h][r] # c)
    BY <2>1 DEF ServerSocketGone, UnbindSocket, Unbind
  <2>3. ManagersCoupled'
    <3>1. CASE conn[c].bound
      <4>1. mgr'[h] = OnClientDisconnected(mgr[h], r)
        BY <1>3, <1>4, <2>1, <3>1 DEF ServerSocketGone, Set
      <4>2. Coupled(requestToSocket'[h], mgr'[h])
        <5>1. \A x \in Conns \ {r} : requestToSocket'[h][x] = requestToSocket[h][x]
          BY <1>6, <2>2
        <5> QED BY <1>3, <1>4, <4>1, <5>1, DisconnectedCoupled
      <4> QED BY <1>5, <2>1, <2>2, <3>1, <4>2 DEF ServerSocketGone
    <3>2. CASE ~conn[c].bound
      BY <2>1, <3>2, SameManagers DEF ServerSocketGone, UnbindSocket
    <3> QED BY <3>1, <3>2
  <2> QED BY <1>3, <2>1, <2>2, <2>3, SocketFreed DEF ServerSocketGone, Unbind
<1> QED BY <1>7, <1>8, <1>9, <1>10 DEF ServerStep

-----------------------------------------------------------------------------
(* ... users, timers, phones and the network *)

\* A step that changes one manager and its own entries only.
LEMMA OneManager ==
  ASSUME SessionInv, NEW h \in Hosts, NEW new, mgr' = [mgr EXCEPT ![h] = new],
         \A x \in Hosts \ {h} : requestToSocket'[x] = requestToSocket[x],
         Coupled(requestToSocket'[h], new)
  PROVE  ManagersCoupled'
<1>1. \A x \in Hosts : mgr'[x] = IF x = h THEN new ELSE mgr[x]
  BY DEF SessionInv, TypeInv, TypeOK
<1> QED BY <1>1 DEF SessionInv, ManagersCoupled

\* What the session invariant says of one desktop.
LEMMA SessionHere ==
  ASSUME SessionInv, NEW h \in Hosts
  PROVE  /\ mgr[h] \in ManagerType /\ Wellformed(mgr[h])
         /\ Coupled(requestToSocket[h], mgr[h])
BY ManagersHere DEF SessionInv, ManagersCoupled

\* Opening connection c for a desktop leaves every session alone.
LEMMA ReplacedHolds ==
  ASSUME SessionInv, NEW h, NEW c \in Conns, IsFresh(c), NEW g, NEW r,
         conn' = ClientReplaced(h, c, g, r)
  PROVE  \A k \in Conns : Used(k) => Holds(conn[k], conn'[k])
<1> SUFFICES ASSUME NEW k \in Conns, Used(k) PROVE Holds(conn[k], conn'[k])
  OBVIOUS
<1>1. k # c /\ conn[k] \in ConnType
  BY DEF SessionInv, TypeInv, TypeOK, IsFresh, Used
<1>2. conn'[k] = IF k = mgr[h].client THEN Dropped(conn[k]) ELSE conn[k]
  BY <1>1 DEF ClientReplaced
<1> QED BY <1>1, <1>2, DroppedOp DEF Holds, Keeps, KeepsSession

\* requestConnection to a desktop: the new request is not a pending one.
LEMMA DialSession ==
  ASSUME SessionInv, NEW h \in Hosts, NEW g \in Hosts, Dial(h, g)
  PROVE  MappedSocketInSessions' /\ ManagersCoupled'
<1> DEFINE m == mgr[h]
<1>1. PICK c \in Conns :
        /\ IsFresh(c)
        /\ conn' = ClientReplaced(h, c, g, c)
        /\ Set(h, [m EXCEPT !.client = c, !.req = c, !.active = TRUE,
                            !.inFlight = FALSE, !.state = "RequestSent"])
  BY DEF Dial
<1> DEFINE new == [m EXCEPT !.client = c, !.req = c, !.active = TRUE,
                            !.inFlight = FALSE, !.state = "RequestSent"]
<1>2. UNCHANGED requestToSocket /\ ~m.active
  BY DEF Dial
<1>3. c \notin m.pending
  BY <1>1, SessionHere DEF Wellformed, IsFresh, Used
<1>4. Coupled(requestToSocket'[h], new)
  BY <1>2, <1>3, SessionHere DEF Coupled, ManagerType
<1> QED BY <1>1, <1>2, <1>4, ReplacedHolds, SocketsStay, OneManager DEF Set

\* onReconnectTick.
LEMMA ReconnectTickSession ==
  ASSUME SessionInv, NEW h \in Hosts, ReconnectTick(h)
  PROVE  MappedSocketInSessions' /\ ManagersCoupled'
<1> DEFINE m == mgr[h]
           later == [m EXCEPT !.ticks = @ - 1]
<1>1. UNCHANGED requestToSocket /\ m \in ManagerType /\ Coupled(requestToSocket[h], m)
  BY SessionHere DEF ReconnectTick
<1>2. \A c \in Conns :
        /\ Quiet(m, Failed(Ended(ReconnectStopped(m))))
        /\ Quiet(m, [later EXCEPT !.client = c, !.inFlight = TRUE])
        /\ Quiet(m, later)
  BY <1>1 DEF Quiet, Coupled, ManagerType, Failed, Ended, ReconnectStopped
<1>3. PICK new : Set(h, new) /\ Quiet(m, new)
  <2>1. Quiet(m, Failed(Ended(ReconnectStopped(m)))) /\ Quiet(m, later)
    BY <1>1 DEF Quiet, Coupled, ManagerType, Failed, Ended, ReconnectStopped
  <2> QED BY <1>2, <2>1 DEF ReconnectTick
<1>4. ManagersCoupled'
  BY <1>1, <1>3, QuietManager DEF Set
<1>5. \A k \in Conns : Used(k) => Holds(conn[k], conn'[k])
  <2>1. CASE UNCHANGED conn
    BY <2>1 DEF Holds, KeepsSession
  <2>2. CASE \E c \in Conns : IsFresh(c) /\ conn' = ClientReplaced(h, c, conn[m.client].target, m.req)
    BY <2>2, ReplacedHolds
  <2> QED BY <2>1, <2>2 DEF ReconnectTick
<1> QED BY <1>1, <1>4, <1>5, SocketsStay

\* approveIncoming and rejectIncoming: a pending request has its socket.
LEMMA AnswerSession ==
  ASSUME SessionInv, NEW h \in Hosts, Approve(h) \/ Refuse(h)
  PROVE  MappedSocketInSessions' /\ ManagersCoupled'
<1> DEFINE m == mgr[h]
           r == m.prompt
           waiting == [m EXCEPT !.pending = @ \ {r}]
<1>1. /\ UNCHANGED requestToSocket /\ r \in m.pending /\ r \in Conns
      /\ m \in ManagerType /\ Coupled(requestToSocket[h], m)
  BY SessionHere DEF Approve, Refuse, ManagerType
<1>2. ASSUME \/ conn' = OnSocketOf(h, r, Accepted)
             \/ conn' = OnSocketOf(h, r, Rejected)
      PROVE  MappedSocketInSessions'
  <2> SUFFICES ASSUME NEW k \in Conns, Used(k) PROVE Holds(conn[k], conn'[k])
    BY <1>1, SocketsStay
  <2>1. conn[k] \in ConnType /\ conn[k].cli # "unused"
    BY DEF SessionInv, TypeInv, TypeOK, Used
  <2>2. k = requestToSocket[h][r] => InSessions(conn[k])
    BY <1>1 DEF SessionInv, MappedSocketInSessions, Conns, None
  <2>3. /\ Holds(conn[k], Accepted(conn[k]))
        /\ InSessions(conn[k]) => Holds(conn[k], Rejected(conn[k]))
        /\ Holds(conn[k], conn[k])
    BY <2>1, ServerOps DEF Holds, Keeps, KeepsSession
  <2> QED BY <1>2, <2>2, <2>3 DEF OnSocketOf
<1>3. CASE Set(h, Receiving(waiting, h, r, conn[r].owner)) /\ conn' = OnSocketOf(h, r, Accepted)
  <2>1. Coupled(requestToSocket'[h], Receiving(waiting, h, r, conn[r].owner))
    BY <1>1 DEF Coupled, ManagerType, Receiving
  <2> QED BY <1>1, <1>2, <1>3, <2>1, OneManager DEF Set
<1>4. CASE Set(h, ReceiveFailed(waiting)) /\ conn' = OnSocketOf(h, r, Rejected)
  <2>1. Quiet(m, ReceiveFailed(waiting))
    BY <1>1 DEF Quiet, Coupled, ManagerType, ReceiveFailed, Failed
  <2> QED BY <1>1, <1>2, <1>4, <2>1, QuietManager DEF Set
<1>5. CASE Refuse(h)
  <2> DEFINE new == [m EXCEPT !.pending = @ \ {r}, !.prompt = None,
                              !.state = IF m.req = r /\ ~m.active THEN "Idle" ELSE @]
  <2>1. Quiet(m, new)
    BY <1>1 DEF Quiet, Coupled, ManagerType
  <2>2. Set(h, new) /\ conn' = OnSocketOf(h, r, Rejected)
    BY <1>5 DEF Refuse
  <2> QED BY <1>1, <1>2, <2>1, <2>2, QuietManager DEF Set
<1> QED BY <1>3, <1>4, <1>5 DEF Approve

\* disconnectActive: the request it unbinds is not a pending one.
LEMMA DisconnectSession ==
  ASSUME SessionInv, NEW h \in Hosts, Disconnect(h)
  PROVE  MappedSocketInSessions' /\ ManagersCoupled'
<1> DEFINE m == mgr[h]
           r == m.req
           new == [Ended(ReconnectStopped(m)) EXCEPT !.invited = NoDevice, !.client = None]
<1>1. /\ m \in ManagerType /\ Wellformed(m) /\ Coupled(requestToSocket[h], m)
      /\ mgr' = [mgr EXCEPT ![h] = new]
  BY SessionHere DEF Disconnect, Set
<1>2. /\ new.pending = m.pending /\ ~new.active /\ new.audio = "off"
  BY <1>1 DEF ManagerType, Ended, ReconnectStopped
<1> HIDE DEF new
<1>3. Quiet(m, new)
  BY <1>2 DEF Quiet
<1>4. CASE m.client # None
  <2>1. m.client \in Conns /\ conn[m.client] \in ConnType
    BY <1>1, <1>4 DEF ManagerType, ConnOrNone, SessionInv, TypeInv, TypeOK
  <2>2. Holds(conn[m.client], Dropped(conn[m.client]))
    BY <2>1, DroppedOp DEF Holds, Keeps
  <2>3. conn' = [conn EXCEPT ![m.client] = Dropped(conn[m.client])] /\ UNCHANGED requestToSocket
    BY <1>4 DEF Disconnect
  <2> QED BY <1>1, <1>3, <2>1, <2>2, <2>3, SocketStays, QuietManager
<1>5. CASE m.client = None /\ m.active
  <2>1. /\ conn' = OnSocketOf(h, r, HungUp) /\ Unbind(h, r)
        /\ r \in Conns /\ r \notin m.pending
    BY <1>1, <1>5 DEF Disconnect, Wellformed, Coupled, ManagerType, ConnOrNone
  <2>2. /\ \A x \in Hosts \ {h} : requestToSocket'[x] = requestToSocket[x]
        /\ \A k \in Conns \ {r} : requestToSocket'[h][k] = requestToSocket[h][k]
        /\ requestToSocket'[h][r] = None
    BY <2>1 DEF Unbind, Bind, SessionInv, TypeInv, TypeOK
  <2>3. Coupled(requestToSocket'[h], new)
    BY <1>1, <1>2, <2>1, <2>2 DEF Coupled, ManagerType
  <2>4. ManagersCoupled'
    BY <1>1, <2>2, <2>3, OneManager
  <2>5. CASE requestToSocket[h][r] = None
    <3>1. /\ UNCHANGED requestToSocket
          /\ \A k \in Conns : conn'[k] = conn[k]
      BY <2>1, <2>5 DEF Unbind, Bind, SessionInv, TypeInv, TypeOK, OnSocketOf, Conns, None
    <3> QED BY <2>4, <3>1, SocketsStay DEF Holds, KeepsSession
  <2>6. CASE requestToSocket[h][r] # None
    <3> DEFINE c == requestToSocket[h][r]
    <3>1. /\ c \in Conns /\ Used(c) /\ conn \in [Conns -> ConnType]
          /\ conn[c].target = h /\ conn[c].req = r
      BY <2>1, <2>6 DEF SessionInv, TypeInv, TypeOK, MappedUsed, MappedSocketInSessions, ConnOrNone
    <3>2. conn' = [conn EXCEPT ![c] = HungUp(conn[c])]
      BY <2>1, <3>1 DEF OnSocketOf
    <3> QED BY <2>1, <2>4, <3>1, <3>2, SocketFreed
  <2> QED BY <2>5, <2>6
<1>6. CASE m.client = None /\ ~m.active
  <2>1. UNCHANGED <<conn, requestToSocket>>
    BY <1>6 DEF Disconnect
  <2> QED BY <1>1, <1>3, <2>1, SocketsStay, QuietManager DEF Holds, KeepsSession
<1> QED BY <1>4, <1>5, <1>6

\* stop and the end of the process.
LEMMA QuitSession ==
  ASSUME SessionInv, NEW h \in Hosts, Quit(h)
  PROVE  MappedSocketInSessions' /\ ManagersCoupled'
<1> DEFINE m == mgr[h]
           new == [Started(m.trusted) EXCEPT !.running = FALSE]
<1>1. /\ conn' = [c \in Conns |->
                    CASE c = m.client -> Dropped(conn[c])
                      [] c # m.client /\ conn[c].target = h /\ InSessions(conn[c])
                           -> ServerDisconnected(conn[c], <<"FIN">>)
                      [] OTHER -> conn[c]]
      /\ requestToSocket' = [requestToSocket EXCEPT ![h] = [r \in Conns |-> None]]
      /\ mgr' = [mgr EXCEPT ![h] = new]
  BY DEF Quit, Set
<1>2. /\ \A x \in Hosts \ {h} : requestToSocket'[x] = requestToSocket[x]
      /\ requestToSocket'[h] = [r \in Conns |-> None]
  BY <1>1 DEF SessionInv, TypeInv, TypeOK
<1>3. Coupled(requestToSocket'[h], new)
  BY DEF Coupled, Started
<1>4. ManagersCoupled'
  BY <1>1, <1>2, <1>3, OneManager
<1>5. MappedSocketInSessions'
  <2> SUFFICES ASSUME NEW x \in Hosts, NEW r \in Conns, requestToSocket'[x][r] # None
               PROVE  LET c == requestToSocket'[x][r]
                      IN  /\ conn'[c].target = x /\ conn'[c].req = r
                          /\ conn'[c].bound /\ InSessions(conn'[c])
    BY DEF MappedSocketInSessions, InSessions
  <2> DEFINE c == requestToSocket[x][r]
  <2>1. x # h /\ requestToSocket'[x][r] = c
    BY <1>2
  <2>2. /\ c \in Conns /\ conn[c] \in ConnType
        /\ conn[c].target = x /\ conn[c].req = r /\ conn[c].bound /\ InSessions(conn[c])
    BY <2>1 DEF SessionInv, TypeInv, TypeOK, ConnOrNone, MappedSocketInSessions
  <2>3. conn'[c] = IF c = m.client THEN Dropped(conn[c]) ELSE conn[c]
    BY <1>1, <2>1, <2>2
  <2> QED BY <2>1, <2>2, <2>3, DroppedOp DEF Keeps, KeepsSession
<1> QED BY <1>4, <1>5

\* The user's and the timer's steps that touch no connection.
LEMMA OtherUserSession ==
  ASSUME SessionInv, NEW h \in Hosts,
         \/ \E p \in Phones : Invite(h, p)
         \/ ConnectFails(h)
         \/ InviteTimeout(h)
         \/ \E d \in Devices : RevokeTrust(h, d)
  PROVE  MappedSocketInSessions' /\ ManagersCoupled'
<1> DEFINE m == mgr[h]
<1>1. m \in ManagerType /\ Coupled(requestToSocket[h], m)
  BY SessionHere
<1> USE DEF Quiet, Coupled, ManagerType, Failed
<1>2. UNCHANGED conn /\ UNCHANGED requestToSocket
  BY DEF Invite, ConnectFails, InviteTimeout, RevokeTrust, chanVars
<1>3. ASSUME NEW p \in Phones, Invite(h, p) PROVE ManagersCoupled'
  <2>1. Quiet(m, [m EXCEPT !.invited = p, !.req = None, !.inFlight = FALSE,
                           !.state = "RequestSent"])
    BY <1>1, <1>3 DEF Invite
  <2> QED BY <1>2, <1>3, <2>1, QuietManager DEF Invite, Set
<1>4. ASSUME ConnectFails(h) PROVE ManagersCoupled'
  <2>1. Quiet(m, Failed(m))
    BY <1>1
  <2> QED BY <1>2, <1>4, <2>1, QuietManager DEF ConnectFails, Set
<1>5. ASSUME InviteTimeout(h) PROVE ManagersCoupled'
  <2> DEFINE new == IF m.active THEN [m EXCEPT !.invited = NoDevice]
                    ELSE Failed([m EXCEPT !.invited = NoDevice, !.state = "Idle"])
  <2>1. Quiet(m, new)
    BY <1>1
  <2>2. Set(h, new)
    BY <1>5 DEF InviteTimeout
  <2> QED BY <1>2, <2>1, <2>2, QuietManager DEF Set
<1>6. ASSUME NEW d \in Devices, RevokeTrust(h, d) PROVE ManagersCoupled'
  <2>1. Quiet(m, [m EXCEPT !.trusted = @ \ {d}])
    BY <1>1
  <2>2. mgr' = [mgr EXCEPT ![h] = [m EXCEPT !.trusted = @ \ {d}]]
    BY <1>6 DEF RevokeTrust, SessionInv, TypeInv, TypeOK
  <2> QED BY <1>2, <2>1, <2>2, QuietManager
<1>7. MappedSocketInSessions'
  BY <1>2, SocketsStay DEF Holds, KeepsSession
<1> QED BY <1>3, <1>4, <1>5, <1>6, <1>7

\* Phones, the network, and stuttering.
LEMMA OtherSession ==
  ASSUME SessionInv,
         \/ \E c \in Conns : LinkChanges(c) \/ PhoneHangsUp(c)
         \/ \E p \in Phones, h \in Hosts : PhoneDials(p, h)
         \/ UNCHANGED vars
  PROVE  MappedSocketInSessions' /\ ManagersCoupled'
<1>1. UNCHANGED requestToSocket /\ UNCHANGED mgr
  BY DEF LinkChanges, PhoneHangsUp, PhoneDials, vars
<1>2. conn \in [Conns -> ConnType]
  BY DEF SessionInv, TypeInv, TypeOK
<1>3. ASSUME NEW c \in Conns, NEW new, conn' = [conn EXCEPT ![c] = new],
             Used(c) => Holds(conn[c], new)
      PROVE  MappedSocketInSessions'
  <2>1. \A k \in Conns : conn'[k] = IF k = c THEN new ELSE conn[k]
    BY <1>2, <1>3
  <2>2. \A k \in Conns : Used(k) => Holds(conn[k], conn'[k])
    BY <1>3, <2>1 DEF Holds, KeepsSession
  <2> QED BY <1>1, <2>2, SocketsStay
<1>4. \A c \in Conns : /\ Holds(conn[c], [conn[c] EXCEPT !.link = "down"])
                       /\ Holds(conn[c], [conn[c] EXCEPT !.link = "healed"])
                       /\ Holds(conn[c], PhoneDropped(conn[c]))
  BY <1>2, PhoneDroppedOp DEF Holds, Keeps, KeepsSession, InSessions, ConnType
<1>5. CASE \E c \in Conns : LinkChanges(c)
  BY <1>1, <1>3, <1>4, <1>5, SameManagers DEF LinkChanges, LinkDown, LinkHeals
<1>6. CASE \E c \in Conns : PhoneHangsUp(c)
  BY <1>1, <1>3, <1>4, <1>6, SameManagers DEF PhoneHangsUp
<1>7. CASE \E p \in Phones, h \in Hosts : PhoneDials(p, h)
  BY <1>1, <1>3, <1>7, SameManagers DEF PhoneDials, IsFresh, Used
<1>8. CASE UNCHANGED vars
  BY <1>8, SocketsStay, SameManagers DEF vars, Holds, KeepsSession
<1> QED BY <1>5, <1>6, <1>7, <1>8

\* The session invariant holds at the start.
LEMMA InitSession == ASSUME Init PROVE SessionInv
<1>1. TypeInv
  BY InitType, ManagerAssumption
<1>2. /\ requestToSocket = [h \in Hosts |-> [r \in Conns |-> None]]
      /\ mgr = [h \in Hosts |-> Started({})]
  BY DEF Init, ChanInit, ManagerInit
<1> QED BY <1>1, <1>2 DEF SessionInv, MappedSocketInSessions, ManagersCoupled, Coupled, Started

\* Every step, and every stutter, keeps the session invariant.
LEMMA NextSession == ASSUME SessionInv, [Next]_vars PROVE SessionInv'
<1>1. TypeInv'
  BY NextType DEF SessionInv
<1>2. CASE UNCHANGED vars
  BY <1>1, <1>2, OtherSession DEF SessionInv
<1>3. ASSUME NEW c \in Conns,
             ClientStep(c) \/ ServerStep(c) \/ Network(c) \/ PhoneHangsUp(c)
      PROVE  SessionInv'
  BY <1>1, <1>3, ClientStepsSession, ServerStepsSession, OtherSession DEF Network, SessionInv
<1>4. ASSUME NEW h \in Hosts, User(h) \/ Timer(h)
      PROVE  SessionInv'
  BY <1>1, <1>4, DialSession, AnswerSession, OtherUserSession, DisconnectSession,
     QuitSession, ReconnectTickSession DEF User, Timer, SessionInv
<1>5. ASSUME NEW p \in Phones, NEW h \in Hosts, PhoneDials(p, h)
      PROVE  SessionInv'
  BY <1>1, <1>5, OtherSession DEF SessionInv
<1> QED BY <1>2, <1>3, <1>4, <1>5 DEF Next

\* Sockets, requests and managers agree in every state.
THEOREM SessionInvariant == Spec => []SessionInv
BY InitSession, NextSession, PTL DEF Spec

\* An entry of requestToSocket_ always names a socket that is in sessions_ under
\* that id: sessions_.at in ControlServer::accept never throws.
THEOREM SocketsAreInSessions == Spec => []MappedSocketInSessions
<1>1. SessionInv => MappedSocketInSessions
  BY DEF SessionInv
<1> QED BY <1>1, SessionInvariant, PTL

\* A request that waits for approval has a socket to carry the answer.
THEOREM PendingRequestsHaveSockets == Spec => []PendingHasSocket
<1>1. SessionInv => PendingHasSocket
  BY DEF SessionInv, ManagersCoupled, Coupled, PendingHasSocket
<1> QED BY <1>1, SessionInvariant, PTL

\* A desktop that feeds its virtual microphone shows Streaming and still has its
\* caller's socket, so that it will notice the caller's loss.
THEOREM ReceiversHaveSockets == Spec => []ReceiverHasSocket
<1>1. SessionInv => ReceiverHasSocket
  BY DEF SessionInv, ManagersCoupled, Coupled, ReceiverHasSocket
<1> QED BY <1>1, SessionInvariant, PTL

\* The maps of ControlServer and the requests of ConnectionManager agree about
\* which requests have a socket, for any desktops, phones and connections.
THEOREM SocketsAlwaysHeld == Spec => []SocketsHeld
BY SocketsAreInSessions, PendingRequestsHaveSockets, PromptAlwaysPending,
   ReceiversHaveSockets, PTL
DEF SocketsHeld

-----------------------------------------------------------------------------
(* What one step may do to a manager *)

\* A slot of controlClient_.
ByClient(h, m, new) ==
  \E c \in Conns :
    LET r == conn[c].req
    IN  /\ conn[c].owner = h /\ m.client = c /\ r \in Conns
        /\ \/ \E accepted, opened \in BOOLEAN :
                new = OnOutgoingResponse(m, h, r, accepted, opened)
           \/ new = OnOutgoingTimedOut(m, r)
           \/ new = OnConnectionLost(m, r)
           \/ new = OnRemoteDisconnected(m)

\* A slot of controlServer_.
ByServer(h, m, new) ==
  \E c \in Conns :
    LET r == conn[c].req
        d == conn[c].owner
    IN  /\ conn[c].target = h /\ Used(c) /\ r \in Conns
        /\ \/ \E answer \in Answers(m, h, d) :
                new = OnIncomingRequest(m, h, r, d, answer)
           \/ new = OnClientDisconnected(m, r)

\* The user calls a device that listens, or invites one that does not.
ByCall(h, m, new) ==
  /\ ~m.active
  /\ \/ \E g \in Hosts \ {h}, c \in Conns :
          new = [m EXCEPT !.client = c, !.req = c, !.active = TRUE,
                          !.inFlight = FALSE, !.state = "RequestSent"]
     \/ \E p \in Phones :
          new = [m EXCEPT !.invited = p, !.req = None, !.inFlight = FALSE,
                          !.state = "RequestSent"]

\* The user answers the dialog.
ByAnswer(h, m, new) ==
  LET r == m.prompt
      waiting == [m EXCEPT !.pending = @ \ {r}]
  IN  /\ r \in m.pending
      /\ \/ new = Receiving(waiting, h, r, conn[r].owner)
         \/ h \in AudioMayFail /\ new = ReceiveFailed(waiting)
         \/ new = [m EXCEPT !.pending = @ \ {r}, !.prompt = None,
                            !.state = IF m.req = r /\ ~m.active THEN "Idle" ELSE @]

\* The user disconnects, revokes a pin, quits, or is told that a call failed.
ByUser(m, new) ==
  \/ new = Failed(m)
  \/ new = [Ended(ReconnectStopped(m)) EXCEPT !.invited = NoDevice, !.client = None]
  \/ \E d \in Devices : new = [m EXCEPT !.trusted = @ \ {d}]
  \/ new = [Started(m.trusted) EXCEPT !.running = FALSE]

\* inviteTimer_ or reconnectTimer_ fires.
ByTimer(m, new) ==
  \/ new = IF m.active THEN [m EXCEPT !.invited = NoDevice]
           ELSE Failed([m EXCEPT !.invited = NoDevice, !.state = "Idle"])
  \/ /\ m.reconnecting
     /\ \/ new = Failed(Ended(ReconnectStopped(m)))
        \/ new = [m EXCEPT !.ticks = @ - 1]
        \/ \E c \in Conns :
             new = [m EXCEPT !.ticks = @ - 1, !.client = c, !.inFlight = TRUE]

ManagerStep(h, m, new) ==
  \/ new = m
  \/ ByClient(h, m, new)
  \/ ByServer(h, m, new)
  \/ ByCall(h, m, new)
  \/ ByAnswer(h, m, new)
  \/ ByUser(m, new)
  \/ ByTimer(m, new)

\* What a step that changes one manager does to each.
LEMMA OneManagerChanges ==
  ASSUME TypeInv, NEW g \in Hosts, NEW new, mgr' = [mgr EXCEPT ![g] = new]
  PROVE  \A h \in Hosts : mgr'[h] = IF h = g THEN new ELSE mgr[h]
BY DEF TypeInv, TypeOK

\* A client raises its signals in the manager that owns it.
LEMMA ClientManagerSteps ==
  ASSUME TypeInv, NEW c \in Conns, ClientStep(c) \/ ClientSocketError(c)
  PROVE  \A h \in Hosts : mgr'[h] = mgr[h] \/ ByClient(h, mgr[h], mgr'[h])
<1> DEFINE h == conn[c].owner
           r == conn[c].req
<1> USE DEF ClientReads
<1>1. conn[c].cli \notin {"unused", "gone"}
  <2> USE DEF ClientSocketOpen, TimeoutRunning
  <2>1. CASE TlsEstablished(c) \/ KeepAlivesMissed(c) \/ RequestTimesOut(c)
    BY <2>1 DEF TlsEstablished, KeepAlivesMissed, RequestTimesOut
  <2>2. CASE ReceiveAccept(c) \/ ReceiveReject(c) \/ ReceiveDisconnect(c)
    BY <2>2 DEF ReceiveAccept, ReceiveReject, ReceiveDisconnect
  <2>3. CASE ClientReadsEnd(c) \/ ClientSocketError(c)
    BY <2>3 DEF ClientReadsEnd, ClientSocketError, ClientDisconnects
  <2> QED BY <2>1, <2>2, <2>3 DEF ClientStep
<1>2. r \in Conns
  BY <1>1, UsedConns DEF Used
<1>3. ASSUME NEW new, Raise(h, new),
             \/ \E accepted, opened \in BOOLEAN :
                  new = OnOutgoingResponse(mgr[h], h, r, accepted, opened)
             \/ new = OnOutgoingTimedOut(mgr[h], r)
             \/ new = OnConnectionLost(mgr[h], r)
             \/ new = OnRemoteDisconnected(mgr[h])
      PROVE  \A g \in Hosts : mgr'[g] = mgr[g] \/ ByClient(g, mgr[g], mgr'[g])
  <2>1. CASE h \in Hosts
    <3>1. mgr[h].client = c
      BY <1>1, <2>1 DEF TypeInv, LiveClient
    <3>2. ByClient(h, mgr[h], new)
      BY <1>2, <1>3, <3>1 DEF ByClient
    <3> QED BY <1>3, <2>1, <3>2, OneManagerChanges DEF Raise, Set
  <2>2. CASE h \notin Hosts
    BY <1>3, <2>2 DEF Raise
  <2> QED BY <2>1, <2>2
<1>4. CASE TlsEstablished(c)
  BY <1>4 DEF TlsEstablished
<1>5. CASE ReceiveAccept(c)
  <2>1. PICK opened \in BOOLEAN : Raise(h, OnOutgoingResponse(mgr[h], h, r, TRUE, opened))
    BY <1>5, SessionAssumption DEF ReceiveAccept
  <2> QED BY <1>3, <2>1
<1>6. CASE ReceiveReject(c)
  BY <1>3, <1>6 DEF ReceiveReject
<1>7. CASE ReceiveDisconnect(c)
  BY <1>3, <1>7 DEF ReceiveDisconnect
<1>8. CASE ClientReadsEnd(c) \/ ClientSocketError(c)
  BY <1>3, <1>8 DEF ClientReadsEnd, ClientSocketError, ClientDisconnects
<1>9. CASE KeepAlivesMissed(c)
  BY <1>3, <1>9 DEF KeepAlivesMissed
<1>10. CASE RequestTimesOut(c)
  BY <1>3, <1>10 DEF RequestTimesOut
<1> QED BY <1>4, <1>5, <1>6, <1>7, <1>8, <1>9, <1>10 DEF ClientStep

\* A server raises its signals in the manager of the desktop that listens.
LEMMA ServerManagerSteps ==
  ASSUME TypeInv, NEW c \in Conns, ServerStep(c) \/ ServerSocketError(c)
  PROVE  \A h \in Hosts : mgr'[h] = mgr[h] \/ ByServer(h, mgr[h], mgr'[h])
<1> DEFINE g == conn[c].target
           r == conn[c].req
           d == conn[c].owner
<1> USE DEF ServerReads
<1>1. InSessions(conn[c])
  BY DEF ServerStep, ServerCloses, ReceiveRequest, ReceiveHangUp, ServerReadsEnd,
         ServerSocketError, InSessions
<1>2. Used(c) /\ g \in Hosts /\ r \in Conns
  BY <1>1, UsedWhen, UsedConns
<1>3. ASSUME NEW new, Set(g, new),
             \/ \E answer \in Answers(mgr[g], g, d) :
                  new = OnIncomingRequest(mgr[g], g, r, d, answer)
             \/ new = OnClientDisconnected(mgr[g], r)
      PROVE  \A h \in Hosts : mgr'[h] = mgr[h] \/ ByServer(h, mgr[h], mgr'[h])
  <2>1. ByServer(g, mgr[g], new)
    BY <1>2, <1>3 DEF ByServer
  <2> QED BY <1>2, <1>3, <2>1, OneManagerChanges DEF Set
<1>4. CASE ReceiveRequest(c)
  <2>1. PICK answer \in Answers(mgr[g], g, d) :
          Set(g, OnIncomingRequest(mgr[g], g, r, d, answer))
    BY <1>4 DEF ReceiveRequest
  <2> QED BY <1>3, <2>1
<1>5. CASE ReceiveHangUp(c)
  BY <1>3, <1>5 DEF ReceiveHangUp
<1>6. CASE ServerCloses(c) \/ ServerReadsEnd(c) \/ ServerSocketError(c)
  <2>1. PICK msgs \in {<< >>, <<"FIN">>} : ServerSocketGone(c, msgs)
    BY <1>6 DEF ServerCloses, ServerReadsEnd, ServerSocketError
  <2> QED BY <1>3, <2>1 DEF ServerSocketGone
<1> QED BY <1>4, <1>5, <1>6 DEF ServerStep

\* The user's answer changes the manager that asked for it.
LEMMA AnswerManagerSteps ==
  ASSUME TypeInv, NEW g \in Hosts, Approve(g) \/ Refuse(g)
  PROVE  \A h \in Hosts : mgr'[h] = mgr[h] \/ ByAnswer(h, mgr[h], mgr'[h])
<1>1. PICK new : Set(g, new) /\ ByAnswer(g, mgr[g], new)
  BY DEF Approve, Refuse, ByAnswer
<1> QED BY <1>1, OneManagerChanges DEF Set

ByHost(h, m, new) == ByCall(h, m, new) \/ ByUser(m, new) \/ ByTimer(m, new)

OtherUserOrTimer(h) ==
  \/ \E g \in Hosts : Dial(h, g)
  \/ \E p \in Phones : Invite(h, p)
  \/ ConnectFails(h)
  \/ Disconnect(h)
  \/ \E d \in Devices : RevokeTrust(h, d)
  \/ Quit(h)
  \/ Timer(h)

\* So do the other steps of the user and the timers.
LEMMA HostManagerSteps ==
  ASSUME TypeInv, NEW g \in Hosts, OtherUserOrTimer(g)
  PROVE  \A h \in Hosts : mgr'[h] = mgr[h] \/ ByHost(h, mgr[h], mgr'[h])
<1> DEFINE m == mgr[g]
<1>1. ASSUME NEW new, Set(g, new), ByHost(g, m, new)
      PROVE  \A h \in Hosts : mgr'[h] = mgr[h] \/ ByHost(h, mgr[h], mgr'[h])
  BY <1>1, OneManagerChanges DEF Set
<1>2. ASSUME NEW f \in Hosts, Dial(g, f)
      PROVE  \A h \in Hosts : mgr'[h] = mgr[h] \/ ByHost(h, mgr[h], mgr'[h])
  <2>1. PICK c \in Conns :
          Set(g, [m EXCEPT !.client = c, !.req = c, !.active = TRUE,
                           !.inFlight = FALSE, !.state = "RequestSent"])
    BY <1>2 DEF Dial
  <2>2. f \in Hosts \ {g} /\ ~m.active
    BY <1>2 DEF Dial
  <2> QED BY <1>1, <2>1, <2>2 DEF ByHost, ByCall
<1>3. ASSUME NEW p \in Phones, Invite(g, p)
      PROVE  \A h \in Hosts : mgr'[h] = mgr[h] \/ ByHost(h, mgr[h], mgr'[h])
  BY <1>1, <1>3 DEF ByHost, ByCall, Invite
<1>4. CASE ConnectFails(g)
  BY <1>1, <1>4 DEF ByHost, ByUser, ConnectFails
<1>7. CASE Disconnect(g)
  BY <1>1, <1>7 DEF ByHost, ByUser, Disconnect
<1>8. ASSUME NEW d \in Devices, RevokeTrust(g, d)
      PROVE  \A h \in Hosts : mgr'[h] = mgr[h] \/ ByHost(h, mgr[h], mgr'[h])
  <2>1. Set(g, [m EXCEPT !.trusted = @ \ {d}])
    BY <1>8 DEF RevokeTrust, Set, TypeInv, TypeOK
  <2> QED BY <1>1, <2>1 DEF ByHost, ByUser
<1>9. CASE Quit(g)
  BY <1>1, <1>9 DEF ByHost, ByUser, Quit
<1>10. CASE InviteTimeout(g)
  BY <1>1, <1>10 DEF ByHost, ByTimer, InviteTimeout
<1>11. CASE ReconnectTick(g)
  <2> DEFINE later == [m EXCEPT !.ticks = @ - 1]
  <2>0. m.reconnecting
    BY <1>11 DEF ReconnectTick
  <2>1. ASSUME NEW c \in Conns, Set(g, [later EXCEPT !.client = c, !.inFlight = TRUE])
        PROVE  \A h \in Hosts : mgr'[h] = mgr[h] \/ ByHost(h, mgr[h], mgr'[h])
    <3>1. m \in ManagerType
      BY ManagersHere
    <3>2. [later EXCEPT !.client = c, !.inFlight = TRUE]
             = [m EXCEPT !.ticks = @ - 1, !.client = c, !.inFlight = TRUE]
      BY <3>1 DEF ManagerType
    <3>3. ByHost(g, m, [m EXCEPT !.ticks = @ - 1, !.client = c, !.inFlight = TRUE])
      BY <2>0 DEF ByHost, ByTimer
    <3> QED BY <1>1, <2>1, <3>2, <3>3
  <2>2. CASE Set(g, Failed(Ended(ReconnectStopped(m)))) \/ Set(g, later)
    BY <1>1, <2>0, <2>2 DEF ByHost, ByTimer
  <2> QED BY <1>11, <2>1, <2>2 DEF ReconnectTick
<1> QED BY <1>2, <1>3, <1>4, <1>7, <1>8, <1>9, <1>10, <1>11 DEF OtherUserOrTimer, Timer

\* So every step changes every manager as ManagerStep says.
LEMMA ManagerSteps ==
  ASSUME TypeInv, [Next]_vars
  PROVE  \A h \in Hosts : ManagerStep(h, mgr[h], mgr'[h])
<1> USE DEF ManagerStep, ByHost
<1>1. CASE UNCHANGED vars
  BY <1>1 DEF vars
<1>2. ASSUME NEW c \in Conns,
             ClientStep(c) \/ ServerStep(c) \/ Network(c) \/ PhoneHangsUp(c)
      PROVE  \A h \in Hosts : ManagerStep(h, mgr[h], mgr'[h])
  BY <1>2, ClientManagerSteps, ServerManagerSteps DEF Network, LinkChanges, PhoneHangsUp
<1>3. ASSUME NEW g \in Hosts, User(g) \/ Timer(g)
      PROVE  \A h \in Hosts : ManagerStep(h, mgr[h], mgr'[h])
  BY <1>3, AnswerManagerSteps, HostManagerSteps DEF User, OtherUserOrTimer
<1>4. ASSUME NEW p \in Phones, NEW g \in Hosts, PhoneDials(p, g)
      PROVE  \A h \in Hosts : ManagerStep(h, mgr[h], mgr'[h])
  BY <1>4 DEF PhoneDials
<1> QED BY <1>1, <1>2, <1>3, <1>4 DEF Next

-----------------------------------------------------------------------------
(* States that wait end *)

\* A manager that waits has what ends its wait.
Waits(m) ==
  /\ m.state = "Reconnecting" => m.reconnecting
  /\ m.state = "AwaitingApproval" => ~m.active /\ m.req \in m.pending

WaitsInv == TypeInv /\ \A h \in Hosts : Waits(mgr[h])

\* No slot, user or timer leaves a manager waiting for nothing.
LEMMA WaitsStep ==
  ASSUME NEW m \in ManagerType, Waits(m), NEW h, NEW new, ManagerStep(h, m, new)
  PROVE  Waits(new)
<1> USE DEF Waits, ManagerType
<1>1. CASE ByClient(h, m, new)
  BY ZenonT(30), <1>1 DEF ByClient, OnOutgoingResponse, OnOutgoingTimedOut, OnConnectionLost,
              OnRemoteDisconnected, ReconnectStopped, Failed, Ended
<1>2. CASE ByServer(h, m, new)
  <2>1. ASSUME NEW r, NEW d, NEW answer \in Answers(m, h, d)
        PROVE  Waits(OnIncomingRequest(m, h, r, d, answer))
    BY DEF Answers, OnIncomingRequest, Receiving, ReceiveFailed, Failed
  <2>2. \A r : Waits(OnClientDisconnected(m, r))
    BY DEF OnClientDisconnected, Ended
  <2> QED BY <1>2, <2>1, <2>2 DEF ByServer
<1>3. CASE ByCall(h, m, new)
  BY <1>3 DEF ByCall
<1>4. CASE ByAnswer(h, m, new)
  <2> DEFINE r == m.prompt
             waiting == [m EXCEPT !.pending = @ \ {r}]
             refused == [m EXCEPT !.pending = @ \ {r}, !.prompt = None,
                                  !.state = IF m.req = r /\ ~m.active THEN "Idle" ELSE @]
  <2>1. \A d : Waits(Receiving(waiting, h, r, d))
    BY DEF Receiving
  <2>2. Waits(ReceiveFailed(waiting))
    BY DEF ReceiveFailed, Failed
  <2>3. Waits(refused)
    <3>1. /\ refused.pending = m.pending \ {r} /\ refused.req = m.req
          /\ refused.active = m.active /\ refused.reconnecting = m.reconnecting
          /\ refused.state = IF m.req = r /\ ~m.active THEN "Idle" ELSE m.state
      OBVIOUS
    <3> HIDE DEF refused
    <3> QED BY <3>1
  <2> QED BY <1>4, <2>1, <2>2, <2>3 DEF ByAnswer
<1>5. CASE ByUser(m, new)
  <2>1. Waits(Failed(m))
    BY DEF Failed
  <2>2. Waits([Ended(ReconnectStopped(m)) EXCEPT !.invited = NoDevice, !.client = None])
    BY DEF Ended, ReconnectStopped
  <2>3. \A d : Waits([m EXCEPT !.trusted = @ \ {d}])
    OBVIOUS
  <2>4. Waits([Started(m.trusted) EXCEPT !.running = FALSE])
    BY DEF Started
  <2> QED BY <1>5, <2>1, <2>2, <2>3, <2>4 DEF ByUser
<1>6. CASE ByTimer(m, new)
  BY <1>6 DEF ByTimer, Failed, Ended, ReconnectStopped
<1> QED BY <1>1, <1>2, <1>3, <1>4, <1>5, <1>6 DEF ManagerStep

\* A desktop shown as Reconnecting has its timer running, and one shown as
\* AwaitingApproval the request it shows, in every state.
THEOREM WaitingAlwaysEnds == Spec => []WaitingStatesEnd
<1>1. Init => WaitsInv
  BY InitType, ManagerAssumption DEF Init, ManagerInit, Started, WaitsInv, Waits
<1>2. WaitsInv /\ [Next]_vars => WaitsInv'
  BY NextType, ManagerSteps, ManagersHere, WaitsStep DEF WaitsInv
<1>3. WaitsInv => WaitingStatesEnd
  BY DEF WaitsInv, Waits, WaitingStatesEnd
<1> QED BY <1>1, <1>2, <1>3, PTL DEF Spec

-----------------------------------------------------------------------------
(* Trust follows consent *)

\* Why a manager may have pinned a device.
Consent(h, m, new, d) ==
  \/ m.prompt \in m.pending \ new.pending /\ conn[m.prompt].owner = d
  \/ m.invited = d
  \/ m.req # None /\ conn[m.req].owner = h /\ conn[m.req].target = d
  \/ Redialled(m)

\* Whatever a step pins was answered, invited or dialled: the answer that
\* arrives for the active request came over the connection that opened it,
\* unless the manager has redialled.
LEMMA ConsentStep ==
  ASSUME TypeInv, NEW h \in Hosts, NEW new, ManagerStep(h, mgr[h], new),
         NEW d \in new.trusted \ mgr[h].trusted
  PROVE  Consent(h, mgr[h], new, d)
<1> DEFINE m == mgr[h]
<1>1. m \in ManagerType /\ Wellformed(m)
  BY ManagersHere
<1> HIDE DEF m
<1> USE <1>1 DEF ManagerType
<1>2. CASE ByClient(h, m, new)
  <2>1. PICK c \in Conns :
          LET r == conn[c].req
          IN  /\ conn[c].owner = h /\ m.client = c /\ r \in Conns
              /\ \/ \E accepted, opened \in BOOLEAN :
                      new = OnOutgoingResponse(m, h, r, accepted, opened)
                 \/ new = OnOutgoingTimedOut(m, r)
                 \/ new = OnConnectionLost(m, r)
                 \/ new = OnRemoteDisconnected(m)
    BY <1>2 DEF ByClient
  <2> DEFINE r == conn[c].req
  <2>2. PICK accepted \in BOOLEAN, opened \in BOOLEAN :
           new = OnOutgoingResponse(m, h, r, accepted, opened)
    BY <2>1 DEF m, OnOutgoingTimedOut, OnConnectionLost, OnRemoteDisconnected,
               ReconnectStopped, Failed, Ended
  <2>3. r = m.req /\ d \in Pinned(h, PeerOf(h, r))
    BY <2>2 DEF m, OnOutgoingResponse, ReconnectStopped, Failed, Ended
  <2>4. d = PeerOf(h, r)
    BY <2>3 DEF Pinned
  <2>5. c # None /\ m.req # None
    BY <2>1, <2>3 DEF Conns, None
  <2>6. CASE r = c
    BY <2>1, <2>3, <2>4, <2>5, <2>6 DEF m, PeerOf, Consent
  <2>7. CASE r # c
    BY <2>1, <2>5, <2>7 DEF m, Redialled, Consent
  <2> QED BY <2>6, <2>7
<1>3. CASE ByServer(h, m, new)
  <2>1. ASSUME NEW r, NEW e, NEW answer \in Answers(m, h, e),
               new = OnIncomingRequest(m, h, r, e, answer)
        PROVE  m.invited = d
    <3>1. answer = "accept" /\ d \in Pinned(h, e)
      BY <2>1 DEF m, Answers, OnIncomingRequest, Receiving, ReceiveFailed, Failed
    <3>2. d = e /\ h \in Remember
      BY <3>1 DEF Pinned
    <3> QED BY <2>1, <3>1, <3>2 DEF m, Answers
  <2>2. ASSUME NEW r, new = OnClientDisconnected(m, r) PROVE FALSE
    BY <2>2 DEF m, OnClientDisconnected, Ended
  <2> QED BY <1>3, <2>1, <2>2 DEF m, ByServer, Consent
<1>4. CASE ByCall(h, m, new)
  BY <1>4 DEF m, ByCall
<1>5. CASE ByAnswer(h, m, new)
  <2>1. m.prompt \in m.pending
    BY <1>5 DEF ByAnswer
  <2>2. new.pending = m.pending \ {m.prompt} /\ d \in Pinned(h, conn[m.prompt].owner)
    <3> DEFINE waiting == [m EXCEPT !.pending = @ \ {m.prompt}]
    <3>1. /\ waiting.pending = m.pending \ {m.prompt} /\ waiting.trusted = m.trusted
          /\ waiting \in ManagerType
      BY DEF m
    <3> HIDE DEF waiting
    <3>2. CASE new = Receiving(waiting, h, m.prompt, conn[m.prompt].owner)
      BY <3>1, <3>2 DEF m, Receiving
    <3>3. CASE new.trusted = m.trusted
      BY <3>3 DEF m
    <3>4. new = Receiving(waiting, h, m.prompt, conn[m.prompt].owner) \/ new.trusted = m.trusted
      BY <1>5, <3>1 DEF m, waiting, ByAnswer, ReceiveFailed, Failed
    <3> QED BY <3>2, <3>3, <3>4
  <2> QED BY <2>1, <2>2 DEF m, Pinned, Consent
<1>6. CASE ByUser(m, new)
  BY <1>6 DEF m, ByUser, Failed, Ended, ReconnectStopped, Started
<1>7. CASE ByTimer(m, new)
  BY <1>7 DEF m, ByTimer, Failed, Ended, ReconnectStopped
<1> QED BY <1>2, <1>3, <1>4, <1>5, <1>6, <1>7 DEF m, ManagerStep

\* No device is pinned that this desktop's user did not answer, invite or dial,
\* except by the answer to a redial.
THEOREM TrustAlwaysHasConsent == Spec => TrustHasConsent
<1>1. TypeInv /\ [Next]_vars =>
        [\A h \in Hosts : \A d \in mgr[h]'.trusted \ mgr[h].trusted :
           LET m == mgr[h]
           IN  \/ m.prompt \in m.pending \ mgr[h]'.pending /\ conn[m.prompt].owner = d
               \/ m.invited = d
               \/ m.req # None /\ conn[m.req].owner = h /\ conn[m.req].target = d
               \/ Redialled(m)]_vars
  BY ManagerSteps, ConsentStep DEF Consent
<1> QED BY <1>1, TypeInvariant, PTL DEF Spec, TrustHasConsent

-----------------------------------------------------------------------------
(* What one step may do to a connection *)

\* The client's end. A stream ends in FIN or with a peer that is gone.
ClientMoves(cn, new) ==
  \/ cn.cli = "dialing" /\ new = Encrypted(cn)
  \/ /\ ClientSocketOpen(cn) /\ cn.toClient # << >>
     /\ \/ Head(cn.toClient) = "ACCEPT" /\ new = ReadAccept(cn)
        \/ Head(cn.toClient) = "REJECT" /\ new = ReadReject(cn)
        \/ Head(cn.toClient) = "DISCONNECT" /\ new = ReadDisconnect(cn)
  \/ /\ \/ ClientSocketOpen(cn) /\ cn.toClient # << >> /\ Head(cn.toClient) = "FIN"
        \/ cn.cli = "session" /\ cn.srv = "gone"
        \/ (cn.cli = "dialing" \/ ClientSocketOpen(cn)) /\ cn.link = "down"
     /\ new = ClientDisconnected(cn)
  \/ cn.cli = "session" /\ cn.link = "down" /\ new = MissedKeepAlives(cn)
  \/ TimeoutRunning(cn) /\ new = TimedOut(cn)
  \/ cn.cli # "unused" /\ new = Dropped(cn)
  \/ /\ cn.cli \in {"dialing", "requested", "session", "spent"}
     /\ new = PhoneDropped(cn)

\* The server's end.
ServerMoves(cn, new) ==
  /\ InSessions(cn)
  /\ \/ /\ cn.toServer # << >>
        /\ \/ /\ Head(cn.toServer) = "REQUEST"
              /\ new \in {ReadRequest(cn), Accepted(ReadRequest(cn)), Rejected(ReadRequest(cn))}
           \/ Head(cn.toServer) = "DISCONNECT" /\ new = ReadHangUp(cn)
     \/ new \in {ServerDisconnected(cn, << >>), ServerDisconnected(cn, <<"FIN">>)}
     \/ cn.bound /\ new \in {Accepted(cn), Rejected(cn), HungUp(cn)}

LinkMoves(cn, new) ==
  \/ new = [cn EXCEPT !.link = "down"]
  \/ cn.link = "down" /\ new = [cn EXCEPT !.link = "healed"]

Opened(cn, new) ==
  cn.cli = "unused" /\ \E d \in Devices, g \in Hosts, r \in Conns : new = Dialled(d, g, r)

ConnStep(cn, new) ==
  \/ new = cn
  \/ ClientMoves(cn, new)
  \/ ServerMoves(cn, new)
  \/ LinkMoves(cn, new)
  \/ Opened(cn, new)

\* A step that changes connection c alone.
LEMMA OneConnChanges ==
  ASSUME TypeInv, NEW c \in Conns, NEW new, conn' = [conn EXCEPT ![c] = new]
  PROVE  \A k \in Conns : conn'[k] = IF k = c THEN new ELSE conn[k]
BY DEF TypeInv, TypeOK

\* Each step of a client.
LEMMA ClientConnSteps ==
  ASSUME TypeInv, NEW c \in Conns,
         ClientStep(c) \/ ClientSocketError(c) \/ PhoneHangsUp(c)
  PROVE  /\ \A k \in Conns : conn'[k] = IF k = c THEN conn'[c] ELSE conn[k]
         /\ ClientMoves(conn[c], conn'[c])
<1>1. conn[c].link \in Link
  BY DEF TypeInv, TypeOK, ConnType
<1>2. PICK new : conn' = [conn EXCEPT ![c] = new] /\ ClientMoves(conn[c], new)
  <2> USE DEF ClientReads, Reachable
  <2>1. CASE TlsEstablished(c) \/ KeepAlivesMissed(c) \/ RequestTimesOut(c)
    BY <1>1, <2>1 DEF Link, TlsEstablished, KeepAlivesMissed, RequestTimesOut, ClientMoves
  <2>2. CASE ReceiveAccept(c) \/ ReceiveReject(c) \/ ReceiveDisconnect(c)
    BY <2>2 DEF ReceiveAccept, ReceiveReject, ReceiveDisconnect, ClientMoves
  <2>3. CASE ClientReadsEnd(c) \/ ClientSocketError(c)
    BY <1>1, <2>3 DEF Link, ClientReadsEnd, ClientSocketError, ClientDisconnects, ClientMoves
  <2>4. CASE PhoneHangsUp(c)
    BY <2>4 DEF PhoneHangsUp, ClientMoves
  <2> QED BY <2>1, <2>2, <2>3, <2>4 DEF ClientStep
<1> QED BY <1>2, OneConnChanges

\* Each step of a server.
LEMMA ServerConnSteps ==
  ASSUME TypeInv, NEW c \in Conns, ServerStep(c) \/ ServerSocketError(c)
  PROVE  /\ \A k \in Conns : conn'[k] = IF k = c THEN conn'[c] ELSE conn[k]
         /\ ServerMoves(conn[c], conn'[c])
<1> USE DEF ServerReads
<1>1. PICK new : conn' = [conn EXCEPT ![c] = new] /\ ServerMoves(conn[c], new)
  <2>1. CASE ReceiveRequest(c)
    <3>1. PICK answer \in Answers(mgr[conn[c].target], conn[c].target, conn[c].owner) :
            conn' = [conn EXCEPT ![c] =
                       CASE answer = "accept" -> Accepted(ReadRequest(@))
                         [] answer = "prompt" -> ReadRequest(@)
                         [] answer \in {"decline", "fail"} -> Rejected(ReadRequest(@))]
      BY <2>1 DEF ReceiveRequest
    <3>2. answer \in {"accept", "prompt", "decline", "fail"}
      BY DEF Answers
    <3> QED BY <2>1, <3>1, <3>2 DEF ReceiveRequest, ServerMoves
  <2>2. CASE ReceiveHangUp(c)
    BY <2>2 DEF ReceiveHangUp, ServerMoves
  <2>3. CASE ServerCloses(c) \/ ServerReadsEnd(c) \/ ServerSocketError(c)
    BY <2>3 DEF ServerCloses, ServerReadsEnd, ServerSocketError, ServerSocketGone,
                ServerMoves, InSessions
  <2> QED BY <2>1, <2>2, <2>3 DEF ServerStep
<1> QED BY <1>1, OneConnChanges

\* A client replaced by another.
LEMMA ReplacedConnSteps ==
  ASSUME SessionInv, NEW h \in Hosts, NEW g \in Hosts, NEW r \in Conns, NEW c \in Conns,
         IsFresh(c), conn' = ClientReplaced(h, c, g, r)
  PROVE  \A k \in Conns : ConnStep(conn[k], conn'[k])
<1>1. mgr[h].client # None => Used(mgr[h].client)
  BY SessionHere DEF Wellformed
<1>2. h \in Devices
  BY DEF Devices
<1>3. ASSUME NEW k \in Conns, k = mgr[h].client
      PROVE  conn[k].cli # "unused"
  BY <1>1, <1>3 DEF Used, Conns, None
<1> QED BY <1>2, <1>3 DEF ClientReplaced, IsFresh, ConnStep, ClientMoves, Opened

\* A socket the manager finds by its request.
LEMMA SocketConnSteps ==
  ASSUME SessionInv, NEW h \in Hosts, NEW r \in Conns, NEW k \in Conns,
         \/ conn' = OnSocketOf(h, r, Accepted)
         \/ conn' = OnSocketOf(h, r, Rejected)
         \/ conn' = OnSocketOf(h, r, HungUp)
  PROVE  ConnStep(conn[k], conn'[k])
<1>1. k = requestToSocket[h][r] => conn[k].bound /\ InSessions(conn[k])
  BY DEF SessionInv, MappedSocketInSessions, Conns, None
<1> QED BY <1>1 DEF OnSocketOf, ConnStep, ServerMoves

\* So every step changes every connection as ConnStep says.
LEMMA ConnSteps ==
  ASSUME SessionInv, [Next]_vars
  PROVE  \A k \in Conns : ConnStep(conn[k], conn'[k])
<1>0. TypeInv /\ conn \in [Conns -> ConnType]
  BY DEF SessionInv, TypeInv, TypeOK
<1>1. CASE UNCHANGED conn
  BY <1>1 DEF ConnStep
<1>2. ASSUME NEW c \in Conns,
             \/ ClientStep(c) \/ ClientSocketError(c) \/ PhoneHangsUp(c)
             \/ ServerStep(c) \/ ServerSocketError(c)
      PROVE  \A k \in Conns : ConnStep(conn[k], conn'[k])
  BY <1>0, <1>2, ClientConnSteps, ServerConnSteps DEF ConnStep
<1>3. ASSUME NEW c \in Conns, LinkChanges(c)
      PROVE  \A k \in Conns : ConnStep(conn[k], conn'[k])
  BY <1>0, <1>3, OneConnChanges DEF LinkChanges, LinkDown, LinkHeals, ConnStep, LinkMoves
<1>4. ASSUME NEW h \in Hosts, \E g \in Hosts : Dial(h, g)
      PROVE  \A k \in Conns : ConnStep(conn[k], conn'[k])
  BY <1>4, ReplacedConnSteps DEF Dial
<1>5. ASSUME NEW h \in Hosts, ReconnectTick(h)
      PROVE  \A k \in Conns : ConnStep(conn[k], conn'[k])
  <2>1. CASE \E c \in Conns : /\ IsFresh(c)
                              /\ conn' = ClientReplaced(h, c, conn[mgr[h].client].target, mgr[h].req)
                              /\ mgr[h].req # None
    <3>1. mgr[h].client \in Conns /\ Used(mgr[h].client) /\ mgr[h].req \in Conns
      BY <1>5, <2>1, SessionHere DEF Wellformed, ManagerType, ConnOrNone, ReconnectTick
    <3> QED BY <1>0, <2>1, <3>1, UsedConns, ReplacedConnSteps
  <2> QED BY <1>1, <1>5, <2>1 DEF ReconnectTick
<1>6. ASSUME NEW h \in Hosts, Approve(h) \/ Refuse(h)
      PROVE  \A k \in Conns : ConnStep(conn[k], conn'[k])
  <2>1. mgr[h].prompt \in Conns
    BY <1>6, SessionHere DEF Approve, Refuse, ManagerType
  <2> QED BY <1>6, <2>1, SocketConnSteps DEF Approve, Refuse
<1>7. ASSUME NEW h \in Hosts, Disconnect(h)
      PROVE  \A k \in Conns : ConnStep(conn[k], conn'[k])
  <2>1. /\ mgr[h].active => mgr[h].req \in Conns
        /\ mgr[h].client # None => mgr[h].client \in Conns /\ Used(mgr[h].client)
    BY SessionHere DEF Wellformed, ManagerType, ConnOrNone
  <2>2. CASE mgr[h].client # None
    BY <1>0, <1>7, <2>1, <2>2, OneConnChanges DEF Disconnect, ConnStep, ClientMoves, Used
  <2>3. CASE mgr[h].client = None
    BY <1>1, <1>7, <2>1, <2>3, SocketConnSteps DEF Disconnect
  <2> QED BY <2>2, <2>3
<1>8. ASSUME NEW h \in Hosts, Quit(h)
      PROVE  \A k \in Conns : ConnStep(conn[k], conn'[k])
  <2>1. \A k \in Conns : k = mgr[h].client => conn[k].cli # "unused"
    BY SessionHere DEF Wellformed, Used, Conns, None
  <2>2. \A k \in Conns :
          conn'[k] = CASE k = mgr[h].client -> Dropped(conn[k])
                       [] k # mgr[h].client /\ conn[k].target = h /\ InSessions(conn[k])
                            -> ServerDisconnected(conn[k], <<"FIN">>)
                       [] OTHER -> conn[k]
    BY <1>8 DEF Quit
  <2> QED BY <2>1, <2>2 DEF ConnStep, ClientMoves, ServerMoves
<1>9. ASSUME NEW p \in Phones, NEW h \in Hosts, PhoneDials(p, h)
      PROVE  \A k \in Conns : ConnStep(conn[k], conn'[k])
  <2>1. p \in Devices
    BY DEF Devices
  <2>2. PICK c \in Conns : conn[c].cli = "unused" /\ conn' = [conn EXCEPT ![c] = Dialled(p, h, c)]
    BY <1>9 DEF PhoneDials, IsFresh
  <2> QED BY <1>0, <2>1, <2>2, OneConnChanges DEF ConnStep, Opened
<1>10. ASSUME NEW h \in Hosts,
              \/ \E p \in Phones : Invite(h, p)
              \/ ConnectFails(h) \/ InviteTimeout(h)
              \/ \E d \in Devices : RevokeTrust(h, d)
       PROVE  UNCHANGED conn
  BY <1>10 DEF Invite, ConnectFails, InviteTimeout, RevokeTrust, chanVars
<1> QED BY <1>1, <1>2, <1>3, <1>4, <1>5, <1>6, <1>7, <1>8, <1>9, <1>10
        DEF Next, Network, User, Timer, vars

-----------------------------------------------------------------------------
(* What may be under way on one connection *)

\* The messages a server may still have to read: at most one request, then at
\* most one way to end the stream.
Streams ==
  {<< >>, <<"REQUEST">>, <<"REQUEST", "FIN">>, <<"REQUEST", "DISCONNECT", "FIN">>,
   <<"FIN">>, <<"DISCONNECT", "FIN">>}

OpenStreams == {<< >>, <<"REQUEST">>}

\* Both ends of a connection and its two queues, whatever managers, users and
\* network do to them. The parts about a link that is up say that a client that
\* has left told the server so.
Flow(cn) ==
  /\ cn.toServer \in Streams
  /\ cn.bound => cn.toServer \in {<< >>, <<"FIN">>, <<"DISCONNECT", "FIN">>}
  /\ cn.cli \in {"unused", "dialing"} => cn.srv = "none"
  /\ cn.srv = "none" =>
       /\ cn.cli \in {"unused", "dialing", "closed", "gone"} /\ ~cn.bound
       /\ cn.toServer = << >> /\ cn.toClient = << >>
  /\ cn.srv = "gone" => cn.toServer = << >>
  /\ ClientSocketOpen(cn) => cn.toServer \in OpenStreams
  /\ ~ClientSocketOpen(cn) => cn.toClient = << >>
  /\ cn.link = "up" /\ InSessions(cn) /\ cn.cli \in {"closed", "gone"} =>
       cn.toServer \notin OpenStreams
  /\ cn.link = "up" /\ cn.srv = "open" => cn.cli \in {"requested", "session", "closed", "gone"}
  /\ cn.srv = "open" => cn.toClient \in Seq({"ACCEPT"})
  /\ cn.srv # "gone" => cn.toClient \in Seq(ToClientMsg \ {"FIN"})

FlowInv == SessionInv /\ \A c \in Conns : Flow(conn[c])

\* One or two messages, and one or two more.
LEMMA Joined ==
  ASSUME NEW a, NEW b, NEW c
  PROVE  /\ <<a>> \o <<b>> = <<a, b>>
         /\ <<a>> \o <<b, c>> = <<a, b, c>> /\ <<a, b>> \o <<c>> = <<a, b, c>>
<1> DEFINE S == {a, b, c}
<1>1. <<a>> \o <<b>> = <<a, b>>
  <2> DEFINE s == <<a>> \o <<b>>
             t == <<a, b>>
  <2>1. s \in Seq(S) /\ Len(s) = 2
    OBVIOUS
  <2>2. t \in Seq(S) /\ Len(t) = 2
    OBVIOUS
  <2>3. \A i \in 1 .. 2 : s[i] = t[i]
    OBVIOUS
  <2> HIDE DEF s, t
  <2>4. s = t
    BY <2>1, <2>2, <2>3, SeqEqual
  <2> QED BY <2>4 DEF s, t
<1>2. <<a>> \o <<b, c>> = <<a, b, c>>
  <2> DEFINE s == <<a>> \o <<b, c>>
             t == <<a, b, c>>
  <2>1. s \in Seq(S) /\ Len(s) = 3
    OBVIOUS
  <2>2. t \in Seq(S) /\ Len(t) = 3
    OBVIOUS
  <2>3. \A i \in 1 .. 3 : s[i] = t[i]
    OBVIOUS
  <2> HIDE DEF s, t
  <2>4. s = t
    BY <2>1, <2>2, <2>3, SeqEqual
  <2> QED BY <2>4 DEF s, t
<1>3. <<a, b>> \o <<c>> = <<a, b, c>>
  <2> DEFINE s == <<a, b>> \o <<c>>
             t == <<a, b, c>>
  <2>1. s \in Seq(S) /\ Len(s) = 3
    OBVIOUS
  <2>2. t \in Seq(S) /\ Len(t) = 3
    OBVIOUS
  <2>3. \A i \in 1 .. 3 : s[i] = t[i]
    OBVIOUS
  <2> HIDE DEF s, t
  <2>4. s = t
    BY <2>1, <2>2, <2>3, SeqEqual
  <2> QED BY <2>4 DEF s, t
<1> QED BY <1>1, <1>2, <1>3

\* Reading from such a stream and ending it.
LEMMA StreamOps ==
  /\ \A q \in Streams : q # << >> /\ Head(q) = "REQUEST" =>
       /\ Tail(q) \in {<< >>, <<"FIN">>, <<"DISCONNECT", "FIN">>}
       /\ IF q \in OpenStreams THEN Tail(q) = << >> ELSE Tail(q) \notin OpenStreams
  /\ \A q \in Streams : q # << >> /\ Head(q) = "DISCONNECT" =>
       Tail(q) = <<"FIN">> /\ q \notin OpenStreams
  /\ \A q \in {<< >>, <<"FIN">>, <<"DISCONNECT", "FIN">>} :
       q # << >> => Head(q) # "REQUEST"
  /\ \A q \in OpenStreams :
       /\ q \o <<"FIN">> \in Streams \ OpenStreams
       /\ q \o <<"DISCONNECT", "FIN">> \in Streams \ OpenStreams
  /\ << >> \o <<"FIN">> = <<"FIN">>
  /\ << >> \o <<"DISCONNECT", "FIN">> = <<"DISCONNECT", "FIN">>
  /\ {<<"FIN">>, <<"DISCONNECT", "FIN">>} \cap OpenStreams = {}
<1>1. /\ Tail(<<"REQUEST">>) = << >>
      /\ Tail(<<"REQUEST", "FIN">>) = <<"FIN">>
      /\ Tail(<<"REQUEST", "DISCONNECT", "FIN">>) = <<"DISCONNECT", "FIN">>
      /\ Tail(<<"DISCONNECT", "FIN">>) = <<"FIN">>
  OBVIOUS
<1>2. /\ Head(<<"REQUEST">>) = "REQUEST" /\ Head(<<"FIN">>) = "FIN"
      /\ Head(<<"REQUEST", "FIN">>) = "REQUEST"
      /\ Head(<<"REQUEST", "DISCONNECT", "FIN">>) = "REQUEST"
      /\ Head(<<"DISCONNECT", "FIN">>) = "DISCONNECT"
  OBVIOUS
<1>3. /\ << >> \o <<"FIN">> = <<"FIN">>
      /\ << >> \o <<"DISCONNECT", "FIN">> = <<"DISCONNECT", "FIN">>
      /\ <<"REQUEST">> \o <<"FIN">> = <<"REQUEST", "FIN">>
      /\ <<"REQUEST">> \o <<"DISCONNECT", "FIN">> = <<"REQUEST", "DISCONNECT", "FIN">>
  <2>1. << >> \o <<"FIN">> = <<"FIN">> /\ << >> \o <<"DISCONNECT", "FIN">> = <<"DISCONNECT", "FIN">>
    OBVIOUS
  <2>2. /\ <<"REQUEST">> \o <<"FIN">> = <<"REQUEST", "FIN">>
        /\ <<"REQUEST">> \o <<"DISCONNECT", "FIN">> = <<"REQUEST", "DISCONNECT", "FIN">>
    BY Joined
  <2> QED BY <2>1, <2>2
<1>4. \A q \in Streams \ OpenStreams : q # << >> /\ q # <<"REQUEST">>
  BY DEF OpenStreams
<1>5. /\ <<"FIN">> \notin OpenStreams /\ <<"DISCONNECT", "FIN">> \notin OpenStreams
      /\ <<"REQUEST", "FIN">> \notin OpenStreams
      /\ <<"REQUEST", "DISCONNECT", "FIN">> \notin OpenStreams
  <2>1. /\ Len(<<"DISCONNECT", "FIN">>) = 2 /\ Len(<<"REQUEST", "FIN">>) = 2
        /\ Len(<<"REQUEST", "DISCONNECT", "FIN">>) = 3
        /\ Len(<<"REQUEST">>) = 1 /\ Len(<<"FIN">>) = 1 /\ Len(<< >>) = 0
    OBVIOUS
  <2>2. \A q \in OpenStreams : Len(q) = 0 \/ q = <<"REQUEST">>
    BY DEF OpenStreams
  <2>3. <<"FIN">> \notin OpenStreams
    BY <1>2, <2>1, <2>2
  <2> QED BY <2>1, <2>2, <2>3
<1>6. \A q \in Streams : q # << >> /\ Head(q) = "REQUEST" =>
        q \in {<<"REQUEST">>, <<"REQUEST", "FIN">>, <<"REQUEST", "DISCONNECT", "FIN">>}
  BY <1>2 DEF Streams
<1>7. \A q \in Streams : q # << >> /\ Head(q) = "DISCONNECT" => q = <<"DISCONNECT", "FIN">>
  BY <1>2 DEF Streams
<1>8. \A q \in OpenStreams :
       /\ q \o <<"FIN">> \in Streams \ OpenStreams
       /\ q \o <<"DISCONNECT", "FIN">> \in Streams \ OpenStreams
  BY <1>3, <1>5 DEF OpenStreams, Streams
<1>9. \A q \in Streams : q # << >> /\ Head(q) = "REQUEST" =>
       /\ Tail(q) \in {<< >>, <<"FIN">>, <<"DISCONNECT", "FIN">>}
       /\ IF q \in OpenStreams THEN Tail(q) = << >> ELSE Tail(q) \notin OpenStreams
  BY <1>1, <1>5, <1>6 DEF OpenStreams
<1> QED BY <1>1, <1>2, <1>3, <1>5, <1>7, <1>8, <1>9

\* The answers of a server that has not closed.
LEMMA AcceptOps ==
  \A q \in Seq({"ACCEPT"}) :
    /\ q \o <<"ACCEPT">> \in Seq({"ACCEPT"}) /\ q \o <<"ACCEPT">> # << >>
    /\ q # << >> => Tail(q) \in Seq({"ACCEPT"}) /\ Head(q) = "ACCEPT"
<1>1. <<"ACCEPT">> \in Seq({"ACCEPT"})
  OBVIOUS
<1> QED BY <1>1

\* The messages of a server that has not gone.
LEMMA NoFinOps ==
  \A q \in Seq(ToClientMsg \ {"FIN"}) :
    /\ \A msg \in ToClientMsg \ {"FIN"} : q \o <<msg>> \in Seq(ToClientMsg \ {"FIN"})
    /\ q # << >> => Tail(q) \in Seq(ToClientMsg \ {"FIN"}) /\ Head(q) # "FIN"
<1>1. \A msg \in ToClientMsg \ {"FIN"} : <<msg>> \in Seq(ToClientMsg \ {"FIN"})
  OBVIOUS
<1> QED BY <1>1

\* What the client's end does keeps Flow.
LEMMA ClientFlow ==
  ASSUME NEW cn \in ConnType, Flow(cn), NEW new, ClientMoves(cn, new)
  PROVE  Flow(new)
<1> USE DEF ConnType, Flow, ClientSocketOpen, InSessions, ClientPhase, ServerPhase
<1>1. /\ << >> \in Streams /\ <<"REQUEST">> \in Streams /\ << >> \in OpenStreams
      /\ <<"REQUEST">> \in OpenStreams /\ <<"FIN">> \in Streams
      /\ <<"DISCONNECT", "FIN">> \in Streams
      /\ << >> \in Seq({"ACCEPT"}) /\ << >> \in Seq(ToClientMsg \ {"FIN"})
  BY DEF Streams, OpenStreams
<1>2. CASE cn.cli = "dialing" /\ new = Encrypted(cn)
  BY <1>1, <1>2 DEF Encrypted
<1>3. ASSUME ClientSocketOpen(cn), cn.toClient # << >>
      PROVE  /\ Head(cn.toClient) = "ACCEPT" => Flow(ReadAccept(cn))
             /\ Head(cn.toClient) = "REJECT" => Flow(ReadReject(cn))
             /\ Head(cn.toClient) = "DISCONNECT" => Flow(ReadDisconnect(cn))
  <2>1. /\ cn.srv = "open" => Tail(cn.toClient) \in Seq({"ACCEPT"}) /\ Head(cn.toClient) = "ACCEPT"
        /\ cn.srv # "gone" => Tail(cn.toClient) \in Seq(ToClientMsg \ {"FIN"})
    BY <1>3, AcceptOps, NoFinOps
  <2>2. Head(cn.toClient) = "ACCEPT" => Flow(ReadAccept(cn))
    BY <1>3, <2>1 DEF ReadAccept
  <2>3. Head(cn.toClient) = "REJECT" => Flow(ReadReject(cn))
    BY <1>3, <2>1 DEF ReadReject
  <2>4. ASSUME Head(cn.toClient) = "DISCONNECT" PROVE Flow(ReadDisconnect(cn))
    BY <1>1, <1>3, <2>1, <2>4, StreamOps DEF ReadDisconnect, LoopLeft, ToServer
  <2> QED BY <2>2, <2>3, <2>4
<1>4. ASSUME \/ ClientSocketOpen(cn) /\ cn.toClient # << >> /\ Head(cn.toClient) = "FIN"
             \/ cn.cli = "session" /\ cn.srv = "gone"
             \/ (cn.cli = "dialing" \/ ClientSocketOpen(cn)) /\ cn.link = "down"
      PROVE  Flow(ClientDisconnected(cn))
  <2>1. cn.srv # "gone" /\ cn.toClient # << >> => Head(cn.toClient) # "FIN"
    BY NoFinOps
  <2>2. CASE ClientSocketOpen(cn) /\ cn.toClient # << >> /\ Head(cn.toClient) = "FIN"
    <3>1. cn.srv = "gone"
      BY <2>1, <2>2
    <3> QED BY <1>1, <2>2, <3>1 DEF ClientDisconnected
  <2>3. CASE cn.cli = "session" /\ cn.srv = "gone"
    BY <1>1, <2>3 DEF ClientDisconnected
  <2>4. CASE (cn.cli = "dialing" \/ ClientSocketOpen(cn)) /\ cn.link = "down"
    BY <1>1, <2>4 DEF ClientDisconnected
  <2> QED BY <1>4, <2>2, <2>3, <2>4
<1>5. ASSUME cn.cli = "session", cn.link = "down" PROVE Flow(MissedKeepAlives(cn))
  BY <1>1, <1>5, StreamOps DEF MissedKeepAlives, LoopLeft, ToServer
<1>6. ASSUME TimeoutRunning(cn) PROVE Flow(TimedOut(cn))
  BY <1>1, <1>6, StreamOps DEF TimeoutRunning, TimedOut, ToServer
<1>7. ASSUME cn.cli # "unused" PROVE Flow(Dropped(cn))
  BY <1>1, <1>7, StreamOps DEF Dropped, ToServer
<1>8. ASSUME cn.cli \in {"dialing", "requested", "session", "spent"}
      PROVE  Flow(PhoneDropped(cn))
  BY <1>1, <1>8, StreamOps DEF PhoneDropped, ToServer
<1> QED BY <1>2, <1>3, <1>4, <1>5, <1>6, <1>7, <1>8 DEF ClientMoves

\* What the server's end does keeps Flow.
LEMMA ServerFlow ==
  ASSUME NEW cn \in ConnType, Flow(cn), NEW new, ServerMoves(cn, new)
  PROVE  Flow(new)
<1> USE DEF ConnType, Flow, ClientSocketOpen, InSessions, ClientPhase, ServerPhase
<1>1. /\ << >> \in Streams /\ << >> \in OpenStreams
      /\ <<"FIN">> \in Streams /\ <<"DISCONNECT", "FIN">> \in Streams
      /\ << >> \in Seq({"ACCEPT"}) /\ << >> \in Seq(ToClientMsg \ {"FIN"})
  BY DEF Streams, OpenStreams
<1>2. ASSUME NEW x \in ConnType, Flow(x), InSessions(x)
      PROVE  Flow(Accepted(x)) /\ Flow(Rejected(x)) /\ Flow(HungUp(x))
  <2>1. /\ x.toClient \in Seq({"ACCEPT"}) => x.toClient \o <<"ACCEPT">> \in Seq({"ACCEPT"})
        /\ \A msg \in {"ACCEPT", "REJECT", "DISCONNECT"} :
             x.toClient \o <<msg>> \in Seq(ToClientMsg \ {"FIN"})
    BY <1>2, AcceptOps, NoFinOps DEF ToClientMsg
  <2>2. Flow(Accepted(x))
    <3> DEFINE y == Accepted(x)
    <3>1. /\ y.toServer = x.toServer /\ y.bound = x.bound /\ y.cli = x.cli
          /\ y.srv = x.srv /\ y.link = x.link /\ y.toClient = ToClient(x, <<"ACCEPT">>)
      BY DEF Accepted
    <3> HIDE DEF y
    <3>2. /\ ~ClientSocketOpen(x) => y.toClient = << >>
          /\ x.srv = "open" => y.toClient \in Seq({"ACCEPT"})
          /\ x.srv # "gone" => y.toClient \in Seq(ToClientMsg \ {"FIN"})
      BY <1>1, <1>2, <2>1, <3>1 DEF ToClient
    <3>3. Flow(y)
      BY <1>2, <3>1, <3>2
    <3> QED BY <3>3 DEF y
  <2>3. Flow(Rejected(x))
    <3> DEFINE y == Rejected(x)
    <3>1. /\ y.toServer = x.toServer /\ y.bound = x.bound /\ y.cli = x.cli
          /\ y.srv = "closing" /\ y.link = x.link /\ y.toClient = ToClient(x, <<"REJECT">>)
      BY DEF Rejected
    <3> HIDE DEF y
    <3>2. /\ ~ClientSocketOpen(x) => y.toClient = << >>
          /\ y.toClient \in Seq(ToClientMsg \ {"FIN"})
      BY <1>1, <1>2, <2>1, <3>1 DEF ToClient
    <3>3. Flow(y)
      BY <1>2, <3>1, <3>2
    <3> QED BY <3>3 DEF y
  <2>4. Flow(HungUp(x))
    BY ZenonT(30), <1>2, <1>1, <2>1 DEF HungUp, ToClient
  <2> QED BY <2>2, <2>3, <2>4
<1>3. ASSUME InSessions(cn), cn.toServer # << >>, Head(cn.toServer) = "REQUEST"
      PROVE  Flow(ReadRequest(cn)) /\ ReadRequest(cn) \in ConnType /\ InSessions(ReadRequest(cn))
  <2>1. Flow(ReadRequest(cn))
    <3>1. /\ Tail(cn.toServer) \in {<< >>, <<"FIN">>, <<"DISCONNECT", "FIN">>}
          /\ IF cn.toServer \in OpenStreams
             THEN Tail(cn.toServer) = << >> ELSE Tail(cn.toServer) \notin OpenStreams
      BY <1>3, StreamOps
    <3>2. Tail(cn.toServer) \in Streams /\ (cn.toServer \in OpenStreams => Tail(cn.toServer) \in OpenStreams)
      BY <1>1, <1>3, <3>1
    <3> QED BY <1>3, <3>1, <3>2 DEF ReadRequest
  <2>2. ReadRequest(cn) \in ConnType
    BY <1>3, QueueOps DEF ReadRequest
  <2> QED BY <1>3, <2>1, <2>2 DEF ReadRequest
<1>4. ASSUME InSessions(cn), cn.toServer # << >>, Head(cn.toServer) = "DISCONNECT"
      PROVE  Flow(ReadHangUp(cn))
  <2>1. Tail(cn.toServer) = <<"FIN">> /\ <<"FIN">> \notin OpenStreams
    BY <1>4, StreamOps
  <2>2. ~ClientSocketOpen(cn)
    BY <1>4, StreamOps
  <2> QED BY <1>1, <1>4, <2>1, <2>2 DEF ReadHangUp
<1>5. InSessions(cn) =>
        Flow(ServerDisconnected(cn, << >>)) /\ Flow(ServerDisconnected(cn, <<"FIN">>))
  BY <1>1 DEF ServerDisconnected, ToClient
<1>6. ASSUME InSessions(cn), cn.toServer # << >>, Head(cn.toServer) = "REQUEST"
      PROVE  Flow(Accepted(ReadRequest(cn))) /\ Flow(Rejected(ReadRequest(cn)))
  <2> DEFINE x == ReadRequest(cn)
  <2>1. x \in ConnType /\ Flow(x) /\ InSessions(x)
    BY <1>3, <1>6
  <2> HIDE DEF x
  <2>2. Flow(Accepted(x)) /\ Flow(Rejected(x))
    BY <1>2, <2>1
  <2> QED BY <2>2 DEF x
<1>7. InSessions(cn) => Flow(Accepted(cn)) /\ Flow(Rejected(cn)) /\ Flow(HungUp(cn))
  BY <1>2
<1> HIDE DEF Flow, InSessions, ConnType
<1> QED BY <1>3, <1>4, <1>5, <1>6, <1>7 DEF ServerMoves

\* So does every step.
LEMMA FlowStep ==
  ASSUME NEW cn \in ConnType, Flow(cn), NEW new, ConnStep(cn, new)
  PROVE  Flow(new)
<1> USE DEF Flow, ClientSocketOpen, InSessions
<1>1. CASE LinkMoves(cn, new)
  BY <1>1 DEF LinkMoves, ConnType
<1>2. CASE Opened(cn, new)
  BY <1>2 DEF Opened, Dialled, UnusedConn, Streams
<1> QED BY <1>1, <1>2, ClientFlow, ServerFlow DEF ConnStep

\* So FlowInv is inductive.
LEMMA FlowNext == ASSUME FlowInv, [Next]_vars PROVE FlowInv'
BY NextSession, ConnSteps, FlowStep DEF FlowInv, SessionInv, TypeInv, TypeOK

\* It holds of connections nobody has opened.
LEMMA InitFlow == ASSUME Init PROVE FlowInv
<1>1. Flow(UnusedConn)
  BY DEF UnusedConn, Flow, Streams, ClientSocketOpen, InSessions
<1> QED BY <1>1, InitSession DEF Init, ChanInit, FlowInv

-----------------------------------------------------------------------------
(* Whoever is heard believes in the session, or will be told *)

\* The client of a socket that was not closed is in the session, or there is
\* something on its way to one end or the other.
Conveyed(cn) ==
  cn.srv = "open" /\ cn.link = "up" =>
    cn.cli = "session" \/ cn.toClient # << >> \/ cn.toServer # << >>

Caller(h) == conn[requestToSocket[h][mgr[h].req]]

CallerInv == FlowInv /\ \A h \in Hosts : mgr[h].audio = "receive" => Conveyed(Caller(h))

\* Nothing that happens to a connection whose request was read undoes it.
LEMMA ConveyedStep ==
  ASSUME NEW cn \in ConnType, Flow(cn), cn.bound, Conveyed(cn), NEW new, ConnStep(cn, new)
  PROVE  Conveyed(new)
<1> USE DEF ConnType, Conveyed, ClientSocketOpen, InSessions
<1>1. CASE ClientMoves(cn, new)
  <2> USE StreamOps DEF Flow
  <2>1. /\ cn.cli = "dialing" => cn.srv # "open"
        /\ cn.srv = "open" /\ cn.toClient # << >> => Head(cn.toClient) = "ACCEPT"
    BY AcceptOps
  <2>2. CASE /\ ClientSocketOpen(cn) /\ cn.toClient # << >>
             /\ \/ Head(cn.toClient) = "ACCEPT" /\ new = ReadAccept(cn)
                \/ Head(cn.toClient) = "REJECT" /\ new = ReadReject(cn)
                \/ Head(cn.toClient) = "DISCONNECT" /\ new = ReadDisconnect(cn)
    BY ZenonT(30), <2>1, <2>2 DEF ReadAccept, ReadReject, ReadDisconnect, LoopLeft
  <2>3. CASE /\ \/ ClientSocketOpen(cn) /\ cn.toClient # << >> /\ Head(cn.toClient) = "FIN"
                \/ cn.cli = "session" /\ cn.srv = "gone"
                \/ (cn.cli = "dialing" \/ ClientSocketOpen(cn)) /\ cn.link = "down"
             /\ new = ClientDisconnected(cn)
    BY <2>1, <2>3 DEF ClientDisconnected
  <2>4. CASE cn.cli = "session" /\ cn.link = "down" /\ new = MissedKeepAlives(cn)
    BY <2>4 DEF MissedKeepAlives, LoopLeft
  <2>5. CASE TimeoutRunning(cn) /\ new = TimedOut(cn)
    BY <2>1, <2>5 DEF TimeoutRunning, TimedOut, ToServer, OpenStreams
  <2>6. CASE cn.cli # "unused" /\ new = Dropped(cn)
    BY <2>1, <2>6 DEF Dropped, ToServer, OpenStreams
  <2>7. CASE cn.cli \in {"dialing", "requested", "session", "spent"} /\ new = PhoneDropped(cn)
    BY <2>1, <2>7 DEF PhoneDropped, ToServer, OpenStreams
  <2>8. CASE cn.cli = "dialing" /\ new = Encrypted(cn)
    BY <2>8 DEF Encrypted
  <2> QED BY <1>1, <2>2, <2>3, <2>4, <2>5, <2>6, <2>7, <2>8 DEF ClientMoves
<1>2. CASE ServerMoves(cn, new)
  <2>1. ~(cn.toServer # << >> /\ Head(cn.toServer) = "REQUEST")
    BY StreamOps DEF Flow
  <2>2. CASE new = Accepted(cn)
    <3>1. ClientSocketOpen(cn) /\ cn.srv = "open" =>
            cn.toClient \o <<"ACCEPT">> # << >>
      BY AcceptOps DEF Flow
    <3>2. cn.srv = "open" /\ cn.link = "up" /\ ~ClientSocketOpen(cn) => cn.toServer # << >>
      BY DEF Flow, OpenStreams
    <3> QED BY <2>2, <3>1, <3>2 DEF Accepted, ToClient
  <2>3. CASE new.srv \in {"closing", "gone"}
    BY <2>3
  <2>4. new = Accepted(cn) \/ new.srv \in {"closing", "gone"}
    BY <1>2, <2>1 DEF ServerMoves, ReadHangUp, ServerDisconnected, Rejected, HungUp
  <2> QED BY <2>2, <2>3, <2>4
<1>3. CASE LinkMoves(cn, new)
  BY <1>3 DEF LinkMoves
<1>4. CASE Opened(cn, new)
  BY <1>4 DEF Opened, Dialled, UnusedConn
<1> QED BY <1>1, <1>2, <1>3, <1>4 DEF ConnStep

\* An accepted request is conveyed, and so is a closed socket.
LEMMA ConveyedAnswer ==
  ASSUME NEW cn \in ConnType, Flow(cn), InSessions(cn)
  PROVE  /\ cn.bound => Conveyed(Accepted(cn))
         /\ cn.toServer # << >> /\ Head(cn.toServer) = "REQUEST" =>
              /\ Conveyed(Accepted(ReadRequest(cn)))
              /\ Conveyed(Rejected(ReadRequest(cn)))
<1> USE DEF ConnType, Conveyed, ClientSocketOpen, InSessions, Flow
<1>1. ClientSocketOpen(cn) /\ cn.srv = "open" => cn.toClient \o <<"ACCEPT">> # << >>
  BY AcceptOps
<1>2. << >> \in OpenStreams
  BY DEF OpenStreams
<1>3. cn.bound => Conveyed(Accepted(cn))
  BY <1>1, <1>2 DEF Accepted, ToClient
<1>4. ASSUME cn.toServer # << >>, Head(cn.toServer) = "REQUEST"
      PROVE  Conveyed(Accepted(ReadRequest(cn))) /\ Conveyed(Rejected(ReadRequest(cn)))
  <2>1. cn.toServer \notin OpenStreams => Tail(cn.toServer) # << >>
    BY <1>2, <1>4, StreamOps
  <2>2. Conveyed(Rejected(ReadRequest(cn)))
    BY DEF Rejected, ReadRequest
  <2>3. Conveyed(Accepted(ReadRequest(cn)))
    BY <1>1, <2>1 DEF Accepted, ReadRequest, ToClient
  <2> QED BY <2>2, <2>3
<1> QED BY <1>3, <1>4

\* A manager that is fed goes on with the caller it had.
SameCaller(m, new) == new.audio = "receive" => m.audio = "receive" /\ new.req = m.req

\* Only a request that is accepted or approved gives it another.
LEMMA CallerSlots ==
  ASSUME NEW m \in ManagerType, m.audio = "receive" => m.active, NEW h, NEW new
  PROVE  /\ ByClient(h, m, new) => SameCaller(m, new)
         /\ ByHost(h, m, new) => SameCaller(m, new)
         /\ \A r : new = OnClientDisconnected(m, r) =>
                     SameCaller(m, new) /\ (new.audio = "receive" => r # m.req)
         /\ \A r : new = [m EXCEPT !.pending = @ \ {r}, !.prompt = None,
                                   !.state = IF m.req = r /\ ~m.active THEN "Idle" ELSE @]
                     => SameCaller(m, new)
<1> USE DEF SameCaller, ManagerType
<1>1. ByClient(h, m, new) => SameCaller(m, new)
  BY DEF ByClient, OnOutgoingResponse, OnOutgoingTimedOut, OnConnectionLost,
         OnRemoteDisconnected, ReconnectStopped, Failed, Ended
<1>2. ByHost(h, m, new) => SameCaller(m, new)
  <2>1. ByCall(h, m, new) => SameCaller(m, new)
    BY DEF ByCall
  <2>2. ByUser(m, new) => SameCaller(m, new)
    <3>1. new = Failed(m) => SameCaller(m, new)
      BY DEF Failed
    <3>2. new = [Ended(ReconnectStopped(m)) EXCEPT !.invited = NoDevice, !.client = None]
            => SameCaller(m, new)
      BY DEF Ended, ReconnectStopped
    <3>3. \A d : new = [m EXCEPT !.trusted = @ \ {d}] => SameCaller(m, new)
      OBVIOUS
    <3>4. new = [Started(m.trusted) EXCEPT !.running = FALSE] => SameCaller(m, new)
      BY DEF Started
    <3> QED BY <3>1, <3>2, <3>3, <3>4 DEF ByUser
  <2>3. ByTimer(m, new) => SameCaller(m, new)
    BY DEF ByTimer, Failed, Ended, ReconnectStopped
  <2> QED BY <2>1, <2>2, <2>3 DEF ByHost
<1>3. \A r : new = OnClientDisconnected(m, r) =>
               SameCaller(m, new) /\ (new.audio = "receive" => r # m.req)
  BY DEF OnClientDisconnected, Ended
<1>4. \A r : new = [m EXCEPT !.pending = @ \ {r}, !.prompt = None,
                             !.state = IF m.req = r /\ ~m.active THEN "Idle" ELSE @]
               => SameCaller(m, new)
  OBVIOUS
<1> QED BY <1>1, <1>2, <1>3, <1>4

\* What the invariant says of one desktop.
LEMMA CallerHere ==
  ASSUME CallerInv, NEW h \in Hosts
  PROVE  /\ SessionInv /\ mgr[h] \in ManagerType
         /\ mgr[h].audio = "receive" =>
              /\ mgr[h].active /\ mgr[h].req \in Conns
              /\ requestToSocket[h][mgr[h].req] \in Conns
              /\ Caller(h) \in ConnType /\ Flow(Caller(h)) /\ Caller(h).bound
              /\ Conveyed(Caller(h))
<1>1. SessionInv
  BY DEF CallerInv, FlowInv
<1>2. ASSUME mgr[h].audio = "receive"
      PROVE  mgr[h].active /\ mgr[h].req \in Conns /\ requestToSocket[h][mgr[h].req] # None
  BY <1>1, <1>2, SessionHere DEF Coupled, Wellformed, ManagerType, ConnOrNone
<1> QED BY <1>1, <1>2, SessionHere
        DEF CallerInv, FlowInv, SessionInv, TypeInv, TypeOK, MappedSocketInSessions,
            ConnOrNone, Caller

\* A desktop that keeps its caller, and its caller's socket.
LEMMA KeptCaller ==
  ASSUME CallerInv, [Next]_vars, NEW h \in Hosts, SameCaller(mgr[h], mgr'[h]),
         mgr'[h].audio = "receive" =>
           requestToSocket'[h][mgr[h].req] = requestToSocket[h][mgr[h].req],
         mgr'[h].audio = "receive"
  PROVE  Conveyed(Caller(h)')
<1> DEFINE c == requestToSocket[h][mgr[h].req]
<1>1. Caller(h)' = conn'[c] /\ Caller(h) = conn[c] /\ c \in Conns
  BY CallerHere DEF SameCaller, Caller
<1>2. ConnStep(conn[c], conn'[c])
  BY <1>1, CallerHere, ConnSteps
<1> QED BY <1>1, <1>2, CallerHere, ConveyedStep DEF SameCaller

\* Steps at a server: a request that is taken is conveyed, and one that is
\* declined under the id of the caller closes the socket it came over.
LEMMA ServerCaller ==
  ASSUME CallerInv, NEW c \in Conns, ServerStep(c) \/ ServerSocketError(c), [Next]_vars,
         NEW h \in Hosts, mgr'[h].audio = "receive"
  PROVE  Conveyed(Caller(h)')
<1> DEFINE g == conn[c].target
           r == conn[c].req
           d == conn[c].owner
<1>1. SessionInv /\ TypeInv
  BY CallerHere DEF SessionInv
<1>2. InSessions(conn[c]) /\ Used(c)
  <2>1. InSessions(conn[c])
    BY DEF ServerStep, ServerCloses, ReceiveRequest, ReceiveHangUp, ServerReadsEnd,
           ServerSocketError, ServerReads, InSessions
  <2> QED BY <1>1, <2>1, UsedWhen
<1>3. /\ conn[c] \in ConnType /\ Flow(conn[c]) /\ g \in Hosts /\ r \in Conns
      /\ mgr \in [Hosts -> ManagerType]
      /\ requestToSocket \in [Hosts -> [Conns -> ConnOrNone]]
      /\ conn \in [Conns -> ConnType]
  BY <1>1, <1>2, UsedConns DEF CallerInv, FlowInv, TypeInv, TypeOK
<1>4. CASE ReceiveRequest(c)
  <2> DEFINE m == mgr[g]
             cn == conn[c]
  <2>1. /\ cn.toServer # << >> /\ Head(cn.toServer) = "REQUEST"
        /\ \A x \in Hosts, k \in Conns :
             requestToSocket'[x][k] = IF x = g /\ k = r THEN c ELSE requestToSocket[x][k]
    BY <1>3, <1>4 DEF ReceiveRequest, ServerReads, Bind
  <2>2. PICK answer \in Answers(m, g, d) :
          /\ mgr'[g] = OnIncomingRequest(m, g, r, d, answer)
          /\ \A x \in Hosts : x # g => mgr'[x] = mgr[x]
          /\ conn'[c] = CASE answer = "accept" -> Accepted(ReadRequest(cn))
                          [] answer = "prompt" -> ReadRequest(cn)
                          [] answer \in {"decline", "fail"} -> Rejected(ReadRequest(cn))
    BY <1>3, <1>4 DEF ReceiveRequest, Set
  <2>3. CASE h # g
    BY <2>1, <2>2, <2>3, CallerHere, KeptCaller DEF SameCaller
  <2>4. CASE h = g /\ answer = "accept"
    <3>1. mgr'[h].req = r
      BY ZenonT(30), <1>3, <2>2, <2>4 DEF OnIncomingRequest, Receiving, ManagerType
    <3>2. Caller(h)' = Accepted(ReadRequest(cn))
      BY <1>3, <2>1, <2>2, <2>4, <3>1 DEF Caller
    <3> QED BY <1>2, <1>3, <2>1, <3>2, ConveyedAnswer
  <2>5. CASE h = g /\ answer = "decline"
    <3>1. mgr'[h] = mgr[h]
      BY <2>2, <2>5 DEF OnIncomingRequest
    <3>2. CASE mgr[h].req = r
      <4>1. Caller(h)' = Rejected(ReadRequest(cn))
        <5>1. requestToSocket'[h][mgr'[h].req] = c
          BY <1>3, <2>1, <2>5, <3>1, <3>2
        <5>2. conn'[c] = Rejected(ReadRequest(cn))
          BY <2>2, <2>5
        <5> QED BY <5>1, <5>2 DEF Caller
      <4> QED BY <1>2, <1>3, <2>1, <4>1, ConveyedAnswer
    <3>3. CASE mgr[h].req # r
      BY <2>1, <3>1, <3>3, CallerHere, KeptCaller DEF SameCaller
    <3> QED BY <3>2, <3>3
  <2>6. CASE h = g /\ answer \notin {"accept", "decline"}
    <3>1. answer \in {"fail", "prompt"} /\ ~m.active
      BY <2>6 DEF Answers
    <3>2. m.audio # "receive"
      BY <2>6, <3>1, CallerHere
    <3>3. mgr'[h].audio # "receive"
      BY ZenonT(30), <1>3, <2>2, <2>6, <3>1, <3>2 DEF OnIncomingRequest, ReceiveFailed, Failed, ManagerType
    <3> QED BY <3>3
  <2> QED BY <2>3, <2>4, <2>5, <2>6
<1>5. CASE ReceiveHangUp(c) \/ (\E msgs : ServerSocketGone(c, msgs))
  <2>1. \/ UNCHANGED mgr /\ UNCHANGED requestToSocket
        \/ /\ mgr' = [mgr EXCEPT ![g] = OnClientDisconnected(mgr[g], r)]
           /\ UNCHANGED requestToSocket \/ Unbind(g, r)
    BY <1>5 DEF ReceiveHangUp, ServerSocketGone, UnbindSocket, Set
  <2>2. CASE UNCHANGED mgr /\ UNCHANGED requestToSocket
    BY <2>2, KeptCaller DEF SameCaller
  <2>3. CASE /\ mgr' = [mgr EXCEPT ![g] = OnClientDisconnected(mgr[g], r)]
             /\ UNCHANGED requestToSocket \/ Unbind(g, r)
    <3>1. mgr'[h] = IF h = g THEN OnClientDisconnected(mgr[g], r) ELSE mgr[h]
      BY <1>3, <2>3
    <3>2. SameCaller(mgr[h], mgr'[h]) /\ (h = g => r # mgr[h].req)
      <4>1. CASE h # g
        BY <3>1, <4>1 DEF SameCaller
      <4>2. CASE h = g
        <5>1. mgr[h] \in ManagerType /\ (mgr[h].audio = "receive" => mgr[h].active)
          BY CallerHere
        <5>2. mgr'[h] = OnClientDisconnected(mgr[h], r)
          BY <3>1, <4>2
        <5> QED BY <5>1, <5>2, CallerSlots
      <4> QED BY <4>1, <4>2
    <3>3. mgr[h].req \in Conns
      BY <3>2, CallerHere DEF SameCaller
    <3>4. requestToSocket'[h][mgr[h].req] = requestToSocket[h][mgr[h].req]
      BY <1>3, <2>3, <3>2, <3>3 DEF Unbind, Bind
    <3> QED BY <3>2, <3>4, KeptCaller
  <2> QED BY <2>1, <2>2, <2>3
<1> QED BY <1>4, <1>5 DEF ServerStep, ServerCloses, ServerReadsEnd, ServerSocketError

\* The user's answer.
LEMMA AnswerCaller ==
  ASSUME CallerInv, NEW g \in Hosts, Approve(g) \/ Refuse(g), [Next]_vars,
         NEW h \in Hosts, mgr'[h].audio = "receive"
  PROVE  Conveyed(Caller(h)')
<1> DEFINE m == mgr[g]
           r == m.prompt
           waiting == [m EXCEPT !.pending = @ \ {r}]
<1>1. /\ SessionInv /\ mgr \in [Hosts -> ManagerType]
      /\ UNCHANGED requestToSocket
  BY CallerHere DEF SessionInv, TypeInv, TypeOK, Approve, Refuse
<1>2. PICK new : /\ Set(g, new)
                 /\ \/ new = Receiving(waiting, g, r, conn[r].owner) /\ Approve(g)
                       /\ conn' = OnSocketOf(g, r, Accepted)
                    \/ new = ReceiveFailed(waiting)
                    \/ new = [m EXCEPT !.pending = @ \ {r}, !.prompt = None,
                                !.state = IF m.req = r /\ ~m.active THEN "Idle" ELSE @]
  BY DEF Approve, Refuse
<1>3. mgr'[h] = IF h = g THEN new ELSE mgr[h]
  BY <1>1, <1>2 DEF Set
<1>4. CASE h # g
  BY <1>1, <1>3, <1>4, KeptCaller DEF SameCaller
<1>5. CASE h = g /\ new = Receiving(waiting, g, r, conn[r].owner) /\ Approve(g)
                 /\ conn' = OnSocketOf(g, r, Accepted)
  <2> DEFINE c == requestToSocket[g][r]
  <2>1. mgr'[h].req = r /\ r \in m.pending /\ r \in Conns
    BY <1>1, <1>3, <1>5 DEF Receiving, ManagerType, Approve
  <2>2. /\ c \in Conns /\ conn[c] \in ConnType /\ Flow(conn[c])
        /\ conn[c].bound /\ InSessions(conn[c])
    <3>1. c # None
      BY <1>1, <2>1, SessionHere DEF Coupled
    <3> QED BY <1>1, <2>1, <3>1 DEF CallerInv, FlowInv, SessionInv, TypeInv, TypeOK,
                                    MappedSocketInSessions, ConnOrNone
  <2>3. conn'[c] = Accepted(conn[c])
    BY <1>5, <2>2 DEF OnSocketOf
  <2> QED BY <1>1, <1>5, <2>1, <2>2, <2>3, ConveyedAnswer DEF Caller
<1>6. CASE h = g /\ new = ReceiveFailed(waiting)
  BY <1>1, <1>3, <1>6 DEF ReceiveFailed, Failed, ManagerType
<1>7. CASE h = g /\ new = [m EXCEPT !.pending = @ \ {r}, !.prompt = None,
                             !.state = IF m.req = r /\ ~m.active THEN "Idle" ELSE @]
  BY <1>1, <1>3, <1>7, CallerHere, CallerSlots, KeptCaller
<1> QED BY <1>2, <1>4, <1>5, <1>6, <1>7

\* All other steps of users and timers.
LEMMA HostCaller ==
  ASSUME CallerInv, NEW g \in Hosts, OtherUserOrTimer(g), [Next]_vars,
         NEW h \in Hosts, mgr'[h].audio = "receive"
  PROVE  Conveyed(Caller(h)')
<1>1. TypeInv /\ mgr \in [Hosts -> ManagerType]
      /\ requestToSocket \in [Hosts -> [Conns -> ConnOrNone]]
  BY CallerHere DEF SessionInv, TypeInv, TypeOK
<1>2. SameCaller(mgr[h], mgr'[h])
  <2>1. mgr'[h] = mgr[h] \/ ByHost(h, mgr[h], mgr'[h])
    BY <1>1, HostManagerSteps
  <2> QED BY <2>1, CallerHere, CallerSlots DEF SameCaller
<1>3. CASE UNCHANGED requestToSocket
  BY <1>2, <1>3, KeptCaller
<1>4. CASE Disconnect(g) \/ Quit(g)
  <2>1. h # g
    <3>1. mgr'[g].audio = "off"
      <4>1. CASE Disconnect(g)
        BY <1>1, <4>1 DEF Disconnect, Set, Ended, ReconnectStopped, ManagerType
      <4>2. CASE Quit(g)
        BY <1>1, <4>2 DEF Quit, Set, Started
      <4> QED BY <1>4, <4>1, <4>2
    <3> QED BY <3>1
  <2>2. requestToSocket'[h] = requestToSocket[h]
    BY <1>1, <1>4, <2>1 DEF Disconnect, Quit, Unbind, Bind
  <2> QED BY <1>2, <2>2, KeptCaller
<1>5. UNCHANGED requestToSocket \/ Disconnect(g) \/ Quit(g)
  BY DEF OtherUserOrTimer, Dial, Invite, ConnectFails, RevokeTrust, Timer, InviteTimeout,
         ReconnectTick, chanVars
<1> QED BY <1>3, <1>4, <1>5

\* So CallerInv is inductive.
LEMMA CallerNext == ASSUME CallerInv, [Next]_vars PROVE CallerInv'
<1> SUFFICES ASSUME NEW h \in Hosts, mgr'[h].audio = "receive" PROVE Conveyed(Caller(h)')
  BY FlowNext DEF CallerInv
<1>1. CASE UNCHANGED <<requestToSocket, mgr>>
  BY <1>1, KeptCaller DEF SameCaller
<1>2. ASSUME NEW c \in Conns, ClientStep(c) \/ ClientSocketError(c)
      PROVE  Conveyed(Caller(h)')
  <2>1. UNCHANGED requestToSocket
    BY <1>2 DEF ClientStep, TlsEstablished, ReceiveAccept, ReceiveReject, ReceiveDisconnect,
                ClientReadsEnd, ClientSocketError, ClientDisconnects, KeepAlivesMissed,
                RequestTimesOut
  <2>2. mgr'[h] = mgr[h] \/ ByClient(h, mgr[h], mgr'[h])
    BY <1>2, CallerHere, ClientManagerSteps DEF SessionInv
  <2>3. SameCaller(mgr[h], mgr'[h])
    BY <2>2, CallerHere, CallerSlots DEF SameCaller
  <2> QED BY <2>1, <2>3, KeptCaller
<1>3. CASE \E c \in Conns : LinkChanges(c) \/ PhoneHangsUp(c)
  BY <1>1, <1>3 DEF LinkChanges, PhoneHangsUp
<1>4. CASE \E p \in Phones, g \in Hosts : PhoneDials(p, g)
  BY <1>1, <1>4 DEF PhoneDials
<1>5. CASE \E g \in Hosts : User(g) \/ Timer(g)
  BY <1>5, AnswerCaller, HostCaller DEF User, OtherUserOrTimer
<1> QED BY <1>1, <1>2, <1>3, <1>4, <1>5, ServerCaller DEF Next, Network, vars

\* A desktop that plays a caller's microphone has a caller whose client is in
\* the session too, once nothing is under way between them.
THEOREM ReceiverAlwaysHasCaller == Spec => []ReceiverHasCaller
<1>1. Init => CallerInv
  BY InitFlow DEF Init, ManagerInit, Started, CallerInv
<1>2. CallerInv /\ [Next]_vars => CallerInv'
  BY CallerNext
<1>3. CallerInv => ReceiverHasCaller
  BY DEF CallerInv, Caller, Conveyed, ReceiverHasCaller, Settled
<1> QED BY <1>1, <1>2, <1>3, PTL DEF Spec

-----------------------------------------------------------------------------
(* One desktop and its phones *)

OneDesktop == \A g, h \in Hosts : g = h

\* What no step changes of a connection.
LEMMA EndsStay ==
  ASSUME NEW cn \in ConnType, NEW new, ConnStep(cn, new), cn.cli # "unused"
  PROVE  /\ new.owner = cn.owner /\ new.target = cn.target /\ new.req = cn.req
         /\ new.cli # "unused"
<1> USE DEF ConnType
<1>1. CASE ClientMoves(cn, new)
  BY <1>1 DEF ClientMoves, Encrypted, ReadAccept, ReadReject, ReadDisconnect, LoopLeft,
              ClientDisconnected, MissedKeepAlives, TimedOut, Dropped, PhoneDropped
<1>2. CASE ServerMoves(cn, new)
  BY <1>2 DEF ServerMoves, ReadRequest, Accepted, Rejected, HungUp, ReadHangUp, ServerDisconnected
<1>3. CASE LinkMoves(cn, new)
  BY <1>3 DEF LinkMoves
<1> QED BY <1>1, <1>2, <1>3 DEF ConnStep, Opened

\* Who opens a connection: a phone, a desktop that calls another, or one that
\* reconnects.
OpenedBy(c, new) ==
  \/ \E p \in Phones, g \in Hosts : new = Dialled(p, g, c)
  \/ \E h \in Hosts : \E g \in Hosts \ {h} : ~mgr[h].active /\ new = Dialled(h, g, c)
  \/ \E h \in Hosts : mgr[h].reconnecting

\* A connection nobody used is opened by one of these, if at all.
LEMMA Openings ==
  ASSUME SessionInv, [Next]_vars, NEW k \in Conns, ~Used(k)
  PROVE  conn'[k] = conn[k] \/ OpenedBy(k, conn'[k])
<1>0. TypeInv /\ conn \in [Conns -> ConnType]
  BY DEF SessionInv, TypeInv, TypeOK
<1>1. CASE UNCHANGED conn
  BY <1>1
<1>2. ASSUME NEW c \in Conns,
             \/ ClientStep(c) \/ ClientSocketError(c) \/ PhoneHangsUp(c)
             \/ ServerStep(c) \/ ServerSocketError(c)
      PROVE  conn'[k] = conn[k]
  <2>1. Used(c) /\ (k # c => conn'[k] = conn[k])
    <3>1. CASE ClientStep(c) \/ ClientSocketError(c) \/ PhoneHangsUp(c)
      BY <1>0, <3>1, ClientConnSteps DEF ClientMoves, Used, ClientSocketOpen, TimeoutRunning
    <3>2. CASE ServerStep(c) \/ ServerSocketError(c)
      BY <1>0, <3>2, ServerConnSteps, UsedWhen DEF ServerMoves
    <3> QED BY <1>2, <3>1, <3>2
  <2> QED BY <2>1
<1>3. ASSUME NEW c \in Conns, LinkChanges(c)
      PROVE  conn'[k] = conn[k]
  <2>1. Used(c)
    BY <1>0, <1>3 DEF LinkChanges, LinkDown, LinkHeals, Used, ClientSocketOpen, InSessions,
                      TypeInv, ConnShape, UnusedConn
  <2> QED BY <1>0, <1>3, <2>1, OneConnChanges DEF LinkChanges, LinkDown, LinkHeals
<1>4. ASSUME NEW h \in Hosts, \E g \in Hosts : Dial(h, g)
      PROVE  conn'[k] = conn[k] \/ OpenedBy(k, conn'[k])
  <2>1. PICK g \in Hosts, c \in Conns :
          conn' = ClientReplaced(h, c, g, c) /\ g # h /\ ~mgr[h].active
    BY <1>4 DEF Dial
  <2>2. k # mgr[h].client
    BY SessionHere DEF Wellformed, Conns, None
  <2>3. conn'[k] = IF k = c THEN Dialled(h, g, c) ELSE conn[k]
    BY <2>1, <2>2 DEF ClientReplaced
  <2> QED BY <2>1, <2>3 DEF OpenedBy
<1>5. ASSUME NEW h \in Hosts, ReconnectTick(h)
      PROVE  conn'[k] = conn[k] \/ OpenedBy(k, conn'[k])
  BY <1>5 DEF ReconnectTick, OpenedBy
<1>6. ASSUME NEW h \in Hosts, NEW r \in Conns,
             \/ conn' = OnSocketOf(h, r, Accepted)
             \/ conn' = OnSocketOf(h, r, Rejected)
             \/ conn' = OnSocketOf(h, r, HungUp)
      PROVE  conn'[k] = conn[k]
  <2>1. k # requestToSocket[h][r]
    BY <1>0, UsedWhen DEF SessionInv, MappedSocketInSessions, Conns, None
  <2> QED BY <1>6, <2>1 DEF OnSocketOf
<1>7. ASSUME NEW h \in Hosts, Approve(h) \/ Refuse(h)
      PROVE  conn'[k] = conn[k]
  <2>1. mgr[h].prompt \in Conns
    BY <1>7, SessionHere DEF Approve, Refuse, ManagerType
  <2> QED BY <1>6, <1>7, <2>1 DEF Approve, Refuse
<1>8. ASSUME NEW h \in Hosts, Disconnect(h)
      PROVE  conn'[k] = conn[k]
  <2>1. /\ mgr[h].active => mgr[h].req \in Conns
        /\ k # mgr[h].client
    BY SessionHere DEF Wellformed, ManagerType, ConnOrNone, Conns, None
  <2>2. CASE mgr[h].client # None
    BY <1>0, <1>8, <2>1, <2>2 DEF Disconnect
  <2>3. CASE mgr[h].client = None
    BY <1>6, <1>8, <2>1, <2>3 DEF Disconnect
  <2> QED BY <2>2, <2>3
<1>9. ASSUME NEW h \in Hosts, Quit(h)
      PROVE  conn'[k] = conn[k]
  <2>1. k # mgr[h].client /\ ~InSessions(conn[k])
    BY <1>0, UsedWhen, SessionHere DEF Wellformed, Conns, None
  <2> QED BY <1>9, <2>1 DEF Quit
<1>10. ASSUME NEW p \in Phones, NEW h \in Hosts, PhoneDials(p, h)
       PROVE  conn'[k] = conn[k] \/ OpenedBy(k, conn'[k])
  BY <1>0, <1>10, OneConnChanges DEF PhoneDials, OpenedBy
<1>11. ASSUME NEW h \in Hosts,
              \/ \E p \in Phones : Invite(h, p)
              \/ ConnectFails(h) \/ InviteTimeout(h)
              \/ \E d \in Devices : RevokeTrust(h, d)
       PROVE  UNCHANGED conn
  BY <1>11 DEF Invite, ConnectFails, InviteTimeout, RevokeTrust, chanVars
<1> QED BY <1>1, <1>2, <1>3, <1>4, <1>5, <1>7, <1>8, <1>9, <1>10, <1>11
        DEF Next, Network, User, Timer, vars

\* The manager of such a desktop: it has no client, so it never sends and never
\* reconnects; and what it shows is what refuses further calls.
Lone(m) ==
  /\ m.client = None /\ ~m.reconnecting
  /\ \A r, s \in m.pending : r = s
  /\ m.active => m.pending = {}
  /\ m.active <=> m.state = "Streaming"
  /\ m.active => m.audio = "receive"

\* Every step of a manager keeps it so.
LEMMA LoneStep ==
  ASSUME OneDesktop, NEW m \in ManagerType, Lone(m), NEW h \in Hosts, NEW new,
         ManagerStep(h, m, new)
  PROVE  Lone(new)
<1> USE DEF Lone, ManagerType
<1>1. CASE ByClient(h, m, new)
  BY <1>1 DEF ByClient, Conns, None
<1>2. CASE ByServer(h, m, new)
  <2>1. ASSUME NEW r, NEW d, NEW answer \in Answers(m, h, d)
        PROVE  Lone(OnIncomingRequest(m, h, r, d, answer))
    <3> DEFINE welcome == [m EXCEPT !.invited = IF @ = d THEN NoDevice ELSE @]
    <3>1. answer \in {"decline", "accept", "fail", "prompt"}
      BY DEF Answers
    <3>2. CASE answer = "decline"
      BY <3>2 DEF OnIncomingRequest
    <3>3. CASE answer # "decline"
      <4>1. ~m.active /\ m.pending = {}
        BY <3>3 DEF Answers
      <4>2. Lone(Receiving(welcome, h, r, d))
        BY <4>1 DEF Receiving
      <4>3. Lone(ReceiveFailed(welcome))
        BY <4>1 DEF ReceiveFailed, Failed
      <4>4. Lone([welcome EXCEPT !.pending = {r}, !.req = r,
                                 !.state = "AwaitingApproval", !.prompt = r])
        BY <4>1
      <4> QED BY <3>1, <3>3, <4>2, <4>3, <4>4 DEF OnIncomingRequest
    <3> QED BY <3>2, <3>3
  <2>2. \A r : Lone(OnClientDisconnected(m, r))
    BY DEF OnClientDisconnected, Ended
  <2> QED BY <1>2, <2>1, <2>2 DEF ByServer
<1>3. CASE ByCall(h, m, new)
  BY <1>3 DEF ByCall, OneDesktop
<1>4. CASE ByAnswer(h, m, new)
  <2> DEFINE r == m.prompt
             waiting == [m EXCEPT !.pending = @ \ {r}]
             refused == [m EXCEPT !.pending = @ \ {r}, !.prompt = None,
                                  !.state = IF m.req = r /\ ~m.active THEN "Idle" ELSE @]
  <2>1. r \in m.pending /\ ~m.active /\ m.pending \ {r} = {}
    BY <1>4 DEF ByAnswer
  <2>2. \A d : Lone(Receiving(waiting, h, r, d))
    BY <2>1 DEF Receiving
  <2>3. Lone(ReceiveFailed(waiting))
    BY <2>1 DEF ReceiveFailed, Failed
  <2>4. Lone(refused)
    BY <2>1
  <2>5. \/ new = Receiving(waiting, h, r, conn[r].owner)
        \/ new = ReceiveFailed(waiting)
        \/ new = refused
    BY <1>4 DEF ByAnswer
  <2> HIDE DEF Lone, waiting, refused
  <2> QED BY <2>2, <2>3, <2>4, <2>5
<1>5. CASE ByUser(m, new)
  <2>1. Lone(Failed(m))
    BY DEF Failed
  <2>2. Lone([Ended(ReconnectStopped(m)) EXCEPT !.invited = NoDevice, !.client = None])
    BY DEF Ended, ReconnectStopped
  <2>3. \A d : Lone([m EXCEPT !.trusted = @ \ {d}])
    OBVIOUS
  <2>4. Lone([Started(m.trusted) EXCEPT !.running = FALSE])
    BY DEF Started
  <2> QED BY ZenonT(30), <1>5, <2>1, <2>2, <2>3, <2>4 DEF ByUser
<1>6. CASE ByTimer(m, new)
  <2>1. new = IF m.active THEN [m EXCEPT !.invited = NoDevice]
              ELSE Failed([m EXCEPT !.invited = NoDevice, !.state = "Idle"])
    BY <1>6 DEF ByTimer
  <2>2. CASE m.active
    BY <2>1, <2>2
  <2>3. CASE ~m.active
    BY <2>1, <2>3 DEF Failed
  <2> QED BY <2>2, <2>3
<1> QED BY <1>1, <1>2, <1>3, <1>4, <1>5, <1>6 DEF ManagerStep

LoneInv ==
  /\ FlowInv
  /\ \A h \in Hosts : Lone(mgr[h])
  /\ \A c \in Conns : Used(c) => conn[c].owner \in Phones /\ conn[c].req = c

\* So LoneInv is inductive.
LEMMA LoneNext == ASSUME OneDesktop, LoneInv, [Next]_vars PROVE LoneInv'
<1>1. FlowInv' /\ SessionInv /\ TypeInv
  BY FlowNext DEF LoneInv, FlowInv, SessionInv
<1>2. \A h \in Hosts : Lone(mgr'[h])
  BY <1>1, ManagerSteps, ManagersHere, LoneStep DEF LoneInv
<1>3. ASSUME NEW c \in Conns, Used(c)'
      PROVE  conn'[c].owner \in Phones /\ conn'[c].req = c
  <2>1. conn[c] \in ConnType
    BY <1>1 DEF TypeInv, TypeOK
  <2>2. CASE Used(c)
    BY <1>1, <2>1, <2>2, ConnSteps, EndsStay DEF LoneInv, Used
  <2>3. CASE ~Used(c)
    <3>1. OpenedBy(c, conn'[c])
      BY <1>1, <1>3, <2>3, Openings DEF Used
    <3>2. \E p \in Phones, g \in Hosts : conn'[c] = Dialled(p, g, c)
      BY <3>1 DEF OpenedBy, OneDesktop, LoneInv, Lone
    <3> QED BY <3>2 DEF Dialled, UnusedConn
  <2> QED BY <2>2, <2>3
<1> QED BY <1>1, <1>2, <1>3 DEF LoneInv

\* It holds of a desktop that has just started.
LEMMA InitLone == ASSUME Init PROVE LoneInv
BY InitFlow DEF LoneInv, Lone, Init, ChanInit, ManagerInit, Started, UnusedConn, Used

\* A desktop that only phones call never shows Idle over a connection that
\* refuses every other, nor Streaming over none.
THEOREM LoneStateIsTrue == ASSUME OneDesktop PROVE Spec => []StateIsTrue
<1>1. Init => LoneInv
  BY InitLone
<1>2. LoneInv /\ [Next]_vars => LoneInv'
  BY OneDesktop, LoneNext
<1>3. LoneInv => StateIsTrue
  BY DEF LoneInv, Lone, StateIsTrue, IdleIsInactive, StreamingIsActive
<1> QED BY <1>1, <1>2, <1>3, PTL DEF Spec

\* The server has accepted what this connection asked.
Answered(cn) == cn.srv = "open" /\ (cn.toClient # << >> \/ cn.cli = "session")

\* The desktop at the other end plays k and knows its socket.
Played(k) == Heard(k) /\ requestToSocket[conn[k].target][k] = k

PlayedInv == LoneInv /\ \A k \in Conns : Answered(conn[k]) => Played(k)

\* Only a server that accepts makes a connection an answered one.
LEMMA AnsweredStep ==
  ASSUME NEW cn \in ConnType, Flow(cn), NEW new, Answered(new)
  PROVE  /\ ClientMoves(cn, new) => Answered(cn)
         /\ LinkMoves(cn, new) => Answered(cn)
         /\ ~Opened(cn, new)
<1> USE DEF ConnType, Answered, ClientSocketOpen, InSessions
<1>1. ASSUME ClientMoves(cn, new) PROVE Answered(cn)
  BY <1>1 DEF Flow, ClientMoves, Encrypted, ReadAccept, ReadReject, ReadDisconnect, LoopLeft,
              ClientDisconnected, MissedKeepAlives, TimedOut, Dropped, PhoneDropped
<1>2. LinkMoves(cn, new) => Answered(cn)
  BY DEF LinkMoves
<1>3. ~Opened(cn, new)
  BY DEF Opened, Dialled, UnusedConn
<1> QED BY <1>1, <1>2, <1>3

\* What the invariant says of one connection that is answered.
LEMMA PlayedHere ==
  ASSUME OneDesktop, PlayedInv, NEW k \in Conns, Answered(conn[k])
  PROVE  LET h == conn[k].target
             m == mgr[h]
         IN  /\ h \in Hosts /\ conn[k].req = k /\ conn[k].srv = "open" /\ Used(k)
             /\ m.audio = "receive" /\ m.req = k /\ m.active /\ m.pending = {}
             /\ m.client = None /\ ~m.reconnecting /\ m \in ManagerType
             /\ requestToSocket[h][k] = k
<1>1. SessionInv /\ TypeInv
  BY DEF PlayedInv, LoneInv, FlowInv, SessionInv
<1>2. Used(k)
  BY <1>1, UsedWhen DEF Answered, InSessions
<1>3. conn[k].target \in Hosts /\ conn[k].req = k
  BY <1>1, <1>2, UsedConns DEF PlayedInv, LoneInv
<1> QED BY <1>1, <1>2, <1>3, SessionHere DEF PlayedInv, LoneInv, Lone, Played, Heard, Coupled, Answered

\* A desktop whose manager and map do not change goes on playing what it plays.
LEMMA PlayedStays ==
  ASSUME OneDesktop, PlayedInv, [Next]_vars, NEW k \in Conns, Answered(conn[k]),
         LET h == conn[k].target
         IN  /\ mgr'[h].audio = "receive" /\ mgr'[h].req = k
             /\ requestToSocket'[h][k] = k
  PROVE  Played(k)'
<1>1. conn'[k].target = conn[k].target /\ conn'[k].req = k
  BY PlayedHere, ConnSteps, EndsStay
     DEF PlayedInv, LoneInv, FlowInv, SessionInv, TypeInv, TypeOK, Used
<1> QED BY <1>1 DEF Played, Heard

\* Steps that move clients and links alone.
LEMMA ClientPlayed ==
  ASSUME OneDesktop, PlayedInv, [Next]_vars, NEW k \in Conns, Answered(conn'[k]),
         UNCHANGED <<requestToSocket, mgr>>,
         \/ conn'[k] = conn[k] \/ ClientMoves(conn[k], conn'[k])
         \/ LinkMoves(conn[k], conn'[k]) \/ Opened(conn[k], conn'[k])
  PROVE  Played(k)'
<1>1. conn[k] \in ConnType /\ Flow(conn[k])
  BY DEF PlayedInv, LoneInv, FlowInv, SessionInv, TypeInv, TypeOK
<1>2. Answered(conn[k])
  BY <1>1, AnsweredStep
<1> QED BY <1>2, PlayedHere, PlayedStays

\* Steps at the server: a phone that is heard keeps every other out, so what is
\* taken is new, and what is declined or hangs up is another.
LEMMA ServerPlayed ==
  ASSUME OneDesktop, PlayedInv, [Next]_vars, NEW k \in Conns, Answered(conn'[k]),
         NEW c \in Conns, ServerStep(c) \/ ServerSocketError(c)
  PROVE  Played(k)'
<1> DEFINE g == conn[c].target
           d == conn[c].owner
           m == mgr[g]
           cn == conn[c]
<1>1. /\ SessionInv /\ TypeInv
      /\ mgr \in [Hosts -> ManagerType]
      /\ requestToSocket \in [Hosts -> [Conns -> ConnOrNone]]
      /\ conn \in [Conns -> ConnType]
  BY DEF PlayedInv, LoneInv, FlowInv, SessionInv, TypeInv, TypeOK
<1>2. ServerMoves(cn, conn'[c]) /\ (k # c => conn'[k] = conn[k])
  BY <1>1, ServerConnSteps
<1>3. Used(c) /\ g \in Hosts /\ cn.req = c
  BY <1>1, <1>2, UsedWhen, UsedConns DEF ServerMoves, PlayedInv, LoneInv
<1>4. CASE ReceiveRequest(c)
  <2>1. \A x \in Hosts, r \in Conns :
             requestToSocket'[x][r] = IF x = g /\ r = c THEN c ELSE requestToSocket[x][r]
    BY <1>1, <1>3, <1>4 DEF ReceiveRequest, Bind
  <2>2. PICK answer \in Answers(m, g, d) :
          /\ mgr'[g] = OnIncomingRequest(m, g, c, d, answer)
          /\ conn'[c] = CASE answer = "accept" -> Accepted(ReadRequest(cn))
                          [] answer = "prompt" -> ReadRequest(cn)
                          [] answer \in {"decline", "fail"} -> Rejected(ReadRequest(cn))
    BY ZenonT(30), <1>1, <1>3, <1>4 DEF ReceiveRequest, Set
  <2>3. CASE k # c
    <3>1. Answered(conn[k])
      BY <1>2, <2>3
    <3>2. conn[k].target = g /\ m.active /\ m.audio = "receive" /\ m.req = k
          /\ requestToSocket[g][k] = k
      BY <1>3, <3>1, PlayedHere DEF OneDesktop
    <3>3. mgr'[g] = m
      BY <2>2, <3>2 DEF Answers, OnIncomingRequest
    <3> QED BY <1>3, <2>1, <2>3, <3>1, <3>2, <3>3, PlayedStays
  <2>4. CASE k = c /\ answer = "accept"
    <3>1. mgr'[g].audio = "receive" /\ mgr'[g].req = c
      BY ZenonT(30), <1>1, <1>3, <2>2, <2>4 DEF OnIncomingRequest, Receiving, ManagerType
    <3>2. conn'[c].target = g /\ conn'[c].req = c
      BY <1>1, <1>3, ConnSteps, EndsStay DEF Used
    <3> QED BY <1>3, <2>1, <2>4, <3>1, <3>2 DEF Played, Heard
  <2>5. CASE k = c /\ answer # "accept"
    <3>1. conn'[c] = ReadRequest(cn) \/ conn'[c] = Rejected(ReadRequest(cn))
      <4>1. answer \in {"prompt", "decline", "fail"}
        BY <2>5 DEF Answers
      <4> QED BY <2>2, <4>1
    <3>2. conn'[c] = ReadRequest(cn) /\ Answered(cn)
      BY <1>1, <2>5, <3>1 DEF Answered, ReadRequest, Rejected, ConnType
    <3>3. m.active
      BY <3>2, PlayedHere
    <3>4. conn'[c] = Rejected(ReadRequest(cn))
      BY <2>2, <3>3 DEF Answers
    <3> QED BY <1>1, <2>5, <3>4 DEF Answered, ReadRequest, Rejected, ConnType
  <2> QED BY <2>3, <2>4, <2>5
<1>5. CASE ReceiveHangUp(c) \/ (\E msgs : ServerSocketGone(c, msgs))
  <2>1. k # c
    <3>1. conn'[c].srv # "open"
      <4>1. conn'[c] = ReadHangUp(cn) \/ \E msgs : conn'[c] = ServerDisconnected(cn, msgs)
        BY <1>1, <1>5 DEF ReceiveHangUp, ServerSocketGone
      <4>2. cn \in ConnType
        BY <1>1
      <4> QED BY <4>1, <4>2 DEF ReadHangUp, ServerDisconnected, ConnType
    <3> QED BY <3>1 DEF Answered
  <2>2. Answered(conn[k])
    BY <1>2, <2>1
  <2>3. /\ conn[k].target = g /\ m.audio = "receive" /\ m.req = k /\ m.pending = {}
        /\ requestToSocket[g][k] = k
    BY <1>3, <2>2, PlayedHere DEF OneDesktop
  <2>4. UNCHANGED mgr \/ mgr' = [mgr EXCEPT ![g] = OnClientDisconnected(m, c)]
    BY <1>3, <1>5 DEF ReceiveHangUp, ServerSocketGone, Set
  <2>5. OnClientDisconnected(m, c) = m
    BY <2>1, <2>3 DEF OnClientDisconnected
  <2>6. mgr'[g] = m
    BY <1>1, <1>3, <2>4, <2>5
  <2>7. UNCHANGED requestToSocket \/ Unbind(g, c)
    BY <1>3, <1>5 DEF ReceiveHangUp, ServerSocketGone, UnbindSocket
  <2>8. requestToSocket'[g][k] = k
    BY <1>1, <1>3, <2>1, <2>3, <2>7 DEF Unbind, Bind
  <2> QED BY <2>2, <2>3, <2>6, <2>8, PlayedStays
<1> QED BY <1>4, <1>5 DEF ServerStep, ServerCloses, ServerReadsEnd, ServerSocketError

\* The answer of the user: whoever is asked plays nobody, and plays the request
\* approved.
LEMMA AnswerPlayed ==
  ASSUME OneDesktop, PlayedInv, [Next]_vars, NEW k \in Conns, Answered(conn'[k]),
         NEW g \in Hosts, Approve(g) \/ Refuse(g)
  PROVE  Played(k)'
<1> DEFINE m == mgr[g]
           r == m.prompt
           c == requestToSocket[g][r]
           waiting == [m EXCEPT !.pending = @ \ {r}]
<1>1. /\ SessionInv /\ TypeInv
      /\ mgr \in [Hosts -> ManagerType]
      /\ requestToSocket \in [Hosts -> [Conns -> ConnOrNone]]
      /\ conn \in [Conns -> ConnType]
      /\ UNCHANGED requestToSocket
  BY DEF PlayedInv, LoneInv, FlowInv, SessionInv, TypeInv, TypeOK, Approve, Refuse
<1>2. r \in m.pending /\ r \in Conns
  BY <1>1 DEF Approve, Refuse, ManagerType
<1>3. c # None /\ c \in Conns /\ conn[c].target = g /\ conn[c].req = r /\ InSessions(conn[c])
  BY <1>1, <1>2, SessionHere DEF Coupled, SessionInv, MappedSocketInSessions, ConnOrNone
<1>4. Used(c) /\ c = r
  BY <1>1, <1>3, UsedWhen DEF PlayedInv, LoneInv
<1>5. ~Answered(conn[k])
  <2> SUFFICES ASSUME Answered(conn[k]) PROVE FALSE
    OBVIOUS
  <2>1. conn[k].target = g /\ m.pending = {}
    BY PlayedHere DEF OneDesktop
  <2> QED BY <1>2, <2>1
<1>6. k = c
  BY <1>2, <1>5 DEF Approve, Refuse, OnSocketOf
<1>7. conn'[c] = Accepted(conn[c]) \/ conn'[c] = Rejected(conn[c])
  BY <1>3 DEF Approve, Refuse, OnSocketOf
<1>8. conn'[c].srv = "open" /\ Rejected(conn[c]).srv = "closing"
  BY <1>1, <1>3, <1>6 DEF Answered, Rejected, ConnType
<1>9. conn' # OnSocketOf(g, r, Rejected)
  BY <1>3, <1>8 DEF OnSocketOf
<1>10. Set(g, Receiving(waiting, g, r, conn[r].owner))
  BY <1>9 DEF Approve, Refuse
<1>11. mgr'[g].audio = "receive" /\ mgr'[g].req = r
  BY <1>1, <1>10 DEF Set, Receiving, ManagerType
<1>12. conn'[c].target = g /\ conn'[c].req = r
  BY <1>1, <1>3, <1>4, ConnSteps, EndsStay DEF Used
<1> QED BY <1>1, <1>4, <1>6, <1>11, <1>12 DEF Played, Heard

\* The other steps of the user and the timers: hanging up and quitting close the
\* socket of the phone that was heard.
LEMMA HostPlayed ==
  ASSUME OneDesktop, PlayedInv, [Next]_vars, NEW k \in Conns, Answered(conn'[k]),
         NEW g \in Hosts, OtherUserOrTimer(g)
  PROVE  Played(k)'
<1> DEFINE m == mgr[g]
<1>1. /\ SessionInv /\ TypeInv
      /\ mgr \in [Hosts -> ManagerType]
      /\ requestToSocket \in [Hosts -> [Conns -> ConnOrNone]]
      /\ conn \in [Conns -> ConnType]
      /\ m.client = None /\ ~m.reconnecting
      /\ m.active => m.req \in Conns
  BY SessionHere DEF PlayedInv, LoneInv, Lone, FlowInv, SessionInv, TypeInv, TypeOK,
                     Wellformed, ManagerType, ConnOrNone
<1>2. CASE Disconnect(g)
  <2>1. k # requestToSocket[g][m.req] \/ ~m.active
    <3> SUFFICES ASSUME k = requestToSocket[g][m.req], m.active PROVE FALSE
      OBVIOUS
    <3>1. conn'[k] = HungUp(conn[k])
      BY <1>1, <1>2 DEF Disconnect, OnSocketOf
    <3> QED BY <1>1, <3>1 DEF HungUp, Answered, ConnType
  <2>2. conn'[k] = conn[k]
    BY <1>1, <1>2, <2>1 DEF Disconnect, OnSocketOf
  <2>3. FALSE
    BY <2>1, <2>2, PlayedHere DEF OneDesktop
  <2> QED BY <2>3
<1>3. CASE Quit(g)
  <2>1. Answered(conn[k])
    <3>1. k # m.client
      BY <1>1 DEF Conns, None
    <3>2. conn'[k] = ServerDisconnected(conn[k], <<"FIN">>) \/ conn'[k] = conn[k]
      BY <1>3, <3>1 DEF Quit
    <3> QED BY <1>1, <3>2 DEF ServerDisconnected, Answered, ConnType
  <2>2. conn[k].target = g /\ InSessions(conn[k]) /\ k # m.client
    BY <1>1, <2>1, PlayedHere DEF OneDesktop, InSessions, Conns, None
  <2>3. conn'[k] = ServerDisconnected(conn[k], <<"FIN">>)
    BY <1>3, <2>2 DEF Quit
  <2> QED BY <1>1, <2>3 DEF ServerDisconnected, Answered, ConnType
<1>4. CASE /\ UNCHANGED chanVars
           /\ \/ ConnectFails(g) \/ InviteTimeout(g)
              \/ \E d \in Devices : RevokeTrust(g, d)
              \/ \E p \in Phones : Invite(g, p)
  <2>1. Answered(conn[k])
    BY <1>4 DEF chanVars
  <2>2. /\ conn[k].target = g /\ m.audio = "receive" /\ m.req = k /\ m.active
        /\ requestToSocket[g][k] = k /\ m \in ManagerType
    BY <2>1, PlayedHere DEF OneDesktop
  <2>3. mgr'[g].audio = "receive" /\ mgr'[g].req = k
    BY <1>1, <1>4, <2>2 DEF ConnectFails, InviteTimeout, RevokeTrust, Invite, Set, Failed, ManagerType
  <2> QED BY <1>4, <2>1, <2>2, <2>3, PlayedStays DEF chanVars
<1>5. \A f \in Hosts : ~Dial(g, f)
  BY DEF Dial, OneDesktop
<1>6. ~ReconnectTick(g)
  BY <1>1 DEF ReconnectTick
<1> QED BY <1>2, <1>3, <1>4, <1>5, <1>6 DEF OtherUserOrTimer, Timer, Invite, ConnectFails,
                                            InviteTimeout, RevokeTrust

\* So PlayedInv is inductive.
LEMMA PlayedNext == ASSUME OneDesktop, PlayedInv, [Next]_vars PROVE PlayedInv'
<1> SUFFICES ASSUME NEW k \in Conns, Answered(conn'[k]) PROVE Played(k)'
  BY LoneNext DEF PlayedInv
<1>1. TypeInv
  BY DEF PlayedInv, LoneInv, FlowInv, SessionInv
<1>2. CASE UNCHANGED vars
  BY <1>2, ClientPlayed DEF vars
<1>3. ASSUME NEW c \in Conns, ClientStep(c) \/ ClientSocketError(c) \/ PhoneHangsUp(c)
      PROVE  Played(k)'
  <2>1. conn'[k] = conn[k] \/ ClientMoves(conn[k], conn'[k])
    BY <1>1, <1>3, ClientConnSteps
  <2>2. conn[c].owner \notin Hosts
    <3>1. Used(c)
      BY <1>1, <1>3, ClientConnSteps DEF ClientMoves, Used, ClientSocketOpen, TimeoutRunning
    <3> QED BY <3>1, ChannelAssumption DEF PlayedInv, LoneInv
  <2>3. UNCHANGED <<requestToSocket, mgr>>
    BY <1>3, <2>2 DEF ClientStep, TlsEstablished, ReceiveAccept, ReceiveReject, ReceiveDisconnect,
                ClientReadsEnd, ClientSocketError, ClientDisconnects, KeepAlivesMissed,
                RequestTimesOut, PhoneHangsUp, Raise
  <2> QED BY <2>1, <2>3, ClientPlayed
<1>4. ASSUME NEW c \in Conns, LinkChanges(c) PROVE Played(k)'
  <2>1. conn'[k] = conn[k] \/ LinkMoves(conn[k], conn'[k])
    BY <1>1, <1>4, OneConnChanges DEF LinkChanges, LinkDown, LinkHeals, LinkMoves
  <2> QED BY <1>4, <2>1, ClientPlayed DEF LinkChanges
<1>5. ASSUME NEW p \in Phones, NEW g \in Hosts, PhoneDials(p, g) PROVE Played(k)'
  <2>1. p \in Devices
    BY DEF Devices
  <2>2. PICK c \in Conns : conn[c].cli = "unused" /\ conn' = [conn EXCEPT ![c] = Dialled(p, g, c)]
    BY <1>5 DEF PhoneDials, IsFresh
  <2>3. conn'[k] = conn[k] \/ Opened(conn[k], conn'[k])
    BY <1>1, <2>1, <2>2, OneConnChanges DEF Opened
  <2> QED BY <1>5, <2>3, ClientPlayed DEF PhoneDials
<1> QED BY <1>2, <1>3, <1>4, <1>5, ServerPlayed, AnswerPlayed, HostPlayed
        DEF Next, Network, User, OtherUserOrTimer

\* A phone that believes in its session is heard by the desktop it called, once
\* nothing is under way between them.
THEOREM PhoneAlwaysHeard == ASSUME OneDesktop PROVE Spec => []PhoneIsHeard
<1>1. Init => PlayedInv
  BY InitLone DEF PlayedInv, Answered, Init, ChanInit, UnusedConn
<1>2. PlayedInv /\ [Next]_vars => PlayedInv'
  BY OneDesktop, PlayedNext
<1>3. PlayedInv => PhoneIsHeard
  BY DEF PlayedInv, Played, PhoneIsHeard, Settled, Answered
<1> QED BY <1>1, <1>2, <1>3, PTL DEF Spec

-----------------------------------------------------------------------------
(* While no connection is lost and no program quits *)

NothingLost == ~MayDrop /\ MayQuit = {}

\* What the server has told the client by now, and how far the client has read.
Told(cn) ==
  \/ ~ClientSocketOpen(cn)
  \/ cn.cli = "requested" /\
       \/ cn.srv = "open"    /\ cn.toClient \in {<< >>, <<"ACCEPT">>}
       \/ cn.srv = "closing" /\ cn.toClient \in {<<"REJECT">>, <<"ACCEPT", "DISCONNECT">>}
       \/ cn.srv = "gone"    /\ cn.toClient \in {<<"REJECT", "FIN">>, <<"ACCEPT", "DISCONNECT", "FIN">>}
  \/ cn.cli = "session" /\
       \/ cn.srv = "open"    /\ cn.toClient = << >>
       \/ cn.srv = "closing" /\ cn.toClient = <<"DISCONNECT">>
       \/ cn.srv = "gone"    /\ cn.toClient = <<"DISCONNECT", "FIN">>
  \/ cn.cli = "spent" /\
       \/ cn.srv = "closing" /\ cn.toClient = << >>
       \/ cn.srv = "gone"    /\ cn.toClient = <<"FIN">>

\* The request was not read yet.
Asking(cn) == cn.toServer # << >> /\ Head(cn.toServer) = "REQUEST"

\* The request was not answered yet.
Unanswered(cn) == cn.srv = "open" /\ cn.cli \notin {"session", "spent"} /\ cn.toClient = << >>

\* The request was accepted, and the server has not ended the session.
Talking(cn) == cn.srv = "open" /\ (cn.cli = "requested" => cn.toClient = <<"ACCEPT">>)

Calm(cn) == cn.link = "up" /\ Told(cn) /\ (Asking(cn) => Unanswered(cn))

\* Reading what a server told, and telling more.
LEMMA ToldOps ==
  /\ Tail(<<"ACCEPT">>) = << >> /\ Head(<<"ACCEPT">>) = "ACCEPT"
  /\ Tail(<<"REJECT">>) = << >> /\ Head(<<"REJECT">>) = "REJECT"
  /\ Tail(<<"DISCONNECT">>) = << >> /\ Head(<<"DISCONNECT">>) = "DISCONNECT"
  /\ Tail(<<"FIN">>) = << >> /\ Head(<<"FIN">>) = "FIN"
  /\ Tail(<<"ACCEPT", "DISCONNECT">>) = <<"DISCONNECT">> /\ Head(<<"ACCEPT", "DISCONNECT">>) = "ACCEPT"
  /\ Tail(<<"REJECT", "FIN">>) = <<"FIN">> /\ Head(<<"REJECT", "FIN">>) = "REJECT"
  /\ Tail(<<"DISCONNECT", "FIN">>) = <<"FIN">> /\ Head(<<"DISCONNECT", "FIN">>) = "DISCONNECT"
  /\ Tail(<<"ACCEPT", "DISCONNECT", "FIN">>) = <<"DISCONNECT", "FIN">>
  /\ Head(<<"ACCEPT", "DISCONNECT", "FIN">>) = "ACCEPT"
  /\ << >> \o <<"ACCEPT">> = <<"ACCEPT">> /\ << >> \o <<"REJECT">> = <<"REJECT">>
  /\ << >> \o <<"DISCONNECT">> = <<"DISCONNECT">> /\ << >> \o <<"FIN">> = <<"FIN">>
  /\ <<"ACCEPT">> \o <<"DISCONNECT">> = <<"ACCEPT", "DISCONNECT">>
  /\ <<"REJECT">> \o <<"FIN">> = <<"REJECT", "FIN">>
  /\ <<"DISCONNECT">> \o <<"FIN">> = <<"DISCONNECT", "FIN">>
  /\ <<"ACCEPT", "DISCONNECT">> \o <<"FIN">> = <<"ACCEPT", "DISCONNECT", "FIN">>
<1>1. /\ << >> \o <<"ACCEPT">> = <<"ACCEPT">> /\ << >> \o <<"REJECT">> = <<"REJECT">>
      /\ << >> \o <<"DISCONNECT">> = <<"DISCONNECT">> /\ << >> \o <<"FIN">> = <<"FIN">>
  OBVIOUS
<1>2. /\ <<"ACCEPT">> \o <<"DISCONNECT">> = <<"ACCEPT", "DISCONNECT">>
      /\ <<"REJECT">> \o <<"FIN">> = <<"REJECT", "FIN">>
      /\ <<"DISCONNECT">> \o <<"FIN">> = <<"DISCONNECT", "FIN">>
  BY Joined
<1>3. <<"ACCEPT", "DISCONNECT">> \o <<"FIN">> = <<"ACCEPT", "DISCONNECT", "FIN">>
  BY Joined
<1>4. /\ Tail(<<"ACCEPT">>) = << >> /\ Head(<<"ACCEPT">>) = "ACCEPT"
      /\ Tail(<<"REJECT">>) = << >> /\ Head(<<"REJECT">>) = "REJECT"
      /\ Tail(<<"DISCONNECT">>) = << >> /\ Head(<<"DISCONNECT">>) = "DISCONNECT"
      /\ Tail(<<"FIN">>) = << >> /\ Head(<<"FIN">>) = "FIN"
  OBVIOUS
<1>5. /\ Tail(<<"ACCEPT", "DISCONNECT">>) = <<"DISCONNECT">>
      /\ Tail(<<"REJECT", "FIN">>) = <<"FIN">>
      /\ Tail(<<"DISCONNECT", "FIN">>) = <<"FIN">>
      /\ Tail(<<"ACCEPT", "DISCONNECT", "FIN">>) = <<"DISCONNECT", "FIN">>
  OBVIOUS
<1>6. /\ Head(<<"ACCEPT", "DISCONNECT">>) = "ACCEPT"
      /\ Head(<<"REJECT", "FIN">>) = "REJECT"
      /\ Head(<<"DISCONNECT", "FIN">>) = "DISCONNECT"
      /\ Head(<<"ACCEPT", "DISCONNECT", "FIN">>) = "ACCEPT"
  OBVIOUS
<1> QED BY <1>1, <1>2, <1>3, <1>4, <1>5, <1>6

\* Ending a stream asks nothing new.
LEMMA AskingOps ==
  \A q \in OpenStreams : \A end \in {<<"FIN">>, <<"DISCONNECT", "FIN">>} :
    Head(q \o end) = "REQUEST" => q # << >> /\ Head(q) = "REQUEST"
<1>1. /\ Head(<<"FIN">>) # "REQUEST" /\ Head(<<"DISCONNECT", "FIN">>) # "REQUEST"
      /\ Head(<<"REQUEST">>) = "REQUEST"
  OBVIOUS
<1> QED BY <1>1, StreamOps DEF OpenStreams


\* A client that was told what it should be is left by a word, never by an end
\* of the stream alone.
LEMMA CalmSession ==
  ASSUME NEW cn \in ConnType, Flow(cn), Calm(cn)
  PROVE  /\ ~(cn.cli = "session" /\ cn.srv = "gone" /\ cn.toClient = << >>)
         /\ ClientSocketOpen(cn) /\ cn.toClient # << >> /\ Head(cn.toClient) = "FIN"
              => cn.cli = "spent"
BY ToldOps DEF Calm, Told, ClientSocketOpen

\* What a client's step leaves of it.
CalmMove(cn, new) ==
  /\ Calm(new)
  /\ Unanswered(cn) => Unanswered(new)
  /\ Talking(cn) => Talking(new)

\* A client's step leaves it calm, and says nothing for the server.
LEMMA CalmClient ==
  ASSUME NEW cn \in ConnType, Flow(cn), Calm(cn), NEW new, ClientMoves(cn, new)
  PROVE  CalmMove(cn, new)
<1> USE DEF ConnType, CalmMove, Calm, Told, Asking, Unanswered, Talking, ClientSocketOpen
<1>1. CASE cn.cli = "dialing" /\ new = Encrypted(cn)
  <2>1. cn.toClient = << >> /\ cn.srv = "none"
    BY <1>1 DEF Flow
  <2> QED BY <1>1, <2>1 DEF Encrypted
<1>2. CASE ClientSocketOpen(cn) /\ cn.toClient # << >> /\ Head(cn.toClient) = "ACCEPT" /\ new = ReadAccept(cn)
  <2>1. ~Asking(cn) /\ ~Unanswered(cn)
    BY <1>2
  <2>2. cn.cli = "requested"
    BY <1>2, ToldOps
  <2> QED BY <1>2, <2>1, <2>2, ToldOps DEF ReadAccept
<1>3. CASE ClientSocketOpen(cn) /\ cn.toClient # << >> /\ Head(cn.toClient) = "REJECT" /\ new = ReadReject(cn)
  <2>1. ~Asking(cn) /\ ~Unanswered(cn)
    BY <1>3
  <2>2. cn.cli = "requested" /\ cn.srv # "open"
    BY <1>3, ToldOps
  <2> QED BY <1>3, <2>1, <2>2, ToldOps DEF ReadReject
<1>4. CASE ClientSocketOpen(cn) /\ cn.toClient # << >> /\ Head(cn.toClient) = "DISCONNECT" /\ new = ReadDisconnect(cn)
  <2>1. ~Asking(cn) /\ ~Unanswered(cn)
    BY <1>4
  <2>2. cn.cli = "session" /\ cn.srv # "open"
    BY <1>4, ToldOps
  <2>3. new.link = cn.link /\ new.srv = cn.srv
    BY <1>4 DEF ReadDisconnect, LoopLeft
  <2>4. ~Asking(new)
    <3>1. cn.toServer \in OpenStreams
      BY <1>4 DEF Flow
    <3>2. new.toServer = cn.toServer \/ new.toServer = << >> \/ new.toServer = cn.toServer \o <<"FIN">>
      BY <1>4 DEF ReadDisconnect, LoopLeft, ToServer
    <3> QED BY <2>1, <3>1, <3>2, AskingOps
  <2>5. Told(new)
    <3>1. CASE cn.owner \in Phones
      BY <1>4, <3>1 DEF ReadDisconnect, LoopLeft
    <3>2. CASE cn.owner \notin Phones
      BY <1>4, <2>2, <3>2, ToldOps DEF ReadDisconnect
    <3> QED BY <3>1, <3>2
  <2> HIDE DEF Asking, Told
  <2> QED BY <2>1, <2>2, <2>3, <2>4, <2>5
<1>5. CASE \/ new \in {ClientDisconnected(cn), Dropped(cn), PhoneDropped(cn)}
           \/ TimeoutRunning(cn) /\ new = TimedOut(cn)
  <2>1. /\ new.link = cn.link /\ new.srv = cn.srv /\ new.toClient = << >>
        /\ new.cli \in {"closed", "gone"}
    BY <1>5 DEF ClientDisconnected, TimedOut, Dropped, PhoneDropped
  <2>2. Asking(new) => Asking(cn)
    <3>1. \/ new.toServer = cn.toServer \/ new.toServer = << >>
          \/ /\ ClientSocketOpen(cn) \/ cn.cli = "dialing"
             /\ InSessions(cn)
             /\ \/ new.toServer = cn.toServer \o <<"FIN">>
                \/ new.toServer = cn.toServer \o <<"DISCONNECT", "FIN">>
      BY <1>5 DEF TimeoutRunning, ClientDisconnected, TimedOut, Dropped, PhoneDropped, ToServer
    <3> QED BY <3>1, AskingOps DEF Flow, InSessions
  <2> QED BY <2>1, <2>2
<1>6. CASE cn.cli = "session" /\ cn.link = "down" /\ new = MissedKeepAlives(cn)
  BY <1>6
<1> QED BY <1>1, <1>2, <1>3, <1>4, <1>5, <1>6 DEF ClientMoves

\* What a server's steps leave of it.
LEMMA CalmServer ==
  ASSUME NEW cn \in ConnType, Flow(cn), Calm(cn), InSessions(cn)
  PROVE  /\ Asking(cn) =>
              /\ Calm(ReadRequest(cn)) /\ Unanswered(ReadRequest(cn))
              /\ Calm(Accepted(ReadRequest(cn))) /\ Talking(Accepted(ReadRequest(cn)))
              /\ Calm(Rejected(ReadRequest(cn)))
         /\ cn.toServer # << >> /\ Head(cn.toServer) = "DISCONNECT" => Calm(ReadHangUp(cn))
         /\ cn.toServer # << >> /\ Head(cn.toServer) = "FIN" => Calm(ServerDisconnected(cn, << >>))
         /\ cn.srv = "closing" => Calm(ServerDisconnected(cn, <<"FIN">>))
         /\ cn.bound /\ Unanswered(cn) =>
              Calm(Accepted(cn)) /\ Talking(Accepted(cn)) /\ Calm(Rejected(cn))
         /\ cn.bound /\ Talking(cn) => Calm(HungUp(cn))
<1> USE DEF ConnType, Calm, Told, Asking, Unanswered, Talking, ClientSocketOpen, ClientPhase
<1>1. cn.bound => ~Asking(cn)
  BY StreamOps DEF Flow
<1>2. ASSUME NEW x \in ConnType, x.link = "up", ~Asking(x), Unanswered(x), x.cli # "unused"
      PROVE  Calm(Accepted(x)) /\ Talking(Accepted(x)) /\ Calm(Rejected(x)) /\ Calm(x)
  BY <1>2, ToldOps DEF Accepted, Rejected, ToClient
<1>3. cn.cli # "unused"
  BY DEF Flow, InSessions
<1>4. ASSUME Asking(cn)
      PROVE  /\ Calm(ReadRequest(cn)) /\ Unanswered(ReadRequest(cn))
             /\ Calm(Accepted(ReadRequest(cn))) /\ Talking(Accepted(ReadRequest(cn)))
             /\ Calm(Rejected(ReadRequest(cn)))
  <2> DEFINE x == ReadRequest(cn)
  <2>1. x \in ConnType
    BY <1>4, QueueOps DEF ReadRequest
  <2>2. ~Asking(x)
    <3>1. Tail(cn.toServer) \in {<< >>, <<"FIN">>, <<"DISCONNECT", "FIN">>}
      BY <1>4, StreamOps DEF Flow
    <3> QED BY <3>1, StreamOps DEF ReadRequest
  <2>3. x.link = "up" /\ Unanswered(x) /\ x.cli # "unused"
    BY <1>3, <1>4 DEF ReadRequest
  <2> HIDE DEF x
  <2>4. Calm(Accepted(x)) /\ Talking(Accepted(x)) /\ Calm(Rejected(x)) /\ Calm(x) /\ Unanswered(x)
    BY <1>2, <2>1, <2>2, <2>3
  <2> QED BY <2>4 DEF x
<1>5. ASSUME cn.toServer # << >>, Head(cn.toServer) = "DISCONNECT" PROVE Calm(ReadHangUp(cn))
  <2>1. ~ClientSocketOpen(cn) /\ Tail(cn.toServer) = <<"FIN">>
    BY <1>5, StreamOps DEF Flow
  <2> QED BY <2>1, ToldOps DEF ReadHangUp
<1>6. ASSUME cn.toServer # << >>, Head(cn.toServer) = "FIN" PROVE Calm(ServerDisconnected(cn, << >>))
  <2>1. ~ClientSocketOpen(cn)
    <3>1. cn.toServer # << >> /\ cn.toServer # <<"REQUEST">>
      BY <1>6
    <3> QED BY <3>1 DEF Flow, OpenStreams
  <2> QED BY <2>1 DEF ServerDisconnected
<1>7. ASSUME cn.srv = "closing" PROVE Calm(ServerDisconnected(cn, <<"FIN">>))
  <2> DEFINE x == ServerDisconnected(cn, <<"FIN">>)
  <2>1. /\ x.link = cn.link /\ x.cli = cn.cli /\ x.srv = "gone" /\ x.toServer = << >>
        /\ x.toClient = ToClient(cn, <<"FIN">>)
    BY DEF ServerDisconnected
  <2> HIDE DEF x
  <2>2. Told(x)
    <3>1. CASE ~ClientSocketOpen(cn)
      BY <2>1, <3>1
    <3>2. CASE ClientSocketOpen(cn)
      <4>1. x.toClient = cn.toClient \o <<"FIN">>
        BY <2>1, <3>2 DEF ToClient
      <4>2. /\ cn.cli = "requested" =>
                 cn.toClient = <<"REJECT">> \/ cn.toClient = <<"ACCEPT", "DISCONNECT">>
            /\ cn.cli = "session" => cn.toClient = <<"DISCONNECT">>
            /\ cn.cli = "spent" => cn.toClient = << >>
        BY <1>7, <3>2
      <4>3. /\ cn.cli = "requested" =>
                 x.toClient = <<"REJECT", "FIN">> \/ x.toClient = <<"ACCEPT", "DISCONNECT", "FIN">>
            /\ cn.cli = "session" => x.toClient = <<"DISCONNECT", "FIN">>
            /\ cn.cli = "spent" => x.toClient = <<"FIN">>
        <5> HIDE DEF Calm, Told
        <5> QED BY <4>1, <4>2, ToldOps
      <4> QED BY <2>1, <3>2, <4>3
    <3> QED BY <3>1, <3>2
  <2>3. Calm(x)
    BY <2>1, <2>2
  <2> QED BY <2>3 DEF x
<1>8. cn.bound /\ Unanswered(cn) => Calm(Accepted(cn)) /\ Talking(Accepted(cn)) /\ Calm(Rejected(cn))
  BY <1>1, <1>2, <1>3
<1>9. ASSUME cn.bound, Talking(cn) PROVE Calm(HungUp(cn))
  <2> DEFINE x == HungUp(cn)
  <2>1. /\ x.link = cn.link /\ x.cli = cn.cli /\ x.srv = "closing" /\ x.toServer = cn.toServer
        /\ x.toClient = ToClient(cn, <<"DISCONNECT">>)
    BY DEF HungUp
  <2> HIDE DEF x
  <2>2. Told(x)
    <3>1. CASE cn.cli = "requested"
      BY <1>9, <2>1, <3>1, ToldOps DEF ToClient
    <3>2. CASE cn.cli = "session"
      <4>1. cn.srv = "open" /\ cn.toClient = << >> /\ ClientSocketOpen(cn)
        BY <1>9, <3>2
      <4>2. x.toClient = <<"DISCONNECT">>
        BY <2>1, <4>1, ToldOps DEF ToClient
      <4> QED BY <2>1, <3>2, <4>2
    <3>3. cn.cli \in {"requested", "session"} \/ ~ClientSocketOpen(x)
      BY <1>9, <2>1
    <3> QED BY <3>1, <3>2, <3>3
  <2>3. Calm(x)
    BY <1>1, <1>9, <2>1, <2>2
  <2> QED BY <2>3 DEF x
<1> QED BY <1>4, <1>5, <1>6, <1>7, <1>8, <1>9

CalmConns ==
  \A c \in Conns : Used(c) =>
    conn[c].req = c /\ conn[c].owner # conn[c].target /\ Calm(conn[c])

\* The client of a manager carries its active request and can still raise what
\* ends it.
Live(m) ==
  /\ m.client # None /\ conn[m.client].req = m.req
  /\ conn[m.client].cli \in {"dialing", "requested", "session"}

CalmHost(h) ==
  LET m   == mgr[h]
      map == requestToSocket[h]
  IN  /\ ~m.reconnecting
      /\ m.client # None => conn[m.client].owner = h
      /\ \A r \in m.pending : Unanswered(conn[r])
      /\ m.active /\ map[m.req] # None => Talking(conn[m.req])
      /\ m.active => Live(m) \/ map[m.req] # None

CalmInv == FlowInv /\ CalmConns /\ \A h \in Hosts : CalmHost(h)

\* The types behind the invariant.
LEMMA CalmTypes ==
  ASSUME CalmInv
  PROVE  /\ SessionInv /\ TypeInv
         /\ mgr \in [Hosts -> ManagerType]
         /\ requestToSocket \in [Hosts -> [Conns -> ConnOrNone]]
         /\ conn \in [Conns -> ConnType]
BY DEF CalmInv, FlowInv, SessionInv, TypeInv, TypeOK

\* While no redial happens, a request is its own socket.
LEMMA OwnSocket ==
  ASSUME CalmInv, NEW h \in Hosts, NEW r \in Conns, requestToSocket[h][r] # None
  PROVE  /\ requestToSocket[h][r] = r /\ conn[r].target = h
         /\ conn[r].bound /\ InSessions(conn[r]) /\ Used(r)
         /\ conn[r] \in ConnType /\ Flow(conn[r]) /\ Calm(conn[r])
<1> DEFINE c == requestToSocket[h][r]
<1>1. c \in Conns /\ conn[c].target = h /\ conn[c].req = r /\ conn[c].bound /\ InSessions(conn[c])
  BY CalmTypes DEF SessionInv, MappedSocketInSessions, ConnOrNone
<1>2. Used(c)
  BY <1>1, CalmTypes, UsedWhen
<1> QED BY <1>1, <1>2, CalmTypes DEF CalmInv, CalmConns, FlowInv

\* What the invariant says of one desktop.
LEMMA CalmHere ==
  ASSUME CalmInv, NEW h \in Hosts
  PROVE  LET m == mgr[h]
         IN  /\ m \in ManagerType /\ Wellformed(m) /\ Coupled(requestToSocket[h], m)
             /\ m.active => m.req \in Conns
             /\ m.client # None => m.client \in Conns /\ Used(m.client)
             /\ \A r \in m.pending : r \in Conns /\ requestToSocket[h][r] # None
             /\ CalmHost(h)
<1>1. /\ mgr[h] \in ManagerType /\ Wellformed(mgr[h]) /\ Coupled(requestToSocket[h], mgr[h])
      /\ CalmHost(h)
  BY CalmTypes, SessionHere DEF CalmInv
<1> QED BY <1>1 DEF Coupled, Wellformed, ManagerType, ConnOrNone

\* A step that leaves every connection calm.
LEMMA CalmConnsStep ==
  ASSUME CalmInv, [Next]_vars, \A k \in Conns : Used(k) => Calm(conn'[k])
  PROVE  CalmConns'
<1> SUFFICES ASSUME NEW k \in Conns, Used(k)'
             PROVE  conn'[k].req = k /\ conn'[k].owner # conn'[k].target /\ Calm(conn'[k])
  BY DEF CalmConns, Calm, Told, Asking, Unanswered, ClientSocketOpen
<1>1. conn[k] \in ConnType
  BY CalmTypes
<1>2. CASE Used(k)
  BY <1>1, <1>2, CalmTypes, ConnSteps, EndsStay DEF CalmInv, CalmConns, Used
<1>3. CASE ~Used(k)
  <2>1. OpenedBy(k, conn'[k])
    BY <1>3, CalmTypes, Openings DEF Used
  <2>2. \E d \in Devices, g \in Hosts : d # g /\ conn'[k] = Dialled(d, g, k)
    BY <2>1, ChannelAssumption DEF OpenedBy, CalmInv, CalmHost, Devices
  <2> QED BY <2>2 DEF Dialled, UnusedConn, Calm, Told, Asking, Unanswered, ClientSocketOpen
<1> QED BY <1>2, <1>3

\* A desktop that takes on nothing and whose sockets are left as they are.
LEMMA CalmHostStep ==
  ASSUME CalmInv, [Next]_vars, NEW h \in Hosts,
         mgr'[h].pending \subseteq mgr[h].pending,
         mgr'[h].active => mgr[h].active /\ mgr'[h].req = mgr[h].req,
         ~mgr'[h].reconnecting,
         mgr'[h].client \in {mgr[h].client, None},
         \A r \in mgr'[h].pending : Unanswered(conn[r]) => Unanswered(conn'[r]),
         mgr'[h].active =>
           /\ requestToSocket'[h][mgr[h].req] = requestToSocket[h][mgr[h].req]
           /\ requestToSocket[h][mgr[h].req] # None /\ Talking(conn[mgr[h].req])
                => Talking(conn'[mgr[h].req])
           /\ Live(mgr[h]) => Live(mgr[h])'
  PROVE  CalmHost(h)'
<1> DEFINE m == mgr[h]
           new == mgr'[h]
<1>1. new.client # None => conn'[new.client].owner = h
  <2> SUFFICES ASSUME new.client # None PROVE conn'[new.client].owner = h
    OBVIOUS
  <2>1. new.client = m.client /\ m.client \in Conns /\ Used(m.client) /\ conn[m.client].owner = h
    BY CalmHere DEF CalmHost
  <2> QED BY <2>1, CalmTypes, ConnSteps, EndsStay DEF Used
<1>2. \A r \in new.pending : Unanswered(conn'[r])
  BY CalmHere DEF CalmHost
<1>3. new.active /\ requestToSocket'[h][new.req] # None => Talking(conn'[new.req])
  BY CalmHere DEF CalmHost
<1>4. new.active => Live(mgr[h])' \/ requestToSocket'[h][new.req] # None
  BY CalmHere DEF CalmHost
<1> QED BY <1>1, <1>2, <1>3, <1>4 DEF CalmHost, Unanswered, Talking

\* A desktop none of whose own connections and sockets are touched.
LEMMA CalmHostIdle ==
  ASSUME CalmInv, [Next]_vars, NEW h \in Hosts,
         mgr'[h] = mgr[h], requestToSocket'[h] = requestToSocket[h],
         \A k \in Conns : Used(k) /\ conn[k].owner = h => conn'[k].cli = conn[k].cli,
         \A k \in Conns : Used(k) /\ conn[k].target = h =>
           /\ Unanswered(conn[k]) => Unanswered(conn'[k])
           /\ Talking(conn[k]) => Talking(conn'[k])
  PROVE  CalmHost(h)'
<1> DEFINE m == mgr[h]
<1>1. \A r \in m.pending : Unanswered(conn[r]) => Unanswered(conn'[r])
  BY CalmHere, OwnSocket
<1>2. m.active /\ requestToSocket[h][m.req] # None /\ Talking(conn[m.req]) => Talking(conn'[m.req])
  BY CalmHere, OwnSocket
<1>3. Live(mgr[h]) => Live(mgr[h])'
  <2> SUFFICES ASSUME Live(m) PROVE Live(mgr[h])'
    OBVIOUS
  <2>1. m.client \in Conns /\ Used(m.client) /\ conn[m.client].owner = h
    BY CalmHere DEF Live, CalmHost
  <2>2. conn'[m.client].req = conn[m.client].req /\ conn'[m.client].cli = conn[m.client].cli
    BY <2>1, CalmTypes, ConnSteps, EndsStay DEF Used
  <2> QED BY <2>2 DEF Live
<1> QED BY <1>1, <1>2, <1>3, CalmHere, CalmHostStep DEF CalmHost

\* The steps of a client, while nothing is lost, reach its owner's manager only
\* with what ends a request, and leave every other desktop alone.
LEMMA ClientCalm ==
  ASSUME CalmInv, [Next]_vars, NEW c \in Conns,
         ClientStep(c) \/ PhoneHangsUp(c)
  PROVE  CalmConns' /\ \A h \in Hosts : CalmHost(h)'
<1> DEFINE cn == conn[c]
           o == cn.owner
<1>1. /\ SessionInv /\ TypeInv
      /\ mgr \in [Hosts -> ManagerType]
      /\ conn \in [Conns -> ConnType]
  BY CalmTypes
<1>2. ClientMoves(cn, conn'[c]) /\ \A k \in Conns : k # c => conn'[k] = conn[k]
  BY <1>1, ClientConnSteps
<1>3. Used(c) /\ cn \in ConnType /\ Flow(cn) /\ Calm(cn)
  BY <1>1, <1>2 DEF ClientMoves, Used, ClientSocketOpen, TimeoutRunning, CalmInv, CalmConns, FlowInv
<1>4. CalmMove(cn, conn'[c])
  BY <1>2, <1>3, CalmClient
<1>5. \A k \in Conns : Used(k) => CalmMove(conn[k], conn'[k])
  BY <1>2, <1>4 DEF CalmInv, CalmConns, CalmMove
<1>6. CalmConns'
  BY <1>5, CalmConnsStep DEF CalmMove
<1>7. UNCHANGED requestToSocket
  BY DEF ClientStep, TlsEstablished, ReceiveAccept, ReceiveReject, ReceiveDisconnect,
         ClientReadsEnd, ClientDisconnects, KeepAlivesMissed, RequestTimesOut, PhoneHangsUp
<1>8. \A h \in Hosts : h # o => mgr'[h] = mgr[h]
  BY <1>1 DEF ClientStep, TlsEstablished, ReceiveAccept, ReceiveReject, ReceiveDisconnect,
         ClientReadsEnd, ClientDisconnects, KeepAlivesMissed, RequestTimesOut, PhoneHangsUp,
         Raise, Set
<1>9. ASSUME NEW h \in Hosts, h # o PROVE CalmHost(h)'
  <2>1. \A k \in Conns : Used(k) /\ conn[k].owner = h => conn'[k].cli = conn[k].cli
    BY <1>2, <1>9
  <2> QED BY <1>5, <1>7, <1>8, <1>9, <2>1, CalmHostIdle DEF CalmMove
<1>10. ASSUME NEW h \in Hosts, h = o PROVE CalmHost(h)'
  <2> DEFINE m == mgr[h]
             new == mgr'[h]
             r == cn.req
  <2>1. ClientStep(c)
    BY <1>10, ChannelAssumption DEF PhoneHangsUp
  <2>2. cn.cli \notin {"unused", "gone"}
    <3> USE DEF ClientReads, ClientSocketOpen, TimeoutRunning
    <3>1. CASE TlsEstablished(c) \/ KeepAlivesMissed(c) \/ RequestTimesOut(c)
      BY <3>1 DEF TlsEstablished, KeepAlivesMissed, RequestTimesOut
    <3>2. CASE ReceiveAccept(c) \/ ReceiveReject(c) \/ ReceiveDisconnect(c) \/ ClientReadsEnd(c)
      BY <3>2 DEF ReceiveAccept, ReceiveReject, ReceiveDisconnect, ClientReadsEnd
    <3> QED BY <2>1, <3>1, <3>2 DEF ClientStep
  <2>3. m.client = c /\ m \in ManagerType /\ ~m.reconnecting
    BY <1>1, <1>10, <2>2, CalmHere DEF TypeInv, LiveClient, CalmHost
  <2>4. conn'[c].req = r
    BY <1>1, <1>3, ConnSteps, EndsStay DEF Used
  <2>5. ASSUME new.pending = m.pending, new.client = c, ~new.reconnecting,
               new.active =>
                 /\ m.active /\ new.req = m.req
                 /\ Live(m) => conn'[c].cli \in {"dialing", "requested", "session"}
        PROVE  CalmHost(h)'
    <3>1. \A k \in m.pending : Unanswered(conn[k]) => Unanswered(conn'[k])
      BY <1>5, <1>10, CalmHere, OwnSocket DEF CalmMove
    <3>2. m.active /\ requestToSocket[h][m.req] # None /\ Talking(conn[m.req])
            => Talking(conn'[m.req])
      BY <1>5, <1>10, CalmHere, OwnSocket DEF CalmMove
    <3>3. new.active /\ Live(m) => Live(mgr[h])'
      BY <2>3, <2>4, <2>5, <1>3 DEF Live, Conns, None
    <3> QED BY <1>7, <1>10, <2>3, <2>5, <3>1, <3>2, <3>3, CalmHostStep
  <2>6. Live(m) => m.req = r /\ cn.cli \in {"dialing", "requested", "session"}
    BY <2>3 DEF Live
  <2>7. CASE TlsEstablished(c)
    <3>1. new = m /\ conn'[c].cli = "requested"
      BY <1>1, <1>3, <2>7 DEF TlsEstablished, Encrypted, ConnType
    <3> QED BY <2>3, <2>5, <3>1
  <2>8. CASE ReceiveAccept(c)
    <3>1. \E opened \in BOOLEAN : new = OnOutgoingResponse(m, h, r, TRUE, opened)
      BY <1>1, <1>10, <2>8 DEF ReceiveAccept, Raise, Set
    <3>2. conn'[c].cli = "session"
      BY <1>1, <1>3, <2>8 DEF ReceiveAccept, ReadAccept, ConnType
    <3> QED BY <2>3, <2>5, <3>1, <3>2 DEF OnOutgoingResponse, ReconnectStopped, ManagerType
  <2>9. CASE ReceiveReject(c)
    <3>1. new = OnOutgoingResponse(m, h, r, FALSE, FALSE)
      BY <1>1, <1>10, <2>9 DEF ReceiveReject, Raise, Set
    <3> QED BY <2>3, <2>5, <2>6, <3>1 DEF OnOutgoingResponse, Failed, Ended, ReconnectStopped, ManagerType
  <2>10. CASE ReceiveDisconnect(c)
    <3>1. new = OnRemoteDisconnected(m)
      BY <1>1, <1>10, <2>10 DEF ReceiveDisconnect, Raise, Set
    <3> QED BY <2>3, <2>5, <3>1 DEF OnRemoteDisconnected, Ended, ReconnectStopped, ManagerType
  <2>11. CASE ClientReadsEnd(c)
    <3>1. cn.cli = "spent"
      BY <1>3, <2>11, CalmSession DEF ClientReadsEnd, ClientReads
    <3>2. new = m
      BY <2>11, <3>1 DEF ClientReadsEnd, ClientDisconnects
    <3> QED BY <2>3, <2>5, <2>6, <3>1, <3>2
  <2>12. ~KeepAlivesMissed(c)
    BY <1>3 DEF KeepAlivesMissed, Reachable, Calm
  <2>13. CASE RequestTimesOut(c)
    <3>1. new = OnOutgoingTimedOut(m, r)
      BY <1>1, <1>10, <2>13 DEF RequestTimesOut, Raise, Set
    <3> QED BY <2>3, <2>5, <2>6, <3>1 DEF OnOutgoingTimedOut, Failed, Ended, ManagerType
  <2> QED BY <2>1, <2>7, <2>8, <2>9, <2>10, <2>11, <2>12, <2>13 DEF ClientStep
<1> QED BY <1>6, <1>9, <1>10

\* A step of the server at g on connection c, as far as other desktops see it.
LEMMA ServerCalmElsewhere ==
  ASSUME CalmInv, [Next]_vars, NEW g \in Hosts, NEW c \in Conns,
         Used(c) => conn[c].target = g,
         \A k \in Conns : k # c => conn'[k] = conn[k], conn'[c].cli = conn[c].cli,
         \A h \in Hosts : h # g =>
           mgr'[h] = mgr[h] /\ requestToSocket'[h] = requestToSocket[h]
  PROVE  \A h \in Hosts : h # g => CalmHost(h)'
<1> SUFFICES ASSUME NEW h \in Hosts, h # g PROVE CalmHost(h)'
  OBVIOUS
<1>1. \A k \in Conns : Used(k) /\ conn[k].owner = h => conn'[k].cli = conn[k].cli
  OBVIOUS
<1>2. \A k \in Conns : Used(k) /\ conn[k].target = h =>
        /\ Unanswered(conn[k]) => Unanswered(conn'[k])
        /\ Talking(conn[k]) => Talking(conn'[k])
  OBVIOUS
<1> QED BY <1>1, <1>2, CalmHostIdle

\* The server takes up a request that has neither a socket nor a client here.
LEMMA RequestCalm ==
  ASSUME CalmInv, [Next]_vars, NEW c \in Conns, ReceiveRequest(c)
  PROVE  CalmConns' /\ \A h \in Hosts : CalmHost(h)'
<1> DEFINE cn == conn[c]
           d == cn.owner
<1>1. /\ SessionInv /\ TypeInv
      /\ mgr \in [Hosts -> ManagerType]
      /\ requestToSocket \in [Hosts -> [Conns -> ConnOrNone]]
      /\ conn \in [Conns -> ConnType]
  BY CalmTypes
<1>2. Used(c) /\ InSessions(cn) /\ Asking(cn)
  BY <1>1, UsedWhen DEF ReceiveRequest, ServerReads, Asking
<1>0. PICK g \in Hosts : cn.target = g
  BY <1>1, <1>2, UsedConns
<1> DEFINE m == mgr[g]
           new == mgr'[g]
<1>3. /\ cn.target = g /\ cn.req = c /\ d # g
      /\ cn \in ConnType /\ Flow(cn) /\ Calm(cn)
  BY <1>0, <1>1, <1>2 DEF CalmInv, CalmConns, FlowInv
<1>4. \A k \in Conns : k # c => conn'[k] = conn[k]
  BY <1>1, ServerConnSteps DEF ServerStep
<1>5. \A h \in Hosts, r \in Conns :
        requestToSocket'[h][r] = IF h = g /\ r = c THEN c ELSE requestToSocket[h][r]
  BY <1>1, <1>3 DEF ReceiveRequest, Bind
<1>6. PICK answer \in Answers(m, g, d) :
        /\ Set(g, OnIncomingRequest(m, g, c, d, answer))
        /\ conn'[c] = CASE answer = "accept" -> Accepted(ReadRequest(cn))
                        [] answer = "prompt" -> ReadRequest(cn)
                        [] answer \in {"decline", "fail"} -> Rejected(ReadRequest(cn))
  BY <1>1, <1>3 DEF ReceiveRequest
<1>7. answer \in {"accept", "prompt", "decline", "fail"}
  BY DEF Answers
<1>8. \A h \in Hosts : mgr'[h] = IF h = g THEN OnIncomingRequest(m, g, c, d, answer) ELSE mgr[h]
  BY <1>1, <1>6 DEF Set
<1>9. /\ Calm(ReadRequest(cn)) /\ Unanswered(ReadRequest(cn))
      /\ Calm(Accepted(ReadRequest(cn))) /\ Talking(Accepted(ReadRequest(cn)))
      /\ Calm(Rejected(ReadRequest(cn)))
  BY <1>2, <1>3, CalmServer
<1>10. CalmConns'
  <2>1. Calm(conn'[c])
    BY <1>6, <1>7, <1>9
  <2> QED BY <1>4, <2>1, CalmConnsStep DEF CalmInv, CalmConns
<1>11. conn'[c].cli = cn.cli
  BY <1>3, <1>6, <1>7 DEF Accepted, Rejected, ReadRequest, ConnType
<1>12. \A h \in Hosts : h # g => CalmHost(h)'
  <2>1. \A h \in Hosts : h # g => requestToSocket'[h] = requestToSocket[h]
    BY <1>1, <1>3 DEF ReceiveRequest, Bind
  <2> QED BY <1>3, <1>4, <1>8, <1>11, <2>1, ServerCalmElsewhere
<1>13. requestToSocket[g][c] = None
  <2> SUFFICES ASSUME requestToSocket[g][c] # None PROVE FALSE
    OBVIOUS
  <2>1. cn.bound
    BY <1>3, OwnSocket
  <2> QED BY <1>2, <1>3, <2>1, StreamOps DEF Flow, Asking
<1>14. c \notin m.pending /\ ~(m.active /\ m.req = c)
  <2>1. c \notin m.pending
    BY <1>3, <1>13, CalmHere
  <2>2. ASSUME m.active, m.req = c PROVE FALSE
    <3>1. m.client \in Conns /\ Used(m.client) /\ conn[m.client].req = c /\ conn[m.client].owner = g
      BY <1>3, <1>13, <2>2, CalmHere DEF CalmHost, Live
    <3>2. m.client = c
      BY <3>1 DEF CalmInv, CalmConns
    <3> QED BY <1>3, <3>1, <3>2
  <2> QED BY <2>1, <2>2
<1>15. CalmHost(g) /\ m \in ManagerType /\ m.pending \subseteq Conns
       /\ (m.client # None => m.client \in Conns /\ Used(m.client))
       /\ (m.active => m.req \in Conns)
  BY <1>1, <1>3, CalmHere DEF ManagerType
<1>16. m.client # None => conn'[m.client].owner = g /\ conn'[m.client].cli = conn[m.client].cli
                          /\ conn'[m.client].req = conn[m.client].req
  BY <1>1, <1>4, <1>11, <1>15, ConnSteps, EndsStay DEF CalmHost, Used
<1>17. CalmHost(g)'
  <2>1. CASE answer = "decline"
    <3>1. new = m
      BY <1>3, <1>8, <2>1 DEF OnIncomingRequest
    <3>2. \A k \in m.pending : Unanswered(conn'[k])
      BY <1>4, <1>14, <1>15 DEF CalmHost
    <3>3. m.active /\ requestToSocket'[g][m.req] # None => Talking(conn'[m.req])
      BY <1>3, <1>4, <1>5, <1>14, <1>15 DEF CalmHost
    <3>4. m.active => Live(mgr[g])' \/ requestToSocket'[g][m.req] # None
      BY <1>3, <1>5, <1>14, <1>15, <1>16, <3>1 DEF CalmHost, Live
    <3> QED BY <1>15, <1>16, <3>1, <3>2, <3>3, <3>4 DEF CalmHost, Unanswered, Talking
  <2>2. CASE answer = "accept"
    <3>1. /\ new.active /\ new.req = c /\ new.client = m.client
          /\ new.reconnecting = m.reconnecting /\ new.pending = {}
      <4>1. m.pending = {}
        BY <2>2 DEF Answers
      <4>2. new = Receiving([m EXCEPT !.invited = IF @ = d THEN NoDevice ELSE @], g, c, d)
        BY <1>3, <1>8, <2>2 DEF OnIncomingRequest
      <4> QED BY <1>15, <4>1, <4>2 DEF Receiving, ManagerType
    <3>2. Talking(conn'[c]) /\ requestToSocket'[g][c] = c
      BY <1>3, <1>5, <1>6, <1>9, <2>2
    <3> QED BY <1>15, <1>16, <3>1, <3>2 DEF CalmHost, Talking, Conns, None
  <2>3. CASE answer = "prompt"
    <3>1. /\ ~new.active /\ new.pending = {c} /\ new.client = m.client
          /\ new.reconnecting = m.reconnecting
      <4>1. ~m.active
        BY <2>3 DEF Answers
      <4>2. new = [[m EXCEPT !.invited = IF @ = d THEN NoDevice ELSE @] EXCEPT
                     !.pending = {c}, !.req = c, !.state = "AwaitingApproval", !.prompt = c]
        BY <1>3, <1>8, <2>3 DEF OnIncomingRequest
      <4> QED BY <1>15, <4>1, <4>2 DEF ManagerType
    <3>2. Unanswered(conn'[c])
      BY <1>6, <1>9, <2>3
    <3> QED BY <1>15, <1>16, <3>1, <3>2 DEF CalmHost, Unanswered
  <2>4. CASE answer = "fail"
    <3>1. /\ ~new.active /\ new.pending = {} /\ new.client = m.client
          /\ new.reconnecting = m.reconnecting
      <4>1. ~m.active /\ m.pending = {}
        BY <2>4 DEF Answers
      <4>2. new = ReceiveFailed([m EXCEPT !.invited = IF @ = d THEN NoDevice ELSE @])
        BY <1>3, <1>8, <2>4 DEF OnIncomingRequest
      <4> QED BY <1>15, <4>1, <4>2 DEF ReceiveFailed, Failed, ManagerType
    <3> QED BY <1>15, <1>16, <3>1 DEF CalmHost
  <2> QED BY <1>7, <2>1, <2>2, <2>3, <2>4
<1> QED BY <1>3, <1>10, <1>12, <1>17

\* The server that hears a hang-up, or loses a socket, forgets its request and
\* nothing else.
LEMMA ForgetCalm ==
  ASSUME CalmInv, [Next]_vars, NEW c \in Conns,
         ReceiveHangUp(c) \/ ServerCloses(c) \/ ServerReadsEnd(c)
  PROVE  CalmConns' /\ \A h \in Hosts : CalmHost(h)'
<1> DEFINE cn == conn[c]
<1>1. /\ SessionInv /\ TypeInv
      /\ mgr \in [Hosts -> ManagerType]
      /\ requestToSocket \in [Hosts -> [Conns -> ConnOrNone]]
      /\ conn \in [Conns -> ConnType]
  BY CalmTypes
<1>2. InSessions(cn) /\ \A k \in Conns : k # c => conn'[k] = conn[k]
  BY <1>1, ServerConnSteps DEF ServerStep, ServerMoves
<1>0. Used(c) /\ \E g \in Hosts : cn.target = g
  BY <1>1, <1>2, UsedWhen, UsedConns
<1> PICK g \in Hosts : cn.target = g
  BY <1>0
<1> DEFINE m == mgr[g]
           new == mgr'[g]
<1>3. /\ Used(c) /\ cn.target = g /\ cn.req = c
      /\ cn \in ConnType /\ Flow(cn) /\ Calm(cn)
  BY <1>0, <1>1, <1>2 DEF CalmInv, CalmConns, FlowInv
<1>4. Calm(conn'[c]) /\ conn'[c].cli = cn.cli
  <2>1. CASE ReceiveHangUp(c)
    <3>1. conn'[c] = ReadHangUp(cn) /\ cn.toServer # << >> /\ Head(cn.toServer) = "DISCONNECT"
      BY <1>1, <2>1 DEF ReceiveHangUp, ServerReads
    <3> QED BY <1>2, <1>3, <3>1, CalmServer DEF ReadHangUp, ConnType
  <2>2. CASE ServerCloses(c)
    <3>1. conn'[c] = ServerDisconnected(cn, <<"FIN">>) /\ cn.srv = "closing"
      BY <1>1, <2>2 DEF ServerCloses, ServerSocketGone
    <3> QED BY <1>2, <1>3, <3>1, CalmServer DEF ServerDisconnected, ConnType
  <2>3. CASE ServerReadsEnd(c)
    <3>1. conn'[c] = ServerDisconnected(cn, << >>) /\ cn.toServer # << >> /\ Head(cn.toServer) = "FIN"
      BY <1>1, <2>3 DEF ServerReadsEnd, ServerSocketGone, ServerReads
    <3> QED BY <1>2, <1>3, <3>1, CalmServer DEF ServerDisconnected, ConnType
  <2> QED BY <2>1, <2>2, <2>3
<1>5. CalmConns'
  BY <1>2, <1>4, CalmConnsStep DEF CalmInv, CalmConns
<1>6. \/ ~cn.bound /\ UNCHANGED <<requestToSocket, mgr>>
      \/ /\ cn.bound /\ Set(g, OnClientDisconnected(m, c))
         /\ \/ Unbind(g, c)
            \/ requestToSocket[g][c] # c /\ UNCHANGED requestToSocket
  <2>1. CASE ReceiveHangUp(c)
    BY <1>3, <2>1 DEF ReceiveHangUp, Set, Unbind, Bind
  <2>2. CASE \E msgs : ServerSocketGone(c, msgs)
    BY <1>3, <2>2 DEF ServerSocketGone, UnbindSocket, Set, Unbind, Bind
  <2> QED BY <2>1, <2>2 DEF ServerCloses, ServerReadsEnd
<1>7. \A h \in Hosts : h # g => mgr'[h] = mgr[h] /\ requestToSocket'[h] = requestToSocket[h]
  BY <1>1, <1>3, <1>6 DEF Set, Unbind, Bind
<1>8. \A h \in Hosts : h # g => CalmHost(h)'
  BY <1>2, <1>3, <1>4, <1>7, ServerCalmElsewhere
<1>9. \A r \in Conns : r # c => requestToSocket'[g][r] = requestToSocket[g][r]
  BY <1>1, <1>3, <1>6 DEF Unbind, Bind
<1>10. CalmHost(g) /\ m \in ManagerType /\ m.pending \subseteq Conns
       /\ (m.client # None => m.client \in Conns /\ Used(m.client))
       /\ (m.active => m.req \in Conns)
       /\ \A r \in m.pending : requestToSocket[g][r] # None
  BY <1>1, <1>3, CalmHere DEF ManagerType
<1>11. Live(m) /\ new.client = m.client /\ new.req = m.req => Live(mgr[g])'
  <2>1. m.client # None => conn'[m.client].cli = conn[m.client].cli
                           /\ conn'[m.client].req = conn[m.client].req
    BY <1>1, <1>2, <1>4, <1>10, ConnSteps, EndsStay DEF Used
  <2> QED BY <2>1 DEF Live
<1>12. CASE ~cn.bound
  <2>1. new = m /\ requestToSocket' = requestToSocket
    BY <1>6, <1>12
  <2>2. requestToSocket[g][c] = None
    BY <1>3, <1>12, OwnSocket
  <2>3. \A r \in m.pending : Unanswered(conn[r]) => Unanswered(conn'[r])
    BY <1>2, <1>10, <2>2
  <2>4. m.active /\ requestToSocket[g][m.req] # None /\ Talking(conn[m.req])
          => Talking(conn'[m.req])
    BY <1>2, <1>10, <2>2
  <2> QED BY <1>3, <1>8, <1>10, <1>11, <2>1, <2>3, <2>4, <1>5, CalmHostStep DEF CalmHost
<1>13. CASE cn.bound
  <2>1. new = OnClientDisconnected(m, c)
    BY <1>1, <1>3, <1>6, <1>13 DEF Set
  <2>2. /\ new.pending = m.pending \ {c} /\ new.client = m.client
        /\ new.reconnecting = m.reconnecting
        /\ new.active => m.active /\ new.req = m.req /\ m.req # c
    BY <1>10, <2>1 DEF OnClientDisconnected, Ended, ManagerType
  <2>3. \A r \in new.pending : Unanswered(conn[r]) => Unanswered(conn'[r])
    BY <1>2, <1>10, <2>2
  <2>4. new.active =>
          /\ requestToSocket'[g][m.req] = requestToSocket[g][m.req]
          /\ conn'[m.req] = conn[m.req]
    BY <1>2, <1>9, <1>10, <2>2
  <2>5. CalmHost(g)'
    BY <1>3, <1>10, <1>11, <2>2, <2>3, <2>4, CalmHostStep DEF CalmHost
  <2> QED BY <1>5, <1>8, <2>5
<1> QED BY <1>12, <1>13

\* The user answers the dialog: the socket it is about is still unanswered.
LEMMA AnswerCalm ==
  ASSUME CalmInv, [Next]_vars, NEW g \in Hosts, Approve(g) \/ Refuse(g)
  PROVE  CalmConns' /\ \A h \in Hosts : CalmHost(h)'
<1> DEFINE m == mgr[g]
           r == m.prompt
           new == mgr'[g]
           waiting == [m EXCEPT !.pending = @ \ {r}]
<1>1. /\ SessionInv /\ TypeInv
      /\ mgr \in [Hosts -> ManagerType]
      /\ conn \in [Conns -> ConnType]
      /\ UNCHANGED requestToSocket
  BY CalmTypes DEF Approve, Refuse
<1>2. PICK c \in Conns : c = m.prompt
  BY <1>1 DEF Approve, Refuse, ManagerType
<1>3. /\ c \in m.pending /\ m \in ManagerType /\ Coupled(requestToSocket[g], m)
      /\ (m.client # None => m.client \in Conns /\ Used(m.client))
      /\ (m.active => m.req \in Conns /\ m.req # c)
      /\ CalmHost(g)
  BY <1>2, CalmHere DEF Approve, Refuse, Coupled
<1>4. /\ requestToSocket[g][c] = c /\ conn[c].target = g
      /\ conn[c].bound /\ InSessions(conn[c]) /\ Used(c)
      /\ conn[c] \in ConnType /\ Flow(conn[c]) /\ Calm(conn[c])
  BY <1>3, OwnSocket DEF Coupled
<1>5. Unanswered(conn[c])
  BY <1>3 DEF CalmHost
<1>6. Calm(Accepted(conn[c])) /\ Talking(Accepted(conn[c])) /\ Calm(Rejected(conn[c]))
  BY <1>4, <1>5, CalmServer
<1>7. \/ /\ \A h \in Hosts : mgr'[h] = IF h = g THEN Receiving(waiting, g, c, conn[c].owner) ELSE mgr[h]
         /\ \A k \in Conns : conn'[k] = IF k = c THEN Accepted(conn[c]) ELSE conn[k]
      \/ /\ \A h \in Hosts : mgr'[h] = IF h = g
                                       THEN [m EXCEPT !.pending = @ \ {c}, !.prompt = None,
                                                      !.state = IF m.req = c /\ ~m.active THEN "Idle" ELSE @]
                                       ELSE mgr[h]
         /\ \A k \in Conns : conn'[k] = IF k = c THEN Rejected(conn[c]) ELSE conn[k]
      \/ /\ \A h \in Hosts : mgr'[h] = IF h = g THEN ReceiveFailed(waiting) ELSE mgr[h]
         /\ \A k \in Conns : conn'[k] = IF k = c THEN Rejected(conn[c]) ELSE conn[k]
  <2>1. CASE Approve(g)
    BY <1>1, <1>2, <1>4, <2>1 DEF Approve, Set, OnSocketOf
  <2>2. CASE Refuse(g)
    BY <1>1, <1>2, <1>4, <2>2 DEF Refuse, Set, OnSocketOf
  <2> QED BY <2>1, <2>2
<1>8. /\ \A k \in Conns : k # c => conn'[k] = conn[k]
      /\ conn'[c].cli = conn[c].cli /\ Calm(conn'[c])
  <2>1. \A k \in Conns : k # c => conn'[k] = conn[k]
    BY <1>7
  <2>2. conn'[c] = Accepted(conn[c]) \/ conn'[c] = Rejected(conn[c])
    BY <1>7
  <2>3. Accepted(conn[c]).cli = conn[c].cli /\ Rejected(conn[c]).cli = conn[c].cli
    BY <1>4 DEF Accepted, Rejected, ConnType
  <2> QED BY <1>6, <2>1, <2>2, <2>3
<1>9. CalmConns'
  BY <1>8, CalmConnsStep DEF CalmInv, CalmConns
<1>10. \A h \in Hosts : h # g => CalmHost(h)'
  <2>1. \A h \in Hosts : h # g => mgr'[h] = mgr[h]
    BY <1>7
  <2> QED BY <1>1, <1>4, <1>8, <2>1, ServerCalmElsewhere
<1>11. CalmHost(g)'
  <2>1. new.pending = m.pending \ {c} /\ new.client = m.client /\ new.reconnecting = m.reconnecting
    BY <1>2, <1>3, <1>7 DEF Receiving, ReceiveFailed, Failed, ManagerType
  <2>2. \A k \in new.pending : Unanswered(conn'[k])
    BY <1>3, <1>8, <2>1 DEF CalmHost, ManagerType
  <2>3. CASE new = Receiving(waiting, g, c, conn[c].owner) /\ conn'[c] = Accepted(conn[c])
    <3>1. new.active /\ new.req = c
      BY <1>3, <2>3 DEF Receiving, ManagerType
    <3>2. new.client # None => conn'[new.client].owner = g
      BY <1>1, <1>3, <2>1, ConnSteps, EndsStay DEF CalmHost, Used
    <3>3. Talking(conn'[c]) /\ requestToSocket'[g][c] # None
      BY <1>1, <1>4, <1>6, <2>3 DEF Conns, None
    <3> QED BY <1>3, <2>1, <2>2, <3>1, <3>2, <3>3 DEF CalmHost, Unanswered, Talking
  <2>4. ASSUME new.active = m.active, new.req = m.req PROVE CalmHost(g)'
    <3>1. m.active => conn'[m.req] = conn[m.req]
      BY <1>3, <1>8
    <3>2. Live(m) => Live(mgr[g])'
      <4>1. m.client # None => conn'[m.client].cli = conn[m.client].cli
                               /\ conn'[m.client].req = conn[m.client].req
        BY <1>1, <1>3, <1>8, ConnSteps, EndsStay DEF Used
      <4> QED BY <2>1, <2>4, <4>1 DEF Live
    <3> QED BY <1>1, <1>3, <2>1, <2>2, <2>4, <3>1, <3>2, CalmHostStep DEF CalmHost
  <2>5. \/ new = Receiving(waiting, g, c, conn[c].owner) /\ conn'[c] = Accepted(conn[c])
        \/ new.active = m.active /\ new.req = m.req
    <3> DEFINE refused == [m EXCEPT !.pending = @ \ {c}, !.prompt = None,
                                    !.state = IF m.req = c /\ ~m.active THEN "Idle" ELSE @]
    <3>1. \A x \in {ReceiveFailed(waiting), refused} : x.active = m.active /\ x.req = m.req
      BY <1>3 DEF ReceiveFailed, Failed, ManagerType
    <3>2. \/ new = Receiving(waiting, g, c, conn[c].owner) /\ conn'[c] = Accepted(conn[c])
          \/ new \in {ReceiveFailed(waiting), refused}
      BY <1>7
    <3> QED BY <3>1, <3>2
  <2> QED BY <2>3, <2>4, <2>5
<1> QED BY <1>9, <1>10, <1>11

\* A call: the new client is live, the one it replaces is destroyed.
LEMMA DialCalm ==
  ASSUME CalmInv, [Next]_vars, NEW g \in Hosts, NEW f \in Hosts, Dial(g, f)
  PROVE  CalmConns' /\ \A h \in Hosts : CalmHost(h)'
<1> DEFINE m == mgr[g]
           new == mgr'[g]
<1>1. /\ SessionInv /\ TypeInv
      /\ mgr \in [Hosts -> ManagerType]
      /\ conn \in [Conns -> ConnType]
      /\ UNCHANGED requestToSocket
  BY CalmTypes DEF Dial
<1>2. PICK c \in Conns :
        /\ IsFresh(c) /\ conn' = ClientReplaced(g, c, f, c)
        /\ Set(g, [m EXCEPT !.client = c, !.req = c, !.active = TRUE,
                            !.inFlight = FALSE, !.state = "RequestSent"])
  BY DEF Dial
<1>3. ~Used(c) /\ c # None
  BY <1>2 DEF IsFresh, Used, Conns, None
<1>4. /\ m \in ManagerType /\ CalmHost(g)
      /\ m.client # None => m.client \in Conns /\ Used(m.client)
      /\ \A r \in m.pending : r \in Conns /\ requestToSocket[g][r] # None
  BY CalmHere
<1>5. m.client # c
  BY <1>3, <1>4
<1>6. /\ \A h \in Hosts : h # g => mgr'[h] = mgr[h]
      /\ new.client = c /\ new.req = c /\ new.active /\ new.pending = m.pending
      /\ ~new.reconnecting
  BY <1>1, <1>2, <1>4 DEF Set, CalmHost, ManagerType
<1>7. /\ conn'[c] = Dialled(g, f, c)
      /\ \A k \in Conns : k # c => conn'[k] = IF k = m.client THEN Dropped(conn[k]) ELSE conn[k]
  BY <1>2, <1>5 DEF ClientReplaced
<1>8. \A k \in Conns : Used(k) => CalmMove(conn[k], conn'[k])
  <2> SUFFICES ASSUME NEW k \in Conns, Used(k) PROVE CalmMove(conn[k], conn'[k])
    OBVIOUS
  <2>1. conn[k] \in ConnType /\ Flow(conn[k]) /\ Calm(conn[k]) /\ k # c
    BY <1>1, <1>3 DEF CalmInv, CalmConns, FlowInv
  <2>2. CalmMove(conn[k], conn[k])
    BY <2>1 DEF CalmMove
  <2>3. CalmMove(conn[k], Dropped(conn[k]))
    <3>1. ClientMoves(conn[k], Dropped(conn[k]))
      BY DEF ClientMoves, Used
    <3> QED BY <2>1, <3>1, CalmClient
  <2> QED BY <1>7, <2>1, <2>2, <2>3
<1>9. CalmConns'
  BY <1>8, CalmConnsStep DEF CalmMove
<1>10. ASSUME NEW h \in Hosts, h # g PROVE CalmHost(h)'
  <2>1. \A k \in Conns : Used(k) /\ conn[k].owner = h => conn'[k].cli = conn[k].cli
    BY <1>3, <1>4, <1>7, <1>10 DEF CalmHost, Conns, None
  <2> QED BY <1>1, <1>6, <1>8, <1>10, <2>1, CalmHostIdle DEF CalmMove
<1>11. CalmHost(g)'
  <2>1. \A r \in m.pending : Unanswered(conn'[r])
    BY <1>4, <1>8, OwnSocket DEF CalmHost, CalmMove
  <2>2. requestToSocket'[g][c] = None
    BY <1>1, <1>3, OwnSocket
  <2>3. conn'[c].owner = g /\ conn'[c].req = c /\ conn'[c].cli = "dialing"
    BY <1>7 DEF Dialled, UnusedConn
  <2> QED BY <1>3, <1>6, <2>1, <2>2, <2>3 DEF CalmHost, Live, Unanswered
<1> QED BY <1>9, <1>10, <1>11

\* Hanging up: the session the desktop ends was still open.
LEMMA DisconnectCalm ==
  ASSUME CalmInv, [Next]_vars, NEW g \in Hosts, Disconnect(g)
  PROVE  CalmConns' /\ \A h \in Hosts : CalmHost(h)'
<1> DEFINE m == mgr[g]
           new == mgr'[g]
           r == m.req
<1>1. /\ SessionInv /\ TypeInv
      /\ mgr \in [Hosts -> ManagerType]
      /\ requestToSocket \in [Hosts -> [Conns -> ConnOrNone]]
      /\ conn \in [Conns -> ConnType]
  BY CalmTypes
<1>2. /\ m \in ManagerType /\ CalmHost(g) /\ Coupled(requestToSocket[g], m)
      /\ m.client # None => m.client \in Conns /\ Used(m.client)
      /\ m.active => r \in Conns
      /\ \A k \in m.pending : k \in Conns /\ requestToSocket[g][k] # None
  BY CalmHere
<1>3. /\ \A h \in Hosts : h # g => mgr'[h] = mgr[h]
      /\ ~new.active /\ new.client = None /\ new.pending = m.pending /\ ~new.reconnecting
  BY <1>1, <1>2 DEF Disconnect, Set, Ended, ReconnectStopped, ManagerType
<1>4. ASSUME \A k \in Conns : Used(k) => Calm(conn'[k]),
             \A k \in m.pending : Unanswered(conn[k]) => Unanswered(conn'[k]),
             \A k \in Conns : Used(k) /\ conn[k].owner # g => conn'[k].cli = conn[k].cli,
             \A k \in Conns : Used(k) /\ conn[k].target # g =>
               /\ Unanswered(conn[k]) => Unanswered(conn'[k])
               /\ Talking(conn[k]) => Talking(conn'[k]),
             \A h \in Hosts : h # g => requestToSocket'[h] = requestToSocket[h]
      PROVE  CalmConns' /\ \A h \in Hosts : CalmHost(h)'
  <2>1. CalmConns'
    BY <1>4, CalmConnsStep
  <2>2. CalmHost(g)'
    BY <1>3, <1>4, CalmHostStep
  <2>3. ASSUME NEW h \in Hosts, h # g PROVE CalmHost(h)'
    <3>1. \A k \in Conns : Used(k) /\ conn[k].owner = h => conn'[k].cli = conn[k].cli
      BY <1>4, <2>3
    <3>2. \A k \in Conns : Used(k) /\ conn[k].target = h =>
            /\ Unanswered(conn[k]) => Unanswered(conn'[k])
            /\ Talking(conn[k]) => Talking(conn'[k])
      BY <1>4, <2>3
    <3> QED BY <1>3, <1>4, <2>3, <3>1, <3>2, CalmHostIdle
  <2> QED BY <2>1, <2>2, <2>3
<1>5. \A k \in Conns : Used(k) => conn[k] \in ConnType /\ Flow(conn[k]) /\ Calm(conn[k])
  BY <1>1 DEF CalmInv, CalmConns, FlowInv
<1>6. CASE m.client # None
  <2>1. /\ \A k \in Conns : conn'[k] = IF k = m.client THEN Dropped(conn[k]) ELSE conn[k]
        /\ UNCHANGED requestToSocket
    BY <1>1, <1>2, <1>6 DEF Disconnect
  <2>2. \A k \in Conns : Used(k) => CalmMove(conn[k], conn'[k])
    <3> SUFFICES ASSUME NEW k \in Conns, Used(k) PROVE CalmMove(conn[k], conn'[k])
      OBVIOUS
    <3>1. CalmMove(conn[k], conn[k])
      BY <1>5 DEF CalmMove
    <3>2. CalmMove(conn[k], Dropped(conn[k]))
      <4>1. ClientMoves(conn[k], Dropped(conn[k]))
        BY DEF ClientMoves, Used
      <4> QED BY <1>5, <4>1, CalmClient
    <3> QED BY <2>1, <3>1, <3>2
  <2>3. \A k \in m.pending : Unanswered(conn[k]) => Unanswered(conn'[k])
    BY <1>2, <2>2, OwnSocket DEF CalmMove
  <2>4. \A k \in Conns : Used(k) /\ conn[k].owner # g => conn'[k].cli = conn[k].cli
    BY <1>2, <1>6, <2>1 DEF CalmHost
  <2> QED BY <1>4, <2>1, <2>2, <2>3, <2>4 DEF CalmMove
<1>7. CASE m.client = None /\ m.active
  <2>1. PICK c \in Conns : c = m.req
    BY <1>2, <1>7
  <2>2. requestToSocket[g][c] # None /\ Talking(conn[c])
    BY <1>2, <1>7, <2>1 DEF CalmHost, Live
  <2>3. /\ requestToSocket[g][c] = c /\ conn[c].target = g
        /\ conn[c].bound /\ InSessions(conn[c]) /\ Used(c)
    BY <2>2, OwnSocket
  <2>4. \A k \in Conns : conn'[k] = IF k = c THEN HungUp(conn[c]) ELSE conn[k]
    BY <1>7, <2>1, <2>3 DEF Disconnect, OnSocketOf
  <2>5. \A h \in Hosts : h # g => requestToSocket'[h] = requestToSocket[h]
    BY <1>1, <1>7 DEF Disconnect, Unbind, Bind
  <2>6. Calm(HungUp(conn[c])) /\ HungUp(conn[c]).cli = conn[c].cli
    BY <1>5, <2>2, <2>3, CalmServer DEF HungUp, ConnType
  <2>7. c \notin m.pending
    BY <1>2, <1>7, <2>1 DEF Coupled
  <2>8. \A k \in m.pending : Unanswered(conn[k]) => Unanswered(conn'[k])
    BY <1>2, <2>4, <2>7
  <2>9. \A k \in Conns : Used(k) => Calm(conn'[k]) /\ conn'[k].cli = conn[k].cli
    BY <1>5, <2>4, <2>6
  <2>10. \A k \in Conns : Used(k) /\ conn[k].target # g => conn'[k] = conn[k]
    BY <2>3, <2>4
  <2> QED BY <1>4, <2>5, <2>8, <2>9, <2>10
<1>8. CASE m.client = None /\ ~m.active
  <2>1. UNCHANGED chanVars
    BY <1>8 DEF Disconnect, chanVars
  <2>2. \A k \in Conns : conn'[k] = conn[k]
    BY <2>1 DEF chanVars
  <2> QED BY <1>4, <1>5, <2>1, <2>2 DEF chanVars
<1> QED BY <1>6, <1>7, <1>8

\* A step that changes no connection, and of a manager neither its calls, its
\* client nor its timer.
LEMMA RestCalm ==
  ASSUME CalmInv, [Next]_vars, UNCHANGED chanVars,
         \A h \in Hosts :
           /\ mgr'[h].pending = mgr[h].pending /\ mgr'[h].client = mgr[h].client
           /\ mgr'[h].active => mgr[h].active /\ mgr'[h].req = mgr[h].req
           /\ mgr'[h].reconnecting = mgr[h].reconnecting
  PROVE  CalmConns' /\ \A h \in Hosts : CalmHost(h)'
<1>1. CalmConns'
  BY CalmConnsStep DEF chanVars, CalmInv, CalmConns
<1>2. ASSUME NEW h \in Hosts PROVE CalmHost(h)'
  <2>1. mgr'[h].active /\ Live(mgr[h]) => Live(mgr[h])'
    BY DEF Live, chanVars
  <2> QED BY <2>1, CalmHere, CalmHostStep DEF CalmHost, chanVars
<1> QED BY <1>1, <1>2

\* A phone calls on a connection nobody used.
LEMMA PhoneDialsCalm ==
  ASSUME CalmInv, [Next]_vars, NEW p \in Phones, NEW g \in Hosts, PhoneDials(p, g)
  PROVE  CalmConns' /\ \A h \in Hosts : CalmHost(h)'
<1>1. conn \in [Conns -> ConnType] /\ UNCHANGED <<requestToSocket, mgr>>
  BY CalmTypes DEF PhoneDials
<1>2. PICK c \in Conns : ~Used(c) /\ conn' = [conn EXCEPT ![c] = Dialled(p, g, c)]
  BY DEF PhoneDials, IsFresh, Used
<1>3. \A k \in Conns : Used(k) => conn'[k] = conn[k]
  BY <1>1, <1>2
<1>4. CalmConns'
  BY <1>3, CalmConnsStep DEF CalmInv, CalmConns
<1>5. \A h \in Hosts : CalmHost(h)'
  BY <1>1, <1>3, CalmHostIdle
<1> QED BY <1>4, <1>5

\* So every step keeps the invariant while nothing is lost.
LEMMA CalmNext == ASSUME NothingLost, CalmInv, [Next]_vars PROVE CalmInv'
<1> SUFFICES CalmConns' /\ \A h \in Hosts : CalmHost(h)'
  BY FlowNext DEF CalmInv
<1>1. \A h \in Hosts : mgr[h] \in ManagerType /\ ~mgr[h].reconnecting
  BY CalmHere DEF CalmHost
<1>2. CASE UNCHANGED vars
  BY <1>2, RestCalm DEF vars, chanVars
<1>3. ASSUME NEW c \in Conns,
             ClientStep(c) \/ ServerStep(c) \/ Network(c) \/ PhoneHangsUp(c)
      PROVE  CalmConns' /\ \A h \in Hosts : CalmHost(h)'
  BY <1>3, ClientCalm, RequestCalm, ForgetCalm DEF ServerStep, Network, NothingLost
<1>4. ASSUME NEW g \in Hosts, User(g) \/ Timer(g)
      PROVE  CalmConns' /\ \A h \in Hosts : CalmHost(h)'
  <2>1. CASE Approve(g) \/ Refuse(g)
    BY <2>1, AnswerCalm
  <2>2. CASE \E f \in Hosts : Dial(g, f)
    BY <2>2, DialCalm
  <2>3. CASE Disconnect(g)
    BY <2>3, DisconnectCalm
  <2>4. ASSUME \/ \E p \in Phones : Invite(g, p)
               \/ ConnectFails(g) \/ InviteTimeout(g)
               \/ \E d \in Devices : RevokeTrust(g, d)
        PROVE  CalmConns' /\ \A h \in Hosts : CalmHost(h)'
    <3>1. mgr \in [Hosts -> ManagerType] /\ UNCHANGED chanVars
      BY <2>4, CalmTypes DEF Invite, ConnectFails, InviteTimeout, RevokeTrust
    <3>2. \A h \in Hosts : h # g => mgr'[h] = mgr[h]
      BY <2>4, <3>1 DEF Invite, ConnectFails, InviteTimeout, RevokeTrust, Set
    <3>3. /\ mgr'[g].pending = mgr[g].pending /\ mgr'[g].client = mgr[g].client
          /\ mgr'[g].active => mgr[g].active /\ mgr'[g].req = mgr[g].req
          /\ mgr'[g].reconnecting = mgr[g].reconnecting
      <4>1. mgr[g] \in ManagerType
        BY <1>1
      <4>2. CASE \E p \in Phones : Invite(g, p)
        BY <3>1, <4>1, <4>2 DEF Invite, Set, ManagerType
      <4>3. CASE ConnectFails(g) \/ InviteTimeout(g)
        BY ZenonT(30), <3>1, <4>1, <4>3 DEF ConnectFails, InviteTimeout, Set, Failed, ManagerType
      <4>4. CASE \E d \in Devices : RevokeTrust(g, d)
        BY <3>1, <4>1, <4>4 DEF RevokeTrust, ManagerType
      <4> QED BY <2>4, <4>2, <4>3, <4>4
    <3> QED BY <3>1, <3>2, <3>3, RestCalm
  <2>5. ~ReconnectTick(g) /\ ~(g \in MayQuit)
    BY <1>1 DEF ReconnectTick, NothingLost
  <2> QED BY <1>4, <2>1, <2>2, <2>3, <2>4, <2>5 DEF User, Timer
<1>5. ASSUME NEW p \in Phones, NEW g \in Hosts, PhoneDials(p, g)
      PROVE  CalmConns' /\ \A h \in Hosts : CalmHost(h)'
  BY <1>5, PhoneDialsCalm
<1> QED BY <1>2, <1>3, <1>4, <1>5 DEF Next

\* While nothing is lost, a desktop that refuses everybody else has what will end
\* that: a client that can still raise it, or the socket of its caller.
THEOREM CalmActiveHasChannel == ASSUME NothingLost PROVE Spec => []ActiveHasChannel
<1>1. Init => CalmInv
  BY InitFlow DEF CalmInv, CalmConns, CalmHost, Init, ChanInit, ManagerInit, Started, UnusedConn, Used, None
<1>2. CalmInv /\ [Next]_vars => CalmInv'
  BY NothingLost, CalmNext
<1>3. CalmInv => ActiveHasChannel
  BY DEF CalmInv, CalmHost, Live, ActiveHasChannel
<1> QED BY <1>1, <1>2, <1>3, PTL DEF Spec

-----------------------------------------------------------------------------
(* Calls are granted before they are heard *)

\* The answer is yes somewhere in a queue of messages to a client.
SaysYes(s) == \E i \in DOMAIN s : s[i] = "ACCEPT"

SaysYesOnce(s) ==
  \A i, j \in DOMAIN s : s[i] = "ACCEPT" /\ s[j] = "ACCEPT" => i = j

Granted(cn) == cn.cli = "session" \/ GrantUnderWay(cn)

\* A grant is sent to a call that still asks for it, and once.
AskedOnce(cn) ==
  /\ SaysYesOnce(cn.toClient)
  /\ cn.cli = "session" => ~GrantUnderWay(cn)
  /\ Asking(cn) => ~Granted(cn)

\* Whoever is played leaves nobody waiting for the dialog, which shows one
\* request at a time.
OneAtATime(m) ==
  /\ \A r, s \in m.pending : r = s
  /\ m.audio = "receive" => m.pending = {}

\* A call that was granted does not wait for the dialog.
NotWaiting(c) ==
  LET h == conn[c].target
      r == conn[c].req
  IN  Granted(conn[c]) /\ requestToSocket[h][r] = c => r \notin mgr[h].pending

CallInv ==
  /\ FlowInv
  /\ \A h \in Hosts : OneAtATime(mgr[h])
  /\ \A c \in Conns : AskedOnce(conn[c]) /\ NotWaiting(c)

\* Reading and writing such a queue.
LEMMA YesOps ==
  ASSUME NEW s \in ToClientQueue
  PROVE  /\ \A msg \in ToClientMsg \ {"ACCEPT"} :
              /\ SaysYes(s \o <<msg>>) <=> SaysYes(s)
              /\ SaysYesOnce(s) => SaysYesOnce(s \o <<msg>>)
         /\ SaysYes(s \o <<"ACCEPT">>)
         /\ ~SaysYes(s) => SaysYesOnce(s \o <<"ACCEPT">>)
         /\ s # << >> /\ Head(s) # "ACCEPT" =>
              /\ SaysYes(Tail(s)) <=> SaysYes(s)
              /\ SaysYesOnce(s) => SaysYesOnce(Tail(s))
         /\ s # << >> /\ Head(s) = "ACCEPT" =>
              /\ SaysYes(s)
              /\ SaysYesOnce(s) => ~SaysYes(Tail(s))
         /\ ~SaysYes(<< >>) /\ SaysYesOnce(<< >>)
<1> USE DEF ToClientQueue
<1>1. ASSUME NEW msg \in ToClientMsg
      PROVE  /\ DOMAIN (s \o <<msg>>) = 1 .. Len(s) + 1 /\ DOMAIN s = 1 .. Len(s)
             /\ \A i \in 1 .. Len(s) : (s \o <<msg>>)[i] = s[i]
             /\ (s \o <<msg>>)[Len(s) + 1] = msg
             /\ Len(s) \in Nat
  OBVIOUS
<1>2. ASSUME s # << >>
      PROVE  /\ DOMAIN Tail(s) = 1 .. Len(s) - 1 /\ DOMAIN s = 1 .. Len(s)
             /\ \A i \in 1 .. Len(s) - 1 : Tail(s)[i] = s[i + 1]
             /\ Head(s) = s[1] /\ Len(s) \in Nat \ {0}
  BY <1>2
<1>3. ASSUME NEW msg \in ToClientMsg \ {"ACCEPT"}
      PROVE  /\ SaysYes(s \o <<msg>>) <=> SaysYes(s)
             /\ SaysYesOnce(s) => SaysYesOnce(s \o <<msg>>)
  <2> DEFINE t == s \o <<msg>>
  <2>1. /\ DOMAIN t = 1 .. Len(s) + 1 /\ DOMAIN s = 1 .. Len(s)
        /\ \A i \in 1 .. Len(s) : t[i] = s[i]
        /\ t[Len(s) + 1] # "ACCEPT" /\ Len(s) \in Nat
    BY <1>1
  <2> HIDE DEF t
  <2>2. \A i : i \in DOMAIN t /\ t[i] = "ACCEPT" <=> i \in DOMAIN s /\ s[i] = "ACCEPT"
    BY <2>1
  <2>3. (SaysYes(t) <=> SaysYes(s)) /\ (SaysYesOnce(s) => SaysYesOnce(t))
    BY <2>2 DEF SaysYes, SaysYesOnce
  <2> QED BY <2>3 DEF t
<1>4. SaysYes(s \o <<"ACCEPT">>) /\ (~SaysYes(s) => SaysYesOnce(s \o <<"ACCEPT">>))
  <2> DEFINE t == s \o <<"ACCEPT">>
  <2>1. /\ DOMAIN t = 1 .. Len(s) + 1 /\ DOMAIN s = 1 .. Len(s)
        /\ \A i \in 1 .. Len(s) : t[i] = s[i]
        /\ t[Len(s) + 1] = "ACCEPT" /\ Len(s) \in Nat
    BY <1>1 DEF ToClientMsg
  <2> HIDE DEF t
  <2>2. Len(s) + 1 \in DOMAIN t
    BY <2>1
  <2>3. ASSUME ~SaysYes(s), NEW i \in DOMAIN t, t[i] = "ACCEPT"
        PROVE  i = Len(s) + 1
    <3>1. i \notin DOMAIN s \/ s[i] # "ACCEPT"
      BY <2>3 DEF SaysYes
    <3> QED BY <2>1, <2>3, <3>1
  <2>4. SaysYes(t) /\ (~SaysYes(s) => SaysYesOnce(t))
    BY <2>1, <2>2, <2>3 DEF SaysYes, SaysYesOnce
  <2> QED BY <2>4 DEF t
<1>5. ASSUME s # << >>
      PROVE  /\ Head(s) # "ACCEPT" =>
                  /\ SaysYes(Tail(s)) <=> SaysYes(s)
                  /\ SaysYesOnce(s) => SaysYesOnce(Tail(s))
             /\ Head(s) = "ACCEPT" =>
                  /\ SaysYes(s)
                  /\ SaysYesOnce(s) => ~SaysYes(Tail(s))
  <2> DEFINE t == Tail(s)
  <2>1. /\ DOMAIN t = 1 .. Len(s) - 1 /\ DOMAIN s = 1 .. Len(s)
        /\ \A i \in 1 .. Len(s) - 1 : t[i] = s[i + 1]
        /\ Head(s) = s[1] /\ Len(s) \in Nat \ {0}
    BY <1>2, <1>5
  <2> HIDE DEF t
  <2>2. \A i \in DOMAIN t : i + 1 \in DOMAIN s /\ i + 1 # 1 /\ t[i] = s[i + 1]
    BY <2>1
  <2>3. \A i \in DOMAIN s : i = 1 \/ (i - 1 \in DOMAIN t /\ s[i] = t[i - 1])
    BY <2>1
  <2>4. 1 \in DOMAIN s
    BY <2>1
  <2>5. Head(s) # "ACCEPT" => (SaysYes(t) <=> SaysYes(s))
    BY <2>1, <2>2, <2>3 DEF SaysYes
  <2>6. SaysYesOnce(s) => SaysYesOnce(t)
    <3> SUFFICES ASSUME SaysYesOnce(s), NEW i \in DOMAIN t, NEW j \in DOMAIN t,
                        t[i] = "ACCEPT", t[j] = "ACCEPT"
                 PROVE  i = j
      BY DEF SaysYesOnce
    <3>1. i + 1 = j + 1
      BY <2>2 DEF SaysYesOnce
    <3> QED BY <2>1, <3>1
  <2>7. Head(s) = "ACCEPT" => SaysYes(s) /\ (SaysYesOnce(s) => ~SaysYes(t))
    <3>1. Head(s) = "ACCEPT" => SaysYes(s)
      BY <2>1, <2>4 DEF SaysYes
    <3>2. ASSUME Head(s) = "ACCEPT", SaysYesOnce(s), NEW i \in DOMAIN t, t[i] = "ACCEPT"
          PROVE  FALSE
      BY <2>1, <2>2, <2>4, <3>2 DEF SaysYesOnce
    <3> QED BY <3>1, <3>2 DEF SaysYes
  <2> QED BY <2>5, <2>6, <2>7 DEF t
<1>6. ~SaysYes(<< >>) /\ SaysYesOnce(<< >>)
  BY DEF SaysYes, SaysYesOnce
<1> QED BY <1>3, <1>4, <1>5, <1>6

\* What happens to a connection that is neither opened, nor granted, nor told so.
Hushed(cn, new) ==
  /\ Line(new) = Line(cn)
  /\ CallStage(new) # CallStage(cn) => CallStage(new) = "over" /\ cn.cli # "unused"
  /\ AskedOnce(new)
  /\ Granted(new) => Granted(cn)

\* A client that leaves its phase, and keeps its answers or forgets them.
LEMMA HushedWhen ==
  ASSUME NEW cn, cn.cli \in ClientPhase, AskedOnce(cn), NEW new,
         Line(new) = Line(cn),
         Asking(new) => Asking(cn) \/ ~Granted(new),
         \/ new.toClient = << >> /\ new.cli = cn.cli /\ cn.toClient = << >>
         \/ new.toClient = << >> /\ new.cli \in {"closed", "gone"} /\ cn.cli # "unused"
         \/ /\ SaysYes(new.toClient) <=> SaysYes(cn.toClient)
            /\ SaysYesOnce(new.toClient)
            /\ \/ new.cli = cn.cli
               \/ new.cli = "spent" /\ cn.cli # "unused"
               \/ new.cli = "requested" /\ cn.cli = "dialing"
  PROVE  Hushed(cn, new)
<1>1. ~SaysYes(<< >>) /\ SaysYesOnce(<< >>)
  BY DEF SaysYes, SaysYesOnce
<1>2. /\ GrantUnderWay(cn) <=> SaysYes(cn.toClient)
      /\ GrantUnderWay(new) <=> SaysYes(new.toClient)
  BY DEF GrantUnderWay, SaysYes
<1> USE DEF ClientPhase
<1>3. AskedOnce(new) /\ (Granted(new) => Granted(cn))
  BY <1>1, <1>2 DEF AskedOnce, Granted
<1>4. CallStage(new) # CallStage(cn) => CallStage(new) = "over" /\ cn.cli # "unused"
  BY <1>1, <1>2 DEF AskedOnce, CallStage
<1> QED BY <1>3, <1>4 DEF Hushed

\* Ending a stream, or reading one, asks nothing new.
LEMMA StillAsking ==
  ASSUME NEW cn, Flow(cn), NEW new,
         \/ new.toServer \in {cn.toServer, << >>}
         \/ /\ cn.toServer \in OpenStreams
            /\ new.toServer \in {cn.toServer \o <<"FIN">>, cn.toServer \o <<"DISCONNECT", "FIN">>}
         \/ /\ cn.toServer # << >> /\ Head(cn.toServer) \in {"REQUEST", "DISCONNECT"}
            /\ new.toServer = Tail(cn.toServer)
  PROVE  Asking(new) => Asking(cn)
<1>1. CASE new.toServer \in {cn.toServer, << >>}
  BY <1>1 DEF Asking
<1>2. CASE /\ cn.toServer \in OpenStreams
           /\ new.toServer \in {cn.toServer \o <<"FIN">>, cn.toServer \o <<"DISCONNECT", "FIN">>}
  BY <1>2, AskingOps DEF Asking
<1>3. CASE /\ cn.toServer # << >> /\ Head(cn.toServer) \in {"REQUEST", "DISCONNECT"}
           /\ new.toServer = Tail(cn.toServer)
  <2>1. Tail(cn.toServer) \in {<< >>, <<"FIN">>, <<"DISCONNECT", "FIN">>}
    BY <1>3, StreamOps DEF Flow
  <2> QED BY <1>3, <2>1, StreamOps DEF Asking
<1> QED BY <1>1, <1>2, <1>3

\* A client's end leaves it hushed, unless it takes a grant.
LEMMA HushedClient ==
  ASSUME NEW cn \in ConnType, Flow(cn), AskedOnce(cn), NEW new, ClientMoves(cn, new)
  PROVE  \/ Hushed(cn, new)
         \/ /\ ClientSocketOpen(cn) /\ cn.toClient # << >> /\ Head(cn.toClient) = "ACCEPT"
            /\ new = ReadAccept(cn)
<1> USE DEF ConnType
<1>1. /\ cn.toClient \in ToClientQueue /\ SaysYesOnce(cn.toClient)
      /\ ~SaysYes(<< >>) /\ SaysYesOnce(<< >>)
  BY YesOps DEF AskedOnce
<1>2. CASE cn.cli = "dialing" /\ new = Encrypted(cn)
  <2>1. /\ new.toClient = << >> /\ cn.toClient = << >> /\ new.cli = "requested"
        /\ Line(new) = Line(cn)
    BY <1>2 DEF Flow, Encrypted, Line
  <2>2. ~Granted(new)
    BY <2>1 DEF Granted, GrantUnderWay
  <2> QED BY <1>1, <1>2, <2>1, <2>2, HushedWhen
<1>3. CASE /\ ClientSocketOpen(cn) /\ cn.toClient # << >>
           /\ \/ Head(cn.toClient) = "REJECT" /\ new = ReadReject(cn)
              \/ /\ Head(cn.toClient) = "DISCONNECT" /\ cn.owner \notin Phones
                 /\ new = ReadDisconnect(cn)
  <2>1. /\ new.toClient = Tail(cn.toClient) /\ new.toServer = cn.toServer
        /\ Line(new) = Line(cn)
        /\ new.cli \in {cn.cli, "spent"} /\ cn.cli # "unused"
    BY <1>3 DEF ReadReject, ReadDisconnect, Line, ClientSocketOpen
  <2>2. /\ SaysYes(new.toClient) <=> SaysYes(cn.toClient)
        /\ SaysYesOnce(new.toClient)
    BY <1>1, <1>3, <2>1, YesOps
  <2>3. Asking(new) => Asking(cn)
    BY <2>1, StillAsking
  <2> QED BY <2>1, <2>2, <2>3, HushedWhen
<1>4. CASE cn.cli = "session" /\ new = MissedKeepAlives(cn) /\ cn.owner \notin Phones
  <2>1. /\ new.toClient = cn.toClient /\ new.toServer = cn.toServer
        /\ Line(new) = Line(cn) /\ new.cli = "spent"
    BY <1>4 DEF MissedKeepAlives, Line
  <2>2. Asking(new) => Asking(cn)
    BY <2>1, StillAsking
  <2> QED BY <1>1, <1>4, <2>1, <2>2, HushedWhen
<1>5. CASE \/ /\ cn.cli = "dialing" \/ ClientSocketOpen(cn)
              /\ new \in {ClientDisconnected(cn), LoopLeft(cn), TimedOut(cn)}
           \/ cn.cli # "unused" /\ new = Dropped(cn)
           \/ cn.cli \in {"dialing", "requested", "session", "spent"} /\ new = PhoneDropped(cn)
  <2>1. /\ new.toClient = << >> /\ new.cli \in {"closed", "gone"} /\ cn.cli # "unused"
        /\ Line(new) = Line(cn)
    BY <1>5 DEF ClientDisconnected, LoopLeft, TimedOut, Dropped, PhoneDropped, Line,
                ClientSocketOpen
  <2>2. \/ new.toServer \in {cn.toServer, << >>}
        \/ /\ cn.toServer \in OpenStreams
           /\ new.toServer \in {cn.toServer \o <<"FIN">>, cn.toServer \o <<"DISCONNECT", "FIN">>}
    BY <1>5 DEF ClientDisconnected, LoopLeft, TimedOut, Dropped, PhoneDropped, ToServer,
                ClientSocketOpen, InSessions, Flow
  <2>3. Asking(new) => Asking(cn)
    BY <2>2, StillAsking
  <2> QED BY <2>1, <2>3, HushedWhen
<1> QED BY <1>2, <1>3, <1>4, <1>5
        DEF ClientMoves, ReadDisconnect, MissedKeepAlives, TimeoutRunning, ClientSocketOpen

\* The server's end leaves it hushed, unless it accepts.
LEMMA HushedServer ==
  ASSUME NEW cn \in ConnType, Flow(cn), AskedOnce(cn), cn.cli # "unused"
  PROVE  /\ Hushed(cn, Rejected(cn)) /\ Hushed(cn, HungUp(cn))
         /\ Hushed(cn, ServerDisconnected(cn, << >>))
         /\ Hushed(cn, ServerDisconnected(cn, <<"FIN">>))
         /\ Asking(cn) => Hushed(cn, ReadRequest(cn)) /\ Hushed(cn, Rejected(ReadRequest(cn)))
         /\ cn.toServer # << >> /\ Head(cn.toServer) = "DISCONNECT" => Hushed(cn, ReadHangUp(cn))
<1> USE DEF ConnType
<1>1. /\ cn.toClient \in ToClientQueue /\ SaysYesOnce(cn.toClient)
      /\ ~SaysYes(<< >>) /\ SaysYesOnce(<< >>)
      /\ ~ClientSocketOpen(cn) => cn.toClient = << >>
  BY YesOps DEF AskedOnce, Flow
<1>2. ASSUME NEW new, Line(new) = Line(cn), new.cli = cn.cli,
             \/ new.toClient = cn.toClient
             \/ \E msg \in ToClientMsg \ {"ACCEPT"} : new.toClient = ToClient(cn, <<msg>>),
             \/ new.toServer \in {cn.toServer, << >>}
             \/ /\ cn.toServer # << >> /\ Head(cn.toServer) \in {"REQUEST", "DISCONNECT"}
                /\ new.toServer = Tail(cn.toServer)
      PROVE  Hushed(cn, new)
  <2>1. Asking(new) => Asking(cn)
    BY <1>2, StillAsking
  <2>2. CASE new.toClient = cn.toClient
    BY <1>1, <1>2, <2>1, <2>2, HushedWhen
  <2>3. CASE \E msg \in ToClientMsg \ {"ACCEPT"} : new.toClient = ToClient(cn, <<msg>>)
    <3>1. PICK msg \in ToClientMsg \ {"ACCEPT"} : new.toClient = ToClient(cn, <<msg>>)
      BY <2>3
    <3>2. \/ new.toClient = << >> /\ cn.toClient = << >>
          \/ /\ SaysYes(new.toClient) <=> SaysYes(cn.toClient)
             /\ SaysYesOnce(new.toClient)
      BY <1>1, <3>1, YesOps DEF ToClient
    <3> QED BY <1>2, <2>1, <3>2, HushedWhen
  <2> QED BY <1>2, <2>2, <2>3
<1>3. {"FIN", "REJECT", "DISCONNECT"} \subseteq ToClientMsg \ {"ACCEPT"}
  BY DEF ToClientMsg
<1>4. Hushed(cn, Rejected(cn))
  <2> DEFINE new == Rejected(cn)
  <2>1. /\ Line(new) = Line(cn) /\ new.cli = cn.cli
        /\ new.toClient = ToClient(cn, <<"REJECT">>) /\ new.toServer = cn.toServer
    BY DEF Rejected, Line
  <2> HIDE DEF new
  <2>2. Hushed(cn, new)
    BY <1>2, <1>3, <2>1
  <2> QED BY <2>2 DEF new
<1>5. Hushed(cn, HungUp(cn))
  <2> DEFINE new == HungUp(cn)
  <2>1. /\ Line(new) = Line(cn) /\ new.cli = cn.cli
        /\ new.toClient = ToClient(cn, <<"DISCONNECT">>) /\ new.toServer = cn.toServer
    BY DEF HungUp, Line
  <2> HIDE DEF new
  <2>2. Hushed(cn, new)
    BY <1>2, <1>3, <2>1
  <2> QED BY <2>2 DEF new
<1>6. Hushed(cn, ServerDisconnected(cn, <<"FIN">>))
  <2> DEFINE new == ServerDisconnected(cn, <<"FIN">>)
  <2>1. /\ Line(new) = Line(cn) /\ new.cli = cn.cli
        /\ new.toClient = ToClient(cn, <<"FIN">>) /\ new.toServer = << >>
    BY DEF ServerDisconnected, Line
  <2> HIDE DEF new
  <2>2. Hushed(cn, new)
    BY <1>2, <1>3, <2>1
  <2> QED BY <2>2 DEF new
<1>7. Hushed(cn, ServerDisconnected(cn, << >>))
  <2> DEFINE new == ServerDisconnected(cn, << >>)
  <2>1. /\ Line(new) = Line(cn) /\ new.cli = cn.cli
        /\ new.toClient = cn.toClient /\ new.toServer = << >>
    BY <1>1 DEF ServerDisconnected, ToClient, ToClientQueue, Line
  <2> HIDE DEF new
  <2>2. Hushed(cn, new)
    BY <1>2, <1>3, <2>1
  <2> QED BY <2>2 DEF new
<1>8. ASSUME Asking(cn)
      PROVE  Hushed(cn, ReadRequest(cn))
  <2> DEFINE new == ReadRequest(cn)
  <2>1. /\ Line(new) = Line(cn) /\ new.cli = cn.cli
        /\ new.toClient = cn.toClient /\ new.toServer = Tail(cn.toServer)
    BY DEF ReadRequest, Line
  <2> HIDE DEF new
  <2>2. Hushed(cn, new)
    BY <1>2, <1>3, <2>1, <1>8 DEF Asking
  <2> QED BY <2>2 DEF new
<1>9. ASSUME Asking(cn)
      PROVE  Hushed(cn, Rejected(ReadRequest(cn)))
  <2> DEFINE new == Rejected(ReadRequest(cn))
  <2>1. /\ Line(new) = Line(cn) /\ new.cli = cn.cli
        /\ new.toClient = ToClient(cn, <<"REJECT">>) /\ new.toServer = Tail(cn.toServer)
    BY DEF Rejected, ReadRequest, ToClient, ClientSocketOpen, Line
  <2> HIDE DEF new
  <2>2. Hushed(cn, new)
    BY <1>2, <1>3, <2>1, <1>9 DEF Asking
  <2> QED BY <2>2 DEF new
<1>10. ASSUME cn.toServer # << >>, Head(cn.toServer) = "DISCONNECT"
      PROVE  Hushed(cn, ReadHangUp(cn))
  <2> DEFINE new == ReadHangUp(cn)
  <2>1. /\ Line(new) = Line(cn) /\ new.cli = cn.cli
        /\ new.toClient = cn.toClient /\ new.toServer = Tail(cn.toServer)
    BY DEF ReadHangUp, Line
  <2> HIDE DEF new
  <2>2. Hushed(cn, new)
    BY <1>2, <1>3, <2>1, <1>10
  <2> QED BY <2>2 DEF new
<1> QED BY <1>4, <1>5, <1>6, <1>7, <1>8, <1>9, <1>10

\* So does the network, and whatever leaves it alone.
LEMMA HushedLink ==
  ASSUME NEW cn \in ConnType, Flow(cn), AskedOnce(cn), NEW new, new = cn \/ LinkMoves(cn, new)
  PROVE  Hushed(cn, new)
<1> USE DEF ConnType
<1>1. /\ new.toClient = cn.toClient /\ new.toServer = cn.toServer /\ new.cli = cn.cli
      /\ Line(new) = Line(cn) /\ SaysYesOnce(cn.toClient)
  BY DEF LinkMoves, Line, AskedOnce
<1>2. Asking(new) => Asking(cn)
  BY <1>1, StillAsking
<1> QED BY <1>1, <1>2, HushedWhen

\* A call that asks, or that waits unanswered, is granted.
Grants(cn, new) ==
  /\ CallStage(cn) \in {"calling", "over"} /\ CallStage(new) \in {"granted", "over"}
  /\ Line(new) = Line(cn)
  /\ AskedOnce(new)

LEMMA GrantedServer ==
  ASSUME NEW cn \in ConnType, Flow(cn), AskedOnce(cn), cn.cli # "unused", InSessions(cn), ~Granted(cn)
  PROVE  /\ cn.bound => Grants(cn, Accepted(cn))
         /\ Asking(cn) => Grants(cn, Accepted(ReadRequest(cn)))
<1> USE DEF ConnType
<1>1. /\ cn.toClient \in ToClientQueue /\ ~SaysYes(cn.toClient)
      /\ ~SaysYes(<< >>) /\ SaysYesOnce(<< >>)
      /\ cn.cli \in {"requested", "spent", "closed", "gone"}
  BY YesOps DEF Granted, GrantUnderWay, SaysYes, Flow, InSessions, ClientPhase
<1>2. CallStage(cn) \in {"calling", "over"}
  BY <1>1 DEF Granted, CallStage
<1>3. ASSUME NEW new, Line(new) = Line(cn), new.cli = cn.cli,
             new.toClient = ToClient(cn, <<"ACCEPT">>), ~Asking(new)
      PROVE  Grants(cn, new)
  <2>1. CASE ClientSocketOpen(cn)
    <3>1. SaysYes(new.toClient) /\ SaysYesOnce(new.toClient)
      BY <1>1, <1>3, <2>1, YesOps DEF ToClient
    <3>2. GrantUnderWay(new) /\ cn.cli \in {"requested", "spent"}
      BY <1>1, <2>1, <3>1 DEF SaysYes, GrantUnderWay, ClientSocketOpen
    <3>3. CallStage(new) = "granted"
      BY <1>3, <3>2 DEF CallStage
    <3> QED BY <1>2, <1>3, <3>1, <3>2, <3>3 DEF Grants, AskedOnce
  <2>2. CASE ~ClientSocketOpen(cn)
    <3>1. new.toClient = << >> /\ cn.cli \in {"closed", "gone"}
      BY <1>1, <1>3, <2>2 DEF ToClient, ClientSocketOpen
    <3>2. ~GrantUnderWay(new)
      BY <3>1 DEF GrantUnderWay
    <3>3. CallStage(new) = "over"
      BY <1>3, <3>1, <3>2 DEF CallStage
    <3> QED BY <1>1, <1>2, <1>3, <3>1, <3>2, <3>3 DEF Grants, AskedOnce
  <2> QED BY <2>1, <2>2
<1>4. cn.bound => Grants(cn, Accepted(cn))
  <2>1. cn.bound => ~Asking(cn)
    BY StreamOps DEF Flow, Asking
  <2>2. /\ Line(Accepted(cn)) = Line(cn) /\ Accepted(cn).cli = cn.cli
        /\ Accepted(cn).toClient = ToClient(cn, <<"ACCEPT">>)
        /\ Asking(Accepted(cn)) => Asking(cn)
    BY DEF Accepted, Line, Asking
  <2> QED BY <1>3, <2>1, <2>2
<1>5. ASSUME Asking(cn) PROVE Grants(cn, Accepted(ReadRequest(cn)))
  <2> DEFINE new == Accepted(ReadRequest(cn))
  <2>1. Tail(cn.toServer) \in {<< >>, <<"FIN">>, <<"DISCONNECT", "FIN">>}
    BY <1>5, StreamOps DEF Flow, Asking
  <2>2. /\ Line(new) = Line(cn) /\ new.cli = cn.cli
        /\ new.toClient = ToClient(cn, <<"ACCEPT">>) /\ new.toServer = Tail(cn.toServer)
    BY DEF Accepted, ReadRequest, Line, ToClient, ClientSocketOpen
  <2>3. ~Asking(new)
    BY <2>1, <2>2, StreamOps DEF Asking
  <2> QED BY <1>3, <2>2, <2>3
<1> QED BY <1>4, <1>5

\* A grant is taken once.
LEMMA TakenOnce ==
  ASSUME NEW cn \in ConnType, AskedOnce(cn), ClientSocketOpen(cn),
         cn.toClient # << >>, Head(cn.toClient) = "ACCEPT"
  PROVE  /\ CallStage(cn) = "granted" /\ CallStage(ReadAccept(cn)) = "talking"
         /\ Line(ReadAccept(cn)) = Line(cn) /\ AskedOnce(ReadAccept(cn)) /\ Granted(cn)
<1> USE DEF ConnType
<1> DEFINE new == ReadAccept(cn)
<1>1. /\ SaysYes(cn.toClient) /\ ~SaysYes(Tail(cn.toClient))
  BY YesOps DEF AskedOnce
<1>2. /\ GrantUnderWay(cn) /\ cn.cli \in {"requested", "spent"} /\ ~Asking(cn)
  BY <1>1 DEF AskedOnce, Granted, GrantUnderWay, SaysYes, ClientSocketOpen
<1>3. /\ new.cli = "session" /\ new.toClient = Tail(cn.toClient)
      /\ new.toServer = cn.toServer /\ Line(new) = Line(cn)
  BY DEF ReadAccept, Line
<1>4. ~GrantUnderWay(new) /\ SaysYesOnce(new.toClient)
  BY <1>1, <1>3 DEF GrantUnderWay, SaysYes, SaysYesOnce
<1>5. AskedOnce(new)
  BY <1>2, <1>3, <1>4 DEF AskedOnce, Asking
<1>6. CallStage(cn) = "granted" /\ CallStage(new) = "talking"
  BY <1>2, <1>3 DEF CallStage
<1> QED BY <1>2, <1>3, <1>5, <1>6 DEF Granted

-----------------------------------------------------------------------------
(* Steps of the abstract call *)

\* A slot that plays and sends no more than before, and has nobody new wait.
Softens(m, new) ==
  /\ SameCaller(m, new)
  /\ new.audio = "send" => m.audio = "send"

Fades(m, new) == Softens(m, new) /\ new.pending \subseteq m.pending

\* Desktops that go on with their callers, or fall silent.
LEMMA Silence ==
  ASSUME \A h \in Hosts : SameCaller(mgr[h], mgr'[h])
  PROVE  \E silent \in SUBSET Hosts : Calls!Hush(silent)
<1>1. PICK silent \in SUBSET Hosts : silent = {h \in Hosts : Playing(mgr'[h]) # Playing(mgr[h])}
  OBVIOUS
<1>2. \A h \in Hosts : Playing(mgr'[h]) = IF h \in silent THEN None ELSE Playing(mgr[h])
  BY <1>1 DEF SameCaller, Playing
<1>3. Calls!Hush(silent)
  BY <1>2 DEF Calls!Hush
<1> QED BY <1>3

\* Calls that end, and whoever falls silent.
LEMMA HangUpStep ==
  ASSUME TypeInv, \A k \in Conns : Hushed(conn[k], conn'[k]),
         \A h \in Hosts : Softens(mgr[h], mgr'[h])
  PROVE  Calls!CallNext
<1>1. \A k \in Conns : Line(conn'[k]) = Line(conn[k])
  BY DEF Hushed
<1>2. PICK ended \in SUBSET Conns :
        ended = {k \in Conns : CallStage(conn'[k]) # CallStage(conn[k])}
  OBVIOUS
<1>3. \A k \in Conns :
        CallStage(conn'[k]) = IF k \in ended THEN "over" ELSE CallStage(conn[k])
  BY <1>2 DEF Hushed
<1>4. ended \in SUBSET Calls!Made
  BY <1>2 DEF Hushed, CallStage, Calls!Made
<1>5. PICK silent \in SUBSET Hosts : Calls!Hush(silent)
  BY Silence DEF Softens
<1>6. {h \in Hosts : mgr'[h].audio = "send"} \subseteq {h \in Hosts : mgr[h].audio = "send"}
  BY DEF Softens
<1>7. Calls!HangUp(ended, silent)
  BY <1>1, <1>3, <1>5, <1>6 DEF Calls!HangUp
<1> QED BY <1>4, <1>7 DEF Calls!CallNext

\* A grant that is taken.
LEMMA TalkStep ==
  ASSUME TypeInv, NEW c \in Conns, CallStage(conn[c]) = "granted",
         \A k \in Conns : conn'[k] = IF k = c THEN ReadAccept(conn[c]) ELSE conn[k],
         CallStage(ReadAccept(conn[c])) = "talking", Line(ReadAccept(conn[c])) = Line(conn[c]),
         \A h \in Hosts : /\ SameCaller(mgr[h], mgr'[h])
                          /\ mgr'[h].audio = "send" => mgr[h].audio = "send" \/ h = conn[c].owner
  PROVE  Calls!CallNext
<1>1. \A k \in Conns : Line(conn'[k]) = Line(conn[k])
  OBVIOUS
<1>2. \A k \in Conns : CallStage(conn'[k]) = IF k = c THEN "talking" ELSE CallStage(conn[k])
  OBVIOUS
<1>3. PICK silent \in SUBSET Hosts : Calls!Hush(silent)
  BY Silence
<1>4. {h \in Hosts : mgr'[h].audio = "send"}
        \subseteq {h \in Hosts : mgr[h].audio = "send"} \cup ({Line(conn[c]).from} \cap Hosts)
  BY DEF Line
<1>5. Calls!Talk(c, silent)
  BY <1>1, <1>2, <1>3, <1>4 DEF Calls!Talk
<1> QED BY <1>5 DEF Calls!CallNext

\* A grant: desktop h, which plays nobody, plays it from here on.
LEMMA GrantStep ==
  ASSUME TypeInv, NEW c \in Conns, Used(c), NEW new,
         \A k \in Conns : conn'[k] = IF k = c THEN new ELSE conn[k],
         Grants(conn[c], new), NEW h \in Hosts, h = conn[c].target,
         NEW m, mgr' = [mgr EXCEPT ![h] = m],
         mgr[h].audio # "receive", m.audio = "receive", m.req = conn[c].req
  PROVE  Calls!CallNext
<1> DEFINE after == CallStage(new)
<1>1. \A g \in Hosts : mgr'[g] = IF g = h THEN m ELSE mgr[g]
  BY DEF TypeInv, TypeOK
<1>2. \A k \in Conns : Line(conn'[k]) = Line(conn[k])
  BY DEF Grants
<1>3. \A k \in Conns : CallStage(conn'[k]) = IF k = c THEN after ELSE CallStage(conn[k])
  OBVIOUS
<1>4. /\ Playing(mgr[h]) = None
      /\ \A g \in Hosts : Playing(mgr'[g]) = IF g = h THEN conn[c].req ELSE Playing(mgr[g])
  BY <1>1 DEF Playing
<1>5. {g \in Hosts : mgr'[g].audio = "send"} = {g \in Hosts : mgr[g].audio = "send"} \ {h}
  BY <1>1
<1>6. after \in {"granted", "over"} /\ CallStage(conn[c]) \in {"calling", "over"}
  BY DEF Grants
<1>7. Line(conn[c]).to = h /\ Line(conn[c]).id = conn[c].req
  BY DEF Line
<1> HIDE DEF after
<1>8. /\ [k \in Conns |-> CallStage(conn'[k])]
           = [[k \in Conns |-> CallStage(conn[k])] EXCEPT ![c] = after]
      /\ [g \in Hosts |-> Playing(mgr'[g])]
           = [[g \in Hosts |-> Playing(mgr[g])] EXCEPT ![h] = conn[c].req]
      /\ [k \in Conns |-> Line(conn'[k])] = [k \in Conns |-> Line(conn[k])]
  BY <1>2, <1>3, <1>4
<1>9. Calls!Grant(c, after)
  BY <1>4, <1>5, <1>6, <1>7, <1>8 DEF Calls!Grant
<1> QED BY <1>6, <1>9 DEF Calls!CallNext

\* A call that is made: whoever was called before, nothing is heard of it yet.
LEMMA RingStep ==
  ASSUME TypeInv, NEW c \in Conns, ~Used(c), NEW d \in Devices, NEW h \in Hosts, NEW r \in Conns,
         conn'[c] = Dialled(d, h, r),
         \A k \in Conns \ {c} : Hushed(conn[k], conn'[k]),
         \A g \in Hosts : /\ Playing(mgr'[g]) = Playing(mgr[g])
                          /\ mgr'[g].audio = "send" <=> mgr[g].audio = "send"
  PROVE  Calls!CallNext
<1>1. CallStage(conn[c]) = "idle"
  BY DEF Used, CallStage
<1>2. CallStage(conn'[c]) = "calling" /\ Line(conn'[c]) = [from |-> d, to |-> h, id |-> r]
  BY DEF Dialled, UnusedConn, CallStage, GrantUnderWay, Line
<1>3. \A k \in Conns : k # c => Line(conn'[k]) = Line(conn[k])
  BY DEF Hushed
<1>4. PICK ended \in SUBSET Conns :
        ended = {k \in Conns \ {c} : CallStage(conn'[k]) # CallStage(conn[k])}
  OBVIOUS
<1>5. \A k \in Conns :
        CallStage(conn'[k]) = IF k = c THEN "calling"
                              ELSE IF k \in ended THEN "over" ELSE CallStage(conn[k])
  BY <1>2, <1>4 DEF Hushed
<1>6. \A k \in ended : CallStage(conn[k]) # "idle"
  BY <1>4 DEF Hushed, CallStage
<1>7. {g \in Hosts : mgr'[g].audio = "send"} = {g \in Hosts : mgr[g].audio = "send"}
  OBVIOUS
<1>8. ended \in SUBSET Calls!Made
  BY <1>6 DEF Calls!Made
<1>9. [k \in Conns |-> Line(conn'[k])]
        = [[k \in Conns |-> Line(conn[k])] EXCEPT ![c] = [from |-> d, to |-> h, id |-> r]]
  BY <1>2, <1>3
<1>10. Calls!Ring(c, ended)
  BY ZenonT(30), <1>1, <1>5, <1>7, <1>9 DEF Calls!Ring
<1> QED BY <1>8, <1>10 DEF Calls!CallNext

\* What the invariant says of one desktop and of one connection.
LEMMA CallHere ==
  ASSUME CallInv
  PROVE  /\ SessionInv /\ TypeInv
         /\ \A h \in Hosts : /\ mgr[h] \in ManagerType /\ OneAtATime(mgr[h])
                             /\ mgr[h].audio = "receive" => mgr[h].active
         /\ \A k \in Conns : /\ conn[k] \in ConnType /\ Flow(conn[k]) /\ AskedOnce(conn[k])
                             /\ NotWaiting(k)
<1>1. SessionInv /\ TypeInv
  BY DEF CallInv, FlowInv, SessionInv
<1> QED BY <1>1, SessionHere DEF CallInv, FlowInv, TypeInv, TypeOK, Coupled

\* Slots that play and send no more than before.
LEMMA FadingSlots ==
  ASSUME NEW m \in ManagerType, OneAtATime(m), m.audio = "receive" => m.active, NEW h, NEW new,
         \/ new = m
         \/ ByHost(h, m, new)
         \/ \E r : \/ new = OnOutgoingResponse(m, h, r, FALSE, FALSE)
                  \/ new = OnOutgoingTimedOut(m, r)
                  \/ new = OnConnectionLost(m, r)
                  \/ new = OnClientDisconnected(m, r)
                  \/ new = ReceiveFailed([m EXCEPT !.pending = @ \ {r}])
                  \/ new = [m EXCEPT !.pending = @ \ {r}, !.prompt = None,
                                     !.state = IF m.req = r /\ ~m.active THEN "Idle" ELSE @]
         \/ new = OnRemoteDisconnected(m)
         \/ \E r, d : \E answer \in {"decline", "fail"} : new = OnIncomingRequest(m, h, r, d, answer)
  PROVE  Fades(m, new) /\ OneAtATime(new)
<1> USE DEF Fades, Softens, SameCaller, ManagerType, Ended, Failed, ReconnectStopped
<1>1. Fades(m, new) => OneAtATime(new)
  BY DEF OneAtATime
<1>2. CASE new = m
  BY <1>1, <1>2
<1>3. CASE ByHost(h, m, new)
  <2>1. CASE ByCall(h, m, new)
    BY <1>1, <2>1 DEF ByCall
  <2>2. CASE ByUser(m, new)
    <3>1. CASE new = Failed(m)
      BY <1>1, <3>1
    <3>2. CASE new = [Ended(ReconnectStopped(m)) EXCEPT !.invited = NoDevice, !.client = None]
      BY <1>1, <3>2
    <3>3. CASE \E d \in Devices : new = [m EXCEPT !.trusted = @ \ {d}]
      BY <1>1, <3>3
    <3>4. CASE new = [Started(m.trusted) EXCEPT !.running = FALSE]
      BY <1>1, <3>4 DEF Started
    <3> QED BY <2>2, <3>1, <3>2, <3>3, <3>4 DEF ByUser
  <2>3. CASE ByTimer(m, new)
    BY <1>1, <2>3 DEF ByTimer
  <2> QED BY <1>3, <2>1, <2>2, <2>3 DEF ByHost
<1>4. ASSUME NEW r, \/ new = OnOutgoingResponse(m, h, r, FALSE, FALSE)
                    \/ new = OnOutgoingTimedOut(m, r)
                    \/ new = OnConnectionLost(m, r)
      PROVE  Fades(m, new)
  BY <1>4 DEF OnOutgoingResponse, OnOutgoingTimedOut, OnConnectionLost
<1>5. ASSUME NEW r, new = OnClientDisconnected(m, r) PROVE Fades(m, new)
  BY <1>5 DEF OnClientDisconnected
<1>6. ASSUME NEW r, \/ new = ReceiveFailed([m EXCEPT !.pending = @ \ {r}])
                    \/ new = [m EXCEPT !.pending = @ \ {r}, !.prompt = None,
                                       !.state = IF m.req = r /\ ~m.active THEN "Idle" ELSE @]
      PROVE  Fades(m, new)
  BY <1>6 DEF ReceiveFailed
<1>7. CASE new = OnRemoteDisconnected(m)
  BY <1>1, <1>7 DEF OnRemoteDisconnected
<1>8. ASSUME NEW r, NEW d, NEW answer \in {"decline", "fail"},
             new = OnIncomingRequest(m, h, r, d, answer)
      PROVE  Fades(m, new)
  BY <1>8 DEF OnIncomingRequest, ReceiveFailed
<1> QED BY <1>1, <1>2, <1>3, <1>4, <1>5, <1>6, <1>7, <1>8

\* A granted call was made.
LEMMA GrantedUsed ==
  ASSUME TypeInv, NEW k \in Conns, Granted(conn[k])
  PROVE  Used(k) /\ conn[k].target \in Hosts /\ conn[k].req \in Conns
<1>1. Used(k)
  BY DEF TypeInv, ConnShape, Granted, GrantUnderWay, Used, UnusedConn
<1> QED BY <1>1, UsedConns

\* A call that was granted, and whose socket is bound to its request, was granted
\* and bound before, or does not wait.
StillNotWaiting ==
  \A k \in Conns, h \in Hosts, r \in Conns :
    Granted(conn[k]) /\ requestToSocket'[h][r] = k /\ r \in mgr'[h].pending =>
      requestToSocket[h][r] = k /\ r \in mgr[h].pending

\* So a granted call that no step touches does not begin to wait.
LEMMA NotWaitingStep ==
  ASSUME CallInv, StillNotWaiting, NEW k \in Conns, Line(conn'[k]) = Line(conn[k]),
         Granted(conn'[k]) => Granted(conn[k])
  PROVE  NotWaiting(k)'
<1> SUFFICES ASSUME Granted(conn'[k]),
                    requestToSocket'[conn'[k].target][conn'[k].req] = k,
                    conn'[k].req \in mgr'[conn'[k].target].pending
             PROVE  FALSE
  BY DEF NotWaiting
<1>1. /\ Granted(conn[k]) /\ conn'[k].target = conn[k].target /\ conn'[k].req = conn[k].req
  BY DEF Line
<1>2. conn[k].target \in Hosts /\ conn[k].req \in Conns
  BY <1>1, CallHere, GrantedUsed
<1> QED BY <1>1, <1>2, CallHere DEF NotWaiting, StillNotWaiting

\* Steps that give no answer and take none.
LEMMA QuietStep ==
  ASSUME CallInv, FlowInv', StillNotWaiting, \A k \in Conns : Hushed(conn[k], conn'[k]),
         \A h \in Hosts : Softens(mgr[h], mgr'[h]) /\ OneAtATime(mgr'[h])
  PROVE  CallInv' /\ Calls!CallNext
<1>1. Calls!CallNext
  BY HangUpStep, CallHere
<1>2. \A k \in Conns : NotWaiting(k)'
  BY NotWaitingStep DEF Hushed
<1>3. \A k \in Conns : AskedOnce(conn'[k])
  BY DEF Hushed
<1> QED BY <1>1, <1>2, <1>3 DEF CallInv

\* A grant that is taken; the caller may begin to send.
LEMMA TakingStep ==
  ASSUME CallInv, FlowInv', StillNotWaiting, NEW c \in Conns, ClientSocketOpen(conn[c]),
         conn[c].toClient # << >>, Head(conn[c].toClient) = "ACCEPT",
         \A k \in Conns : conn'[k] = IF k = c THEN ReadAccept(conn[c]) ELSE conn[k],
         \A h \in Hosts : /\ SameCaller(mgr[h], mgr'[h]) /\ OneAtATime(mgr'[h])
                          /\ mgr'[h].audio = "send" => mgr[h].audio = "send" \/ h = conn[c].owner
  PROVE  CallInv' /\ Calls!CallNext
<1>1. /\ CallStage(conn[c]) = "granted" /\ CallStage(ReadAccept(conn[c])) = "talking"
      /\ Line(ReadAccept(conn[c])) = Line(conn[c]) /\ AskedOnce(ReadAccept(conn[c]))
      /\ Granted(conn[c])
  BY CallHere, TakenOnce
<1>2. Calls!CallNext
  BY <1>1, TalkStep, CallHere
<1>3. \A k \in Conns : NotWaiting(k)'
  BY <1>1, NotWaitingStep
<1>4. \A k \in Conns : AskedOnce(conn'[k])
  BY <1>1, CallHere
<1> QED BY <1>2, <1>3, <1>4 DEF CallInv

\* A request that is granted; nobody waits at that desktop any more.
LEMMA GrantingStep ==
  ASSUME CallInv, FlowInv', NEW c \in Conns, Used(c), NEW new,
         \A k \in Conns : conn'[k] = IF k = c THEN new ELSE conn[k],
         Grants(conn[c], new), NEW h \in Hosts, h = conn[c].target,
         NEW m, mgr' = [mgr EXCEPT ![h] = m],
         mgr[h].audio # "receive", m.audio = "receive", m.req = conn[c].req, m.pending = {},
         \A g \in Hosts \ {h} : requestToSocket'[g] = requestToSocket[g]
  PROVE  CallInv' /\ Calls!CallNext
<1>1. Calls!CallNext
  BY GrantStep, CallHere
<1>2. \A g \in Hosts : mgr'[g] = IF g = h THEN m ELSE mgr[g]
  BY CallHere DEF TypeInv, TypeOK
<1>3. \A g \in Hosts : OneAtATime(mgr'[g])
  BY <1>2, CallHere DEF OneAtATime
<1>4. \A k \in Conns : AskedOnce(conn'[k])
  BY CallHere DEF Grants
<1>5. StillNotWaiting
  BY <1>2 DEF StillNotWaiting
<1>6. ASSUME NEW k \in Conns PROVE NotWaiting(k)'
  <2>1. CASE k = c
    <3>1. mgr'[conn'[c].target].pending = {}
      BY <1>2 DEF Grants, Line
    <3> QED BY <2>1, <3>1 DEF NotWaiting
  <2>2. CASE k # c
    BY <1>5, <2>2, NotWaitingStep
  <2> QED BY <2>1, <2>2
<1> QED BY <1>1, <1>3, <1>4, <1>6 DEF CallInv

\* A call that is made.
LEMMA RingingStep ==
  ASSUME CallInv, FlowInv', StillNotWaiting, NEW c \in Conns, ~Used(c),
         NEW d \in Devices, NEW h \in Hosts, NEW r \in Conns,
         conn'[c] = Dialled(d, h, r),
         \A k \in Conns \ {c} : Hushed(conn[k], conn'[k]),
         \A g \in Hosts : /\ Playing(mgr'[g]) = Playing(mgr[g]) /\ OneAtATime(mgr'[g])
                          /\ mgr'[g].audio = "send" <=> mgr[g].audio = "send"
  PROVE  CallInv' /\ Calls!CallNext
<1>1. Calls!CallNext
  BY RingStep, CallHere
<1>2. ~Granted(conn'[c]) /\ AskedOnce(conn'[c])
  BY DEF Dialled, UnusedConn, Granted, GrantUnderWay, AskedOnce, SaysYesOnce, Asking
<1>3. ASSUME NEW k \in Conns PROVE NotWaiting(k)'
  BY <1>2, NotWaitingStep DEF Hushed, NotWaiting
<1>4. \A k \in Conns : AskedOnce(conn'[k])
  BY <1>2 DEF Hushed
<1> QED BY <1>1, <1>3, <1>4 DEF CallInv

\* No step that only erases entries and pending requests makes anybody wait.
LEMMA NobodyWaits ==
  ASSUME \A h \in Hosts : mgr'[h].pending \subseteq mgr[h].pending,
         \A h \in Hosts, r \in Conns : requestToSocket'[h][r] \in {requestToSocket[h][r], None}
  PROVE  StillNotWaiting
BY DEF StillNotWaiting, Conns, None

-----------------------------------------------------------------------------
(* Every step is one of the abstract call *)

\* One slot that fades, or none.
LEMMA OneFades ==
  ASSUME CallInv, NEW g, NEW m,
         \/ UNCHANGED mgr
         \/ g \in Hosts /\ mgr' = [mgr EXCEPT ![g] = m] /\ Fades(mgr[g], m)
  PROVE  \A h \in Hosts : Fades(mgr[h], mgr'[h]) /\ OneAtATime(mgr'[h])
<1>1. \A h \in Hosts : mgr'[h] = mgr[h] \/ Fades(mgr[h], mgr'[h])
  BY CallHere DEF TypeInv, TypeOK
<1>2. \A h \in Hosts : Fades(mgr[h], mgr[h])
  BY DEF Fades, Softens, SameCaller
<1>3. \A h \in Hosts : Fades(mgr[h], mgr'[h])
  BY <1>1, <1>2
<1>4. \A h \in Hosts : OneAtATime(mgr'[h])
  BY <1>3, CallHere DEF Fades, Softens, SameCaller, OneAtATime
<1> QED BY <1>3, <1>4

\* Connections that a step does not touch.
LEMMA Untouched ==
  ASSUME CallInv, NEW k \in Conns, conn'[k] = conn[k]
  PROVE  Hushed(conn[k], conn'[k])
BY CallHere, HushedLink

\* What a client does.
LEMMA ClientCalls ==
  ASSUME CallInv, [Next]_vars, NEW c \in Conns,
         ClientStep(c) \/ ClientSocketError(c) \/ PhoneHangsUp(c)
  PROVE  CallInv' /\ Calls!CallNext
<1> DEFINE h == conn[c].owner
           r == conn[c].req
<1>1. FlowInv'
  BY FlowNext DEF CallInv
<1>2. /\ \A k \in Conns : conn'[k] = IF k = c THEN conn'[c] ELSE conn[k]
      /\ ClientMoves(conn[c], conn'[c])
  BY CallHere, ClientConnSteps
<1>3. UNCHANGED requestToSocket
  BY DEF ClientStep, TlsEstablished, ReceiveAccept, ReceiveReject, ReceiveDisconnect,
         ClientReadsEnd, ClientSocketError, ClientDisconnects, KeepAlivesMissed,
         RequestTimesOut, PhoneHangsUp
<1>4. CASE ReceiveAccept(c)
  <2>1. PICK opened \in BOOLEAN : Raise(h, OnOutgoingResponse(mgr[h], h, r, TRUE, opened))
    BY <1>4, SessionAssumption DEF ReceiveAccept
  <2>2. \A g \in Hosts :
          /\ mgr'[g] = mgr[g] \/ (g = h /\ mgr'[g] = OnOutgoingResponse(mgr[h], h, r, TRUE, opened))
          /\ mgr[g] \in ManagerType
    BY <2>1, CallHere DEF Raise, Set, TypeInv, TypeOK
  <2>3. \A g \in Hosts :
          /\ SameCaller(mgr[g], mgr'[g]) /\ mgr'[g].pending = mgr[g].pending
          /\ mgr'[g].audio = "send" => mgr[g].audio = "send" \/ g = h
    <3> SUFFICES ASSUME NEW g \in Hosts, mgr'[g] # mgr[g]
                 PROVE  /\ SameCaller(mgr[g], mgr'[g]) /\ mgr'[g].pending = mgr[g].pending
                        /\ g = h
      BY DEF SameCaller
    <3> DEFINE m == mgr[g]
               new == mgr'[g]
    <3>1. g = h /\ new = OnOutgoingResponse(m, h, r, TRUE, opened) /\ m \in ManagerType
      BY <2>2
    <3>2. r = m.req
      BY <3>1 DEF OnOutgoingResponse
    <3>3. new.audio \in {"send", "off"} /\ new.pending = m.pending
      BY <3>1, <3>2 DEF OnOutgoingResponse, ReconnectStopped, ManagerType
    <3> QED BY <3>1, <3>3 DEF SameCaller
  <2>4. \A g \in Hosts : OneAtATime(mgr'[g])
    BY <2>3, CallHere DEF OneAtATime, SameCaller
  <2>5. StillNotWaiting
    BY <1>3, <2>3, NobodyWaits
  <2>6. /\ ClientSocketOpen(conn[c]) /\ conn[c].toClient # << >> /\ Head(conn[c].toClient) = "ACCEPT"
        /\ conn'[c] = ReadAccept(conn[c])
    BY <1>4, CallHere DEF ReceiveAccept, ClientReads, TypeInv, TypeOK
  <2>7. \A k \in Conns : conn'[k] = IF k = c THEN ReadAccept(conn[c]) ELSE conn[k]
    BY <1>2, <2>6
  <2> QED BY <1>1, <2>3, <2>4, <2>5, <2>6, <2>7, TakingStep
<1>5. CASE ~ReceiveAccept(c)
  <2>1. PICK m : /\ UNCHANGED mgr \/ (h \in Hosts /\ mgr' = [mgr EXCEPT ![h] = m])
                 /\ \/ m = mgr[h]
                    \/ m = OnOutgoingResponse(mgr[h], h, r, FALSE, FALSE)
                    \/ m = OnRemoteDisconnected(mgr[h])
                    \/ m = OnConnectionLost(mgr[h], r)
                    \/ m = OnOutgoingTimedOut(mgr[h], r)
    <3>1. CASE TlsEstablished(c) \/ PhoneHangsUp(c)
      BY <3>1 DEF TlsEstablished, PhoneHangsUp
    <3>2. CASE ReceiveReject(c) \/ ReceiveDisconnect(c)
      BY <3>2 DEF ReceiveReject, ReceiveDisconnect, Raise, Set
    <3>3. CASE ClientReadsEnd(c) \/ ClientSocketError(c)
      BY <3>3 DEF ClientReadsEnd, ClientSocketError, ClientDisconnects, Raise, Set
    <3>4. CASE KeepAlivesMissed(c) \/ RequestTimesOut(c)
      BY <3>4 DEF KeepAlivesMissed, RequestTimesOut, Raise, Set
    <3> QED BY <1>5, <3>1, <3>2, <3>3, <3>4 DEF ClientStep
  <2>2. h \in Hosts => Fades(mgr[h], m)
    BY <2>1, CallHere, FadingSlots
  <2>3. \A g \in Hosts : Fades(mgr[g], mgr'[g]) /\ OneAtATime(mgr'[g])
    BY <2>1, <2>2, OneFades
  <2>4. StillNotWaiting
    BY <1>3, <2>3, NobodyWaits DEF Fades
  <2>5. CASE Hushed(conn[c], conn'[c])
    <3>1. \A k \in Conns : Hushed(conn[k], conn'[k])
      BY <1>2, <2>5, Untouched
    <3> QED BY <1>1, <2>3, <2>4, <3>1, QuietStep DEF Fades
  <2>6. CASE /\ ClientSocketOpen(conn[c]) /\ conn[c].toClient # << >>
             /\ Head(conn[c].toClient) = "ACCEPT" /\ conn'[c] = ReadAccept(conn[c])
    <3>1. \A k \in Conns : conn'[k] = IF k = c THEN ReadAccept(conn[c]) ELSE conn[k]
      BY <1>2, <2>6
    <3> QED BY <1>1, <2>3, <2>4, <2>6, <3>1, TakingStep DEF Fades, Softens
  <2> QED BY <1>2, <2>5, <2>6, CallHere, HushedClient
<1> QED BY <1>4, <1>5

\* What a server does.
LEMMA ServerCalls ==
  ASSUME CallInv, [Next]_vars, NEW c \in Conns, ServerStep(c) \/ ServerSocketError(c)
  PROVE  CallInv' /\ Calls!CallNext
<1> DEFINE h == conn[c].target
           r == conn[c].req
           d == conn[c].owner
           cn == conn[c]
<1>1. /\ FlowInv' /\ InSessions(cn)
      /\ cn \in ConnType /\ Flow(cn) /\ AskedOnce(cn)
  BY FlowNext, CallHere
     DEF CallInv, ServerStep, ServerCloses, ReceiveRequest, ReceiveHangUp, ServerReadsEnd,
         ServerSocketError, ServerReads, InSessions
<1>2. /\ Used(c) /\ h \in Hosts /\ r \in Conns /\ cn.cli # "unused"
      /\ mgr \in [Hosts -> ManagerType]
      /\ requestToSocket \in [Hosts -> [Conns -> ConnOrNone]]
      /\ conn \in [Conns -> ConnType]
  BY <1>1, CallHere, UsedWhen, UsedConns DEF Used, TypeInv, TypeOK
<1>3. ASSUME NEW m, (mgr' = [mgr EXCEPT ![h] = m] /\ Fades(mgr[h], m)) \/ UNCHANGED mgr,
             NEW new, conn' = [conn EXCEPT ![c] = new], Hushed(cn, new), StillNotWaiting
      PROVE  CallInv' /\ Calls!CallNext
  <2>1. \A g \in Hosts : Fades(mgr[g], mgr'[g]) /\ OneAtATime(mgr'[g])
    BY <1>2, <1>3, OneFades
  <2>2. \A k \in Conns : Hushed(conn[k], conn'[k])
    BY <1>2, <1>3, Untouched
  <2> QED BY <1>1, <1>3, <2>1, <2>2, QuietStep DEF Fades
<1>4. CASE ReceiveRequest(c)
  <2> DEFINE m == mgr[h]
  <2>1. Asking(cn)
    BY <1>4 DEF ReceiveRequest, ServerReads, Asking
  <2>2. PICK answer \in Answers(m, h, d) :
          /\ Set(h, OnIncomingRequest(m, h, r, d, answer))
          /\ conn' = [conn EXCEPT ![c] =
                        CASE answer = "accept" -> Accepted(ReadRequest(@))
                          [] answer = "prompt" -> ReadRequest(@)
                          [] answer \in {"decline", "fail"} -> Rejected(ReadRequest(@))]
    BY <1>4 DEF ReceiveRequest
  <2>3. /\ m \in ManagerType /\ OneAtATime(m) /\ (m.audio = "receive" => m.active)
        /\ ~Granted(cn)
    BY <1>1, <1>2, <2>1, CallHere DEF AskedOnce
  <2>4. \A g \in Hosts, k \in Conns :
          requestToSocket'[g][k] = IF g = h /\ k = r THEN c ELSE requestToSocket[g][k]
    BY <1>2, <1>4 DEF ReceiveRequest, Bind
  <2>5. CASE answer = "accept"
    <3> DEFINE new == OnIncomingRequest(m, h, r, d, answer)
    <3>1. ~m.active /\ m.pending = {}
      BY <2>5 DEF Answers
    <3>2. new.audio = "receive" /\ new.req = r /\ new.pending = {}
      BY <2>3, <2>5, <3>1 DEF OnIncomingRequest, Receiving, ManagerType
    <3>3. \A k \in Conns : conn'[k] = IF k = c THEN Accepted(ReadRequest(cn)) ELSE conn[k]
      BY <1>2, <2>2, <2>5
    <3>4. Grants(cn, Accepted(ReadRequest(cn)))
      BY <1>1, <1>2, <2>1, <2>3, GrantedServer
    <3>5. \A g \in Hosts \ {h} : requestToSocket'[g] = requestToSocket[g]
      BY <1>2, <1>4 DEF ReceiveRequest, Bind
    <3>6. m.audio # "receive" /\ mgr' = [mgr EXCEPT ![h] = new]
      BY <2>2, <2>3, <3>1 DEF Set
    <3> HIDE DEF new
    <3> QED BY <1>1, <1>2, <3>2, <3>3, <3>4, <3>5, <3>6, GrantingStep
  <2>6. CASE answer \in {"decline", "fail"}
    <3> DEFINE new == OnIncomingRequest(m, h, r, d, answer)
    <3>1. Fades(m, new)
      BY <2>3, <2>6, FadingSlots
    <3>2. mgr' = [mgr EXCEPT ![h] = new]
      BY <2>2 DEF Set
    <3> HIDE DEF new
    <3>3. Hushed(cn, Rejected(ReadRequest(cn)))
      BY <1>1, <1>2, <2>1, HushedServer
    <3>4. \A g \in Hosts : mgr'[g].pending \subseteq mgr[g].pending
      BY <1>2, <3>1, <3>2 DEF Fades
    <3>5. StillNotWaiting
      BY <2>3, <2>4, <3>4 DEF StillNotWaiting
    <3>6. conn' = [conn EXCEPT ![c] = Rejected(ReadRequest(cn))]
      BY <2>2, <2>6
    <3> QED BY <1>3, <3>1, <3>2, <3>3, <3>5, <3>6
  <2>7. CASE answer = "prompt"
    <3> DEFINE new == OnIncomingRequest(m, h, r, d, answer)
    <3>1. ~m.active
      BY <2>7 DEF Answers
    <3>2. new.audio = m.audio /\ m.audio # "receive" /\ new.pending = {r}
      BY <2>3, <2>7, <3>1 DEF OnIncomingRequest, ManagerType
    <3>3. mgr' = [mgr EXCEPT ![h] = new]
      BY <2>2 DEF Set
    <3> HIDE DEF new
    <3>4. \A g \in Hosts : mgr'[g] = IF g = h THEN new ELSE mgr[g]
      BY <1>2, <3>3
    <3>5. \A g \in Hosts : Softens(mgr[g], mgr'[g]) /\ OneAtATime(mgr'[g])
      BY <3>2, <3>4, CallHere DEF Softens, SameCaller, OneAtATime
    <3>6. \A k \in Conns : conn'[k] = IF k = c THEN ReadRequest(cn) ELSE conn[k]
      BY <1>2, <2>2, <2>7
    <3>7. \A k \in Conns : Hushed(conn[k], conn'[k])
      BY <1>1, <1>2, <2>1, <3>6, HushedServer, Untouched
    <3>8. StillNotWaiting
      BY <2>3, <2>4, <3>2, <3>4 DEF StillNotWaiting
    <3> QED BY <1>1, <3>5, <3>7, <3>8, QuietStep
  <2>8. answer \in {"accept", "prompt", "decline", "fail"}
    BY DEF Answers
  <2> QED BY <2>5, <2>6, <2>7, <2>8
<1>5. ASSUME NEW new, conn' = [conn EXCEPT ![c] = new], Hushed(cn, new),
             \A g \in Hosts, k \in Conns : requestToSocket'[g][k] \in {requestToSocket[g][k], None},
             UNCHANGED mgr \/ mgr' = [mgr EXCEPT ![h] = OnClientDisconnected(mgr[h], r)]
      PROVE  CallInv' /\ Calls!CallNext
  <2> DEFINE m == OnClientDisconnected(mgr[h], r)
  <2>1. Fades(mgr[h], m)
    BY <1>2, CallHere, FadingSlots
  <2> HIDE DEF m
  <2>2. \A g \in Hosts : mgr'[g].pending \subseteq mgr[g].pending
    BY <1>2, <1>5, <2>1, OneFades DEF Fades, m
  <2>3. StillNotWaiting
    BY <1>5, <2>2, NobodyWaits
  <2> QED BY <1>3, <1>5, <2>1, <2>3 DEF m
<1>6. CASE ReceiveHangUp(c)
  <2>1. Hushed(cn, ReadHangUp(cn))
    BY <1>1, <1>2, <1>6, HushedServer DEF ReceiveHangUp, ServerReads
  <2>2. \A g \in Hosts, k \in Conns : requestToSocket'[g][k] \in {requestToSocket[g][k], None}
    BY <1>2, <1>6 DEF ReceiveHangUp, Unbind, Bind
  <2> QED BY <1>5, <1>6, <2>1, <2>2 DEF ReceiveHangUp, Set
<1>7. CASE ServerCloses(c) \/ ServerReadsEnd(c) \/ ServerSocketError(c)
  <2>1. PICK msgs \in {<< >>, <<"FIN">>} : ServerSocketGone(c, msgs)
    BY <1>7 DEF ServerCloses, ServerReadsEnd, ServerSocketError
  <2>2. Hushed(cn, ServerDisconnected(cn, msgs))
    BY <1>1, <1>2, HushedServer
  <2>3. \A g \in Hosts, k \in Conns : requestToSocket'[g][k] \in {requestToSocket[g][k], None}
    BY <1>2, <2>1 DEF ServerSocketGone, UnbindSocket, Unbind, Bind
  <2> QED BY <1>5, <2>1, <2>2, <2>3 DEF ServerSocketGone, Set
<1> QED BY <1>4, <1>6, <1>7 DEF ServerStep

\* What the user answers.
LEMMA AnswerCalls ==
  ASSUME CallInv, [Next]_vars, NEW g \in Hosts, Approve(g) \/ Refuse(g)
  PROVE  CallInv' /\ Calls!CallNext
<1> DEFINE m == mgr[g]
           r == m.prompt
           c == requestToSocket[g][r]
           waiting == [m EXCEPT !.pending = @ \ {r}]
<1>1. FlowInv' /\ UNCHANGED requestToSocket /\ r \in m.pending
  BY FlowNext DEF CallInv, Approve, Refuse
<1>2. /\ m \in ManagerType /\ OneAtATime(m) /\ (m.audio = "receive" => m.active)
      /\ m.audio # "receive" /\ m.pending \ {r} = {} /\ r \in Conns
      /\ mgr \in [Hosts -> ManagerType]
  BY <1>1, CallHere DEF OneAtATime, ManagerType, TypeInv, TypeOK
<1>3. c \in Conns
  BY <1>1, <1>2, CallHere, SessionHere DEF Coupled, TypeInv, TypeOK, ConnOrNone
<1>4. /\ conn[c].target = g /\ conn[c].req = r /\ conn[c].bound /\ InSessions(conn[c])
      /\ Used(c) /\ conn[c].cli # "unused"
      /\ conn[c] \in ConnType /\ Flow(conn[c]) /\ AskedOnce(conn[c]) /\ ~Granted(conn[c])
  <2>1. conn[c].target = g /\ conn[c].req = r /\ conn[c].bound /\ InSessions(conn[c])
    BY <1>2, <1>3, CallHere DEF SessionInv, MappedSocketInSessions, Conns, None
  <2> QED BY <1>1, <1>3, <2>1, CallHere, UsedWhen DEF NotWaiting, Used
<1>5. ASSUME Set(g, Receiving(waiting, g, r, conn[r].owner)), conn' = OnSocketOf(g, r, Accepted)
      PROVE  CallInv' /\ Calls!CallNext
  <2> DEFINE new == Receiving(waiting, g, r, conn[r].owner)
  <2>1. new.audio = "receive" /\ new.req = conn[c].req /\ new.pending = {}
    BY <1>2, <1>4 DEF Receiving, ManagerType
  <2>2. mgr' = [mgr EXCEPT ![g] = new]
    BY <1>5 DEF Set
  <2> HIDE DEF new
  <2>3. \A k \in Conns : conn'[k] = IF k = c THEN Accepted(conn[c]) ELSE conn[k]
    BY <1>3, <1>5 DEF OnSocketOf
  <2>4. Grants(conn[c], Accepted(conn[c]))
    BY <1>4, GrantedServer
  <2>5. mgr[g].audio # "receive" /\ \A h \in Hosts \ {g} : requestToSocket'[h] = requestToSocket[h]
    BY <1>1, <1>2
  <2> HIDE DEF c
  <2> QED BY <1>1, <1>3, <1>4, <2>1, <2>2, <2>3, <2>4, <2>5, GrantingStep
<1>6. ASSUME NEW new, Set(g, new), conn' = OnSocketOf(g, r, Rejected),
             \/ new = ReceiveFailed(waiting)
             \/ new = [m EXCEPT !.pending = @ \ {r}, !.prompt = None,
                                !.state = IF m.req = r /\ ~m.active THEN "Idle" ELSE @]
      PROVE  CallInv' /\ Calls!CallNext
  <2>1. Fades(m, new)
    BY <1>2, <1>6, FadingSlots
  <2>2. \A h \in Hosts : Fades(mgr[h], mgr'[h]) /\ OneAtATime(mgr'[h])
    BY <1>6, <2>1, OneFades DEF Set
  <2>3. \A k \in Conns : Hushed(conn[k], conn'[k])
    <3> SUFFICES ASSUME NEW k \in Conns PROVE Hushed(conn[k], conn'[k])
      OBVIOUS
    <3>1. CASE k = c
      BY <1>4, <1>6, <3>1, HushedServer DEF OnSocketOf
    <3>2. CASE k # c
      BY <1>6, <3>2, Untouched DEF OnSocketOf
    <3> QED BY <3>1, <3>2
  <2>4. StillNotWaiting
    BY <1>1, <2>2 DEF StillNotWaiting, Fades
  <2> QED BY <1>1, <2>2, <2>3, <2>4, QuietStep DEF Fades
<1> QED BY <1>5, <1>6 DEF Approve, Refuse

\* A desktop that replaces its client.
LEMMA ReplacingStep ==
  ASSUME CallInv, FlowInv', UNCHANGED requestToSocket,
         NEW h \in Hosts, NEW c \in Conns, IsFresh(c), NEW g \in Hosts, NEW r \in Conns,
         conn' = ClientReplaced(h, c, g, r),
         NEW new, Set(h, new), new.audio = mgr[h].audio, new.pending = mgr[h].pending,
         new.req # mgr[h].req => new.audio # "receive"
  PROVE  CallInv' /\ Calls!CallNext
<1>1. \A k \in Hosts : mgr'[k] = IF k = h THEN new ELSE mgr[k]
  BY CallHere DEF Set, TypeInv, TypeOK
<1>2. \A k \in Hosts : /\ Playing(mgr'[k]) = Playing(mgr[k]) /\ OneAtATime(mgr'[k])
                       /\ mgr'[k].audio = "send" <=> mgr[k].audio = "send"
                       /\ mgr'[k].pending = mgr[k].pending
  BY <1>1, CallHere DEF Playing, OneAtATime
<1>3. StillNotWaiting
  BY <1>2 DEF StillNotWaiting
<1>4. ~Used(c) /\ h \in Devices
  BY DEF IsFresh, Used, Devices
<1>5. conn'[c] = Dialled(h, g, r)
  BY DEF ClientReplaced
<1>6. ASSUME NEW k \in Conns \ {c} PROVE Hushed(conn[k], conn'[k])
  <2>1. CASE k = mgr[h].client
    <3>1. conn'[k] = Dropped(conn[k]) /\ Used(k)
      BY <1>6, <2>1, CallHere, SessionHere DEF ClientReplaced, Wellformed, Conns, None
    <3>2. ClientMoves(conn[k], Dropped(conn[k]))
      BY <3>1 DEF ClientMoves, Used
    <3>3. Dropped(conn[k]) # ReadAccept(conn[k])
      <4>1. Dropped(conn[k]).cli = "gone" /\ ReadAccept(conn[k]).cli = "session"
        BY CallHere DEF Dropped, ReadAccept, ConnType
      <4> QED BY <4>1
    <3> QED BY <3>1, <3>2, <3>3, CallHere, HushedClient
  <2>2. CASE k # mgr[h].client
    BY <1>6, <2>2, Untouched DEF ClientReplaced
  <2> QED BY <2>1, <2>2
<1> QED BY <1>2, <1>3, <1>4, <1>5, <1>6, RingingStep

\* A user calls.
LEMMA DialCalls ==
  ASSUME CallInv, [Next]_vars, NEW h \in Hosts, NEW g \in Hosts, Dial(h, g)
  PROVE  CallInv' /\ Calls!CallNext
<1> DEFINE m == mgr[h]
<1>1. PICK c \in Conns :
        /\ IsFresh(c) /\ conn' = ClientReplaced(h, c, g, c)
        /\ Set(h, [m EXCEPT !.client = c, !.req = c, !.active = TRUE,
                            !.inFlight = FALSE, !.state = "RequestSent"])
  BY DEF Dial
<1>2. FlowInv' /\ UNCHANGED requestToSocket /\ ~m.active
  BY FlowNext DEF CallInv, Dial
<1> DEFINE new == [m EXCEPT !.client = c, !.req = c, !.active = TRUE,
                            !.inFlight = FALSE, !.state = "RequestSent"]
<1>3. new.audio = m.audio /\ new.pending = m.pending /\ new.audio # "receive" /\ Set(h, new)
  BY <1>1, <1>2, CallHere DEF ManagerType
<1> HIDE DEF new
<1> QED BY <1>1, <1>2, <1>3, ReplacingStep

\* A phone calls.
LEMMA PhoneDialsCalls ==
  ASSUME CallInv, [Next]_vars, NEW p \in Phones, NEW h \in Hosts, PhoneDials(p, h)
  PROVE  CallInv' /\ Calls!CallNext
<1>1. PICK c \in Conns : ~Used(c) /\ conn' = [conn EXCEPT ![c] = Dialled(p, h, c)]
  BY DEF PhoneDials, IsFresh, Used
<1>2. FlowInv' /\ UNCHANGED <<requestToSocket, mgr>> /\ p \in Devices
  BY FlowNext DEF CallInv, PhoneDials, Devices
<1>3. \A k \in Conns : conn'[k] = IF k = c THEN Dialled(p, h, c) ELSE conn[k]
  BY <1>1, CallHere DEF TypeInv, TypeOK
<1>4. \A k \in Conns \ {c} : Hushed(conn[k], conn'[k])
  BY <1>3, Untouched
<1>5. StillNotWaiting
  BY <1>2 DEF StillNotWaiting
<1> QED BY <1>1, <1>2, <1>3, <1>4, <1>5, CallHere, RingingStep

\* What ends calls, or changes nothing about them.
LEMMA OtherCalls ==
  ASSUME CallInv, [Next]_vars, NEW g \in Hosts, OtherUserOrTimer(g),
         \A h \in Hosts, r \in Conns : requestToSocket'[h][r] \in {requestToSocket[h][r], None},
         \A h \in Hosts : mgr'[h].pending \subseteq mgr[h].pending,
         \A k \in Conns : Hushed(conn[k], conn'[k])
  PROVE  CallInv' /\ Calls!CallNext
<1>1. FlowInv'
  BY FlowNext DEF CallInv
<1>2. \A h \in Hosts : mgr'[h] = mgr[h] \/ ByHost(h, mgr[h], mgr'[h])
  BY CallHere, HostManagerSteps
<1>3. \A h \in Hosts : Fades(mgr[h], mgr'[h]) /\ OneAtATime(mgr'[h])
  BY <1>2, CallHere, FadingSlots
<1>4. StillNotWaiting
  BY NobodyWaits
<1> QED BY <1>1, <1>3, <1>4, QuietStep DEF Fades

\* The desktop tries to call again, or gives up.
LEMMA ReconnectTickCalls ==
  ASSUME CallInv, [Next]_vars, NEW h \in Hosts, ReconnectTick(h)
  PROVE  CallInv' /\ Calls!CallNext
<1> DEFINE m == mgr[h]
           later == [m EXCEPT !.ticks = @ - 1]
<1>1. FlowInv' /\ UNCHANGED requestToSocket /\ m \in ManagerType
  BY FlowNext, CallHere DEF CallInv, ReconnectTick
<1>2. ASSUME NEW c \in Conns, IsFresh(c), m.req # None,
             conn' = ClientReplaced(h, c, conn[m.client].target, m.req),
             Set(h, [later EXCEPT !.client = c, !.inFlight = TRUE])
      PROVE  CallInv' /\ Calls!CallNext
  <2> DEFINE new == [later EXCEPT !.client = c, !.inFlight = TRUE]
  <2>1. new.audio = m.audio /\ new.pending = m.pending /\ new.req = m.req /\ Set(h, new)
    BY <1>1, <1>2 DEF ManagerType
  <2> HIDE DEF new
  <2>2. conn[m.client].target \in Hosts /\ m.req \in Conns
    <3>1. m.client \in Conns /\ Used(m.client) /\ m.req \in Conns
      BY <1>1, <1>2, CallHere, SessionHere DEF Wellformed, ManagerType, ConnOrNone, ReconnectTick
    <3> QED BY <3>1, CallHere, UsedConns
  <2> QED BY <1>1, <1>2, <2>1, <2>2, ReplacingStep
<1>3. ASSUME UNCHANGED conn, Set(h, Failed(Ended(ReconnectStopped(m)))) \/ Set(h, later)
      PROVE  CallInv' /\ Calls!CallNext
  <2>1. \A k \in Conns : Hushed(conn[k], conn'[k])
    BY <1>3, Untouched
  <2>2. \A g \in Hosts : mgr'[g].pending \subseteq mgr[g].pending
    <3>1. mgr \in [Hosts -> ManagerType]
      BY CallHere DEF TypeInv, TypeOK
    <3>2. /\ Failed(Ended(ReconnectStopped(m))).pending = m.pending
          /\ later.pending = m.pending
      BY <1>1 DEF Failed, Ended, ReconnectStopped, ManagerType
    <3> QED BY <1>3, <3>1, <3>2 DEF Set
  <2>3. OtherUserOrTimer(h)
    BY DEF OtherUserOrTimer, Timer
  <2> QED BY <1>1, <2>1, <2>2, <2>3, OtherCalls
<1> QED BY <1>2, <1>3 DEF ReconnectTick

\* A desktop that hangs up.
LEMMA DisconnectCalls ==
  ASSUME CallInv, [Next]_vars, NEW h \in Hosts, Disconnect(h)
  PROVE  CallInv' /\ Calls!CallNext
<1> DEFINE m == mgr[h]
<1>1. /\ m \in ManagerType /\ OtherUserOrTimer(h) /\ TypeInv /\ SessionInv
      /\ m.active => m.req \in Conns
      /\ m.client # None => m.client \in Conns /\ Used(m.client)
  BY CallHere, SessionHere DEF OtherUserOrTimer, Wellformed, ManagerType, ConnOrNone
<1>2. \A g \in Hosts, r \in Conns : requestToSocket'[g][r] \in {requestToSocket[g][r], None}
  BY <1>1 DEF Disconnect, Unbind, Bind, TypeInv, TypeOK
<1>3. \A g \in Hosts : mgr'[g].pending \subseteq mgr[g].pending
  BY <1>1 DEF Disconnect, Set, Ended, ReconnectStopped, ManagerType, TypeInv, TypeOK
<1>4. ASSUME NEW k \in Conns PROVE Hushed(conn[k], conn'[k])
  <2>1. CASE conn'[k] = conn[k]
    BY <2>1, Untouched
  <2>2. CASE m.client = k /\ conn'[k] = Dropped(conn[k])
    <3>1. ClientMoves(conn[k], Dropped(conn[k]))
      BY <1>1, <2>2 DEF ClientMoves, Used, Conns, None
    <3>2. Dropped(conn[k]) # ReadAccept(conn[k])
      <4>1. Dropped(conn[k]).cli = "gone" /\ ReadAccept(conn[k]).cli = "session"
        BY CallHere DEF Dropped, ReadAccept, ConnType
      <4> QED BY <4>1
    <3> QED BY <2>2, <3>1, <3>2, CallHere, HushedClient
  <2>3. CASE m.active /\ k = requestToSocket[h][m.req] /\ conn'[k] = HungUp(conn[k])
    <3>1. InSessions(conn[k])
      BY <1>1, <2>3 DEF SessionInv, MappedSocketInSessions, Conns, None
    <3> QED BY <1>1, <2>3, <3>1, CallHere, UsedWhen, HushedServer DEF Used
  <2>4. \/ conn'[k] = conn[k]
        \/ m.client = k /\ conn'[k] = Dropped(conn[k])
        \/ m.active /\ k = requestToSocket[h][m.req] /\ conn'[k] = HungUp(conn[k])
    BY <1>1 DEF Disconnect, OnSocketOf, TypeInv, TypeOK
  <2> QED BY <2>1, <2>2, <2>3, <2>4
<1> QED BY <1>1, <1>2, <1>3, <1>4, OtherCalls

\* A program that ends.
LEMMA QuitCalls ==
  ASSUME CallInv, [Next]_vars, NEW h \in Hosts, Quit(h)
  PROVE  CallInv' /\ Calls!CallNext
<1> DEFINE m == mgr[h]
<1>1. /\ m \in ManagerType /\ OtherUserOrTimer(h) /\ TypeInv /\ SessionInv
      /\ m.client # None => m.client \in Conns /\ Used(m.client)
  BY CallHere, SessionHere DEF OtherUserOrTimer, Wellformed, ManagerType, ConnOrNone
<1>2. \A g \in Hosts, r \in Conns : requestToSocket'[g][r] \in {requestToSocket[g][r], None}
  BY <1>1 DEF Quit, TypeInv, TypeOK
<1>3. \A g \in Hosts : mgr'[g].pending \subseteq mgr[g].pending
  BY <1>1 DEF Quit, Set, Started, TypeInv, TypeOK
<1>4. ASSUME NEW k \in Conns PROVE Hushed(conn[k], conn'[k])
  <2>0. conn'[k] = CASE k = m.client -> Dropped(conn[k])
                     [] k # m.client /\ conn[k].target = h /\ InSessions(conn[k])
                          -> ServerDisconnected(conn[k], <<"FIN">>)
                     [] OTHER -> conn[k]
    BY DEF Quit
  <2>1. CASE k = m.client
    <3>1. ClientMoves(conn[k], Dropped(conn[k]))
      BY <1>1, <2>1 DEF ClientMoves, Used, Conns, None
    <3>2. Dropped(conn[k]) # ReadAccept(conn[k])
      <4>1. Dropped(conn[k]).cli = "gone" /\ ReadAccept(conn[k]).cli = "session"
        BY CallHere DEF Dropped, ReadAccept, ConnType
      <4> QED BY <4>1
    <3> QED BY <2>0, <2>1, <3>1, <3>2, CallHere, HushedClient
  <2>2. CASE k # m.client /\ conn[k].target = h /\ InSessions(conn[k])
    BY <1>1, <2>0, <2>2, CallHere, UsedWhen, HushedServer DEF Used
  <2>3. CASE k # m.client /\ ~(conn[k].target = h /\ InSessions(conn[k]))
    BY <2>0, <2>3, Untouched
  <2> QED BY <2>1, <2>2, <2>3
<1> QED BY <1>1, <1>2, <1>3, <1>4, OtherCalls

\* Every step of the session is a step of the abstract call or none of its own.
LEMMA CallNextStep ==
  ASSUME CallInv, [Next]_vars
  PROVE  CallInv' /\ Calls!CallNext
<1>1. ASSUME UNCHANGED <<requestToSocket, mgr>>, \A k \in Conns : Hushed(conn[k], conn'[k])
      PROVE  CallInv' /\ Calls!CallNext
  <2>1. \A h \in Hosts : Softens(mgr[h], mgr'[h]) /\ OneAtATime(mgr'[h])
    BY <1>1, CallHere DEF Softens, SameCaller
  <2>2. FlowInv' /\ StillNotWaiting
    BY <1>1, FlowNext DEF CallInv, StillNotWaiting
  <2> QED BY <1>1, <2>1, <2>2, QuietStep
<1>2. CASE UNCHANGED vars
  BY <1>1, <1>2, Untouched DEF vars
<1>3. ASSUME NEW c \in Conns, LinkChanges(c)
      PROVE  CallInv' /\ Calls!CallNext
  <2>1. \A k \in Conns : conn'[k] = conn[k] \/ LinkMoves(conn[k], conn'[k])
    BY <1>3, CallHere, OneConnChanges DEF LinkChanges, LinkDown, LinkHeals, LinkMoves
  <2>2. \A k \in Conns : Hushed(conn[k], conn'[k])
    BY <2>1, CallHere, HushedLink
  <2> QED BY <1>1, <1>3, <2>2 DEF LinkChanges
<1>4. ASSUME NEW c \in Conns,
             ClientStep(c) \/ ServerStep(c) \/ Network(c) \/ PhoneHangsUp(c)
      PROVE  CallInv' /\ Calls!CallNext
  BY <1>3, <1>4, ClientCalls, ServerCalls DEF Network
<1>5. ASSUME NEW h \in Hosts,
             \/ \E p \in Phones : Invite(h, p)
             \/ ConnectFails(h) \/ InviteTimeout(h)
             \/ \E d \in Devices : RevokeTrust(h, d)
      PROVE  CallInv' /\ Calls!CallNext
  <2>1. UNCHANGED chanVars /\ mgr[h] \in ManagerType /\ mgr \in [Hosts -> ManagerType]
    BY <1>5, CallHere DEF Invite, ConnectFails, InviteTimeout, RevokeTrust, TypeInv, TypeOK
  <2>2. \A k \in Conns : Hushed(conn[k], conn'[k])
    BY <2>1, Untouched DEF chanVars
  <2>3. \A g \in Hosts : mgr'[g].pending \subseteq mgr[g].pending
    <3>1. CASE \E p \in Phones : Invite(h, p)
      BY <2>1, <3>1 DEF Invite, Set, ManagerType
    <3>2. CASE ConnectFails(h) \/ InviteTimeout(h)
      <4>1. CASE ConnectFails(h)
        BY <2>1, <4>1 DEF ConnectFails, Set, Failed, ManagerType
      <4>2. CASE InviteTimeout(h)
        BY <2>1, <4>2 DEF InviteTimeout, Set, Failed, ManagerType
      <4> QED BY <3>2, <4>1, <4>2
    <3>3. CASE \E d \in Devices : RevokeTrust(h, d)
      BY <2>1, <3>3 DEF RevokeTrust, ManagerType
    <3> QED BY <1>5, <3>1, <3>2, <3>3
  <2>4. OtherUserOrTimer(h)
    BY <1>5 DEF OtherUserOrTimer, Timer
  <2> QED BY <2>1, <2>2, <2>3, <2>4, OtherCalls DEF chanVars
<1>6. ASSUME NEW h \in Hosts, User(h) \/ Timer(h)
      PROVE  CallInv' /\ Calls!CallNext
  BY <1>5, <1>6, AnswerCalls, DialCalls, ReconnectTickCalls, DisconnectCalls, QuitCalls
     DEF User, Timer
<1> QED BY <1>2, <1>4, <1>6, PhoneDialsCalls DEF Next

\* Nobody calls before anybody has called.
LEMMA InitCalls == ASSUME Init PROVE CallInv /\ Calls!CallInit
<1>1. /\ \A h \in Hosts : mgr[h] = Started({})
      /\ \A k \in Conns : conn[k] = UnusedConn
  BY DEF Init, ManagerInit, ChanInit
<1>2. AskedOnce(UnusedConn) /\ ~Granted(UnusedConn) /\ CallStage(UnusedConn) = "idle"
  BY DEF UnusedConn, AskedOnce, SaysYesOnce, Asking, Granted, GrantUnderWay, CallStage
<1>3. CallInv
  BY <1>1, <1>2, InitFlow DEF CallInv, NotWaiting, OneAtATime, Started
<1>4. \A h \in Hosts : mgr[h].audio = "off"
  <2>1. Started({}).audio = "off"
    BY DEF Started
  <2> QED BY <1>1, <2>1
<1>5. \A h \in Hosts : Playing(mgr[h]) = None
  BY <1>4 DEF Playing
<1>6. Calls!CallInit
  BY <1>1, <1>2, <1>4, <1>5 DEF Calls!CallInit
<1> QED BY <1>3, <1>6

\* A call is granted at most once and only while it asks; a desktop that plays a
\* caller has nobody wait for its dialog, and a granted call never waits there.
THEOREM CallInvariant == Spec => []CallInv
<1> QED BY InitCalls, CallNextStep, PTL DEF Spec

\* A desktop begins to play a call in the step that grants it and plays nobody
\* else; an answer is taken once; only then does the caller speak.
THEOREM SessionImplementsCall == Spec => CallsAreGranted
<1>1. Init => CallInv /\ Calls!CallInit
  BY InitCalls
<1>2. CallInv /\ [Next]_vars
        => CallInv' /\ [Calls!CallNext]_<<[c \in Conns |-> CallStage(conn[c])],
                                          [c \in Conns |-> Line(conn[c])],
                                          [h \in Hosts |-> Playing(mgr[h])],
                                          {h \in Hosts : mgr[h].audio = "send"}>>
  BY CallNextStep
<1> QED BY <1>1, <1>2, PTL DEF Spec, CallsAreGranted, Calls!CallSpec

=============================================================================
