--------------------------- MODULE ControlChannel ---------------------------
(***************************************************************************)
(* The TLS control channel between an initiator and a listening desktop:   *)
(* network::ControlClient at one end, network::ControlServer at the other. *)
(*                                                                         *)
(* One element of conn stands for everything one connectToDevice call      *)
(* brings into being: the ControlClient object and its timers, the TCP     *)
(* connection with one queue of messages per direction, and the            *)
(* ClientSession the server keeps for its socket.  The module defines how  *)
(* each end changes such a record; the signals an end raises into the      *)
(* ConnectionManager that owns it are composed in WireMicSession.          *)
(*                                                                         *)
(* A request id is a UUID in the code.  Here it is the number of the       *)
(* connection that carried it first, so it is unique, and a reconnect,     *)
(* which reuses the id on a new connection, is visible as req # c.         *)
(***************************************************************************)
EXTENDS Integers, Sequences

CONSTANTS
  Hosts,     \* the desktops that run this program; each of them listens
  Phones,    \* devices that dial but do not listen (controlPort = 0)
  NoDevice,  \* the end of a connection that does not exist
  MaxConns   \* bound on the connections ever opened

ASSUME ChannelAssumption ==
  /\ Hosts \cap Phones = {}
  /\ NoDevice \notin Hosts \cup Phones
  /\ MaxConns \in Nat

Devices == Hosts \cup Phones
Conns   == 1 .. MaxConns
None    == 0                     \* no connection, no request
ConnOrNone == Conns \cup {None}

(***************************************************************************)
(* cli: the ControlClient.                                                 *)
(*   dialing    connectToHostEncrypted in progress, timeoutTimer_ running  *)
(*   requested  request written, timeoutTimer_ running                     *)
(*   session    sessionActive_, keepAliveTimer_ running                    *)
(*   spent      the socket is open, but no timer runs                      *)
(*   closed     the socket is closed, the object still exists              *)
(*   gone       the object was destroyed                                   *)
(* srv: the socket at the server; "open" and "closing" (after              *)
(* disconnectFromHost) are in sessions_, "gone" is not any more.           *)
(* bound: the session's requestId is not empty.                            *)
(***************************************************************************)
ClientPhase == {"unused", "dialing", "requested", "session", "spent",
                "closed", "gone"}
ServerPhase == {"none", "open", "closing", "gone"}
Link        == {"up", "down", "healed"}
ToServerMsg == {"REQUEST", "DISCONNECT", "FIN"}
ToClientMsg == {"ACCEPT", "REJECT", "DISCONNECT", "FIN"}
ToServerQueue == Seq(ToServerMsg)
ToClientQueue == Seq(ToClientMsg)

ConnType ==
  [owner    : Devices \cup {NoDevice},
   target   : Hosts \cup {NoDevice},
   req      : ConnOrNone,
   cli      : ClientPhase,
   srv      : ServerPhase,
   bound    : BOOLEAN,
   link     : Link,
   toServer : ToServerQueue,
   toClient : ToClientQueue]

VARIABLES
  conn,             \* [Conns -> ConnType]
  requestToSocket   \* [Hosts -> [Conns -> ConnOrNone]], ControlServer's map

chanVars == <<conn, requestToSocket>>

UnusedConn ==
  [owner |-> NoDevice, target |-> NoDevice, req |-> None, cli |-> "unused",
   srv |-> "none", bound |-> FALSE, link |-> "up",
   toServer |-> << >>, toClient |-> << >>]

ChanInit ==
  /\ conn = [c \in Conns |-> UnusedConn]
  /\ requestToSocket = [h \in Hosts |-> [r \in Conns |-> None]]

\* Connections are opened in the order of their numbers.
IsFresh(c) ==
  /\ conn[c].cli = "unused"
  /\ \A k \in Conns : k < c => conn[k].cli # "unused"

ClientSocketOpen(cn) == cn.cli \in {"requested", "session", "spent"}
InSessions(cn)       == cn.srv \in {"open", "closing"}
Reachable(cn)        == cn.link # "down"
\* Mutant: the timer is stopped once the channel is encrypted.
TimeoutWhileDialing(cn) == cn.cli = "dialing"
TimeoutRunning(cn)   == cn.cli \in {"dialing", "requested"}

\* What one end writes is queued for the other for as long as that one's
\* socket is open.
ToServer(cn, msgs) == IF InSessions(cn) THEN cn.toServer \o msgs ELSE << >>
ToClient(cn, msgs) == IF ClientSocketOpen(cn) THEN cn.toClient \o msgs ELSE << >>

-----------------------------------------------------------------------------
(* ControlClient *)

\* connectToDevice(host, port, request)
Dialled(d, h, r) ==
  [UnusedConn EXCEPT !.owner = d, !.target = h, !.req = r, !.cli = "dialing"]

\* onEncrypted, and the server's onNewSslConnection and onEncrypted with it.
Encrypted(cn) ==
  [cn EXCEPT !.cli = "requested", !.srv = "open", !.toServer = <<"REQUEST">>]

\* onReadyRead, the branch of ConnectResponse.
ReadAccept(cn) == [cn EXCEPT !.cli = "session", !.toClient = Tail(@)]
ReadReject(cn) ==
  [cn EXCEPT !.cli = IF @ = "requested" THEN "spent" ELSE @,
             !.toClient = Tail(@)]

\* A phone's client that leaves its loop closes its socket.
LoopLeft(cn) ==
  [cn EXCEPT !.cli = "closed", !.toClient = << >>,
             !.toServer = ToServer(cn, <<"FIN">>)]

\* onReadyRead, the branch of Disconnect: a desktop's socket is left open.
ReadDisconnect(cn) ==
  IF cn.owner \in Phones THEN LoopLeft(cn)
  ELSE [cn EXCEPT !.cli = "spent", !.toClient = Tail(@)]

\* onKeepAliveTimer after kKeepaliveMissedLimit unanswered keepalives: the
\* session is over, a desktop's socket is left open.
MissedKeepAlives(cn) ==
  IF cn.owner \in Phones THEN LoopLeft(cn) ELSE [cn EXCEPT !.cli = "spent"]

\* onDisconnected, after the peer's FIN or after a socket error.
ClientDisconnected(cn) == [cn EXCEPT !.cli = "closed", !.toClient = << >>]

\* Mutant: the socket is not aborted.
TimedOutQuietly(cn) == [cn EXCEPT !.cli = "closed", !.toClient = << >>]

\* onTimeout: the socket is aborted.
TimedOut(cn) ==
  [cn EXCEPT !.cli = "closed", !.toClient = << >>,
             !.toServer = ToServer(cn, <<"FIN">>)]

\* Mutant: the object is destroyed without disconnectFromDevice.
DroppedQuietly(cn) == [cn EXCEPT !.cli = "gone", !.toClient = << >>]

\* disconnectFromDevice and the destructor, which always follows it: a
\* connected socket says DISCONNECT before it closes.
Dropped(cn) ==
  [cn EXCEPT !.cli = "gone", !.toClient = << >>,
             !.toServer = IF ClientSocketOpen(cn)
                          THEN ToServer(cn, <<"DISCONNECT", "FIN">>)
                          ELSE @]

\* A phone's disconnectFromDevice and destructor: only a session says
\* DISCONNECT.
PhoneDropped(cn) ==
  [cn EXCEPT !.cli = "gone", !.toClient = << >>,
             !.toServer = CASE cn.cli = "session" -> ToServer(cn, <<"DISCONNECT", "FIN">>)
                            [] cn.cli \in {"requested", "spent"} -> ToServer(cn, <<"FIN">>)
                            [] OTHER -> @]

-----------------------------------------------------------------------------
(* ControlServer *)

\* processMessage, the branch of ConnectRequest, without its signal.
ReadRequest(cn) == [cn EXCEPT !.bound = TRUE, !.toServer = Tail(@)]

\* processMessage, the branch of Disconnect, without its signal.
ReadHangUp(cn) ==
  [cn EXCEPT !.bound = FALSE, !.srv = "closing", !.toServer = Tail(@)]

\* Mutant: disconnectClient forgets the request and sends nothing.
Forgotten(cn) == [cn EXCEPT !.bound = FALSE]

\* accept, reject and disconnectClient, on the socket they look up.
Accepted(cn) == [cn EXCEPT !.toClient = ToClient(cn, <<"ACCEPT">>)]
Rejected(cn) ==
  [cn EXCEPT !.srv = "closing", !.toClient = ToClient(cn, <<"REJECT">>)]
HungUp(cn) ==
  [cn EXCEPT !.srv = "closing", !.bound = FALSE,
             !.toClient = ToClient(cn, <<"DISCONNECT">>)]

\* onDisconnected, when the socket closed itself (msgs = FIN) or when the
\* peer or the network closed it (msgs empty).
ServerDisconnected(cn, msgs) ==
  [cn EXCEPT !.srv = "gone", !.bound = FALSE, !.toServer = << >>,
             !.toClient = ToClient(cn, msgs)]

\* The change to conn of a call that looks r up in requestToSocket_ and
\* returns when it is not there.
OnSocketOf(h, r, Change(_)) ==
  [c \in Conns |-> IF c = requestToSocket[h][r] THEN Change(conn[c]) ELSE conn[c]]

\* requestToSocket_ of h once r is erased, or once it is bound to socket c.
Bind(h, r, c) == requestToSocket' = [requestToSocket EXCEPT ![h][r] = c]
Unbind(h, r)  == Bind(h, r, None)

\* Mutant: onDisconnected leaves requestToSocket_ alone.
KeepSocket(h, c) == UNCHANGED requestToSocket

\* onDisconnected erases the entry only when it still names this socket.
UnbindSocket(h, c) ==
  IF conn[c].bound /\ requestToSocket[h][conn[c].req] = c
  THEN Unbind(h, conn[c].req)
  ELSE UNCHANGED requestToSocket

-----------------------------------------------------------------------------
(* The network: an outage stops deliveries both ways; it may heal once. *)

LinkDown(c) ==
  /\ conn[c].cli = "dialing" \/ ClientSocketOpen(conn[c]) \/ InSessions(conn[c])
  /\ conn[c].link = "up"
  /\ conn' = [conn EXCEPT ![c].link = "down"]

LinkHeals(c) ==
  /\ conn[c].link = "down"
  /\ conn' = [conn EXCEPT ![c].link = "healed"]

=============================================================================
