---------------------------- MODULE PhoneManager ----------------------------
(***************************************************************************)
(* The phone: android::ConnectionManager, the thread of its ControlClient, *)
(* its microphone and what the app shows.                                  *)
(*                                                                         *)
(* Two threads.  The caller is whoever is inside requestConnection or      *)
(* disconnectActive: the app, one call at a time under gManagerMutex, or   *)
(* the discovery thread with an invite, which takes no lock (the model     *)
(* lets it in when nobody else is).  The other one is ControlClient::run,  *)
(* whose callbacks run on it.  Steps are what the threads can see of each  *)
(* other: a critical section of mutex_, an access to an atomic flag or to  *)
(* audioSender_, a join.                                                   *)
(*                                                                         *)
(* ControlClients are numbered in the order of their creation, and so are  *)
(* their requests.  Of the desktop the model has what it may still say.    *)
(***************************************************************************)
EXTENDS Integers

CONSTANT MaxClients   \* bound: the requests that are made

ASSUME PhoneAssumption == MaxClients \in Nat

VARIABLES
  hasActive, activeId, state,   \* activeConnection_, guarded by mutex_
  client,          \* controlClient_, 0 when null
  created,         \* the clients created so far
  senderOf,        \* audioSender_: the client it was created for, 0 when null
  micOn,           \* whether it captures
  late,            \* the client whose accept met a hang-up (history), 0 if none did
  caller,          \* where the caller is
  thread,          \* where run() is
  self,            \* the client run() belongs to
  running, sessionActive, awaiting,   \* that client's flags
  peer,            \* what its desktop may still say
  shown            \* the app's activeDevice is not null

managerVars == <<hasActive, activeId, state>>
clientVars  == <<self, running, sessionActive, awaiting>>
senderVars  == <<senderOf, micOn, late>>
vars == <<managerVars, client, created, senderVars, caller, thread, clientVars, peer,
          shown>>

Init ==
  /\ hasActive = FALSE /\ activeId = 0 /\ state = "Idle"
  /\ client = 0 /\ created = 0 /\ senderOf = 0 /\ micOn = FALSE /\ late = 0
  /\ caller = "idle" /\ thread = "none" /\ self = 0
  /\ running = FALSE /\ sessionActive = FALSE /\ awaiting = FALSE
  /\ peer = "none" /\ shown = FALSE

\* join() on the thread of a client returns.
Joined == thread \in {"none", "ended"}

-----------------------------------------------------------------------------
(* requestConnection *)

\* ALREADY_CONNECTED: failedCallback_, upon which the app forgets activeDevice.
RequestRefused ==
  /\ caller = "idle" /\ hasActive
  /\ shown' = FALSE
  /\ UNCHANGED <<managerVars, client, created, senderVars, caller, thread, clientVars, peer>>

Request ==
  /\ caller = "idle" /\ ~hasActive /\ created < MaxClients
  /\ caller' = "claim"
  /\ UNCHANGED <<managerVars, client, created, senderVars, thread, clientVars, peer, shown>>

Claim ==
  /\ caller = "claim"
  /\ hasActive' = TRUE /\ activeId' = created + 1
  /\ caller' = "announce"
  /\ UNCHANGED <<state, client, created, senderVars, thread, clientVars, peer, shown>>

Announce ==
  /\ caller = "announce"
  /\ state' = "RequestSent"
  /\ caller' = "replace"
  /\ UNCHANGED <<hasActive, activeId, client, created, senderVars, thread, clientVars, peer,
                 shown>>

\* make_unique stores the new client and destroys the old one, which tells its
\* thread to end.
Replace ==
  /\ caller = "replace"
  /\ created' = created + 1 /\ client' = created'
  /\ running' = FALSE /\ sessionActive' = FALSE
  /\ caller' = "connect"
  /\ UNCHANGED <<managerVars, senderVars, thread, self, awaiting, peer, shown>>

\* Its destructor has joined the old thread, and connectToDevice starts one.
Connect ==
  /\ caller = "connect" /\ Joined
  /\ thread' = "connecting" /\ self' = client
  /\ running' = TRUE /\ awaiting' = TRUE
  /\ caller' = "idle"
  /\ UNCHANGED <<managerVars, client, created, senderVars, sessionActive, peer, shown>>

-----------------------------------------------------------------------------
(* disconnectActive *)

\* The app offers it while it shows a device.
HangUp ==
  /\ caller = "idle" /\ shown
  /\ senderOf' = 0 /\ micOn' = FALSE
  /\ caller' = IF client = 0 THEN "clear" ELSE "close"
  /\ UNCHANGED <<managerVars, client, created, late, thread, clientVars, peer, shown>>

\* Mutant: run() is not told to end.
StillRunning == running

NoLongerRunning == FALSE

\* disconnectFromDevice, the DISCONNECT it may send included.
Close ==
  /\ caller = "close"
  /\ running' = NoLongerRunning /\ sessionActive' = FALSE
  /\ client' = 0
  /\ caller' = "join"
  /\ UNCHANGED <<managerVars, created, senderVars, thread, self, awaiting, peer, shown>>

\* Mutant: the destructor does not wait.
NotJoined == TRUE

MayLeave == Joined

Join ==
  /\ caller = "join" /\ MayLeave
  /\ caller' = "clear"
  /\ UNCHANGED <<managerVars, client, created, senderVars, thread, clientVars, peer, shown>>

Clear ==
  /\ caller = "clear"
  /\ hasActive' = FALSE
  /\ caller' = "rest"
  /\ UNCHANGED <<activeId, state, client, created, senderVars, thread, clientVars, peer, shown>>

Rest ==
  /\ caller = "rest"
  /\ state' = "Idle"
  /\ caller' = "idle"
  /\ UNCHANGED <<hasActive, activeId, client, created, senderVars, thread, clientVars, peer,
                 shown>>

Caller ==
  \/ Claim \/ Announce \/ Replace \/ Connect
  \/ Close \/ Join \/ Clear \/ Rest

-----------------------------------------------------------------------------
(* ControlClient::run *)

\* connect() fails: timeoutCallback_, and running_, which nobody reads any more.
ConnectFails ==
  /\ thread = "connecting"
  /\ thread' = "drop" /\ running' = FALSE
  /\ UNCHANGED <<managerVars, client, created, senderVars, caller, self, sessionActive,
                 awaiting, peer, shown>>

\* Resolving, the certificate, TLS or the first write fails: errorCallback_.
SetUpFails ==
  /\ thread = "connecting"
  /\ thread' = "ended" /\ running' = FALSE
  /\ UNCHANGED <<managerVars, client, created, senderVars, caller, self, sessionActive,
                 awaiting, peer, shown>>

Requested ==
  /\ thread = "connecting"
  /\ thread' = "loop" /\ peer' = "asked"
  /\ UNCHANGED <<managerVars, client, created, senderVars, caller, clientVars, shown>>

Leave ==
  /\ \/ thread = "loop" /\ ~running
     \/ thread = "leave"
  /\ thread' = "ended" /\ sessionActive' = FALSE
  /\ UNCHANGED <<managerVars, client, created, senderVars, caller, self, running, awaiting,
                 peer, shown>>

\* kConnectRequestTimeoutMs without an answer.
AnswerTimeout ==
  /\ thread = "loop" /\ running /\ awaiting
  /\ thread' = "drop"
  /\ UNCHANGED <<managerVars, client, created, senderVars, caller, clientVars, peer, shown>>

\* Mutant: a vanished desktop is not noticed.
NeverMissed == FALSE

KeepAlivesMissed == peer = "silent"

LostByKeepAlive ==
  /\ thread = "loop" /\ running /\ sessionActive /\ KeepAlivesMissed
  /\ thread' = "silence"
  /\ UNCHANGED <<managerVars, client, created, senderVars, caller, clientVars, peer, shown>>

\* CONNECT_RESPONSE, and what responseCallback_ compares under the lock.
Answer ==
  /\ thread = "loop" /\ running /\ peer = "asked"
  /\ awaiting' = FALSE
  /\ \/ /\ sessionActive' = TRUE /\ peer' = "talking"
        /\ thread' = IF activeId = self THEN "accepted" ELSE "more"
     \/ /\ UNCHANGED sessionActive /\ peer' = "parting"
        /\ thread' = IF activeId = self THEN "refused" ELSE "more"
  /\ UNCHANGED <<managerVars, client, created, senderVars, caller, self, running, shown>>

\* Messages that came in one read are handled before running_ is tested.
NoMore ==
  /\ thread = "more"
  /\ thread' = "loop"
  /\ UNCHANGED <<managerVars, client, created, senderVars, caller, clientVars, peer, shown>>

Disconnected ==
  /\ \/ thread = "more"
     \/ thread = "loop" /\ running
  /\ peer = "talking"
  /\ sessionActive' = FALSE /\ peer' = "parting"
  /\ thread' = "hushRemote"
  /\ UNCHANGED <<managerVars, client, created, senderVars, caller, self, running, awaiting,
                 shown>>

\* The stream ends or fails.
StreamEnds ==
  /\ thread = "loop" /\ running /\ peer # "silent"
  /\ thread' = IF sessionActive THEN "silence" ELSE "leave"
  /\ UNCHANGED <<managerVars, client, created, senderVars, caller, clientVars, peer, shown>>

-----------------------------------------------------------------------------
(* The callbacks, on the thread of run *)

\* setResponseCallback, accepted: the sender of an earlier session is destroyed.
\* A desktop that accepts always sends a session.  disconnectActive, which has put
\* out audioSender_ before it joins this thread, does not see the new one.
NewSender ==
  /\ thread = "accepted"
  /\ senderOf' = self /\ micOn' = FALSE
  /\ late' = IF caller \in {"close", "join"} THEN self ELSE late
  /\ thread' = "start"
  /\ UNCHANGED <<managerVars, client, created, caller, clientVars, peer, shown>>

\* AudioSender::start, whose result is ignored.  A hang-up that has reset
\* audioSender_ since makes this undefined; the model takes the harmless outcome.
StartSender ==
  /\ thread = "start"
  /\ micOn' \in IF senderOf = 0 THEN {FALSE} ELSE BOOLEAN
  /\ thread' = "streaming"
  /\ UNCHANGED <<managerVars, client, created, senderOf, late, caller, clientVars, peer, shown>>

SetStreaming ==
  /\ thread = "streaming"
  /\ state' = "Streaming" /\ shown' = TRUE
  /\ thread' = "more"
  /\ UNCHANGED <<hasActive, activeId, client, created, senderVars, caller, clientVars, peer>>

\* Mutant: connectionLostCallback_ leaves the microphone on.
Unstopped(on) == on

Stopped(on) == FALSE

\* setConnectionLostCallback and setRemoteDisconnectCallback begin alike.
StopSender ==
  /\ thread \in {"silence", "hushRemote"}
  /\ micOn' = Stopped(micOn)
  /\ thread' = IF thread = "silence" THEN "drop" ELSE "dropRemote"
  /\ UNCHANGED <<managerVars, client, created, senderOf, late, caller, clientVars, peer, shown>>

DropActive ==
  /\ thread \in {"drop", "dropRemote", "refused"}
  /\ hasActive' = FALSE
  /\ thread' = CASE thread = "drop"       -> "idle"
                 [] thread = "dropRemote" -> "idleRemote"
                 [] thread = "refused"    -> "idleRefused"
  /\ UNCHANGED <<activeId, state, client, created, senderVars, caller, clientVars, peer, shown>>

NowIdle == "Idle"

\* setState(Idle), then failedCallback_ or closedCallback_.
SetIdle ==
  /\ thread \in {"idle", "idleRemote", "idleRefused"}
  /\ state' = NowIdle /\ shown' = FALSE
  /\ running' = (running /\ thread # "idleRemote")
  /\ thread' = IF thread = "idle" THEN "leave" ELSE "more"
  /\ UNCHANGED <<hasActive, activeId, client, created, senderVars, caller, self,
                 sessionActive, awaiting, peer>>

\* What the network or the desktop decides.
Hear == Answer \/ Disconnected \/ StreamEnds

\* What run() gets done on its own: its calls are bounded by socket timeouts.
Proceed ==
  \/ ConnectFails \/ SetUpFails \/ Requested
  \/ Leave \/ AnswerTimeout \/ LostByKeepAlive \/ NoMore
  \/ NewSender \/ StartSender \/ SetStreaming \/ StopSender \/ DropActive \/ SetIdle

\* The desktop, or the way to it, vanishes.
Vanish ==
  /\ peer \in {"asked", "talking", "parting"}
  /\ peer' = "silent"
  /\ UNCHANGED <<managerVars, client, created, senderVars, caller, thread, clientVars, shown>>

Next == RequestRefused \/ Request \/ HangUp \/ Caller \/ Hear \/ Proceed \/ Vanish

Spec == Init /\ [][Next]_vars

\* Both threads are scheduled.  Nothing makes the user act, the desktop speak or
\* the stream end.
FairSpec == Spec /\ WF_vars(Caller) /\ WF_vars(Proceed)

-----------------------------------------------------------------------------

Clients == 1 .. MaxClients

\* Every variable keeps its type.
TypeOK ==
  /\ hasActive \in BOOLEAN /\ activeId \in {0} \cup Clients
  /\ state \in {"Idle", "RequestSent", "Streaming"}
  /\ client \in {0} \cup Clients /\ created \in {0} \cup Clients
  /\ senderOf \in {0} \cup Clients /\ micOn \in BOOLEAN
  /\ late \in {0} \cup Clients
  /\ caller \in {"idle", "claim", "announce", "replace", "connect",
                 "close", "join", "clear", "rest"}
  /\ thread \in {"none", "connecting", "loop", "more", "leave", "ended",
                 "accepted", "start", "streaming", "refused", "idleRefused",
                 "silence", "drop", "idle", "hushRemote", "dropRemote", "idleRemote"}
  /\ self \in {0} \cup Clients
  /\ running \in BOOLEAN /\ sessionActive \in BOOLEAN /\ awaiting \in BOOLEAN
  /\ peer \in {"none", "asked", "talking", "parting", "silent"}
  /\ shown \in BOOLEAN

\* A hang-up is final: once disconnectActive has returned, no late answer,
\* timeout or loss of the connection it ended changes what the phone is in.
HangUpIsFinal ==
  caller = "idle" /\ client = 0 => state = "Idle" /\ ~hasActive /\ Joined

\* Between calls and callbacks, a phone that says Streaming has a control
\* connection of that very request, read by a thread that would notice its end.
StreamingIsReal ==
  caller = "idle" /\ thread \in {"none", "loop", "ended"} /\ state = "Streaming" =>
    /\ thread = "loop" /\ running /\ sessionActive
    /\ hasActive /\ activeId = self /\ client = self /\ senderOf = self

\* Between calls and callbacks, the microphone captures for the session of the
\* current connection and no other; but one that a desktop's accept has started
\* while disconnectActive was waiting for its thread is left on.
MicIsHeard ==
  caller = "idle" /\ thread \in {"none", "loop", "ended"} /\ micOn /\ senderOf # late =>
    state = "Streaming" /\ senderOf = client

\* ConnectionManager.cpp:229-252, :259-273: however answers, hang-ups of either end,
\* losses and new requests meet, a phone that says Streaming has the session it
\* speaks of, and a microphone that captures has a phone that says so; except
\* where a hang-up has met the accept (README, section 5).
CallIsReal == StreamingIsReal /\ MicIsHeard

\* disconnectActive, which the app calls on its main thread, returns.
HangUpReturns == caller = "join" ~> caller = "idle"

\* A session whose desktop has vanished ends.
LossIsNoticed == state = "Streaming" /\ peer = "silent" ~> state # "Streaming"

=============================================================================
