------------------------- MODULE PhoneManager_proofs -------------------------
(***************************************************************************)
(* The phone's manager, for any number of requests: a hang-up is final, a  *)
(* phone that says Streaming has a live session, and the microphone        *)
(* captures for no other but for an accept that met a hang-up.  That       *)
(* disconnectActive returns is liveness and is only model-checked.         *)
(***************************************************************************)
EXTENDS PhoneManager, TLAPS

\* The client of the thread, and whom the numbers name.
Numbers ==
  /\ client # 0 => client = created
  /\ self <= created /\ senderOf <= created
  /\ client = 0 /\ caller # "join" => Joined
  /\ client # 0 /\ caller # "connect" => self = client
  /\ caller = "connect" => client = created /\ self < created /\ senderOf < created
  /\ caller \in {"clear", "rest", "join"} => client = 0
  /\ caller = "close" => client # 0
  /\ thread # "none" => self # 0
  /\ caller \in {"claim", "announce", "replace"} => created < MaxClients

Requesting == {"announce", "replace", "connect"}

\* Between the claim of a request and the start of its thread the claim stands.
Claims ==
  /\ caller \in Requesting => hasActive
  /\ caller \in {"announce", "replace"} => activeId = created + 1
  /\ caller = "connect" => activeId = created
  /\ caller \notin Requesting => activeId = self
  /\ caller \in {"replace", "connect"} => state # "Streaming"
  /\ caller = "rest" => ~hasActive
  /\ caller = "claim" => ~hasActive
  /\ caller \in {"idle", "claim", "announce", "replace"} /\ client = 0 =>
       state # "Streaming"
  /\ caller = "idle" /\ client = 0 => state = "Idle" /\ ~hasActive

\* What is left to do for a thread whose request is not the active one any more.
Over ==
  /\ thread \in {"none", "ended", "idle", "idleRemote", "idleRefused", "leave", "loop",
                 "more"}
  /\ thread \in {"loop", "more"} =>
       ~sessionActive /\ ~awaiting /\ peer \in {"parting", "silent"}

\* Where the thread is and what its flags say.
Flags ==
  /\ ~hasActive \/ caller \in Requesting => Over
  /\ peer = "asked" => ~sessionActive
  /\ thread \in {"none", "ended", "connecting"} => ~sessionActive
  /\ thread \in {"refused", "idleRefused", "hushRemote", "dropRemote", "idleRemote"} =>
       ~sessionActive /\ ~awaiting /\ peer \in {"parting", "silent"}
  /\ thread \in {"accepted", "start", "streaming"} =>
       ~awaiting /\ peer \in {"talking", "silent"}
  /\ thread \in {"loop", "more"} /\ peer \in {"talking", "parting"} => ~awaiting
  /\ thread = "more" => ~awaiting
  /\ awaiting => ~sessionActive

\* A thread that reads an accepted session, undisturbed.
Attached == running /\ sessionActive /\ hasActive /\ client = self

Accepting ==
  caller \in {"idle", "close"} /\ thread \in {"accepted", "start", "streaming"} => Attached

Holding ==
  caller = "idle" /\ thread \in {"start", "streaming"} => senderOf = self

\* Which threads leave the state Streaming.
Streams ==
  caller \in {"idle", "claim", "announce"} /\ state = "Streaming" =>
    \/ thread \in {"loop", "more"} /\ Attached /\ senderOf = self
    \/ thread \in {"silence", "drop", "idle", "hushRemote", "dropRemote", "idleRemote"}

\* A session that was accepted and not yet left is the one the state speaks of.
Spoken ==
  caller \in {"idle", "close", "join"} /\ thread \in {"loop", "more"} /\ sessionActive =>
    state = "Streaming"

\* A microphone that is on has a sender; of one made during a hang-up it is known.
Hushed ==
  /\ senderOf = 0 => ~micOn
  /\ caller \in {"close", "join"} /\ senderOf # 0 => senderOf = late

\* Which threads leave the microphone of their session on.
Captures ==
  micOn /\ senderOf # late =>
    /\ senderOf = self /\ client = self
    /\ \/ thread \in {"loop", "more", "streaming"} /\ running /\ sessionActive
       \/ thread \in {"silence", "hushRemote"}

IInv ==
  TypeOK /\ Numbers /\ Claims /\ Flags /\ Accepting /\ Holding /\ Streams /\ Captures
    /\ Spoken /\ Hushed

USE PhoneAssumption
USE DEF Clients, Joined, Requesting, Attached, Over, managerVars, clientVars, senderVars

-----------------------------------------------------------------------------
(* Every variable keeps its type. *)

\* Initially they do.
LEMMA TypesInit == Init => TypeOK
BY DEF Init, TypeOK

\* The flags are Booleans, and the rest has its range: two provers.
Switches ==
  /\ hasActive \in BOOLEAN /\ micOn \in BOOLEAN /\ shown \in BOOLEAN
  /\ running \in BOOLEAN /\ sessionActive \in BOOLEAN /\ awaiting \in BOOLEAN

LEMMA SwitchesStep == ASSUME TypeOK, [Next]_vars PROVE Switches'
<1>1. CASE RequestRefused \/ Request \/ HangUp
  BY <1>1, Zenon DEF TypeOK, Switches, RequestRefused, Request, HangUp
<1>2. CASE Caller
  BY <1>2, Zenon DEF TypeOK, Switches, Caller, Claim, Announce, Replace, Connect,
    Close, NoLongerRunning, Join, MayLeave, Clear, Rest
<1>3. CASE Hear
  BY <1>3, Zenon DEF TypeOK, Switches, Hear, Answer, Disconnected, StreamEnds
<1>4. CASE Proceed
  BY <1>4, Zenon DEF TypeOK, Switches, Proceed, ConnectFails, SetUpFails, Requested,
    Leave, AnswerTimeout, LostByKeepAlive, KeepAlivesMissed, NoMore, NewSender,
    StartSender, SetStreaming, StopSender, Stopped, DropActive, SetIdle, NowIdle
<1>5. CASE Vanish
  BY <1>5, Zenon DEF TypeOK, Switches, Vanish
<1>6. CASE UNCHANGED vars
  BY <1>6, Zenon DEF TypeOK, vars, Switches
<1> QED
  BY <1>1, <1>2, <1>3, <1>4, <1>5, <1>6 DEF Next

\* The other variables.
Places ==
  /\ activeId \in {0} \cup Clients /\ client \in {0} \cup Clients
  /\ created \in {0} \cup Clients /\ senderOf \in {0} \cup Clients
  /\ self \in {0} \cup Clients /\ late \in {0} \cup Clients
  /\ state \in {"Idle", "RequestSent", "Streaming"}
  /\ caller \in {"idle", "claim", "announce", "replace", "connect",
                 "close", "join", "clear", "rest"}
  /\ thread \in {"none", "connecting", "loop", "more", "leave", "ended",
                 "accepted", "start", "streaming", "refused", "idleRefused",
                 "silence", "drop", "idle", "hushRemote", "dropRemote", "idleRemote"}
  /\ peer \in {"none", "asked", "talking", "parting", "silent"}

LEMMA PlacesStep == ASSUME TypeOK, Numbers, [Next]_vars PROVE Places'
<1>1. CASE RequestRefused \/ Request \/ HangUp
  BY <1>1 DEF TypeOK, Places, Numbers, RequestRefused, Request, HangUp
<1>2. CASE Caller
  BY <1>2 DEF TypeOK, Places, Numbers, Caller, Claim, Announce, Replace, Connect,
    Close, NoLongerRunning, Join, MayLeave, Clear, Rest
<1>3. CASE Hear
  BY <1>3 DEF TypeOK, Places, Numbers, Hear, Answer, Disconnected, StreamEnds
<1>4. CASE Proceed
  BY ZenonT(30), <1>4 DEF TypeOK, Places, Numbers, Proceed, ConnectFails, SetUpFails, Requested,
    Leave, AnswerTimeout, LostByKeepAlive, KeepAlivesMissed, NoMore, NewSender,
    StartSender, SetStreaming, StopSender, Stopped, DropActive, SetIdle, NowIdle
<1>5. CASE Vanish
  BY <1>5 DEF TypeOK, Places, Numbers, Vanish
<1>6. CASE UNCHANGED vars
  BY <1>6 DEF TypeOK, vars, Places, Numbers
<1> QED
  BY <1>1, <1>2, <1>3, <1>4, <1>5, <1>6 DEF Next

\* Every step keeps the types.
LEMMA TypesStep == ASSUME TypeOK, Numbers, [Next]_vars PROVE TypeOK'
BY SwitchesStep, PlacesStep DEF Switches, Places, TypeOK

\* What the invariant says beyond the types.
Facts == Numbers /\ Claims /\ Flags /\ Accepting /\ Holding /\ Streams /\ Captures
           /\ Spoken /\ Hushed

-----------------------------------------------------------------------------
(* The caller: every step of it keeps the invariant. *)

LEMMA RequestRefusedStep == ASSUME IInv, RequestRefused PROVE Facts'
BY DEF RequestRefused, IInv, Facts, TypeOK, Numbers, Claims, Flags, Accepting,
  Holding, Streams, Captures, Spoken, Hushed

LEMMA RequestStep == ASSUME IInv, Request PROVE Facts'
BY DEF Request, IInv, Facts, TypeOK, Numbers, Claims, Flags, Accepting, Holding,
  Streams, Captures, Spoken, Hushed

LEMMA HangUpStep == ASSUME IInv, HangUp PROVE Facts'
BY DEF HangUp, IInv, Facts, TypeOK, Numbers, Claims, Flags, Accepting, Holding,
  Streams, Captures, Spoken, Hushed

LEMMA ClaimStep == ASSUME IInv, Claim PROVE Facts'
<1>1. Numbers' /\ Claims' /\ Accepting' /\ Holding' /\ Streams' /\ Captures'
  BY DEF Claim, IInv, TypeOK, Numbers, Claims, Accepting, Holding, Streams, Captures
<1>2. Flags'
  BY DEF Claim, IInv, TypeOK, Claims, Flags
<1>3. Spoken' /\ Hushed'
  BY DEF Claim, IInv, TypeOK, Numbers, Claims, Flags, Accepting, Holding, Captures,
    Spoken, Hushed
<1> QED
  BY <1>1, <1>2, <1>3 DEF Facts

LEMMA AnnounceStep == ASSUME IInv, Announce PROVE Facts'
BY DEF Announce, IInv, Facts, TypeOK, Numbers, Claims, Flags, Accepting, Holding,
  Streams, Captures, Spoken, Hushed

LEMMA ReplaceStep == ASSUME IInv, Replace PROVE Facts'
<1>1. Numbers' /\ Claims' /\ Flags' /\ Accepting' /\ Holding' /\ Streams'
  BY DEF Replace, IInv, TypeOK, Numbers, Claims, Flags, Accepting, Holding, Streams
<1>2. Captures'
  BY DEF Replace, IInv, TypeOK, Numbers, Claims, Flags, Captures
<1>3. Spoken' /\ Hushed'
  BY DEF Replace, IInv, TypeOK, Numbers, Claims, Flags, Accepting, Holding, Captures,
    Spoken, Hushed
<1> QED
  BY <1>1, <1>2, <1>3 DEF Facts

LEMMA ConnectStep == ASSUME IInv, Connect PROVE Facts'
<1>1. Numbers' /\ Accepting' /\ Holding'
  BY DEF Connect, IInv, TypeOK, Numbers, Accepting, Holding
<1>2. Claims'
  BY DEF Connect, IInv, TypeOK, Numbers, Claims
<1>3. Flags'
  BY DEF Connect, IInv, TypeOK, Claims, Flags
<1>4. Streams'
  BY DEF Connect, IInv, TypeOK, Claims, Streams
<1>5. Captures'
  BY DEF Connect, IInv, TypeOK, Numbers, Captures
<1>6. Spoken' /\ Hushed'
  BY DEF Connect, IInv, TypeOK, Numbers, Claims, Flags, Accepting, Holding, Captures,
    Spoken, Hushed
<1> QED
  BY <1>1, <1>2, <1>3, <1>4, <1>5, <1>6 DEF Facts

LEMMA CloseStep == ASSUME IInv, Close PROVE Facts'
<1>1. Numbers' /\ Claims' /\ Flags' /\ Accepting' /\ Holding' /\ Streams'
  BY DEF Close, NoLongerRunning, IInv, TypeOK, Numbers, Claims, Flags, Accepting,
    Holding, Streams
<1>2. Captures'
  BY DEF Close, NoLongerRunning, IInv, TypeOK, Numbers, Captures, Hushed
<1>3. Spoken' /\ Hushed'
  BY DEF Close, NoLongerRunning, IInv, TypeOK, Numbers, Claims, Flags, Accepting, Holding, Captures,
    Spoken, Hushed
<1> QED
  BY <1>1, <1>2, <1>3 DEF Facts

LEMMA JoinStep == ASSUME IInv, Join PROVE Facts'
BY DEF Join, MayLeave, IInv, Facts, TypeOK, Numbers, Claims, Flags, Accepting,
  Holding, Streams, Captures, Spoken, Hushed

LEMMA ClearStep == ASSUME IInv, Clear PROVE Facts'
<1>1. Numbers' /\ Claims' /\ Accepting' /\ Holding' /\ Streams' /\ Captures'
  BY DEF Clear, IInv, TypeOK, Numbers, Claims, Accepting, Holding, Streams, Captures
<1>2. Flags'
  BY DEF Clear, IInv, TypeOK, Numbers, Flags
<1>3. Spoken' /\ Hushed'
  BY DEF Clear, IInv, TypeOK, Numbers, Claims, Flags, Accepting, Holding, Captures,
    Spoken, Hushed
<1> QED
  BY <1>1, <1>2, <1>3 DEF Facts

LEMMA RestStep == ASSUME IInv, Rest PROVE Facts'
<1>1. Numbers' /\ Claims' /\ Flags' /\ Streams' /\ Captures'
  BY DEF Rest, IInv, TypeOK, Numbers, Claims, Flags, Streams, Captures
<1>2. Accepting'
  BY DEF Rest, IInv, TypeOK, Claims, Flags, Accepting
<1>3. Holding'
  BY DEF Rest, IInv, TypeOK, Claims, Flags, Holding
<1>4. Spoken' /\ Hushed'
  BY DEF Rest, IInv, TypeOK, Numbers, Claims, Flags, Accepting, Holding, Captures,
    Spoken, Hushed
<1> QED
  BY <1>1, <1>2, <1>3, <1>4 DEF Facts

-----------------------------------------------------------------------------
(* So does what the thread hears. *)

LEMMA AnswerStep == ASSUME IInv, Answer PROVE Facts'
<1>1. Numbers' /\ Claims' /\ Flags' /\ Holding'
  BY DEF Answer, IInv, TypeOK, Numbers, Claims, Flags, Holding
<1>2. Accepting'
  BY DEF Answer, IInv, TypeOK, Numbers, Flags, Accepting
<1>3. Streams'
  BY DEF Answer, IInv, TypeOK, Flags, Streams
<1>4. Captures'
  BY DEF Answer, IInv, TypeOK, Flags, Captures
<1>5. Spoken' /\ Hushed'
  BY DEF Answer, IInv, TypeOK, Numbers, Claims, Flags, Accepting, Holding, Captures,
    Spoken, Hushed
<1> QED
  BY <1>1, <1>2, <1>3, <1>4, <1>5 DEF Facts

LEMMA DisconnectedStep == ASSUME IInv, Disconnected PROVE Facts'
BY DEF Disconnected, IInv, Facts, TypeOK, Numbers, Claims, Flags, Accepting,
  Holding, Streams, Captures, Spoken, Hushed

LEMMA StreamEndsStep == ASSUME IInv, StreamEnds PROVE Facts'
BY DEF StreamEnds, IInv, Facts, TypeOK, Numbers, Claims, Flags, Accepting, Holding,
  Streams, Captures, Spoken, Hushed

-----------------------------------------------------------------------------
(* So does what the thread gets done on its own, and a vanishing desktop. *)

LEMMA ConnectFailsStep == ASSUME IInv, ConnectFails PROVE Facts'
BY DEF ConnectFails, IInv, Facts, TypeOK, Numbers, Claims, Flags, Accepting,
  Holding, Streams, Captures, Spoken, Hushed

LEMMA SetUpFailsStep == ASSUME IInv, SetUpFails PROVE Facts'
BY DEF SetUpFails, IInv, Facts, TypeOK, Numbers, Claims, Flags, Accepting, Holding,
  Streams, Captures, Spoken, Hushed

LEMMA RequestedStep == ASSUME IInv, Requested PROVE Facts'
BY DEF Requested, IInv, Facts, TypeOK, Numbers, Claims, Flags, Accepting, Holding,
  Streams, Captures, Spoken, Hushed

LEMMA LeaveStep == ASSUME IInv, Leave PROVE Facts'
BY DEF Leave, IInv, Facts, TypeOK, Numbers, Claims, Flags, Accepting, Holding,
  Streams, Captures, Spoken, Hushed

LEMMA AnswerTimeoutStep == ASSUME IInv, AnswerTimeout PROVE Facts'
<1>1. Numbers' /\ Claims' /\ Flags' /\ Accepting' /\ Holding' /\ Streams'
  BY DEF AnswerTimeout, IInv, TypeOK, Numbers, Claims, Flags, Accepting, Holding,
    Streams
<1>2. Captures'
  BY DEF AnswerTimeout, IInv, TypeOK, Flags, Captures
<1>3. Spoken' /\ Hushed'
  BY DEF AnswerTimeout, IInv, TypeOK, Numbers, Claims, Flags, Accepting, Holding, Captures,
    Spoken, Hushed
<1> QED
  BY <1>1, <1>2, <1>3 DEF Facts

LEMMA LostByKeepAliveStep == ASSUME IInv, LostByKeepAlive PROVE Facts'
BY DEF LostByKeepAlive, KeepAlivesMissed, IInv, Facts, TypeOK, Numbers, Claims,
  Flags, Accepting, Holding, Streams, Captures, Spoken, Hushed

LEMMA NoMoreStep == ASSUME IInv, NoMore PROVE Facts'
BY DEF NoMore, IInv, Facts, TypeOK, Numbers, Claims, Flags, Accepting, Holding,
  Streams, Captures, Spoken, Hushed

LEMMA NewSenderStep == ASSUME IInv, NewSender PROVE Facts'
BY DEF NewSender, IInv, Facts, TypeOK, Numbers, Claims, Flags, Accepting, Holding,
  Streams, Captures, Spoken, Hushed

LEMMA StartSenderStep == ASSUME IInv, StartSender PROVE Facts'
<1>1. Numbers' /\ Claims' /\ Flags' /\ Accepting' /\ Holding' /\ Streams'
  BY DEF StartSender, IInv, TypeOK, Numbers, Claims, Flags, Accepting, Holding,
    Streams
<1>2. Captures'
  BY DEF StartSender, IInv, TypeOK, Numbers, Claims, Flags, Accepting, Holding, Captures,
    Hushed
<1>3. Spoken' /\ Hushed'
  BY DEF StartSender, IInv, TypeOK, Numbers, Claims, Flags, Accepting, Holding, Captures,
    Spoken, Hushed
<1> QED
  BY <1>1, <1>2, <1>3 DEF Facts

LEMMA SetStreamingStep == ASSUME IInv, SetStreaming PROVE Facts'
<1>1. Numbers' /\ Flags' /\ Accepting' /\ Holding' /\ Captures'
  BY DEF SetStreaming, IInv, TypeOK, Numbers, Flags, Accepting, Holding, Captures
<1>2. Claims'
  BY DEF SetStreaming, IInv, TypeOK, Claims, Flags
<1>3. Streams'
  BY DEF SetStreaming, IInv, TypeOK, Claims, Flags, Accepting, Holding, Streams
<1>4. Spoken' /\ Hushed'
  BY DEF SetStreaming, IInv, TypeOK, Numbers, Claims, Flags, Accepting, Holding, Captures,
    Spoken, Hushed
<1> QED
  BY <1>1, <1>2, <1>3, <1>4 DEF Facts

LEMMA StopSenderStep == ASSUME IInv, StopSender PROVE Facts'
BY DEF StopSender, Stopped, IInv, Facts, TypeOK, Numbers, Claims, Flags, Accepting,
  Holding, Streams, Captures, Spoken, Hushed

LEMMA DropActiveStep == ASSUME IInv, DropActive PROVE Facts'
<1>1. Numbers' /\ Flags' /\ Accepting' /\ Holding' /\ Streams' /\ Captures'
  BY DEF DropActive, IInv, TypeOK, Numbers, Flags, Accepting, Holding, Streams,
    Captures
<1>2. Claims'
  BY DEF DropActive, IInv, TypeOK, Claims, Flags
<1>3. Spoken' /\ Hushed'
  BY DEF DropActive, IInv, TypeOK, Numbers, Claims, Flags, Accepting, Holding, Captures,
    Spoken, Hushed
<1> QED
  BY <1>1, <1>2, <1>3 DEF Facts

LEMMA SetIdleStep == ASSUME IInv, SetIdle PROVE Facts'
BY DEF SetIdle, NowIdle, IInv, Facts, TypeOK, Numbers, Claims, Flags, Accepting,
  Holding, Streams, Captures, Spoken, Hushed

LEMMA VanishStep == ASSUME IInv, Vanish PROVE Facts'
BY DEF Vanish, IInv, Facts, TypeOK, Numbers, Claims, Flags, Accepting, Holding,
  Streams, Captures, Spoken, Hushed

-----------------------------------------------------------------------------
(* The invariant *)

LEMMA InvInit == Init => IInv
<1> SUFFICES ASSUME Init PROVE IInv
  OBVIOUS
<1>1. TypeOK
  BY TypesInit
<1>2. Numbers /\ Claims /\ Flags /\ Accepting /\ Holding /\ Streams /\ Captures
      /\ Spoken /\ Hushed
  BY DEF Init, Numbers, Claims, Flags, Accepting, Holding, Streams, Captures, Spoken, Hushed
<1> QED
  BY <1>1, <1>2 DEF IInv

LEMMA InvStep == ASSUME IInv, [Next]_vars PROVE IInv'
<1>1. TypeOK'
  BY TypesStep DEF IInv
<1>2. Facts'
  <2>1. CASE RequestRefused \/ Request \/ HangUp
    BY <2>1, RequestRefusedStep, RequestStep, HangUpStep
  <2>2. CASE Caller
    BY <2>2, ClaimStep, AnnounceStep, ReplaceStep, ConnectStep, CloseStep, JoinStep,
       ClearStep, RestStep DEF Caller
  <2>3. CASE Hear
    BY <2>3, AnswerStep, DisconnectedStep, StreamEndsStep DEF Hear
  <2>4. CASE Proceed
    BY <2>4, ConnectFailsStep, SetUpFailsStep, RequestedStep, LeaveStep,
       AnswerTimeoutStep, LostByKeepAliveStep, NoMoreStep, NewSenderStep,
       StartSenderStep, SetStreamingStep, StopSenderStep, DropActiveStep, SetIdleStep
    DEF Proceed
  <2>5. CASE Vanish
    BY <2>5, VanishStep
  <2>6. CASE UNCHANGED vars
    BY <2>6 DEF IInv, Facts, vars, Numbers, Claims, Flags, Accepting, Holding, Streams,
       Captures, Spoken, Hushed
  <2> QED
    BY <2>1, <2>2, <2>3, <2>4, <2>5, <2>6 DEF Next
<1> QED
  BY <1>1, <1>2 DEF IInv, Facts

\* What the phone's two threads rely on, at each of their steps.
THEOREM PhoneInvariant == Spec => []IInv
<1>1. Init => IInv
  BY InvInit
<1>2. IInv /\ [Next]_vars => IInv'
  BY InvStep
<1> QED
  BY <1>1, <1>2, PTL DEF Spec

-----------------------------------------------------------------------------
(* What follows *)

\* Every variable keeps its type, however many requests there are.
THEOREM PhoneTypes == Spec => []TypeOK
<1>1. IInv => TypeOK
  BY DEF IInv
<1> QED
  BY <1>1, PhoneInvariant, PTL

\* Once disconnectActive has returned, nothing of the ended connection is left to
\* change what the phone is in.
THEOREM PhoneHangUpIsFinal == Spec => []HangUpIsFinal
<1>1. IInv => HangUpIsFinal
  BY DEF IInv, Numbers, Claims, HangUpIsFinal
<1> QED
  BY <1>1, PhoneInvariant, PTL

\* A phone that says Streaming has a live connection of that very request.
THEOREM PhoneStreamingIsReal == Spec => []StreamingIsReal
<1>1. IInv => StreamingIsReal
  BY DEF IInv, TypeOK, Numbers, Claims, Streams, StreamingIsReal
<1> QED
  BY <1>1, PhoneInvariant, PTL

\* A microphone that captures has a phone that says so, unless its accept met a
\* hang-up.
THEOREM PhoneMicIsHeard == Spec => []MicIsHeard
<1>1. IInv => MicIsHeard
  BY DEF IInv, TypeOK, Captures, Spoken, MicIsHeard
<1> QED
  BY <1>1, PhoneInvariant, PTL

\* A phone that says Streaming has its session, and one that captures says so, but
\* for an accept that met a hang-up.
THEOREM PhoneCallIsReal == Spec => []CallIsReal
BY PhoneStreamingIsReal, PhoneMicIsHeard, PTL DEF CallIsReal

=============================================================================
