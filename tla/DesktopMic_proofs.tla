-------------------------- MODULE DesktopMic_proofs --------------------------
(***************************************************************************)
(* The desktop's microphone on PulseAudio, for any length of the queue and *)
(* any number of lives of the process: its stream outlives its writer, the *)
(* server holds our modules and nothing stale, what waits is the most      *)
(* recent audio and quitting plays it.  Then its place among the others of *)
(* the machine: who records from it keeps it, and with one door to the     *)
(* audio servers the user's own microphone is one button away.             *)
(***************************************************************************)
EXTENDS PulseAudioVirtualMic, DefaultMic, TLAPS

-----------------------------------------------------------------------------
(* The microphone on PulseAudio *)

\* Where the threads are.
Threads ==
  /\ main \in {"gone", "loadSink", "loadSource", "open"} => ~mic
  /\ main \in {"notify", "join"} => mic /\ ~writerRunning
  /\ main = "idle" /\ mic => writerRunning
  /\ writer \in {"test", "dozing", "asleep", "write"} =>
       mic /\ main \in {"idle", "notify", "join"}

\* What the server holds at each place of the main thread, as far as pactl worked.
Server ==
  /\ main \notin {"gone", "idle"} \/ mic => swept
  /\ main \in {"idle", "notify", "join"} /\ mic => stream \in sinks
  /\ swept /\ ~missed =>
       /\ main = "idle" /\ ~mic => sinks = {} /\ sources = {}
       /\ main = "loadSink" => sinks = {} /\ sources = {}
       /\ main = "loadSource" => sinks = {sinkId} /\ sources = {}
       /\ main = "open" => sinks = {sinkId} /\ sources = {sourceId}
       /\ main \in {"idle", "notify", "join"} /\ mic =>
            sinks = {sinkId} /\ sources = {sourceId}
       /\ main = "unloadSource" => sinks = {sinkId} /\ sources \subseteq {sourceId}
       /\ main = "unloadSink" => sinks = {sinkId} /\ sources = {}

\* Where in the order of the frames the queue and the writer are.
Order ==
  /\ \A i \in 1 .. Len(queue) : queue[i] = pushed - Len(queue) + i
  /\ Len(queue) <= pushed /\ written <= pushed - Len(queue)
  /\ writer = "write" => written < frame /\ frame <= pushed - Len(queue)

\* How a writer ends.
Endings ==
  /\ failed => writer \in {"none", "ended"}
  /\ failed /\ main # "gone" => mic
  /\ writer = "ended" /\ main \in {"idle", "notify", "join"} /\ mic /\ ~failed =>
       ~writerRunning /\ queue = <<>>

IInv == TypeOK /\ Threads /\ Server /\ Order /\ Endings

USE MicAssumption
USE DEF serverVars, deviceVars, writerVars, queueVars, Ids, Frames

-----------------------------------------------------------------------------
(* Types *)

LEMMA TypesInit == Init => TypeOK
<1> SUFFICES ASSUME Init PROVE TypeOK
  OBVIOUS
<1>1. queue \in Seq(Frames) /\ Len(queue) <= MaxQueued
  BY DEF Init
<1>2. swept \in BOOLEAN /\ mic \in BOOLEAN /\ missed \in BOOLEAN /\ writerRunning \in BOOLEAN
      /\ failed \in BOOLEAN
  BY DEF Init
<1> QED
  BY <1>1, <1>2 DEF Init, TypeOK

\* The flags are Booleans, and the rest has its range: two provers.
Switches ==
  /\ swept \in BOOLEAN /\ mic \in BOOLEAN /\ missed \in BOOLEAN
  /\ writerRunning \in BOOLEAN /\ failed \in BOOLEAN

LEMMA SwitchesStep == ASSUME TypeOK, [Next]_vars PROVE Switches'
<1>1. CASE Launch
  BY <1>1, Zenon DEF TypeOK, Switches, Launch
<1>2. CASE Crash
  BY <1>2, Zenon DEF TypeOK, Switches, Crash
<1>3. CASE Sweep
  BY <1>3, Zenon DEF TypeOK, Switches, Sweep, Stale
<1>4. CASE Push
  BY <1>4, Zenon DEF TypeOK, Switches, Push, OldestGone, Notified, Woken, Unlocked
<1>5. CASE Stop
  BY <1>5, Zenon DEF TypeOK, Switches, Stop
<1>6. CASE MainThread
  BY <1>6, Zenon DEF TypeOK, Switches, MainThread, LoadSink, LoadSource, Open,
    Notify, Woken, Join, Joined, UnloadSource, UnloadSink
<1>7. CASE Test
  BY <1>7, Zenon DEF TypeOK, Switches, Test, MayEnd
<1>8. CASE Doze \/ SpuriousWake
  BY <1>8, Zenon DEF TypeOK, Switches, Doze, SpuriousWake
<1>9. CASE Write
  BY <1>9, Zenon DEF TypeOK, Switches, Write
<1>10. CASE WriteFails
  BY <1>10, Zenon DEF TypeOK, Switches, WriteFails
<1>11. CASE UNCHANGED vars
  BY <1>11, Zenon DEF TypeOK, vars, Switches
<1> QED
  BY <1>1, <1>2, <1>3, <1>4, <1>5, <1>6, <1>7, <1>8, <1>9, <1>10, <1>11 DEF Next,
    WriterThread

Places ==
  /\ lives \in 0 .. MaxLives
  /\ main \in {"gone", "idle", "loadSink", "loadSource", "open",
               "notify", "join", "unloadSource", "unloadSink"}
  /\ sinkId \in {0} \cup Ids /\ sourceId \in {0} \cup Ids /\ stream \in {0} \cup Ids
  /\ sinks \subseteq Ids /\ sources \subseteq Ids
  /\ writer \in {"none", "test", "dozing", "asleep", "write", "ended"}
  /\ frame \in {0} \cup Frames
  /\ pushed \in 0 .. MaxPushed /\ written \in 0 .. MaxPushed

LEMMA PlacesStep == ASSUME TypeOK, [Next]_vars PROVE Places'
<1>1. CASE Launch
  BY <1>1 DEF TypeOK, Places, Launch
<1>2. CASE Crash
  BY <1>2 DEF TypeOK, Places, Crash
<1>3. CASE Sweep
  BY <1>3 DEF TypeOK, Places, Sweep, Stale
<1>4. CASE Push
  BY <1>4 DEF TypeOK, Places, Push, OldestGone, Notified, Woken, Unlocked
<1>5. CASE Stop
  BY <1>5 DEF TypeOK, Places, Stop
<1>6. CASE MainThread
  BY <1>6 DEF TypeOK, Places, MainThread, LoadSink, LoadSource, Open, Notify, Woken,
    Join, Joined, UnloadSource, UnloadSink
<1>7. CASE Test
  BY <1>7 DEF TypeOK, Places, Test, MayEnd
<1>8. CASE Doze \/ SpuriousWake
  BY <1>8 DEF TypeOK, Places, Doze, SpuriousWake
<1>9. CASE Write
  BY <1>9 DEF TypeOK, Places, Write
<1>10. CASE WriteFails
  BY <1>10 DEF TypeOK, Places, WriteFails
<1>11. CASE UNCHANGED vars
  BY <1>11 DEF TypeOK, vars, Places
<1> QED
  BY <1>1, <1>2, <1>3, <1>4, <1>5, <1>6, <1>7, <1>8, <1>9, <1>10, <1>11 DEF Next,
    WriterThread

\* The queue never holds more than maxQueuedFrames.
LEMMA QueueStep == ASSUME TypeOK, [Next]_vars
                   PROVE queue' \in Seq(Frames) /\ Len(queue') <= MaxQueued
<1>0. queue \in Seq(Frames) /\ Len(queue) <= MaxQueued /\ Len(queue) \in Nat
  BY DEF TypeOK
<1>1. CASE Push
  <2>1. OldestGone(queue) \in Seq(Frames) /\ Len(OldestGone(queue)) < MaxQueued
    <3>1. CASE Len(queue) >= MaxQueued
      <4>1. queue # <<>> /\ OldestGone(queue) = Tail(queue)
        BY <1>0, <3>1 DEF OldestGone
      <4> QED
        BY <1>0, <4>1
    <3>2. CASE ~(Len(queue) >= MaxQueued)
      BY <1>0, <3>2 DEF OldestGone
    <3> QED
      BY <3>1, <3>2
  <2>2. queue' = Append(OldestGone(queue), pushed') /\ pushed' \in Frames
    BY <1>1 DEF Push, TypeOK
  <2> QED
    BY <2>1, <2>2
<1>2. CASE queue # <<>> /\ queue' = Tail(queue)
  BY <1>0, <1>2
<1>3. CASE queue' = <<>>
  BY <1>3
<1>4. CASE UNCHANGED queue
  BY <1>0, <1>4
<1> QED
  BY <1>1, <1>2, <1>3, <1>4
  DEF Next, MainThread, WriterThread, Launch, Crash, Sweep, Stop, LoadSink, LoadSource,
    Open, Notify, Join, UnloadSource, UnloadSink, Test, Doze, SpuriousWake, Write,
    WriteFails, vars

\* Every step keeps the types.
LEMMA TypesStep == ASSUME TypeOK, [Next]_vars PROVE TypeOK'
BY SwitchesStep, PlacesStep, QueueStep DEF Switches, Places, TypeOK

\* What the invariant says beyond the types.
Facts == Threads /\ Server /\ Order /\ Endings

-----------------------------------------------------------------------------
(* The process *)

LEMMA LaunchStep == ASSUME IInv, Launch PROVE Facts'
<1>1. Threads' /\ Order' /\ Endings'
  BY DEF Launch, IInv, TypeOK, Threads, Order, Endings
<1>2. Server'
  BY DEF Launch, IInv, TypeOK, Threads, Server
<1> QED
  BY <1>1, <1>2 DEF Facts

LEMMA CrashStep == ASSUME IInv, Crash PROVE Facts'
BY DEF Crash, IInv, Facts, TypeOK, Threads, Server, Order, Endings

-----------------------------------------------------------------------------
(* start *)

\* A sweep that misses nothing leaves nothing.
LEMMA SweepServer == ASSUME TypeOK, Threads, Server, Sweep PROVE Server'
<1>1. PICK s \in SUBSET Stale(sinks), t \in SUBSET Stale(sources) :
        /\ sinks' = (sinks \ Stale(sinks)) \cup s
        /\ sources' = (sources \ Stale(sources)) \cup t
        /\ missed' = (missed \/ s \cup t # {})
  BY DEF Sweep
<1>2. ~missed' => sinks' = {} /\ sources' = {}
  <2>1. ~missed' => s = {} /\ t = {}
    BY <1>1
  <2>2. CASE swept
    BY <1>1, <2>1, <2>2 DEF Sweep, Server
  <2>3. CASE ~swept
    BY <1>1, <2>1, <2>3 DEF Stale
  <2> QED
    BY <2>2, <2>3
<1>3. swept' /\ main' = "loadSink" /\ UNCHANGED mic
  BY DEF Sweep
<1> QED
  BY <1>2, <1>3 DEF Sweep, Server

LEMMA SweepStep == ASSUME IInv, Sweep PROVE Facts'
<1>1. Threads' /\ Order' /\ Endings'
  BY DEF Sweep, Stale, IInv, TypeOK, Threads, Order, Endings
<1>2. Server'
  BY SweepServer DEF IInv
<1> QED
  BY <1>1, <1>2 DEF Facts

\* A sink that loads is the only one.
LEMMA LoadSinkServer == ASSUME TypeOK, Threads, Server, LoadSink PROVE Server'
<1>1. CASE main' = "loadSource"
  <2>1. PICK id \in Ids : sinkId' = id /\ sinks' = sinks \cup {id}
    BY <1>1 DEF LoadSink
  <2>2. swept /\ ~missed => sinks' = {sinkId'} /\ sources' = {}
    BY <2>1 DEF LoadSink, Server
  <2> QED
    BY <1>1, <2>2 DEF LoadSink, Server
<1>2. CASE main' = "idle"
  BY <1>2 DEF LoadSink, Server, Threads
<1> QED
  BY <1>1, <1>2 DEF LoadSink

LEMMA LoadSinkStep == ASSUME IInv, LoadSink PROVE Facts'
<1>1. Threads' /\ Order'
  BY DEF LoadSink, IInv, TypeOK, Threads, Order
<1>2. Server'
  BY LoadSinkServer DEF IInv
<1>3. Endings'
  BY DEF LoadSink, IInv, TypeOK, Threads, Endings
<1> QED
  BY <1>1, <1>2, <1>3 DEF Facts

\* A source that loads is the only one, over the only sink.
LEMMA LoadSourceServer == ASSUME TypeOK, Threads, Server, LoadSource PROVE Server'
<1>1. CASE main' = "open"
  <2>1. PICK id \in Ids : sourceId' = id /\ sources' = sources \cup {id}
    BY <1>1 DEF LoadSource
  <2>2. swept /\ ~missed => sinks' = {sinkId'} /\ sources' = {sourceId'}
    BY <2>1 DEF LoadSource, Server
  <2> QED
    BY <1>1, <2>2 DEF LoadSource, Server
<1>2. CASE main' = "unloadSource"
  BY <1>2 DEF LoadSource, Server, Threads
<1> QED
  BY <1>1, <1>2 DEF LoadSource

LEMMA LoadSourceStep == ASSUME IInv, LoadSource PROVE Facts'
<1>1. Threads' /\ Order' /\ Endings'
  BY DEF LoadSource, IInv, TypeOK, Threads, Order, Endings
<1>2. Server'
  BY LoadSourceServer DEF IInv
<1> QED
  BY <1>1, <1>2 DEF Facts

LEMMA OpenStep == ASSUME IInv, Open PROVE Facts'
<1>1. Threads' /\ Server' /\ Order'
  BY DEF Open, IInv, TypeOK, Threads, Server, Order
<1>2. Endings'
  BY DEF Open, IInv, TypeOK, Threads, Endings
<1> QED
  BY <1>1, <1>2 DEF Facts

-----------------------------------------------------------------------------
(* pushSamples and stop *)

\* A push may lose the oldest frame; what is left and the new one still end at pushed.
LEMMA PushOrder == ASSUME TypeOK, Threads, Order, Push PROVE Order'
<1> DEFINE q == OldestGone(queue)
<1>0. queue \in Seq(Frames) /\ Len(queue) \in Nat /\ pushed \in Nat
  BY DEF TypeOK
<1>1. /\ q \in Seq(Frames) /\ Len(q) \in Nat /\ Len(q) <= Len(queue)
      /\ \A i \in 1 .. Len(q) : q[i] = pushed - Len(q) + i
  <2>1. CASE Len(queue) >= MaxQueued
    <3>1. queue # <<>> /\ q = Tail(queue)
      BY <1>0, <2>1 DEF OldestGone
    <3>2. /\ q \in Seq(Frames) /\ Len(q) = Len(queue) - 1 /\ Len(queue) # 0
          /\ \A i \in 1 .. Len(q) : q[i] = queue[i + 1]
      BY <1>0, <3>1
    <3>3. \A j \in 1 .. Len(queue) : queue[j] = pushed - Len(queue) + j
      BY DEF Order
    <3> HIDE DEF q
    <3>4. Len(q) \in Nat /\ Len(q) <= Len(queue)
      BY <1>0, <3>2
    <3>5. ASSUME NEW i \in 1 .. Len(q) PROVE q[i] = pushed - Len(q) + i
      <4>1. i + 1 \in 1 .. Len(queue) /\ q[i] = queue[i + 1]
        BY <1>0, <3>2
      <4> QED
        BY <1>0, <3>2, <3>3, <4>1
    <3> QED
      BY <3>2, <3>4, <3>5
  <2>2. CASE ~(Len(queue) >= MaxQueued)
    BY <1>0, <2>2 DEF OldestGone, Order
  <2> QED
    BY <2>1, <2>2
<1>2. queue' = Append(q, pushed') /\ pushed' = pushed + 1 /\ pushed' \in Frames
  BY <1>0 DEF Push
<1> HIDE DEF q
<1>3. Len(queue') = Len(q) + 1 /\ queue'[Len(q) + 1] = pushed'
      /\ \A i \in 1 .. Len(q) : queue'[i] = q[i]
  BY <1>1, <1>2
<1>4. \A i \in 1 .. Len(queue') : queue'[i] = pushed' - Len(queue') + i
  BY <1>0, <1>1, <1>2, <1>3
<1>5. pushed' - Len(queue') >= pushed - Len(queue) /\ Len(queue') <= pushed'
  BY <1>1, <1>3 DEF Push, TypeOK, Order
<1>6. UNCHANGED <<written, frame>> /\ (writer' = "write" => writer = "write")
  BY DEF Push, Notified, Woken
<1>7. written' <= pushed' - Len(queue')
  BY <1>1, <1>3, <1>5, <1>6 DEF Order, TypeOK, Push
<1>8. writer' = "write" => written' < frame' /\ frame' <= pushed' - Len(queue')
  BY <1>1, <1>3, <1>5, <1>6 DEF Order, TypeOK, Push
<1> QED
  BY <1>4, <1>5, <1>7, <1>8 DEF Order

LEMMA PushStep == ASSUME IInv, Push PROVE Facts'
<1>1. Threads' /\ Server'
  BY DEF Push, OldestGone, Notified, Woken, Unlocked, IInv, TypeOK, Threads, Server
<1>2. Order'
  BY PushOrder DEF IInv
<1>3. Endings'
  BY DEF Push, OldestGone, Notified, Woken, Unlocked, IInv, TypeOK, Threads, Endings
<1> QED
  BY <1>1, <1>2, <1>3 DEF Facts

LEMMA StopStep == ASSUME IInv, Stop PROVE Facts'
BY DEF Stop, IInv, Facts, TypeOK, Threads, Server, Order, Endings

LEMMA NotifyStep == ASSUME IInv, Notify PROVE Facts'
BY DEF Notify, Woken, IInv, Facts, TypeOK, Threads, Server, Order, Endings

LEMMA JoinStep == ASSUME IInv, Join PROVE Facts'
<1>1. Threads' /\ Order' /\ Endings'
  BY DEF Join, Joined, IInv, TypeOK, Threads, Order, Endings
<1>2. Server'
  BY DEF Join, Joined, IInv, TypeOK, Threads, Server
<1> QED
  BY <1>1, <1>2 DEF Facts

\* The source unloaded is the only one there was.
LEMMA UnloadSourceServer == ASSUME TypeOK, Threads, Server, UnloadSource PROVE Server'
<1>1. ~missed' => ~missed /\ sources' = sources \ {sourceId}
  BY DEF UnloadSource
<1>2. swept /\ ~missed' => sinks' = {sinkId'} /\ sources' = {}
  BY <1>1 DEF UnloadSource, Server
<1> QED
  BY <1>2 DEF UnloadSource, Server

LEMMA UnloadSourceStep == ASSUME IInv, UnloadSource PROVE Facts'
<1>1. Threads' /\ Order' /\ Endings'
  BY DEF UnloadSource, IInv, TypeOK, Threads, Order, Endings
<1>2. Server'
  BY UnloadSourceServer DEF IInv
<1> QED
  BY <1>1, <1>2 DEF Facts

LEMMA UnloadSinkStep == ASSUME IInv, UnloadSink PROVE Facts'
BY DEF UnloadSink, IInv, Facts, TypeOK, Threads, Server, Order, Endings

-----------------------------------------------------------------------------
(* writerLoop *)

\* The frame the writer takes comes right before those that wait on.
LEMMA TestOrder == ASSUME TypeOK, Threads, Order, Test PROVE Order'
<1>1. CASE UNCHANGED queue
  BY <1>1 DEF Test, Order
<1>2. CASE queue # <<>> /\ frame' = Head(queue) /\ queue' = Tail(queue)
  <2>1. Len(queue') = Len(queue) - 1 /\ frame' = queue[1] /\ Len(queue) \in Nat \ {0}
        /\ \A i \in 1 .. Len(queue') : queue'[i] = queue[i + 1]
    BY <1>2 DEF TypeOK
  <2>2. UNCHANGED <<pushed, written>>
    BY DEF Test
  <2> QED
    BY <2>1, <2>2 DEF Order, TypeOK
<1> QED
  BY <1>1, <1>2 DEF Test

LEMMA TestStep == ASSUME IInv, Test PROVE Facts'
<1>1. Threads' /\ Server' /\ Endings'
  BY DEF Test, MayEnd, IInv, TypeOK, Threads, Server, Endings
<1>2. Order'
  BY TestOrder DEF IInv
<1> QED
  BY <1>1, <1>2 DEF Facts

LEMMA DozeStep == ASSUME IInv, Doze PROVE Facts'
BY DEF Doze, IInv, Facts, TypeOK, Threads, Server, Order, Endings

LEMMA SpuriousWakeStep == ASSUME IInv, SpuriousWake PROVE Facts'
BY DEF SpuriousWake, IInv, Facts, TypeOK, Threads, Server, Order, Endings

LEMMA WriteStep == ASSUME IInv, Write PROVE Facts'
BY DEF Write, IInv, Facts, TypeOK, Threads, Server, Order, Endings

LEMMA WriteFailsStep == ASSUME IInv, WriteFails PROVE Facts'
<1>1. Threads' /\ Server' /\ Order'
  BY DEF WriteFails, IInv, TypeOK, Threads, Server, Order
<1>2. Endings'
  BY DEF WriteFails, IInv, TypeOK, Threads, Endings
<1> QED
  BY <1>1, <1>2 DEF Facts

-----------------------------------------------------------------------------
(* The invariant *)

LEMMA InvInit == Init => IInv
<1> SUFFICES ASSUME Init PROVE IInv
  OBVIOUS
<1>1. TypeOK
  BY TypesInit
<1>2. Threads /\ Server /\ Order /\ Endings
  BY DEF Init, Threads, Server, Order, Endings
<1> QED
  BY <1>1, <1>2 DEF IInv

LEMMA InvStep == ASSUME IInv, [Next]_vars PROVE IInv'
<1>1. TypeOK'
  BY TypesStep DEF IInv
<1>2. Facts'
  <2>1. CASE Launch \/ Crash
    BY <2>1, LaunchStep, CrashStep
  <2>2. CASE Sweep \/ Push \/ Stop
    BY <2>2, SweepStep, PushStep, StopStep
  <2>3. CASE MainThread
    BY <2>3, LoadSinkStep, LoadSourceStep, OpenStep, NotifyStep, JoinStep,
       UnloadSourceStep, UnloadSinkStep DEF MainThread
  <2>4. CASE WriterThread \/ SpuriousWake \/ WriteFails
    BY <2>4, TestStep, DozeStep, WriteStep, SpuriousWakeStep, WriteFailsStep
    DEF WriterThread
  <2>5. CASE UNCHANGED vars
    BY <2>5 DEF IInv, Facts, vars, Threads, Server, Order, Endings
  <2> QED
    BY <2>1, <2>2, <2>3, <2>4, <2>5 DEF Next
<1> QED
  BY <1>1, <1>2 DEF IInv, Facts

\* What the main thread and the writer rely on, at each of their steps.
THEOREM MicInvariant == Spec => []IInv
<1>1. Init => IInv
  BY InvInit
<1>2. IInv /\ [Next]_vars => IInv'
  BY InvStep
<1> QED
  BY <1>1, <1>2, PTL DEF Spec

-----------------------------------------------------------------------------
(* What follows *)

\* Every variable keeps its type: queue_ never exceeds maxQueuedFrames.
THEOREM MicTypes == Spec => []TypeOK
<1>1. IInv => TypeOK
  BY DEF IInv
<1> QED
  BY <1>1, MicInvariant, PTL

\* The writer has its stream, and the stream its sink, until the writer has ended.
THEOREM MicStreamOutlivesWriter == Spec => []StreamOutlivesWriter
<1>1. IInv => StreamOutlivesWriter
  BY DEF IInv, TypeOK, Threads, Server, StreamOutlivesWriter
<1> QED
  BY <1>1, MicInvariant, PTL

\* However many lives left their modules behind, the one that swept has its own only.
THEOREM MicServerIsClean == Spec => []ServerIsClean
<1>1. IInv => ServerIsClean
  <2> SUFFICES ASSUME IInv, swept, ~missed
               PROVE /\ main # "gone" =>
                          sinks \subseteq {sinkId} /\ sources \subseteq {sourceId}
                     /\ main = "idle" =>
                          (mic <=> sinks # {}) /\ (mic <=> sources # {})
    BY DEF ServerIsClean
  <2>1. CASE main \in {"idle", "notify", "join"} /\ mic
    <3>1. sinks = {sinkId} /\ sources = {sourceId}
      BY <2>1 DEF IInv, Server
    <3> QED
      BY <2>1, <3>1
  <2>2. CASE main = "idle" /\ ~mic
    <3>1. sinks = {} /\ sources = {}
      BY <2>2 DEF IInv, Server
    <3> QED
      BY <2>2, <3>1
  <2>3. CASE main \in {"loadSink", "loadSource", "open", "unloadSource", "unloadSink"}
    <3>1. sinks \in {{}, {sinkId}} /\ sources \subseteq {sourceId}
      BY <2>3 DEF IInv, Server
    <3> QED
      BY <2>3, <3>1
  <2> QED
    BY <2>1, <2>2, <2>3 DEF IInv, TypeOK, Threads
<1> QED
  BY <1>1, MicInvariant, PTL

\* A full queue_ loses its oldest frame, nothing goes out of order, and the clear in
\* stop clears nothing that could still have been written.
THEOREM MicOnlyOverflowLoses == Spec => []OnlyOverflowLoses
<1>1. IInv => OnlyOverflowLoses
  BY DEF IInv, TypeOK, Threads, Order, Endings, Joined, OnlyOverflowLoses
<1> QED
  BY <1>1, MicInvariant, PTL

-----------------------------------------------------------------------------
(* The default microphone *)

\* On a machine with one door, names of the other one are nowhere.
OwnNames ==
  machine \in Doors =>
    \A x \in Doors :
      /\ chosen[x] \in Mics \cup {None, WireMic[machine]}
      /\ stored[x] \in Mics \cup {None}
      /\ x # machine => was[x] = None

\* Beside the types: the button to restore is there exactly while something is
\* remembered, and backends run only in a process that does.
DefaultInv ==
  /\ DefaultTypeOK
  /\ app = "on" => (offered <=> Some(stored))
  /\ app = "off" => running = {}
  /\ OwnNames

LEMMA Names ==
  /\ WireMic \in [Doors -> Devices] /\ Mics \subseteq Devices
  /\ WireMic["pulse"] = kPulseSourceName /\ WireMic["pipewire"] = kPipeWireNodeName
  /\ \A x \in Doors : WireMic[x] \notin Mics \cup {None}
  /\ WireMic["pulse"] # WireMic["pipewire"]
BY DefaultAssumption DEF WireMic, Doors, Devices

\* What the commands leave configured, device by device.
LEMMA ConfiguredTypes ==
  ASSUME DefaultInv, NEW doors \in SUBSET Doors, NEW name \in [Doors -> Devices \cup {None}]
  PROVE  /\ Configured(doors, name) \in [Doors -> Devices \cup {None}]
         /\ \A g \in Doors : \/ Configured(doors, name)[g] = chosen[g]
                             \/ \E x \in doors : Configured(doors, name)[g] = name[x]
BY DEF Configured, DefaultInv, DefaultTypeOK, Doors

\* What the programs of a graph get, and what the queries report, are devices; on
\* a machine with one door, of that door.
LEMMA ReportsDevices ==
  ASSUME DefaultInv, NEW x \in Doors, NEW c \in [Doors -> Devices \cup {None}]
  PROVE  /\ Reported(x, c) \subseteq Devices \cup {None}
         /\ machine \in Doors /\ c[x] \in Mics \cup {None, WireMic[machine]} =>
              Reported(x, c) \subseteq Mics \cup {None, WireMic[machine]}
<1>1. GraphOf(x) \in Doors /\ (machine \in Doors => GraphOf(x) = x)
  BY DEF GraphOf, Doors
<1>2. Sources(GraphOf(x)) \subseteq Devices
  BY Names DEF Sources, DefaultInv, DefaultTypeOK, DoorsHere
<1>3. machine \in Doors => published \subseteq {machine}
  BY DEF DefaultInv, DefaultTypeOK, DoorsHere
<1>4. machine \in Doors => Sources(GraphOf(x)) \subseteq Mics \cup {WireMic[machine]}
  BY <1>3 DEF Sources, DefaultInv, DefaultTypeOK
<1>5. plugged \subseteq Mics
  BY DEF DefaultInv, DefaultTypeOK
<1>6. /\ Effective(GraphOf(x), c) \subseteq Devices \cup {None}
      /\ machine \in Doors => Effective(GraphOf(x), c) \subseteq Mics \cup {None, WireMic[machine]}
  BY <1>2, <1>4, <1>5, Names DEF Effective
<1>7. c[x] \in Devices \cup {None}
  OBVIOUS
<1> QED BY <1>6, <1>7 DEF Reported

\* What a click on "make default" found, remembers and leaves alone.
LEMMA MakeDefaultEffect ==
  ASSUME DefaultInv, NEW changed, MakeDefault(changed)
  PROVE  /\ app = "on" /\ changed # {} /\ changed \subseteq servers
         /\ \E found \in [Doors -> Devices \cup {None}] :
              /\ stored' = IF Some(found) THEN found ELSE stored
              /\ was' = [x \in Doors |->
                           IF x \in changed /\ found[x] \in Mics THEN found[x] ELSE was[x]]
              /\ machine \in Doors =>
                   \A x \in Doors : /\ found[x] \in Mics \cup {None}
                                    /\ x # machine => found[x] = None
         /\ chosen' = Configured(changed, WireMic)
         /\ recorder' \in {recorder, kPulseSourceName}
         /\ offered' = Some(stored')
         /\ UNCHANGED <<machine, servers, plugged, published, app, running>>
<1> DEFINE on == {x \in Doors : Exists(x, WireMic[x])}
           midway == Configured(changed \ {"pipewire"}, WireMic)
<1>1. /\ app = "on" /\ changed # {} /\ changed \subseteq on
      /\ chosen' = Configured(changed, WireMic)
      /\ offered' = Some(stored')
      /\ UNCHANGED <<machine, servers, plugged, published, app, running>>
  BY DEF MakeDefault
<1>2. PICK p \in Reported("pulse", chosen), w \in Reported("pipewire", midway) :
        LET current == [x \in Doors |-> IF x = "pulse" THEN p ELSE w]
            found == [x \in Doors |->
                        IF x \in on /\ current[x] # WireMic[x] THEN current[x] ELSE None]
        IN  /\ stored' = Remembered(found)
            /\ was' = [x \in Doors |->
                         IF x \in changed /\ found[x] \in Mics THEN found[x] ELSE was[x]]
  BY DEF MakeDefault
<1> DEFINE current == [x \in Doors |-> IF x = "pulse" THEN p ELSE w]
           found == [x \in Doors |->
                       IF x \in on /\ current[x] # WireMic[x] THEN current[x] ELSE None]
<1>3. on \subseteq servers /\ on \subseteq Doors
  BY DEF Exists
<1>4. recorder' \in {recorder, kPulseSourceName}
  BY Names DEF MakeDefault, Move
<1>5. /\ chosen \in [Doors -> Devices \cup {None}]
      /\ midway \in [Doors -> Devices \cup {None}]
      /\ \A g \in Doors : midway[g] = chosen[g] \/ \E x \in changed : midway[g] = WireMic[x]
  <2>1. WireMic \in [Doors -> Devices \cup {None}] /\ changed \ {"pipewire"} \in SUBSET Doors
    BY Names, <1>1, <1>3
  <2> QED BY SMTT(20), <2>1, ConfiguredTypes DEF DefaultInv, DefaultTypeOK
<1>6. machine \in Doors =>
        \A g \in Doors : /\ chosen[g] \in Mics \cup {None, WireMic[machine]}
                         /\ midway[g] \in Mics \cup {None, WireMic[machine]}
  <2>1. machine \in Doors => changed \subseteq {machine}
    BY <1>1, <1>3 DEF DefaultInv, DefaultTypeOK, DoorsHere
  <2> HIDE DEF midway
  <2> QED BY <2>1, <1>5 DEF DefaultInv, OwnNames
<1> HIDE DEF midway
<1>7. /\ p \in Devices \cup {None} /\ w \in Devices \cup {None}
      /\ machine \in Doors => /\ p \in Mics \cup {None, WireMic[machine]}
                              /\ w \in Mics \cup {None, WireMic[machine]}
  <2>1. "pulse" \in Doors /\ "pipewire" \in Doors
    BY DEF Doors
  <2> QED BY <2>1, <1>5, <1>6, ReportsDevices
<1>8. found \in [Doors -> Devices \cup {None}]
  BY <1>7
<1>9. machine \in Doors =>
        \A x \in Doors : found[x] \in Mics \cup {None} /\ (x # machine => found[x] = None)
  <2>1. machine \in Doors => on \subseteq {machine}
    BY <1>3 DEF DefaultInv, DefaultTypeOK, DoorsHere
  <2> HIDE DEF on
  <2> QED BY <2>1, <1>7
<1>10. /\ stored' = IF Some(found) THEN found ELSE stored
       /\ was' = [x \in Doors |->
                    IF x \in changed /\ found[x] \in Mics THEN found[x] ELSE was[x]]
  BY <1>2 DEF Remembered
<1>11. changed \subseteq servers
  BY <1>1, <1>3
<1> HIDE DEF found, on
<1> QED BY <1>1, <1>4, <1>8, <1>9, <1>10, <1>11

\* What a click on "restore" puts back.
LEMMA RestoreEffect ==
  ASSUME DefaultInv, NEW restored, Restore(restored)
  PROVE  /\ restored # {} /\ restored \subseteq servers
         /\ app = "on" /\ stored' = Nothing /\ offered' = FALSE
         /\ was' = [x \in Doors |-> IF x \in restored THEN None ELSE was[x]]
         /\ chosen' = Configured(restored, stored)
         /\ recorder' \in Devices \cup {None}
         /\ UNCHANGED <<machine, servers, plugged, published, app, running>>
<1>1. /\ restored # {} /\ restored \subseteq servers
      /\ app = "on" /\ stored' = Nothing /\ offered' = FALSE
      /\ was' = [x \in Doors |-> IF x \in restored THEN None ELSE was[x]]
      /\ chosen' = Configured(restored, stored)
      /\ UNCHANGED <<machine, servers, plugged, published, app, running>>
  BY DEF Restore, Exists
<1>2. recorder' \in {recorder, stored["pulse"]}
  BY DEF Restore, Move
<1> QED BY <1>1, <1>2 DEF DefaultInv, DefaultTypeOK, Doors

LEMMA NothingTypes ==
  Nothing \in [Doors -> Mics \cup {None}] /\ (\A x \in Doors : Nothing[x] = None) /\ ~Some(Nothing)
BY DEF Nothing, Some

LEMMA DefaultInitInv == DefaultInit => DefaultInv
<1> SUFFICES ASSUME DefaultInit PROVE DefaultInv
  OBVIOUS
<1>1. chosen \in [Doors -> Devices \cup {None}] /\ stored \in [Doors -> Devices \cup {None}]
  BY NothingTypes DEF DefaultInit, Devices
<1>2. OwnNames
  BY NothingTypes DEF DefaultInit, OwnNames
<1> QED BY <1>1, <1>2, NothingTypes DEF DefaultInit, DefaultInv, DefaultTypeOK

\* The microphone is published where a server runs.
LEMMA PublishTypes ==
  ASSUME DefaultInv, NEW started, NEW cleared, Publish(started, cleared)
  PROVE  /\ published' \subseteq servers /\ running' \subseteq Doors
         /\ recorder' \in Devices \cup {None}
<1>1. Kinds \subseteq servers /\ servers \subseteq Doors
  BY DEF Kinds, DefaultInv, DefaultTypeOK, DoorsHere, Doors
<1> QED BY <1>1 DEF Publish, Remade, DefaultInv, DefaultTypeOK

LEMMA DefaultNextInv == ASSUME DefaultInv, [DefaultNext]_defaultVars PROVE DefaultInv'
<1> USE DEF DefaultInv, DefaultTypeOK
<1>a. UNCHANGED <<machine, chosen, stored, was>> => OwnNames'
  BY DEF OwnNames
<1>1. ASSUME NEW started, NEW cleared,
             Start(started, cleared) \/ EnsureVirtualMic(started, cleared)
      PROVE  DefaultInv'
  <2>1. /\ published' \subseteq servers /\ running' \subseteq Doors
        /\ recorder' \in Devices \cup {None}
    BY <1>1, PublishTypes DEF Start, EnsureVirtualMic
  <2>2. Some(stored)' <=> Some(stored)
    BY <1>1 DEF Start, EnsureVirtualMic, Some
  <2>3. UNCHANGED <<machine, servers, plugged, chosen, stored, was>> /\ app' = "on"
    BY <1>1 DEF Start, EnsureVirtualMic
  <2>4. offered' \in BOOLEAN /\ (offered' <=> Some(stored))
    <3>1. CASE Start(started, cleared)
      <4>1. offered' = Some(stored)
        BY <3>1 DEF Start
      <4> QED BY <4>1 DEF Some
    <3>2. CASE EnsureVirtualMic(started, cleared)
      <4>1. app = "on" /\ offered' = offered
        BY <3>2 DEF EnsureVirtualMic
      <4> QED BY <4>1
    <3> QED BY <1>1, <3>1, <3>2
  <2>5. DoorsHere' = DoorsHere
    BY <2>3 DEF DoorsHere
  <2> QED BY <1>a, <2>1, <2>2, <2>3, <2>4, <2>5
<1>2. CASE Quit
  BY <1>a, <1>2 DEF Quit, Remade, Some, DoorsHere
<1>3. CASE AppDies
  BY <1>a, <1>3 DEF AppDies, Remade, Some, DoorsHere
<1>4. ASSUME NEW changed, MakeDefault(changed) PROVE DefaultInv'
  <2>1. PICK found \in [Doors -> Devices \cup {None}] :
          /\ stored' = IF Some(found) THEN found ELSE stored
          /\ was' = [x \in Doors |->
                       IF x \in changed /\ found[x] \in Mics THEN found[x] ELSE was[x]]
          /\ machine \in Doors =>
               \A x \in Doors : /\ found[x] \in Mics \cup {None}
                                /\ x # machine => found[x] = None
    BY <1>4, MakeDefaultEffect
  <2>2. /\ stored' \in [Doors -> Devices \cup {None}]
        /\ was' \in [Doors -> Mics \cup {None}]
    BY <2>1
  <2>3. UNCHANGED <<machine, servers, plugged, published, app, running>> /\ app = "on"
        /\ changed \subseteq servers /\ chosen' = Configured(changed, WireMic)
    BY <1>4, MakeDefaultEffect
  <2>4. changed \in SUBSET Doors /\ (machine \in Doors => changed \subseteq {machine})
    BY <2>3 DEF DoorsHere, Doors
  <2>5. /\ chosen' \in [Doors -> Devices \cup {None}]
        /\ \A g \in Doors : chosen'[g] = chosen[g] \/ \E x \in changed : chosen'[g] = WireMic[x]
    <3>1. WireMic \in [Doors -> Devices \cup {None}]
      BY Names
    <3> QED BY <2>3, <2>4, <3>1, ConfiguredTypes
  <2>6. recorder' \in Devices \cup {None}
    BY <1>4, MakeDefaultEffect DEF Devices
  <2>7. (offered <=> Some(stored))' /\ offered' \in BOOLEAN
    BY <1>4, MakeDefaultEffect DEF Some
  <2>8. OwnNames'
    <3> SUFFICES ASSUME machine \in Doors, NEW x \in Doors
                 PROVE  /\ chosen'[x] \in Mics \cup {None, WireMic[machine]}
                        /\ stored'[x] \in Mics \cup {None}
                        /\ x # machine => was'[x] = None
      BY <2>3 DEF OwnNames
    <3>1. chosen'[x] \in Mics \cup {None, WireMic[machine]}
      BY <2>4, <2>5 DEF OwnNames
    <3>2. stored'[x] \in Mics \cup {None}
      BY <2>1 DEF OwnNames
    <3>3. x # machine => was'[x] = None
      BY <2>1, <2>4 DEF OwnNames
    <3> QED BY <3>1, <3>2, <3>3
  <2>9. DoorsHere' = DoorsHere
    BY <2>3 DEF DoorsHere
  <2> QED BY <2>2, <2>3, <2>5, <2>6, <2>7, <2>8, <2>9
<1>5. ASSUME NEW restored, Restore(restored) PROVE DefaultInv'
  <2>1. /\ restored # {} /\ restored \subseteq servers
        /\ app = "on" /\ stored' = Nothing /\ offered' = FALSE
        /\ was' = [x \in Doors |-> IF x \in restored THEN None ELSE was[x]]
        /\ chosen' = Configured(restored, stored)
        /\ recorder' \in Devices \cup {None}
        /\ UNCHANGED <<machine, servers, plugged, published, app, running>>
    BY <1>5, RestoreEffect
  <2>2. restored \in SUBSET Doors
    BY <2>1 DEF DoorsHere, Doors
  <2>3. /\ chosen' \in [Doors -> Devices \cup {None}]
        /\ \A g \in Doors : chosen'[g] = chosen[g] \/ \E x \in restored : chosen'[g] = stored[x]
    <3>1. stored \in [Doors -> Devices \cup {None}] /\ DefaultInv
      OBVIOUS
    <3>2. /\ Configured(restored, stored) \in [Doors -> Devices \cup {None}]
          /\ \A g \in Doors : \/ Configured(restored, stored)[g] = chosen[g]
                              \/ \E x \in restored : Configured(restored, stored)[g] = stored[x]
      BY <2>2, <3>1, ConfiguredTypes
    <3> QED BY <2>1, <3>2
  <2>4. ~Some(stored') /\ stored' \in [Doors -> Devices \cup {None}]
        /\ \A x \in Doors : stored'[x] = None
    BY <2>1, NothingTypes
  <2>5. was' \in [Doors -> Mics \cup {None}]
    BY <2>1
  <2>6. OwnNames'
    BY <2>1, <2>2, <2>3, <2>4 DEF OwnNames
  <2>7. DoorsHere' = DoorsHere
    BY <2>1 DEF DoorsHere
  <2>8. Some(stored)' = Some(stored')
    BY DEF Some
  <2> QED BY <2>1, <2>3, <2>4, <2>5, <2>6, <2>7, <2>8
<1>6. ASSUME NEW x \in Doors, NEW d \in Devices, Choose(x, d) PROVE DefaultInv'
  <2>1. /\ UNCHANGED <<machine, servers, plugged, published, recorder, app, running, stored, offered>>
        /\ chosen' = [chosen EXCEPT ![GraphOf(x)] = d]
        /\ was' = [y \in Doors |-> IF d \in Mics /\ GraphOf(y) = GraphOf(x) THEN None ELSE was[y]]
        /\ d \in Sources(GraphOf(x)) /\ x \in servers
    BY <1>6 DEF Choose, appVars
  <2>2. GraphOf(x) \in Doors
    BY DEF GraphOf, Doors
  <2>3. chosen' \in [Doors -> Devices \cup {None}] /\ was' \in [Doors -> Mics \cup {None}]
    BY <2>1, <2>2
  <2>4. machine \in Doors => published \subseteq {machine}
    BY DEF DoorsHere
  <2>5. machine \in Doors => d \in Mics \cup {WireMic[machine]}
    BY <2>1, <2>4 DEF Sources
  <2>6. \A g \in Doors : chosen'[g] \in {chosen[g], d}
    BY <2>1, <2>2
  <2>7. OwnNames'
    BY <2>1, <2>5, <2>6 DEF OwnNames
  <2> QED BY <2>1, <2>3, <2>7 DEF DoorsHere, Some
<1>7. ASSUME NEW x \in Doors, ServerStarts(x) \/ ServerStops(x) PROVE DefaultInv'
  <2>1. UNCHANGED <<machine, plugged, chosen, app, running, stored, offered, was>>
    BY <1>7 DEF ServerStarts, ServerStops, appVars
  <2>2. servers' \subseteq DoorsHere /\ published' \subseteq servers'
    BY <1>7 DEF ServerStarts, ServerStops
  <2>3. recorder' \in Devices \cup {None}
    BY <1>7 DEF ServerStarts, ServerStops
  <2>4. DoorsHere' = DoorsHere
    BY <2>1 DEF DoorsHere
  <2> QED BY <1>a, <2>1, <2>2, <2>3, <2>4 DEF Some
<1>8. ASSUME NEW m \in Mics, Plug(m) \/ Unplug(m) PROVE DefaultInv'
  BY <1>a, <1>8 DEF Plug, Unplug, appVars, Some, Devices, DoorsHere
<1>9. ASSUME NEW d \in Devices \cup {None}, Record(d) PROVE DefaultInv'
  BY <1>a, <1>9 DEF Record, appVars, Some, DoorsHere
<1>10. CASE UNCHANGED defaultVars
  BY <1>a, <1>10 DEF defaultVars, graphVars, appVars, Some, DoorsHere
<1> QED BY <1>1, <1>2, <1>3, <1>4, <1>5, <1>6, <1>7, <1>8, <1>9, <1>10
        DEF DefaultNext, Application, Buttons, Machine

\* The types of the default microphone's module; the button to restore is there
\* exactly while the settings file remembers a default.
THEOREM DefaultInvariant == DefaultSpec => []DefaultInv
<1> QED BY DefaultInitInv, DefaultNextInv, PTL DEF DefaultSpec

\* A program that records from the microphone on PulseAudio keeps it, on every kind
\* of machine, because a second session of the same run publishes nothing anew.
THEOREM RecorderAlwaysKeepsMic == DefaultSpec => RecorderKeepsMic
<1>1. DefaultInv /\ [DefaultNext]_defaultVars =>
        [recorder = kPulseSourceName /\ "pulse" \in running /\ recorder' # kPulseSourceName =>
           \/ Quit
           \/ "pulse" \notin servers'
           \/ \E doors \in SUBSET Doors : Restore(doors)
           \/ \E d \in Devices \cup {None} : Record(d)]_defaultVars
  <2> SUFFICES ASSUME DefaultInv, DefaultNext, recorder = kPulseSourceName, "pulse" \in running,
                      recorder' # kPulseSourceName
               PROVE  \/ Quit
                      \/ "pulse" \notin servers'
                      \/ \E doors \in SUBSET Doors : Restore(doors)
                      \/ \E d \in Devices \cup {None} : Record(d)
    OBVIOUS
  <2>1. ASSUME NEW started, NEW cleared,
               Start(started, cleared) \/ EnsureVirtualMic(started, cleared)
        PROVE  FALSE
    BY <2>1 DEF Start, EnsureVirtualMic, DefaultInv
  <2>2. ASSUME NEW changed, MakeDefault(changed) PROVE FALSE
    BY <2>2, MakeDefaultEffect
  <2>3. ASSUME NEW m \in Mics, Plug(m) \/ Unplug(m) PROVE FALSE
    BY <2>3, DefaultAssumption DEF Plug, Unplug
  <2>4. ASSUME NEW x \in Doors, NEW d \in Devices, Choose(x, d) PROVE FALSE
    BY <2>4 DEF Choose
  <2>5. ASSUME NEW x \in Doors, ServerStarts(x) \/ ServerStops(x) PROVE "pulse" \notin servers'
    BY <2>5 DEF ServerStarts, ServerStops
  <2>6. ~AppDies
    BY Names, DefaultAssumption DEF AppDies, Remade
  <2> QED BY <2>1, <2>2, <2>3, <2>4, <2>5, <2>6 DEF DefaultNext, Application, Buttons, Machine
<1> QED BY <1>1, DefaultInvariant, PTL DEF DefaultSpec, RecorderKeepsMic

-----------------------------------------------------------------------------
(* One button away, on a machine with one door *)

\* With one door a click remembers what it took, or finds nothing to take.
LEMMA OneButtonStep ==
  ASSUME DefaultInv, OneButtonAway, [DefaultNext]_defaultVars
  PROVE  OneButtonAway'
<1> USE DEF DefaultInv, DefaultTypeOK
<1>a. UNCHANGED machine
  BY DEF DefaultNext, Application, Buttons, Machine, Start, EnsureVirtualMic, Quit, AppDies,
         MakeDefault, Restore, Choose, ServerStarts, ServerStops, Plug, Unplug, Record,
         defaultVars, graphVars
<1> SUFFICES ASSUME machine \in Doors
             PROVE  (/\ \A x \in Doors : was[x] # None => stored[x] = was[x]
                     /\ app = "on" /\ Some(was) => offered)'
  BY <1>a DEF OneButtonAway
<1>0. DefaultInv'
  BY DefaultNextInv
<1>b. \A x \in Doors : was[x] # None => stored[x] = was[x]
  BY DEF OneButtonAway
<1> SUFFICES \A x \in Doors : was'[x] # None => stored'[x] = was'[x]
  BY <1>0 DEF Some
<1> SUFFICES ASSUME NEW x \in Doors, was'[x] # None PROVE stored'[x] = was'[x]
  OBVIOUS
<1>c. x = machine
  BY <1>0, <1>a DEF OwnNames
<1>d. servers \subseteq {x}
  BY <1>c DEF DoorsHere
<1>1. CASE UNCHANGED <<stored, was>>
  BY <1>1, <1>b
<1>2. ASSUME NEW changed, MakeDefault(changed) PROVE stored'[x] = was'[x]
  <2>1. PICK found \in [Doors -> Devices \cup {None}] :
          /\ stored' = IF Some(found) THEN found ELSE stored
          /\ was' = [y \in Doors |->
                       IF y \in changed /\ found[y] \in Mics THEN found[y] ELSE was[y]]
          /\ machine \in Doors =>
               \A y \in Doors : /\ found[y] \in Mics \cup {None}
                                /\ y # machine => found[y] = None
    BY <1>2, MakeDefaultEffect
  <2>2. x \in changed
    BY <1>2, <1>d, MakeDefaultEffect
  <2>3. CASE found[x] # None
    <3>1. Some(found) /\ found[x] \in Mics
      BY <2>1, <2>3 DEF Some
    <3> QED BY <2>1, <2>2, <3>1
  <2>4. CASE found[x] = None
    <3>1. ~Some(found) /\ found[x] \notin Mics
      BY <1>c, <2>1, <2>4, DefaultAssumption DEF Some
    <3> QED BY <1>b, <2>1, <3>1
  <2> QED BY <2>3, <2>4
<1>3. ASSUME NEW restored, Restore(restored) PROVE FALSE
  <2>1. /\ restored # {} /\ restored \subseteq servers
        /\ was' = [y \in Doors |-> IF y \in restored THEN None ELSE was[y]]
    BY <1>3, RestoreEffect
  <2>2. x \in restored
    BY <1>d, <2>1
  <2> QED BY <2>1, <2>2
<1>4. ASSUME NEW y \in Doors, NEW d \in Devices, Choose(y, d) PROVE stored'[x] = was'[x]
  BY <1>4, <1>b DEF Choose, appVars
<1>5. ASSUME ~ \E doors \in SUBSET Doors : MakeDefault(doors) \/ Restore(doors),
             ~ \E y \in Doors, d \in Devices : Choose(y, d)
      PROVE  UNCHANGED <<stored, was>>
  BY <1>5 DEF DefaultNext, Application, Buttons, Machine, Start, EnsureVirtualMic, Quit, AppDies,
              ServerStarts, ServerStops, Plug, Unplug, Record, defaultVars, appVars
<1> QED BY <1>1, <1>2, <1>3, <1>4, <1>5

\* On a machine with one door the user is one button away from the microphone
\* the button took, whatever is plugged, restarted or crashes in between.
THEOREM AlwaysOneButtonAway == DefaultSpec => []OneButtonAway
<1>1. DefaultInit => OneButtonAway
  BY NothingTypes DEF DefaultInit, OneButtonAway
<1> QED BY <1>1, OneButtonStep, DefaultInvariant, PTL DEF DefaultSpec

=============================================================================
