------------------------ MODULE PulseAudioVirtualMic ------------------------
(***************************************************************************)
(* The virtual microphone on PulseAudio, over several lives of the         *)
(* desktop's process: the modules it loads into the sound server, its      *)
(* playback stream, and the thread that writes to that stream.             *)
(*                                                                         *)
(* The main thread publishes the microphone (ensureVirtualMic), hands it   *)
(* frames and takes it down when the program quits.  A crash may end a     *)
(* life anywhere and leaves the modules behind.  The steps of the writer   *)
(* are what a condition variable lets the main thread see.                 *)
(*                                                                         *)
(* Frames and modules are numbered.  The server itself stays up.           *)
(***************************************************************************)
EXTENDS Integers, Sequences

CONSTANTS MaxQueued,    \* maxQueuedFrames of pushSamples
          MaxPushed,    \* bound: frames handed over, in all lives
          MaxModules,   \* bound: the numbers the server has for modules
          MaxLives      \* bound: times the program is started

ASSUME MicAssumption ==
  /\ MaxQueued \in Nat \ {0}
  /\ MaxPushed \in Nat /\ MaxModules \in Nat /\ MaxLives \in Nat

VARIABLES
  lives, main,          \* the process: the life it is in, where its main thread is
  swept,                \* sweptOnce
  mic,                  \* running_
  sinkId, sourceId,     \* nullSinkModuleId_, remapSourceModuleId_; 0 for -1
  stream,               \* the sink playbackStream_ feeds, 0 when null
  sinks, sources,       \* the server's modules of our names
  missed,               \* whether pactl failed to list or unload one in this life
  writerRunning, queue, \* writerRunning_, queue_
  writer, frame,        \* where writerLoop is, the frame it took
  failed,               \* whether pa_simple_write failed in this life
  pushed, written       \* the last frame handed over, and written

serverVars == <<sinks, sources, missed>>
deviceVars == <<swept, mic, sinkId, sourceId, stream>>
writerVars == <<writer, frame, failed, written>>
queueVars  == <<queue, pushed>>
vars == <<lives, main, deviceVars, serverVars, writerRunning, queueVars, writerVars>>

Ids == 1 .. MaxModules

Init ==
  /\ lives = 0 /\ main = "gone"
  /\ swept = FALSE /\ mic = FALSE /\ sinkId = 0 /\ sourceId = 0 /\ stream = 0
  /\ sinks = {} /\ sources = {} /\ missed = FALSE
  /\ writerRunning = FALSE /\ queue = <<>> /\ pushed = 0
  /\ writer = "none" /\ frame = 0 /\ failed = FALSE /\ written = 0

-----------------------------------------------------------------------------
(* The process *)

Launch ==
  /\ main = "gone" /\ lives < MaxLives
  /\ lives' = lives + 1 /\ main' = "idle" /\ swept' = FALSE
  /\ writer' = "none" /\ failed' = FALSE /\ missed' = FALSE
  /\ UNCHANGED <<mic, sinkId, sourceId, stream, sinks, sources, writerRunning, queueVars,
                 frame, written>>

\* The server keeps the modules and drops the stream.
Crash ==
  /\ main # "gone"
  /\ main' = "gone"
  /\ mic' = FALSE /\ sinkId' = 0 /\ sourceId' = 0 /\ stream' = 0
  /\ writerRunning' = FALSE /\ queue' = <<>>
  /\ writer' = "none" /\ frame' = 0
  /\ UNCHANGED <<lives, swept, serverVars, pushed, failed, written>>

-----------------------------------------------------------------------------
(* start, from ensureVirtualMic: does nothing while the microphone runs *)

\* Mutant: a later life leaves what an earlier one left.
NothingStale(ids) == {}

\* unloadStaleModules, which matches by name.
Stale(ids) == IF swept THEN {} ELSE ids

\* What pactl fails to list or unload stays.

Sweep ==
  /\ main = "idle" /\ ~mic
  /\ \E s \in SUBSET Stale(sinks), t \in SUBSET Stale(sources) :
       /\ sinks' = (sinks \ Stale(sinks)) \cup s
       /\ sources' = (sources \ Stale(sources)) \cup t
       /\ missed' = (missed \/ s \cup t # {})
  /\ swept' = TRUE
  /\ main' = "loadSink"
  /\ UNCHANGED <<lives, mic, sinkId, sourceId, stream, writerRunning, queueVars, writerVars>>

LoadSink ==
  /\ main = "loadSink"
  /\ \/ /\ \E id \in Ids \ (sinks \cup sources) : sinkId' = id /\ sinks' = sinks \cup {id}
        /\ main' = "loadSource"
     \/ UNCHANGED <<sinkId, sinks>> /\ main' = "idle"
  /\ UNCHANGED <<lives, swept, mic, sourceId, stream, sources, missed, writerRunning,
                 queueVars, writerVars>>

LoadSource ==
  /\ main = "loadSource"
  /\ \/ /\ \E id \in Ids \ (sinks \cup sources) :
              sourceId' = id /\ sources' = sources \cup {id}
        /\ main' = "open"
     \/ UNCHANGED <<sourceId, sources>> /\ main' = "unloadSource"
  /\ UNCHANGED <<lives, swept, mic, sinkId, stream, sinks, missed, writerRunning,
                 queueVars, writerVars>>

\* pa_simple_new, which finds the sink by its name; with a stream the writer starts.
Open ==
  /\ main = "open"
  /\ \/ /\ stream' \in sinks /\ mic' = TRUE /\ writerRunning' = TRUE
        /\ writer' = "test" /\ main' = "idle"
     \/ UNCHANGED <<stream, mic, writerRunning, writer>> /\ main' = "unloadSource"
  /\ UNCHANGED <<lives, swept, sinkId, sourceId, serverVars, queueVars, frame, failed,
                 written>>

-----------------------------------------------------------------------------
(* pushSamples, and stop when the program quits *)

\* The writer holds queueMutex_ while it decides to sleep.
Unlocked == writer # "dozing"

\* notify_one and notify_all: there is one thread to wake.
Woken == IF writer = "asleep" THEN "test" ELSE writer

\* Mutant: a full queue loses its newest frame.
NewestGone(q) == IF Len(q) >= MaxQueued THEN SubSeq(q, 1, Len(q) - 1) ELSE q

OldestGone(q) == IF Len(q) >= MaxQueued THEN Tail(q) ELSE q

\* Mutant: the writer is woken for a full queue only.
WokenWhenFull == IF Len(queue) + 1 >= MaxQueued THEN Woken ELSE writer

Notified == Woken

Push ==
  /\ main = "idle" /\ mic /\ pushed < MaxPushed /\ Unlocked
  /\ pushed' = pushed + 1
  /\ queue' = Append(OldestGone(queue), pushed')
  /\ writer' = Notified
  /\ UNCHANGED <<lives, main, deviceVars, serverVars, writerRunning, frame, failed, written>>

\* writerRunning_ is cleared without queueMutex_.
Stop ==
  /\ main = "idle" /\ mic
  /\ writerRunning' = FALSE
  /\ main' = "notify"
  /\ UNCHANGED <<lives, deviceVars, serverVars, queueVars, writerVars>>

Notify ==
  /\ main = "notify"
  /\ writer' = Woken
  /\ main' = "join"
  /\ UNCHANGED <<lives, deviceVars, serverVars, writerRunning, queueVars, frame, failed,
                 written>>

\* Mutant: stop does not wait for the writer.
NoWait == TRUE

Joined == writer = "ended"

\* join, clear, pa_simple_free.
Join ==
  /\ main = "join" /\ Joined
  /\ queue' = <<>> /\ stream' = 0
  /\ main' = "unloadSource"
  /\ UNCHANGED <<lives, swept, mic, sinkId, sourceId, serverVars, writerRunning, pushed,
                 writerVars>>

UnloadSource ==
  /\ main = "unloadSource"
  /\ \/ sources' = sources \ {sourceId} /\ UNCHANGED missed
     \/ sourceId # 0 /\ missed' = TRUE /\ UNCHANGED sources
  /\ sourceId' = 0
  /\ main' = "unloadSink"
  /\ UNCHANGED <<lives, swept, mic, sinkId, stream, sinks, writerRunning, queueVars, writerVars>>

\* Back in ensureVirtualMic without a microphone, or the program ends.
UnloadSink ==
  /\ main = "unloadSink"
  /\ \/ sinks' = sinks \ {sinkId} /\ UNCHANGED missed
     \/ missed' = TRUE /\ UNCHANGED sinks
  /\ sinkId' = 0 /\ mic' = FALSE
  /\ main' = IF mic THEN "gone" ELSE "idle"
  /\ UNCHANGED <<lives, swept, sourceId, stream, sources, writerRunning, queueVars, writerVars>>

-----------------------------------------------------------------------------
(* writerLoop *)

MayEnd == ~writerRunning /\ queue = <<>>

\* The predicate of the wait, and what follows it when it holds.
Test ==
  /\ writer = "test"
  /\ \/ /\ MayEnd
        /\ writer' = "ended" /\ UNCHANGED <<queue, frame>>
     \/ /\ queue # <<>> /\ ~MayEnd
        /\ frame' = Head(queue) /\ queue' = Tail(queue)
        /\ writer' = "write"
     \/ /\ queue = <<>> /\ writerRunning
        /\ writer' = "dozing" /\ UNCHANGED <<queue, frame>>
  /\ UNCHANGED <<lives, main, deviceVars, serverVars, writerRunning, pushed, failed, written>>

\* The wait proper: asleep and unlocked at once.
Doze ==
  /\ writer = "dozing"
  /\ writer' = "asleep"
  /\ UNCHANGED <<lives, main, deviceVars, serverVars, writerRunning, queueVars, frame,
                 failed, written>>

SpuriousWake ==
  /\ writer = "asleep"
  /\ writer' = "test"
  /\ UNCHANGED <<lives, main, deviceVars, serverVars, writerRunning, queueVars, frame,
                 failed, written>>

\* pa_simple_write blocks while nothing drains the sink.
Write ==
  /\ writer = "write" /\ stream \in sinks
  /\ written' = frame /\ frame' = 0
  /\ writer' = "test"
  /\ UNCHANGED <<lives, main, deviceVars, serverVars, writerRunning, queueVars, failed>>

WriteFails ==
  /\ writer = "write"
  /\ failed' = TRUE /\ frame' = 0
  /\ writer' = "ended"
  /\ UNCHANGED <<lives, main, deviceVars, serverVars, writerRunning, queueVars, written>>

-----------------------------------------------------------------------------

MainThread ==
  \/ LoadSink \/ LoadSource \/ Open
  \/ Notify \/ Join \/ UnloadSource \/ UnloadSink

WriterThread == Test \/ Doze \/ Write

Next ==
  \/ Launch \/ Crash \/ Sweep \/ Push \/ Stop
  \/ MainThread \/ WriterThread \/ SpuriousWake \/ WriteFails

Spec == Init /\ [][Next]_vars

\* Both threads are scheduled and the server plays.  The program need not quit.
FairSpec == Spec /\ WF_vars(MainThread) /\ WF_vars(WriterThread)

-----------------------------------------------------------------------------

Frames == 1 .. MaxPushed

\* Every variable keeps its type, and queue_ its limit.
TypeOK ==
  /\ lives \in 0 .. MaxLives
  /\ main \in {"gone", "idle", "loadSink", "loadSource", "open",
               "notify", "join", "unloadSource", "unloadSink"}
  /\ swept \in BOOLEAN /\ mic \in BOOLEAN
  /\ sinkId \in {0} \cup Ids /\ sourceId \in {0} \cup Ids /\ stream \in {0} \cup Ids
  /\ sinks \subseteq Ids /\ sources \subseteq Ids /\ missed \in BOOLEAN
  /\ writerRunning \in BOOLEAN
  /\ queue \in Seq(Frames) /\ Len(queue) <= MaxQueued
  /\ writer \in {"none", "test", "dozing", "asleep", "write", "ended"}
  /\ frame \in {0} \cup Frames /\ failed \in BOOLEAN
  /\ pushed \in 0 .. MaxPushed /\ written \in 0 .. MaxPushed

\* The writer never writes to a stream that was freed, nor to one whose sink was
\* unloaded, which would never drain.
StreamOutlivesWriter == writer = "write" => stream # 0 /\ stream \in sinks

\* Once this life has swept, and unless pactl has failed in it, the server has our
\* modules and no others of the name, whatever earlier lives left: between calls
\* those of the microphone, or none.
ServerIsClean ==
  /\ swept /\ ~missed /\ main # "gone" =>
       sinks \subseteq {sinkId} /\ sources \subseteq {sourceId}
  /\ swept /\ ~missed /\ main = "idle" =>
       (mic <=> sinks # {}) /\ (mic <=> sources # {})

\* Audio is lost by overflow, the oldest first, or with the stream, and no other way:
\* what waits is the most recent, in order and without a gap; what is being written
\* came before it, after all that was written so far; and unless the stream failed,
\* stop finds nothing left to clear.
OnlyOverflowLoses ==
  /\ \A i \in 1 .. Len(queue) : queue[i] = pushed - Len(queue) + i
  /\ writer = "write" => written < frame /\ frame <= pushed - Len(queue)
  /\ main = "join" /\ Joined /\ ~failed => queue = <<>>

\* A frame that waits is written, overtaken by newer ones, or lost with the stream.
FramesMove ==
  \A f \in Frames : (\E i \in 1 .. Len(queue) : queue[i] = f)
                      ~> failed \/ ~ \E i \in 1 .. Len(queue) : queue[i] = f

-----------------------------------------------------------------------------
(* What a test says, and the code does not do *)

\* virtual_mic_test.cpp: `mic->stop(); WIREMIC_CHECK(!mic->isRunning());` - stop
\* returns, unless the program is ended in it.
StopReturns == main = "join" ~> main = "gone"

=============================================================================
