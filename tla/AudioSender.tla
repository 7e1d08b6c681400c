----------------------------- MODULE AudioSender -----------------------------
(***************************************************************************)
(* android::AudioSender and the AAudioCapture it owns: three threads.  The *)
(* device calls handleAudioData on its own thread, the worker sleeps on a  *)
(* semaphore and drains the queue, and the thread that started both stops  *)
(* them.  A stream that breaks down is never opened again.                 *)
(*                                                                         *)
(* A sample is sent once resampler and encoder have it.  Rates, channels,  *)
(* encoding, encryption and the socket are left out, and so is which       *)
(* microphone API start() falls back to.                                   *)
(***************************************************************************)
EXTENDS PcmRingBuffer

CONSTANTS
  Backlog,      \* backlogLimit
  MaxCaptured   \* bound: the samples the microphone delivers

ASSUME SenderAssumption == Backlog \in Nat /\ MaxCaptured \in Nat

VARIABLES
  stream,     \* AAudioCapture: "none", "open", "broken"
  captureReady, workerRunning,
  wake,       \* the value of the semaphore wake_
  callback,   \* idle, in Write, or after it
  refused,    \* slice - accepted of the slice under way
  worker,     \* where senderLoop is
  waiting,    \* what drainQueue saw waiting
  flushing,   \* the worker has left its loop and drains for the last time
  owner,      \* where the thread that calls start and stop is
  captured,   \* history: the samples the microphone delivered
  sent,       \* history: the samples given to the encoder
  dropped     \* droppedSamples_

captureVars == <<stream, captureReady>>
threadVars == <<captureVars, workerRunning, wake, refused, waiting, flushing>>
vars == <<ringVars, threadVars, callback, worker, owner, captured, sent, dropped>>

Init ==
  /\ RingInit
  /\ stream = "none" /\ captureReady = FALSE /\ workerRunning = FALSE /\ wake = 0
  /\ callback = "idle" /\ refused = 0
  /\ worker = "none" /\ waiting = 0 /\ flushing = FALSE
  /\ owner = "new" /\ captured = 0 /\ sent = 0 /\ dropped = 0

-----------------------------------------------------------------------------
(* The device's thread *)

\* The callback enters Write with its next slice.
Slice(n) ==
  /\ captured + n <= MaxCaptured
  /\ captured' = captured + n
  /\ BeginWrite(n)
  /\ refused' = n - giving'
  /\ callback' = IF giving' = 0 THEN "post" ELSE "write"
  /\ UNCHANGED <<readVars, captureVars, workerRunning, wake, waiting, flushing,
                 worker, owner, sent>>

\* OnAudioData: a stream that runs calls back.
Delivers == callback = "idle" /\ stream = "open"

\* OnStreamError: the device is unplugged, or another application takes it.
StreamBreaks ==
  /\ stream = "open"
  /\ stream' = "broken"
  /\ UNCHANGED <<ringVars, captureReady, workerRunning, wake, refused, waiting,
                 flushing, callback, worker, owner, captured, sent, dropped>>

\* handleAudioData looks at captureReady_ once, whatever it delivers.
Capture(n) ==
  /\ Delivers /\ captureReady
  /\ Slice(n)
  /\ UNCHANGED dropped

\* There is more in the block: what Write refused is counted first.
NextSlice(n) ==
  /\ callback = "post"
  /\ dropped' = dropped + refused
  /\ Slice(n)

WriteSamples ==
  /\ callback = "write"
  /\ \/ CopyIn /\ UNCHANGED callback
     \/ EndWrite /\ callback' = "post"
  /\ UNCHANGED <<readVars, threadVars, worker, owner, captured, sent, dropped>>

\* Mutant: the worker is woken only by a callback whose samples all fit.
PostUnlessFull == IF refused = 0 THEN wake + 1 ELSE wake

Posted == wake + 1

Post ==
  /\ callback = "post"
  /\ dropped' = dropped + refused /\ refused' = 0
  /\ wake' = Posted
  /\ callback' = "idle"
  /\ UNCHANGED <<ringVars, captureVars, workerRunning, waiting, flushing, worker,
                 owner, captured, sent>>

DeviceThread == WriteSamples \/ Post

-----------------------------------------------------------------------------
(* The worker *)

\* Mutant: the worker leaves without the last drain.
NoFlush == "done"

AfterLoop == "drain"

\* senderLoop tests workerRunning_, before it sleeps and after.
Test(from, to) ==
  /\ worker = from
  /\ worker' = IF workerRunning THEN to ELSE AfterLoop
  /\ flushing' = ~workerRunning
  /\ UNCHANGED <<ringVars, captureVars, workerRunning, wake, refused, waiting,
                 callback, owner, captured, sent, dropped>>

Sleep ==
  /\ worker = "wait" /\ wake > 0
  /\ wake' = wake - 1 /\ worker' = "woken"
  /\ UNCHANGED <<ringVars, captureVars, workerRunning, refused, waiting, flushing,
                 callback, owner, captured, sent, dropped>>

\* drainQueue looks at what is waiting.
Look ==
  /\ worker = "drain"
  /\ waiting' = Available
  /\ worker' = IF Backlog > 0 /\ Available > Backlog THEN "trim" ELSE "read"
  /\ UNCHANGED <<ringVars, captureVars, workerRunning, wake, refused, flushing,
                 callback, owner, captured, sent, dropped>>

Counted(n) == dropped + n

Trim ==
  /\ worker = "trim"
  /\ Discard(waiting - Backlog)
  /\ dropped' = Counted(Discarded(waiting - Backlog))
  /\ worker' = "read"
  /\ UNCHANGED <<writeVars, threadVars, callback, owner, captured, sent>>

\* Where a drain leads.
Drained == IF flushing THEN "done" ELSE "loop"

StartRead ==
  /\ worker = "read"
  /\ BeginRead
  /\ worker' = IF taking' = 0 THEN Drained ELSE "copy"
  /\ UNCHANGED <<writeVars, threadVars, callback, owner, captured, sent, dropped>>

ReadSamples ==
  /\ worker = "copy"
  /\ \/ CopyOut /\ UNCHANGED <<worker, sent>>
     \/ /\ EndRead /\ sent' = sent + taking
        /\ worker' = IF taking < Chunk THEN Drained ELSE "read"
  /\ UNCHANGED <<writeVars, threadVars, callback, owner, captured, dropped>>

Worker ==
  \/ Test("loop", "wait") \/ Test("woken", "drain")
  \/ Sleep \/ Look \/ Trim \/ StartRead \/ ReadSamples

-----------------------------------------------------------------------------
(* The thread that starts and stops *)

\* start(), once per sender.  The microphone opens first, for only then is its
\* format known; what it delivers until all else is ready is not looked at.
OpenCapture ==
  /\ owner = "new"
  /\ owner' = "opened" /\ stream' = "open"
  /\ UNCHANGED <<ringVars, captureReady, workerRunning, wake, refused, waiting,
                 flushing, callback, worker, captured, sent, dropped>>

\* The encoder, the socket, both microphone APIs or the semaphore fail.
StartFails ==
  /\ owner \in {"new", "opened"}
  /\ owner' = "failed" /\ stream' = "none"
  /\ UNCHANGED <<ringVars, captureReady, workerRunning, wake, refused, waiting,
                 flushing, callback, worker, captured, sent, dropped>>

\* captureReady_ is set when all else is ready.
Start ==
  /\ owner = "opened"
  /\ owner' = "started"
  /\ captureReady' = TRUE /\ workerRunning' = TRUE /\ worker' = "loop"
  /\ UNCHANGED <<ringVars, stream, wake, refused, waiting, flushing, callback,
                 captured, sent, dropped>>

Stop ==
  /\ owner = "started"
  /\ captureReady' = FALSE /\ owner' = "silenced"
  /\ UNCHANGED <<ringVars, stream, workerRunning, wake, refused, waiting, flushing, callback,
                 worker, captured, sent, dropped>>

\* capture_->stop() returns when no callback is running.
CaptureStops ==
  /\ owner = "silenced" /\ callback = "idle"
  /\ stream' = "none"
  /\ workerRunning' = FALSE /\ owner' = "telling"
  /\ UNCHANGED <<ringVars, captureReady, wake, refused, waiting, flushing, callback,
                 worker, captured, sent, dropped>>

\* Mutant: the worker is not woken to see that it has to end.
NotTold == wake

Told == wake + 1

Tell ==
  /\ owner = "telling"
  /\ wake' = Told /\ owner' = "joining"
  /\ UNCHANGED <<ringVars, captureVars, workerRunning, refused, waiting, flushing,
                 callback, worker, captured, sent, dropped>>

Join ==
  /\ owner = "joining" /\ worker = "done"
  /\ owner' = "stopped"
  /\ UNCHANGED <<ringVars, threadVars, callback, worker, captured, sent, dropped>>

Teardown == CaptureStops \/ Tell \/ Join

Next ==
  \/ \E n \in 1 .. MaxCaptured : Capture(n) \/ NextSlice(n)
  \/ StreamBreaks \/ DeviceThread \/ Worker
  \/ OpenCapture \/ StartFails \/ Start \/ Stop \/ Teardown

Spec == Init /\ [][Next]_vars

\* A callback that began ends, the worker is scheduled, and stop() goes on
\* once called.  Nothing makes the microphone deliver.
FairSpec ==
  Spec /\ WF_vars(DeviceThread) /\ WF_vars(Worker) /\ WF_vars(Teardown)

-----------------------------------------------------------------------------

\* Every variable keeps its type.
TypeOK ==
  /\ RingTypeOK
  /\ captureReady \in BOOLEAN /\ workerRunning \in BOOLEAN /\ flushing \in BOOLEAN
  /\ wake \in Nat /\ refused \in Nat /\ waiting \in 0 .. Capacity
  /\ callback \in {"idle", "write", "post"}
  /\ worker \in {"none", "loop", "wait", "woken", "drain", "trim", "read", "copy", "done"}
  /\ stream \in {"none", "open", "broken"}
  /\ owner \in {"new", "opened", "failed", "started", "silenced", "telling", "joining",
                "stopped"}
  /\ captured \in Nat /\ sent \in Nat /\ dropped \in Nat

\* The queue between the threads is a FIFO of bounded capacity: memcpy and
\* index stores of the two sides, in any order, lose, repeat, reorder and tear
\* no sample, across the wrap and when full.
Fifo == INSTANCE BoundedFifo WITH put <- accepted, taken <- consumed

QueueIsFifo == Fifo!FifoSpec

\* The producer never writes a cell the consumer may still be reading, so the
\* plain accesses of the two threads do not race.
NoRace ==
  \A i \in copied .. giving - 1, j \in fetched .. taking - 1 :
    Wrap(writeIndex + i) # Wrap(readIndex + j)

\* droppedSamples() tells the truth: a sample that the microphone delivered was
\* sent, waits, is on its way in, or is counted.
Accounted == captured = sent + (accepted - consumed) + giving + refused + dropped

\* What the microphone delivered before the stop request is flushed: nothing is
\* left in the queue when stop() returns.
StopFlushes == owner = "stopped" => accepted = consumed

\* No sample vanishes: the counts of three threads add up at every moment, and
\* at the end nothing is left that is neither sent nor counted as dropped.
NoSampleVanishes == Accounted /\ StopFlushes

\* No wake-up is lost: what was accepted is sent or thrown away in the end,
\* though the microphone may break down and never deliver again.
SamplesMove == \A n \in 1 .. MaxCaptured : accepted >= n ~> consumed >= n

\* stop() returns.
StopReturns == owner = "silenced" ~> owner = "stopped"

=============================================================================
