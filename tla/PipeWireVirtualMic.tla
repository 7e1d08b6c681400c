------------------------- MODULE PipeWireVirtualMic -------------------------
(***************************************************************************)
(* The virtual microphone on PipeWire: a ring of samples between the main  *)
(* thread, which hands them over, and PipeWire's real-time data thread,    *)
(* which asks for a buffer of them now and then.  No lock is held by       *)
(* either: the writer never looks at the reader's position, and the reader *)
(* skips what it has fallen too far behind.                                *)
(*                                                                         *)
(* Samples are numbered from 1 in each life of the stream; a cell holds    *)
(* the number of the sample last copied into it, 0 if that was in an       *)
(* earlier life.  The microphone has one channel (kVirtualMicChannels).    *)
(*                                                                         *)
(* Of PipeWire the model assumes that callbacks do not overlap, that a     *)
(* format is negotiated between two of them, that destroying the stream    *)
(* waits for the last, and that no callback lasts so long that the main    *)
(* thread hands over MaxAhead samples meanwhile (1.9 s of sound).          *)
(***************************************************************************)
EXTENDS Integers

CONSTANTS
  RingSize,     \* kRingBufferFrames
  MaxBuffered,  \* maxBufferedSamples_
  Cushion,      \* cushionSamples_
  Quantum,      \* the frames a callback is asked for
  MaxAhead,     \* what may be handed over in a block or during a callback
  MaxPushed,    \* bound: the samples of one life
  MaxLives      \* bound: times the stream is started

ASSUME RingAssumption ==
  /\ RingSize \in Nat /\ Quantum \in Nat \ {0} /\ Cushion \in Nat \ {0}
  /\ MaxBuffered \in Nat /\ MaxAhead \in Nat /\ MaxPushed \in Nat /\ MaxLives \in Nat
  /\ Cushion <= MaxBuffered /\ MaxBuffered + MaxAhead <= RingSize

VARIABLES
  running,               \* running_
  stream,                \* stream_ is connected: callbacks may come
  negotiated,            \* negotiatedStride_ is not 0
  ring,                  \* ringBuffer_
  writeCount, readCount, \* the atomics
  primed,                \* primed_
  main, write, end,      \* the main thread, and pushSamples' position and limit
  callback, written, read, left,  \* fillBuffer: its counts, and frames to render
  heard,                 \* the last sample an application recorded
  lives

ringVars == <<ring, writeCount>>
pushVars == <<main, write, end>>
fillVars == <<callback, written, read, left>>
vars == <<running, stream, negotiated, ringVars, readCount, primed, pushVars, fillVars,
          heard, lives>>

Cell(i) == (i - 1) % RingSize   \* where sample i goes

Init ==
  /\ running = FALSE /\ stream = FALSE /\ negotiated = FALSE
  /\ ring = [c \in 0 .. RingSize - 1 |-> 0]
  /\ writeCount = 0 /\ readCount = 0 /\ primed = FALSE
  /\ main = "idle" /\ write = 0 /\ end = 0
  /\ callback = "none" /\ written = 0 /\ read = 0 /\ left = 0
  /\ heard = 0 /\ lives = 0

-----------------------------------------------------------------------------
(* The main thread *)

\* start; a step of it that fails leaves everything as it was.
Start ==
  /\ main = "idle" /\ ~running /\ lives < MaxLives
  /\ running' = TRUE /\ stream' = TRUE /\ lives' = lives + 1
  /\ UNCHANGED <<negotiated, ringVars, readCount, primed, pushVars, fillVars, heard>>

\* Mutant: the count is stored before the samples.
PushUncopied(n) ==
  /\ main = "idle" /\ running
  /\ writeCount + n <= MaxPushed
  /\ main' = "push" /\ write' = writeCount /\ end' = writeCount + n
  /\ writeCount' = writeCount + n
  /\ UNCHANGED <<running, stream, negotiated, ring, readCount, primed, fillVars, heard, lives>>
\* pushSamples, a sample at a time; the count is stored behind them all.
Push(n) ==
  /\ main = "idle" /\ running
  /\ writeCount + n <= MaxPushed
  /\ main' = "push" /\ write' = writeCount /\ end' = writeCount + n
  /\ UNCHANGED <<running, stream, negotiated, ringVars, readCount, primed, fillVars, heard,
                 lives>>

Put ==
  /\ main = "push" /\ write < end
  /\ callback = "copy" => write < written + MaxAhead
  /\ ring' = [ring EXCEPT ![Cell(write + 1)] = write + 1]
  /\ write' = write + 1
  /\ UNCHANGED <<running, stream, negotiated, writeCount, readCount, primed, main, end,
                 fillVars, heard, lives>>

Publish ==
  /\ main = "push" /\ write = end
  /\ writeCount' = write
  /\ main' = "idle"
  /\ UNCHANGED <<running, stream, negotiated, ring, readCount, primed, write, end, fillVars,
                 heard, lives>>

\* stop: pw_stream_destroy returns after the last callback ...
Destroy ==
  /\ main = "idle" /\ running /\ callback = "none"
  /\ stream' = FALSE
  /\ main' = "stop"
  /\ UNCHANGED <<running, negotiated, ringVars, readCount, primed, write, end, fillVars,
                 heard, lives>>

\* ... and then the counts start over; the ring keeps what it held.
Reset ==
  /\ main = "stop"
  /\ running' = FALSE /\ negotiated' = FALSE /\ primed' = FALSE
  /\ writeCount' = 0 /\ readCount' = 0
  /\ ring' = [c \in 0 .. RingSize - 1 |-> 0]
  /\ heard' = 0
  /\ main' = "idle"
  /\ UNCHANGED <<stream, write, end, fillVars, lives>>

-----------------------------------------------------------------------------
(* PipeWire's threads *)

\* OnParamChanged
Negotiate ==
  /\ stream /\ ~negotiated /\ callback = "none"
  /\ negotiated' = TRUE
  /\ UNCHANGED <<running, stream, ringVars, readCount, primed, pushVars, fillVars, heard, lives>>

\* Mutant: the reader goes back that far even if it was further.
AlwaysBack == IF writeCount > MaxBuffered THEN writeCount - MaxBuffered ELSE 0
\* Where fillBuffer starts to read: not further back than MaxBuffered.
Oldest ==
  IF writeCount - readCount > MaxBuffered THEN writeCount - MaxBuffered ELSE readCount

\* Mutant: the cushion must be exceeded.
PlaysLater == (primed /\ writeCount - Oldest >= 1) \/ writeCount - Oldest > Cushion
\* Whether it plays: it went on from the last buffer, or has its cushion.
Plays ==
  \/ primed /\ writeCount - Oldest >= 1
  \/ writeCount - Oldest >= Cushion

\* OnProcess and fillBuffer up to its loop; a buffer of silence is done at once.
Process ==
  /\ stream /\ negotiated /\ callback = "none"
  /\ primed' = Plays
  /\ IF Plays
     THEN /\ callback' = "copy" /\ written' = writeCount /\ read' = Oldest /\ left' = Quantum
          /\ UNCHANGED readCount
     ELSE /\ readCount' = Oldest
          /\ UNCHANGED fillVars
  /\ UNCHANGED <<running, stream, negotiated, ringVars, pushVars, heard, lives>>

\* One frame of the loop, zero once the samples have run out.
Copy ==
  /\ callback = "copy" /\ left > 0
  /\ left' = left - 1
  /\ IF read < written
     THEN heard' = ring[Cell(read + 1)] /\ read' = read + 1
     ELSE UNCHANGED <<heard, read>>
  /\ UNCHANGED <<running, stream, negotiated, ringVars, readCount, primed, pushVars, callback,
                 written, lives>>

Queue ==
  /\ callback = "copy" /\ left = 0
  /\ readCount' = read
  /\ callback' = "none"
  /\ UNCHANGED <<running, stream, negotiated, ringVars, primed, pushVars, written, read, left,
                 heard, lives>>

DataThread == Process \/ Copy \/ Queue
MainThread == Start \/ (\E n \in 1 .. MaxAhead : Push(n)) \/ Put \/ Publish \/ Destroy \/ Reset

Next == MainThread \/ Negotiate \/ DataThread

\* PipeWire keeps asking, and negotiates once there is a stream.
Fairness == WF_vars(DataThread) /\ WF_vars(Negotiate)

Spec == Init /\ [][Next]_vars
FairSpec == Spec /\ Fairness

-----------------------------------------------------------------------------
(* Properties *)

\* Type invariant: the ranges of the counts, and that they are in order.
TypeOK ==
  /\ running \in BOOLEAN /\ stream \in BOOLEAN /\ negotiated \in BOOLEAN
  /\ ring \in [0 .. RingSize - 1 -> Nat]
  /\ writeCount \in Nat /\ readCount \in Nat /\ primed \in BOOLEAN
  /\ main \in {"idle", "push", "stop"} /\ write \in Nat /\ end \in Nat
  /\ callback \in {"none", "copy"} /\ written \in Nat /\ read \in Nat
  /\ left \in 0 .. Quantum /\ heard \in Nat /\ lives \in 0 .. MaxLives

\* What a callback is about to copy is there and whole: no sample the main
\* thread has not finished, none it has overwritten since, none of an earlier
\* life, though neither thread looks at where the other is.
SamplesAreTrue ==
  callback = "copy" => \A i \in read + 1 .. written : ring[Cell(i)] = i

\* An application records the samples in order and each once, and misses some
\* only where a callback found more than MaxBuffered of them waiting.
HeardInOrder ==
  [][heard' # heard =>
       \/ heard' = heard + 1
       \/ heard' > heard /\ written - heard > MaxBuffered
       \/ main = "stop"]_vars

\* A sample with a cushion of others behind it reaches the application, unless
\* the stream is taken down.
SamplesFlow ==
  \A n \in 1 .. MaxPushed :
    (stream /\ writeCount >= n + Cushion - 1) ~> (heard >= n \/ ~stream)

=============================================================================
