---------------------------- MODULE AudioReceiver ----------------------------
(***************************************************************************)
(* audio::AudioReceiver: packets from the network into the jitter buffer,  *)
(* and a playout timer that pops as many frames as real time asks for.     *)
(*                                                                         *)
(* The network loses, repeats and reorders packets: any frame may arrive,  *)
(* or arrive again, at any moment.  A playout tick is one slot of the      *)
(* event loop; here it is a step that opens the tick and one step per      *)
(* frame, between which no packet arrives.                                 *)
(*                                                                         *)
(* Time is counted in frames.  ahead is framesEmitted_ less the frames     *)
(* that have elapsed since playoutEpoch_; both are overwritten when the    *)
(* clock restarts, so ahead is 0 while it stands.                          *)
(***************************************************************************)
EXTENDS JitterBuffer

CONSTANTS
  MaxPerTick,   \* kMaxFramesPerTick
  MaxLate,      \* bound: the frames that may elapse between two ticks
  MaxAhead      \* bound: how far ticks that come early may run ahead

ASSUME ClockAssumption ==
  MaxPerTick \in Nat \ {0} /\ MaxLate \in Nat \ {0} /\ MaxAhead \in Nat \ {0}

VARIABLES
  clock,      \* playoutClockRunning_
  ahead,
  budget,     \* the frames the tick under way has still to emit
  out,        \* the last frame emitted through pcmFrameReady
  received    \* history: every frame that ever arrived

vars == <<bufferVars, clock, ahead, budget, out, received>>

Init ==
  /\ BufferInit
  /\ clock = FALSE /\ ahead = 0 /\ budget = 0
  /\ out = [slot |-> -1, kind |-> "none"]
  /\ received = {}

\* onReadyRead, for one datagram.
Arrive(s) ==
  /\ budget = 0
  /\ Push(s)
  /\ received' = received \cup {s}
  /\ UNCHANGED <<clock, ahead, budget, out>>

\* framesDue - framesEmitted_, at least one frame.
Due(a) == IF a > 0 THEN 1 ELSE 1 - a

\* Mutant: a tick stops one frame short of the limit.
BudgetShort(a) == IF Due(a) >= MaxPerTick THEN MaxPerTick - 1 ELSE Due(a)

Budget(a) == IF Due(a) > MaxPerTick THEN MaxPerTick ELSE Due(a)

\* framesEmitted_ once the frames beyond the limit were written off.
WrittenOff(a) == IF Due(a) > MaxPerTick THEN 1 - MaxPerTick ELSE a

\* onPlayoutTick, up to its loop; late frames have elapsed since the last one.
Tick(late) ==
  LET a == IF clock THEN ahead - late ELSE 0
  IN  /\ budget = 0
      /\ clock \/ buffer # {}
      /\ a < MaxAhead
      /\ clock' = TRUE
      /\ budget' = Budget(a) /\ ahead' = WrittenOff(a)
      /\ UNCHANGED <<bufferVars, out, received>>

\* emitOneFrame that returns true.
EmitFrame ==
  /\ budget > 0
  /\ \E n \in 0 .. MaxSeq, k \in {"ready", "silence", "fec", "loss"} :
       PopFrame(n, k) /\ out' = [slot |-> n, kind |-> k]
  /\ budget' = budget - 1 /\ ahead' = ahead + 1
  /\ UNCHANGED <<clock, received>>

\* emitOneFrame that returns false: the clock stops.
Starve ==
  /\ budget > 0
  /\ PopNotReady
  /\ clock' = FALSE /\ budget' = 0 /\ ahead' = 0
  /\ UNCHANGED <<out, received>>

Playout == (\E late \in 0 .. MaxLate : Tick(late)) \/ EmitFrame \/ Starve

Next == (\E s \in Seqs : Arrive(s)) \/ Playout

Spec == Init /\ [][Next]_vars

\* The playout timer fires and its slot runs to its end. No packet need come.
FairSpec == Spec /\ WF_vars(Playout)

-----------------------------------------------------------------------------

\* Every variable keeps its type, and the buffer its bound.
TypeOK ==
  /\ buffer \subseteq Seqs /\ Cardinality(buffer) <= MaxBuffered
  /\ next \in 0 .. MaxSeq + 1
  /\ initialized \in BOOLEAN
  /\ target \in MinDepth .. MaxDepth
  /\ newest \in -1 .. MaxSeq
  /\ clock \in BOOLEAN
  /\ ahead \in 1 - MaxPerTick .. MaxAhead
  /\ budget \in 0 .. MaxPerTick
  /\ out \in [slot : -1 .. MaxSeq, kind : {"none", "ready", "silence", "fec", "loss"}]
  /\ received \subseteq Seqs

\* What waits in the buffer is exactly what arrived and is still due: no frame
\* that came in time is forgotten, none stays behind the playout point, where
\* it would hold begin() and bufferedCount() for ever.
BufferIsWhatIsDue == buffer = {s \in received : initialized /\ s >= next}

\* Every slot is played, concealed or skipped once: reordering, repetition,
\* overflow and jumps never take the playout point back.
SlotsInOrder == [][out' # out => out'.slot > out.slot]_vars

\* A slot is concealed only when its frame never arrived although a later one
\* did (PROTOCOL.md, section 4.3), and from the next frame's copy only when
\* that frame is there; whatever arrived in time is played as it is.
ConcealsRealGaps ==
  [][out' # out =>
       LET n == out'.slot
       IN  /\ out'.kind \in {"fec", "loss"} <=> n \notin received
           /\ out'.kind = "fec" => n + 1 \in received
           /\ \E s \in received : s >= n]_vars

\* Each slot comes out once, in order, and as what the network left of it.
SlotsAreTrue == SlotsInOrder /\ ConcealsRealGaps

\* Latency is bounded: what waits after a frame was emitted lies less than the
\* target depth and the slack ahead, however the arrivals were bunched.
LatencyIsBounded ==
  [][out' # out => \A s \in buffer' : s < next' + target + Slack - 1]_vars

\* A tick that did not run dry leaves the clock owed nothing: every frame that
\* fell due by then was emitted or written off.
ClockIsPaid == clock /\ budget = 0 => ahead > 0

\* Once as many frames wait as the target depth asks for, the playout point
\* moves on: gaps, jumps and written-off time never stall the stream.
PlayoutProceeds ==
  \A n \in Seqs :
    (initialized /\ next = n /\ \E s \in buffer : s >= n + target - 1) ~> next # n

=============================================================================
