---------------------------- MODULE JitterBuffer ----------------------------
(***************************************************************************)
(* audio::JitterBuffer: frames wait here, ordered by sequence number,      *)
(* until Pop reaches their slot.  Sequence numbers are the sender's frame  *)
(* counter; a frame's payload and its DTX flag follow from its number, so  *)
(* buffer_ is the set of its keys.                                         *)
(*                                                                         *)
(* The jitter estimate is a filtered inter-arrival time in milliseconds.   *)
(* What it decides is kept, what it measures is not: an arrival newer than *)
(* every one before may move the target depth by one frame either way.     *)
(***************************************************************************)
EXTENDS Integers, FiniteSets

CONSTANTS
  MaxSeq,        \* bound: the number of the last frame of the stream
  Dtx,           \* the frames the sender marked as silence
  MinDepth, MaxDepth, InitialDepth,  \* minDepthFrames_, maxDepthFrames_, ...
  Slack          \* kDepthSlackFrames

Seqs == 0 .. MaxSeq

ASSUME BufferAssumption ==
  /\ MaxSeq \in Nat
  /\ Dtx \subseteq Seqs
  /\ MinDepth \in Nat \ {0} /\ MaxDepth \in Nat /\ MinDepth <= MaxDepth
  /\ InitialDepth \in Nat
  /\ Slack \in Nat

VARIABLES
  buffer,       \* the keys of buffer_
  next,         \* nextPlayoutSeq_
  initialized,
  target,       \* targetDepthFrames_
  newest        \* lastArrivalSequence_, -1 while haveLastArrival_ is false

bufferVars == <<buffer, next, initialized, target, newest>>

Clamp(n, low, high) == IF n < low THEN low ELSE IF n > high THEN high ELSE n

BufferInit ==
  /\ buffer = {} /\ next = 0 /\ initialized = FALSE /\ newest = -1
  /\ target = Clamp(InitialDepth, MinDepth, MaxDepth)

-----------------------------------------------------------------------------
(* Push *)

\* The depths an arrival may leave behind.
Depths == {target - 1, target, target + 1} \cap MinDepth .. MaxDepth

\* UpdateJitterEstimate: the first arrival, and one that is not newer than
\* every other, changes no depth.
Estimate(s) ==
  /\ newest' = IF s > newest THEN s ELSE newest
  /\ IF newest = -1 \/ s <= newest THEN target' = target ELSE target' \in Depths

MaxBuffered == MaxDepth + Slack + 2

\* Mutant: the playout point stays where it is when the oldest frame goes.
NextKept(o, n) == n

\* The playout point once frame o was thrown away to make room.
NextAfterDrop(o, n) == IF o >= n THEN o + 1 ELSE n

\* One frame was added, so at most one has to go: the loop runs at most once.
Push(s) ==
  LET n     == IF initialized THEN next ELSE s
      added == buffer \cup {s}
  IN  \/ s < n /\ UNCHANGED bufferVars
      \/ /\ s >= n
         /\ Estimate(s)
         /\ initialized' = TRUE
         /\ \/ /\ Cardinality(added) <= MaxBuffered
               /\ buffer' = added /\ next' = n
            \/ /\ Cardinality(added) > MaxBuffered
               /\ \E o \in added :
                    /\ \A e \in added : o <= e
                    /\ buffer' = added \ {o}
                    /\ next' = NextAfterDrop(o, n)

-----------------------------------------------------------------------------
(* Pop. h is the highest key of buffer_. *)

Highest(h) == h \in buffer /\ \A e \in buffer : e <= h

\* Mutant: one frame more of lead is let pass.
LaggingLate(h) == h > next + target + Slack

\* Playout is so far behind the live edge that it has to jump.
Lagging(h) == h >= next + target + Slack

Jump(h) == h + 1 - target

\* Mutant: upper_bound for lower_bound.
KeptAfter(n) == {e \in buffer : e > n}

Kept(n) == {e \in buffer : e >= n}

\* nextPlayoutSeq_ and buffer_ after the jump, if there is one.
Slot(h)   == IF Lagging(h) THEN Jump(h) ELSE next
Queued(h) == IF Lagging(h) THEN Kept(Slot(h)) ELSE buffer

\* Mutant: one frame more than the target depth is waited for.
DeepWithOneMore(h, n) == h >= n + target

DeepEnough(h, n) == h >= n + target - 1

\* JitterPopResult::NotReady
PopNotReady ==
  \/ (~initialized \/ buffer = {}) /\ UNCHANGED bufferVars
  \/ \E h \in buffer :
       /\ initialized /\ Highest(h)
       /\ ~DeepEnough(h, Slot(h))
       /\ next' = Slot(h) /\ buffer' = Queued(h)
       /\ UNCHANGED <<initialized, target, newest>>

\* What Pop returns for slot n when q is queued: the frame, silence, the copy
\* of the frame that the next one carries, or nothing to go on.
Outcome(n, q) ==
  CASE n \in q /\ n \notin Dtx -> "ready"
    [] n \in q /\ n \in Dtx -> "silence"
    [] n \notin q /\ n + 1 \in q \ Dtx -> "fec"
    [] n \notin q /\ n + 1 \notin q \ Dtx -> "loss"

NextSlot(n) == n + 1

\* Pop returns outcome k for slot n.
PopFrame(n, k) ==
  \E h \in buffer :
    /\ initialized /\ Highest(h)
    /\ n = Slot(h) /\ DeepEnough(h, n)
    /\ k = Outcome(n, Queued(h))
    /\ buffer' = Queued(h) \ {n}
    /\ next' = NextSlot(n)
    /\ UNCHANGED <<initialized, target, newest>>

=============================================================================
