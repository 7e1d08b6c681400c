------------------------- MODULE AudioReceiver_proofs -------------------------
(***************************************************************************)
(* What holds of AudioReceiver for every stream length, every depth and    *)
(* every slack.  BufferIsWhatIsDue is the heart of the inductive           *)
(* invariant: what Push and Pop do to the buffer is what they do to the    *)
(* set of arrivals and the playout point, and the promises about each      *)
(* frame emitted follow from that.                                         *)
(***************************************************************************)
EXTENDS AudioReceiver, FiniteSetTheorems, TLAPS

Kinds == {"ready", "silence", "fec", "loss"}

\* Nothing has arrived or been emitted before the first Push.
Fresh == ~initialized => received = {} /\ out.slot = -1

\* Everything emitted lies behind the playout point.
EmittedIsBehind == initialized => out.slot < next

\* A tick under way has a running clock, which is even or ahead at its end.
TickIsSound ==
  /\ budget > 0 => clock
  /\ clock => 0 < ahead + budget /\ ahead + budget <= MaxAhead

IInv == TypeOK /\ BufferIsWhatIsDue /\ Fresh /\ EmittedIsBehind /\ TickIsSound

\* TypeOK of the jitter buffer's own variables.
BufferTypes ==
  /\ buffer \subseteq Seqs /\ Cardinality(buffer) <= MaxBuffered
  /\ next \in 0 .. MaxSeq + 1
  /\ initialized \in BOOLEAN
  /\ target \in MinDepth .. MaxDepth
  /\ newest \in -1 .. MaxSeq

\* A set of sequence numbers is finite.
LEMMA FiniteSeqs ==
  ASSUME NEW S \in SUBSET Seqs
  PROVE  IsFiniteSet(S) /\ Cardinality(S) \in Nat
<1>1. IsFiniteSet(Seqs)
  BY BufferAssumption, FS_Interval DEF Seqs
<1> QED BY <1>1, FS_Subset, FS_CardinalityType

-----------------------------------------------------------------------------
(* Push *)

\* The estimator keeps the depth between its limits.
LEMMA EstimateTypes ==
  ASSUME BufferTypes, NEW s \in Seqs, Estimate(s)
  PROVE  target' \in MinDepth .. MaxDepth /\ newest' \in -1 .. MaxSeq
BY BufferAssumption DEF BufferTypes, Estimate, Depths, Seqs

\* Push refines the set of arrivals: a late frame changes nothing, any other
\* is due from then on, together with all that is not older than the playout
\* point, which never goes back.
LEMMA PushEffect ==
  ASSUME BufferTypes, BufferIsWhatIsDue, received \subseteq Seqs,
         ~initialized => received = {}, NEW s \in Seqs, Push(s)
  PROVE  \/ UNCHANGED bufferVars /\ initialized /\ s < next
         \/ /\ BufferTypes' /\ initialized'
            /\ initialized => next' >= next
            /\ buffer' = {e \in received \cup {s} : e >= next'}
<1> DEFINE n     == IF initialized THEN next ELSE s
           added == buffer \cup {s}
<1>1. n \in 0 .. MaxSeq + 1 /\ added \subseteq Seqs /\ MaxBuffered \in Nat
  BY BufferAssumption DEF BufferTypes, Seqs, MaxBuffered
<1>2. CASE s < n /\ UNCHANGED bufferVars
  BY <1>2, BufferAssumption DEF Seqs
<1>3. CASE s >= n /\ Estimate(s) /\ initialized'
            /\ Cardinality(added) <= MaxBuffered /\ buffer' = added /\ next' = n
  <2>1. BufferTypes'
    BY <1>1, <1>3, EstimateTypes DEF BufferTypes
  <2>2. buffer' = {e \in received \cup {s} : e >= next'}
    BY <1>1, <1>3 DEF BufferIsWhatIsDue, Seqs
  <2> QED BY <1>1, <1>3, <2>1, <2>2 DEF BufferTypes
<1>4. ASSUME s >= n, Estimate(s), initialized', Cardinality(added) > MaxBuffered,
             NEW o \in added, \A e \in added : o <= e,
             buffer' = added \ {o}, next' = NextAfterDrop(o, n)
      PROVE  /\ BufferTypes'
             /\ initialized => next' >= next
             /\ buffer' = {e \in received \cup {s} : e >= next'}
  <2>1. added = {e \in received \cup {s} : e >= n}
    BY <1>1, <1>4 DEF BufferIsWhatIsDue, Seqs
  <2>2. o \in 0 .. MaxSeq /\ o >= n /\ next' = o + 1
    BY <1>1, <1>4, <2>1 DEF NextAfterDrop, Seqs
  <2>3. buffer' = {e \in received \cup {s} : e >= next'}
    <3>1. \A e \in received \cup {s} : e \in Int /\ (e >= o + 1 => e >= n)
      BY <1>1, <2>2 DEF Seqs
    <3>2. \A e \in added : e # o <=> e >= o + 1
      BY <1>1, <1>4, <2>2 DEF Seqs
    <3>3. \A e : e \in added \ {o} <=> e \in received \cup {s} /\ e >= o + 1
      BY <2>1, <3>1, <3>2
    <3> HIDE DEF n, added
    <3> QED BY <1>4, <2>2, <3>3
  <2>4. Cardinality(buffer') <= MaxBuffered
    <3>1. IsFiniteSet(buffer) /\ Cardinality(buffer) \in Nat
      BY FiniteSeqs DEF BufferTypes
    <3>2. Cardinality(added) <= Cardinality(buffer) + 1
      BY <3>1, FS_AddElement
    <3>3. IsFiniteSet(added) /\ Cardinality(added) \in Nat
      BY <1>1, FiniteSeqs
    <3>4. Cardinality(added \ {o}) = Cardinality(added) - 1
      BY <1>4, <3>3, FS_RemoveElement
    <3> QED BY <1>1, <1>4, <3>1, <3>2, <3>3, <3>4 DEF BufferTypes
  <2>5. BufferTypes'
    BY <1>1, <1>4, <2>2, <2>4, EstimateTypes, BufferAssumption DEF BufferTypes
  <2> QED BY <1>1, <2>2, <2>3, <2>5 DEF BufferTypes
<1> QED BY <1>2, <1>3, <1>4 DEF Push

-----------------------------------------------------------------------------
(* Pop *)

\* A Pop that returns NotReady leaves the buffer as it was: playout never
\* jumps without emitting.
LEMMA PopNotReadyEffect ==
  ASSUME BufferTypes, PopNotReady
  PROVE  UNCHANGED bufferVars
<1> SUFFICES ASSUME NEW h \in buffer, ~DeepEnough(h, Slot(h)),
                    next' = Slot(h), buffer' = Queued(h),
                    UNCHANGED <<initialized, target, newest>>
             PROVE  UNCHANGED bufferVars
  BY DEF PopNotReady, bufferVars
<1>1. h \in Int /\ target \in Int /\ next \in Int
  BY BufferAssumption DEF BufferTypes, Seqs
<1>2. ~Lagging(h)
  BY <1>1 DEF Slot, Jump, DeepEnough
<1> QED BY <1>2 DEF Slot, Queued, bufferVars

\* A Pop that returns a frame refines the set of arrivals: it emits a slot that
\* is not behind the playout point, as a gap only if its frame is not among the
\* arrivals, and leaves what is still due, not too far ahead.
LEMMA PopFrameEffect ==
  ASSUME BufferTypes, BufferIsWhatIsDue, received \subseteq Seqs,
         NEW n \in 0 .. MaxSeq, NEW k, PopFrame(n, k)
  PROVE  /\ BufferTypes' /\ initialized /\ initialized'
         /\ n >= next /\ next' = n + 1
         /\ buffer' = {e \in received : e >= next'}
         /\ \A e \in buffer' : e < next' + target + Slack - 1
         /\ k \in Kinds
         /\ k \in {"fec", "loss"} <=> n \notin received
         /\ k = "fec" => n + 1 \in received
         /\ \E e \in received : e >= n
<1>1. PICK h \in buffer :
         /\ initialized /\ Highest(h) /\ n = Slot(h) /\ DeepEnough(h, n)
         /\ k = Outcome(n, Queued(h)) /\ buffer' = Queued(h) \ {n}
         /\ next' = n + 1 /\ UNCHANGED <<initialized, target, newest>>
  BY DEF PopFrame, NextSlot
<1>2. /\ h \in Int /\ target \in Int /\ target >= 1 /\ next \in Int /\ Slack \in Nat
      /\ \A e \in received : e \in Int
      /\ h \in received /\ n \in Int
  BY BufferAssumption DEF BufferTypes, BufferIsWhatIsDue, Seqs
<1>3. n >= next
  BY <1>1, <1>2 DEF Slot, Lagging, Jump
<1>4. Queued(h) = {e \in received : e >= n}
  <2>1. buffer = {e \in received : e >= next}
    BY <1>1 DEF BufferIsWhatIsDue
  <2>2. CASE Lagging(h)
    <3>1. Queued(h) = {e \in buffer : e >= n}
      BY <1>1, <2>2 DEF Queued, Kept
    <3>2. \A e \in received : e >= n => e >= next
      BY <1>2, <1>3
    <3> QED BY <2>1, <3>1, <3>2
  <2>3. CASE ~Lagging(h)
    <3>1. Queued(h) = buffer /\ n = next
      BY <1>1, <2>3 DEF Queued, Slot
    <3> QED BY <2>1, <3>1
  <2> QED BY <2>2, <2>3
<1>5. buffer' = {e \in received : e >= next'}
  <2>1. \A e \in received : e >= n + 1 <=> e >= n /\ e # n
    BY <1>2
  <2>2. buffer' = {e \in received : e >= n /\ e # n}
    BY <1>1, <1>4
  <2> QED BY <1>1, <2>1, <2>2
<1>6. \A e \in buffer' : e < next' + target + Slack - 1
  <2> SUFFICES ASSUME NEW e \in buffer'
               PROVE  e < next' + target + Slack - 1
    OBVIOUS
  <2>1. e \in Int /\ e <= h
    BY <1>1, <1>2, <1>4 DEF Highest, Queued, Kept
  <2>2. CASE Lagging(h)
    BY <1>1, <1>2, <2>1, <2>2 DEF Slot, Jump
  <2>3. CASE ~Lagging(h)
    BY <1>1, <1>2, <2>1, <2>3 DEF Slot, Lagging
  <2> QED BY <2>2, <2>3
<1>7. /\ k \in Kinds
      /\ k \in {"fec", "loss"} <=> n \notin received
      /\ k = "fec" => n + 1 \in received
  <2>1. n \in Queued(h) <=> n \in received
    BY <1>4
  <2>2. n + 1 \in Queued(h) => n + 1 \in received
    BY <1>4
  <2> QED BY <1>1, <2>1, <2>2 DEF Outcome, Kinds
<1>8. \E e \in received : e >= n
  BY <1>1, <1>2 DEF DeepEnough
<1>9. BufferTypes'
  <2>1. buffer' \subseteq buffer
    BY <1>1 DEF Queued, Kept
  <2>2. Cardinality(buffer') <= Cardinality(buffer)
    BY <2>1, FiniteSeqs, FS_Subset DEF BufferTypes
  <2>3. Cardinality(buffer') \in Nat /\ Cardinality(buffer) \in Nat /\ MaxBuffered \in Nat
    BY <2>1, FiniteSeqs, BufferAssumption DEF BufferTypes, MaxBuffered
  <2>4. n + 1 \in 0 .. MaxSeq + 1
    BY BufferAssumption
  <2> QED BY <1>1, <2>1, <2>2, <2>3, <2>4 DEF BufferTypes
<1>10. initialized /\ initialized' /\ next' = n + 1
  BY <1>1
<1> QED BY <1>3, <1>5, <1>6, <1>7, <1>8, <1>9, <1>10

-----------------------------------------------------------------------------
(* The inductive invariant *)

\* The buffer's part of TypeOK.
LEMMA TypesOfBuffer == TypeOK => BufferTypes /\ received \subseteq Seqs
BY DEF TypeOK, BufferTypes

\* A tick has a frame to emit, and at its end is even with what was due.
LEMMA DueEffect ==
  ASSUME NEW a \in Int, a < MaxAhead
  PROVE  /\ Budget(a) \in 1 .. MaxPerTick
         /\ WrittenOff(a) \in 1 - MaxPerTick .. MaxAhead
         /\ 0 < WrittenOff(a) + Budget(a) /\ WrittenOff(a) + Budget(a) <= MaxAhead
BY ClockAssumption DEF Due, Budget, WrittenOff

\* The constructor establishes the invariant.
LEMMA InitInvariant == Init => IInv
<1> SUFFICES ASSUME Init PROVE IInv
  OBVIOUS
<1> USE DEF Init, BufferInit
<1>1. Clamp(InitialDepth, MinDepth, MaxDepth) \in MinDepth .. MaxDepth
  BY BufferAssumption DEF Clamp
<1>2. buffer \subseteq Seqs /\ Cardinality(buffer) <= MaxBuffered
  <2>1. Cardinality({}) = 0
    BY FS_EmptySet
  <2>2. MaxBuffered \in Nat
    BY BufferAssumption DEF MaxBuffered
  <2> QED BY <2>1, <2>2
<1>3. next \in 0 .. MaxSeq + 1 /\ newest \in -1 .. MaxSeq
      /\ ahead \in 1 - MaxPerTick .. MaxAhead /\ budget \in 0 .. MaxPerTick
  BY BufferAssumption, ClockAssumption
<1>4. out \in [slot : -1 .. MaxSeq, kind : {"none", "ready", "silence", "fec", "loss"}]
  BY BufferAssumption
<1>5. TypeOK
  <2>1. initialized \in BOOLEAN /\ clock \in BOOLEAN /\ received \subseteq Seqs
        /\ target \in MinDepth .. MaxDepth
    BY <1>1
  <2> QED BY <1>2, <1>3, <1>4, <2>1, Zenon DEF TypeOK
<1> QED BY <1>5 DEF IInv, BufferIsWhatIsDue, Fresh, EmittedIsBehind, TickIsSound

\* A datagram keeps the invariant.
LEMMA ArriveInvariant ==
  ASSUME IInv, NEW s \in Seqs, Arrive(s)
  PROVE  IInv'
<1> USE DEF IInv
<1>1. BufferTypes /\ received \subseteq Seqs /\ (~initialized => received = {})
  BY TypesOfBuffer DEF Fresh
<1>2. /\ Push(s) /\ received' = received \cup {s}
      /\ UNCHANGED <<clock, ahead, budget, out>>
  BY DEF Arrive
<1>3. CASE UNCHANGED bufferVars /\ initialized /\ s < next
  <2>1. TypeOK'
    BY <1>2, <1>3 DEF TypeOK, bufferVars
  <2>2. next \in Int /\ s \in Int
    BY BufferAssumption DEF TypeOK, Seqs
  <2>3. BufferIsWhatIsDue'
    BY <1>2, <1>3, <2>2 DEF BufferIsWhatIsDue, bufferVars
  <2> QED BY <1>2, <1>3, <2>1, <2>3
          DEF Fresh, EmittedIsBehind, TickIsSound, bufferVars
<1>4. CASE /\ BufferTypes' /\ initialized'
           /\ initialized => next' >= next
           /\ buffer' = {e \in received \cup {s} : e >= next'}
  <2>1. TypeOK'
    BY <1>2, <1>4 DEF TypeOK, BufferTypes
  <2>2. BufferIsWhatIsDue'
    BY <1>2, <1>4 DEF BufferIsWhatIsDue
  <2>3. EmittedIsBehind'
    <3>1. next \in Int /\ next' \in Int /\ next' >= 0 /\ out.slot \in Int
      BY <1>4, BufferAssumption DEF TypeOK, BufferTypes
    <3> QED BY <1>2, <1>4, <3>1 DEF EmittedIsBehind, Fresh
  <2> QED BY <1>2, <1>4, <2>1, <2>2, <2>3 DEF Fresh, TickIsSound
<1> QED BY <1>1, <1>2, <1>3, <1>4, PushEffect

\* A tick that opens keeps the invariant.
LEMMA TickInvariant ==
  ASSUME IInv, NEW late \in 0 .. MaxLate, Tick(late)
  PROVE  IInv'
<1> DEFINE a == IF clock THEN ahead - late ELSE 0
<1> USE DEF IInv
<1>1. a \in Int /\ a < MaxAhead
  BY ClockAssumption DEF Tick, TypeOK
<1>2. /\ clock' = TRUE /\ budget' = Budget(a) /\ ahead' = WrittenOff(a)
      /\ UNCHANGED <<bufferVars, out, received>>
  BY DEF Tick
<1> HIDE DEF a
<1>3. /\ Budget(a) \in 1 .. MaxPerTick
      /\ WrittenOff(a) \in 1 - MaxPerTick .. MaxAhead
      /\ 0 < WrittenOff(a) + Budget(a) /\ WrittenOff(a) + Budget(a) <= MaxAhead
  BY <1>1, DueEffect
<1>4. TypeOK'
  BY <1>2, <1>3, ClockAssumption DEF TypeOK, bufferVars
<1>5. TickIsSound'
  BY <1>2, <1>3 DEF TickIsSound
<1> QED BY <1>2, <1>4, <1>5
        DEF BufferIsWhatIsDue, Fresh, EmittedIsBehind, bufferVars

\* A frame emitted keeps the invariant.
LEMMA EmitFrameInvariant ==
  ASSUME IInv, EmitFrame
  PROVE  IInv'
<1> USE DEF IInv
<1>1. BufferTypes /\ received \subseteq Seqs
  BY TypesOfBuffer
<1>2. PICK n \in 0 .. MaxSeq, k \in Kinds :
        PopFrame(n, k) /\ out' = [slot |-> n, kind |-> k]
  BY DEF EmitFrame, Kinds
<1>3. /\ budget > 0 /\ budget' = budget - 1 /\ ahead' = ahead + 1
      /\ UNCHANGED <<clock, received>>
  BY DEF EmitFrame
<1>4. /\ BufferTypes' /\ initialized' /\ next' = n + 1
      /\ buffer' = {e \in received : e >= next'}
  BY <1>1, <1>2, PopFrameEffect
<1>5. /\ budget \in Int /\ ahead \in Int /\ budget <= MaxPerTick
      /\ ahead >= 1 - MaxPerTick /\ clock
      /\ 0 < ahead + budget /\ ahead + budget <= MaxAhead
  BY <1>3, ClockAssumption DEF TypeOK, TickIsSound
<1>6. TypeOK'
  <2>1. budget' \in 0 .. MaxPerTick /\ ahead' \in 1 - MaxPerTick .. MaxAhead
    BY <1>3, <1>5, ClockAssumption
  <2>2. out' \in [slot : -1 .. MaxSeq, kind : {"none", "ready", "silence", "fec", "loss"}]
    BY <1>2, BufferAssumption DEF Kinds
  <2> QED BY <1>3, <1>4, <2>1, <2>2 DEF TypeOK, BufferTypes
<1>7. BufferIsWhatIsDue'
  BY <1>3, <1>4 DEF BufferIsWhatIsDue
<1>8. EmittedIsBehind' /\ Fresh'
  <2>1. n \in Int /\ out'.slot = n
    BY <1>2, BufferAssumption
  <2> QED BY <1>4, <2>1 DEF EmittedIsBehind, Fresh
<1>9. TickIsSound'
  BY <1>3, <1>5 DEF TickIsSound
<1> QED BY <1>6, <1>7, <1>8, <1>9

\* A tick that runs dry keeps the invariant.
LEMMA StarveInvariant ==
  ASSUME IInv, Starve
  PROVE  IInv'
<1> USE DEF IInv
<1>1. /\ UNCHANGED bufferVars
      /\ clock' = FALSE /\ budget' = 0 /\ ahead' = 0 /\ UNCHANGED <<out, received>>
  BY TypesOfBuffer, PopNotReadyEffect DEF Starve
<1>2. TypeOK'
  <2>1. 0 \in 1 - MaxPerTick .. MaxAhead /\ 0 \in 0 .. MaxPerTick
    BY ClockAssumption
  <2>2. FALSE \in BOOLEAN
    OBVIOUS
  <2> QED BY <1>1, <2>1, <2>2, Zenon DEF TypeOK, bufferVars
<1> QED BY <1>1, <1>2
        DEF BufferIsWhatIsDue, Fresh, EmittedIsBehind, TickIsSound, bufferVars

\* Every step keeps the invariant.
LEMMA NextInvariant ==
  ASSUME IInv, [Next]_vars
  PROVE  IInv'
<1>1. ASSUME NEW s \in Seqs, Arrive(s) PROVE IInv'
  BY <1>1, ArriveInvariant
<1>2. ASSUME NEW late \in 0 .. MaxLate, Tick(late) PROVE IInv'
  BY <1>2, TickInvariant
<1>3. CASE EmitFrame
  BY <1>3, EmitFrameInvariant
<1>4. CASE Starve
  BY <1>4, StarveInvariant
<1>5. CASE UNCHANGED vars
  BY <1>5 DEF vars, bufferVars, IInv, TypeOK, BufferIsWhatIsDue, Fresh,
     EmittedIsBehind, TickIsSound
<1> QED BY <1>1, <1>2, <1>3, <1>4, <1>5 DEF Next, Playout

-----------------------------------------------------------------------------
(* Theorems *)

\* The inductive invariant of the playout.
THEOREM Invariant == Spec => []IInv
<1>1. Init => IInv
  BY InitInvariant
<1>2. IInv /\ [Next]_vars => IInv'
  BY NextInvariant
<1> QED BY <1>1, <1>2, PTL DEF Spec

\* Every variable keeps its type, and no stream makes buffer_ outgrow its bound.
THEOREM TypeCorrect == Spec => []TypeOK
<1>1. IInv => TypeOK
  BY DEF IInv
<1> QED BY <1>1, Invariant, PTL

\* Whatever came and whenever it came, buffer_ holds what arrived and is still
\* due, no more and no less.
THEOREM BufferIsExact == Spec => []BufferIsWhatIsDue
<1>1. IInv => BufferIsWhatIsDue
  BY DEF IInv
<1> QED BY <1>1, Invariant, PTL

\* However late the timer fires, a tick that does not run dry pays what is due.
THEOREM ClockAlwaysPaid == Spec => []ClockIsPaid
<1>1. IInv => ClockIsPaid
  BY ClockAssumption DEF IInv, TypeOK, TickIsSound, ClockIsPaid
<1> QED BY <1>1, Invariant, PTL

\* Only emitOneFrame emits, and what it emits, it emits as Pop says.
LEMMA EmitEffect ==
  ASSUME IInv, [Next]_vars, out' # out
  PROVE  \E n \in 0 .. MaxSeq, k \in Kinds :
           /\ PopFrame(n, k) /\ out' = [slot |-> n, kind |-> k]
           /\ received' = received
<1>1. ASSUME NEW s \in Seqs, Arrive(s) PROVE FALSE
  BY <1>1 DEF Arrive
<1>2. ASSUME NEW late \in 0 .. MaxLate, Tick(late) PROVE FALSE
  BY <1>2 DEF Tick
<1>3. ~Starve /\ ~UNCHANGED vars
  BY DEF Starve, vars
<1>4. EmitFrame
  BY <1>1, <1>2, <1>3 DEF Next, Playout
<1> QED BY <1>4 DEF EmitFrame, Kinds

\* Playout never goes back: no slot is emitted twice, none after a later one.
THEOREM PlayoutInOrder == Spec => SlotsInOrder
<1>1. ASSUME IInv, [Next]_vars, out' # out PROVE out'.slot > out.slot
  <2>1. PICK n \in 0 .. MaxSeq, k \in Kinds :
          PopFrame(n, k) /\ out' = [slot |-> n, kind |-> k]
    BY <1>1, EmitEffect
  <2>2. initialized /\ n >= next
    BY <1>1, <2>1, TypesOfBuffer, PopFrameEffect DEF IInv
  <2>3. out.slot \in Int /\ next \in Int /\ n \in Int /\ out'.slot = n
    BY <1>1, <2>1, BufferAssumption DEF IInv, TypeOK
  <2> QED BY <1>1, <2>2, <2>3 DEF IInv, EmittedIsBehind
<1> QED BY <1>1, Invariant, PTL DEF Spec, SlotsInOrder

\* A slot is concealed exactly when its frame is not there, and never because
\* reordering, repetition or a jump lost a frame that had come in time.
THEOREM ConcealmentIsHonest == Spec => ConcealsRealGaps
<1> DEFINE Honest ==
      LET n == out'.slot
      IN  /\ out'.kind \in {"fec", "loss"} <=> n \notin received
          /\ out'.kind = "fec" => n + 1 \in received
          /\ \E s \in received : s >= n
<1>1. ASSUME IInv, [Next]_vars, out' # out PROVE Honest
  <2>1. PICK n \in 0 .. MaxSeq, k \in Kinds :
          PopFrame(n, k) /\ out' = [slot |-> n, kind |-> k]
    BY <1>1, EmitEffect
  <2>2. out'.slot = n /\ out'.kind = k
    BY <2>1
  <2>3. /\ k \in {"fec", "loss"} <=> n \notin received
        /\ k = "fec" => n + 1 \in received
        /\ \E e \in received : e >= n
    BY <1>1, <2>1, TypesOfBuffer, PopFrameEffect DEF IInv
  <2> QED BY <2>2, <2>3
<1> HIDE DEF Honest
<1>2. IInv /\ [Next]_vars => [out' # out => Honest]_vars
  BY <1>1
<1>3. Spec => [][out' # out => Honest]_vars
  BY <1>2, Invariant, PTL DEF Spec
<1> QED BY <1>3 DEF ConcealsRealGaps, Honest

\* Each slot comes out once, in order, and as what the network left of it.
THEOREM SlotsAlwaysTrue == Spec => SlotsAreTrue
BY PlayoutInOrder, ConcealmentIsHonest DEF SlotsAreTrue

\* What is left waiting after a frame is less than the target depth and the
\* slack ahead, whatever the target depth has become.
THEOREM LatencyBound == Spec => LatencyIsBounded
<1>1. ASSUME IInv, [Next]_vars, out' # out
      PROVE  \A s \in buffer' : s < next' + target + Slack - 1
  <2>1. PICK n \in 0 .. MaxSeq, k \in Kinds : PopFrame(n, k)
    BY <1>1, EmitEffect
  <2> QED BY <1>1, <2>1, TypesOfBuffer, PopFrameEffect DEF IInv
<1>2. IInv /\ [Next]_vars =>
        [out' # out => \A s \in buffer' : s < next' + target + Slack - 1]_vars
  BY <1>1
<1> QED BY <1>2, Invariant, PTL DEF Spec, LatencyIsBounded

=============================================================================
