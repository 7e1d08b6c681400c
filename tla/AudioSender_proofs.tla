-------------------------- MODULE AudioSender_proofs --------------------------
(***************************************************************************)
(* The phone's sender, for every capacity, chunk, backlog and number of    *)
(* samples: the queue between its threads is a FIFO, the plain accesses of *)
(* the two sides never meet, no sample is unaccounted for and stop()       *)
(* flushes.  That both sides get on is liveness, which only TLC checks.    *)
(*                                                                         *)
(* The ring's cells are counted from the reader's index: the samples that  *)
(* wait, then those that a Write under way has copied, lie in cells 0, 1,  *)
(* 2, ... in the order of acceptance.                                      *)
(***************************************************************************)
EXTENDS AudioSender, TLAPS

Waiting == accepted - consumed

RoomIsKept ==
  /\ Waiting \in 0 .. Capacity
  /\ Waiting + giving <= Capacity
  /\ taking <= Waiting

WriterIsAtTheEnd == writeIndex = Wrap(readIndex + Waiting)

CellsInOrder ==
  \A k \in 0 .. Waiting + copied - 1 :
    storage[Wrap(readIndex + k)] = consumed + k + 1

FetchedInOrder == \A i \in 1 .. fetched : drained[i] = consumed + i

RingInv ==
  RingTypeOK /\ RoomIsKept /\ WriterIsAtTheEnd /\ CellsInOrder /\ FetchedInOrder

-----------------------------------------------------------------------------
(* Counting round the storage *)

\* An index one step short of twice round is brought back into the storage.
LEMMA WrapInRange ==
  ASSUME NEW a \in 0 .. Size - 1, NEW n \in 0 .. Capacity
  PROVE  Wrap(a + n) \in 0 .. Size - 1
BY RingAssumption DEF Wrap, Size

\* Going round in two moves or in one leads to the same cell.
LEMMA WrapTwice ==
  ASSUME NEW a \in 0 .. Size - 1, NEW m \in Nat, NEW n \in Nat, m + n <= Capacity
  PROVE  Wrap(Wrap(a + m) + n) = Wrap(a + (m + n))
BY RingAssumption DEF Wrap, Size

\* Cells at different distances are different cells.
LEMMA WrapInjective ==
  ASSUME NEW a \in 0 .. Size - 1, NEW m \in 0 .. Capacity, NEW n \in 0 .. Capacity,
         Wrap(a + m) = Wrap(a + n)
  PROVE  m = n
BY RingAssumption DEF Wrap, Size

\* available() and the free room, computed from the indices alone, are what the
\* history says: one empty cell is enough to tell full from empty.
LEMMA IndicesTell ==
  ASSUME RingInv
  PROVE  Available = Waiting /\ Free = Capacity - Waiting
BY RingAssumption
   DEF RingInv, RingTypeOK, RoomIsKept, WriterIsAtTheEnd, Available, Free, Wrap, Size

-----------------------------------------------------------------------------
(* The operations *)

LEMMA RingStarts == RingInit => RingInv
BY RingAssumption
   DEF RingInit, RingInv, RingTypeOK, RoomIsKept, WriterIsAtTheEnd, CellsInOrder,
       FetchedInOrder, Waiting, Wrap, Size

LEMMA BeginWriteKeeps ==
  ASSUME RingInv, giving = 0, NEW n \in Nat, BeginWrite(n), UNCHANGED readVars
  PROVE  RingInv' /\ giving' \in 0 .. n
<1>1. Free = Capacity - Waiting
  BY IndicesTell
<1>2. /\ giving' \in 0 .. Capacity - Waiting /\ giving' <= n
      /\ Waiting' = Waiting /\ copied' = 0 /\ copied = 0
  BY <1>1, RingAssumption
     DEF RingInv, RingTypeOK, RoomIsKept, BeginWrite, readVars, Least, Waiting
<1>3. RingTypeOK' /\ RoomIsKept'
  BY <1>2, RingAssumption
     DEF RingInv, RingTypeOK, RoomIsKept, BeginWrite, readVars, Waiting
<1>4. WriterIsAtTheEnd' /\ CellsInOrder' /\ FetchedInOrder'
  BY <1>2
     DEF RingInv, WriterIsAtTheEnd, CellsInOrder, FetchedInOrder, BeginWrite,
         readVars, Wrap
<1>5. QED
  BY <1>2, <1>3, <1>4 DEF RingInv

LEMMA CopyInKeeps ==
  ASSUME RingInv, CopyIn, UNCHANGED readVars
  PROVE  RingInv'
<1> DEFINE cell == Wrap(writeIndex + copied)
<1>1. /\ Waiting \in Nat /\ copied \in Nat /\ Waiting + copied < Capacity
      /\ accepted = consumed + Waiting /\ Waiting' = Waiting
      /\ readIndex \in 0 .. Size - 1 /\ readIndex' = readIndex
      /\ copied' = copied + 1 /\ accepted \in Nat /\ consumed \in Nat
      /\ consumed' = consumed
  BY RingAssumption DEF RingInv, RingTypeOK, RoomIsKept, CopyIn, readVars, Waiting
<1>2. cell = Wrap(readIndex + (Waiting + copied))
  <2>1. writeIndex = Wrap(readIndex + Waiting) /\ Waiting + copied <= Capacity
    BY <1>1, RingAssumption DEF RingInv, WriterIsAtTheEnd
  <2>2. QED
    BY <1>1, <2>1, WrapTwice
<1>3. cell \in 0 .. Size - 1
  BY <1>1, <1>2, WrapInRange, RingAssumption
<1>4. storage' = [storage EXCEPT ![cell] = accepted + copied + 1]
  BY DEF CopyIn
<1>5. RingTypeOK'
  <2>1. storage' \in [0 .. Size - 1 -> Nat]
    BY <1>1, <1>3, <1>4 DEF RingInv, RingTypeOK
  <2>2. QED
    BY <2>1 DEF RingInv, RingTypeOK, CopyIn, readVars
<1>6. RoomIsKept' /\ WriterIsAtTheEnd' /\ FetchedInOrder'
  BY <1>1
     DEF RingInv, RoomIsKept, WriterIsAtTheEnd, FetchedInOrder, CopyIn, readVars, Wrap
<1>7. CellsInOrder'
  <2> SUFFICES ASSUME NEW k \in 0 .. Waiting + copied
               PROVE  storage'[Wrap(readIndex + k)] = consumed + k + 1
    BY <1>1 DEF CellsInOrder, Wrap
  <2>1. CASE k = Waiting + copied
    BY <2>1, <1>1, <1>2, <1>3, <1>4 DEF RingInv, RingTypeOK
  <2>2. CASE k # Waiting + copied
    <3>1. k \in 0 .. Waiting + copied - 1
      BY <2>2, <1>1
    <3> k \in 0 .. Capacity /\ Waiting + copied \in 0 .. Capacity
      BY <3>1, <1>1, RingAssumption
    <3>2. Wrap(readIndex + k) # cell /\ Wrap(readIndex + k) \in 0 .. Size - 1
      BY <2>2, <1>1, <1>2, WrapInjective, WrapInRange
    <3>3. storage'[Wrap(readIndex + k)] = storage[Wrap(readIndex + k)]
      BY <3>2, <1>4 DEF RingInv, RingTypeOK
    <3>4. QED
      BY <3>1, <3>3 DEF RingInv, CellsInOrder
  <2>3. QED
    BY <2>1, <2>2
<1>8. QED
  BY <1>5, <1>6, <1>7 DEF RingInv

LEMMA EndWriteKeeps ==
  ASSUME RingInv, EndWrite, UNCHANGED readVars
  PROVE  RingInv'
<1>1. /\ Waiting \in Nat /\ giving \in Nat /\ Waiting + giving <= Capacity
      /\ Waiting' = Waiting + giving /\ copied = giving /\ copied' = 0 /\ giving' = 0
      /\ readIndex \in 0 .. Size - 1 /\ readIndex' = readIndex
      /\ accepted \in Nat /\ consumed \in Nat /\ consumed' = consumed
      /\ taking' = taking /\ taking <= Waiting /\ taking \in Nat
  BY RingAssumption DEF RingInv, RingTypeOK, RoomIsKept, EndWrite, readVars, Waiting
<1>2. writeIndex' = Wrap(readIndex + (Waiting + giving))
  BY <1>1, WrapTwice DEF RingInv, WriterIsAtTheEnd, EndWrite
<1>3. RingTypeOK' /\ RoomIsKept'
  <2>1. writeIndex' \in 0 .. Size - 1
    BY <1>1, <1>2, WrapInRange, RingAssumption
  <2>2. RingTypeOK'
    BY <2>1, <1>1, RingAssumption DEF RingInv, RingTypeOK, EndWrite, readVars
  <2>3. QED
    BY <2>2, <1>1, RingAssumption DEF RoomIsKept
<1>4. WriterIsAtTheEnd' /\ CellsInOrder' /\ FetchedInOrder'
  BY <1>1, <1>2
     DEF RingInv, WriterIsAtTheEnd, CellsInOrder, FetchedInOrder, EndWrite, readVars, Wrap
<1>5. QED
  BY <1>3, <1>4 DEF RingInv

LEMMA BeginReadKeeps ==
  ASSUME RingInv, taking = 0, BeginRead, UNCHANGED writeVars
  PROVE  /\ RingInv'
         /\ taking' <= Waiting
         /\ taking' < Chunk => taking' = Waiting
<1>1. Available = Waiting
  BY IndicesTell
<1>2. /\ taking' \in 0 .. Chunk /\ taking' <= Waiting
      /\ taking' < Chunk => taking' = Waiting
      /\ Waiting' = Waiting /\ fetched' = 0
  BY <1>1, RingAssumption
     DEF RingInv, RingTypeOK, RoomIsKept, BeginRead, writeVars, Least, Waiting
<1>3. RingTypeOK' /\ RoomIsKept'
  BY <1>2, RingAssumption
     DEF RingInv, RingTypeOK, RoomIsKept, BeginRead, writeVars, Waiting
<1>4. WriterIsAtTheEnd' /\ CellsInOrder' /\ FetchedInOrder'
  BY <1>2
     DEF RingInv, WriterIsAtTheEnd, CellsInOrder, FetchedInOrder, BeginRead,
         writeVars, Wrap
<1>5. QED
  BY <1>2, <1>3, <1>4 DEF RingInv

LEMMA CopyOutKeeps ==
  ASSUME RingInv, CopyOut, UNCHANGED writeVars
  PROVE  RingInv'
<1>1. /\ fetched \in Nat /\ fetched < taking /\ taking <= Waiting
      /\ Waiting \in 0 .. Capacity /\ taking \in 0 .. Chunk /\ copied \in Nat
      /\ readIndex \in 0 .. Size - 1 /\ fetched' = fetched + 1
      /\ consumed \in Nat /\ consumed' = consumed /\ Waiting' = Waiting
      /\ drained \in [1 .. Chunk -> Nat]
      /\ storage \in [0 .. Size - 1 -> Nat]
  BY RingAssumption DEF RingInv, RingTypeOK, RoomIsKept, CopyOut, writeVars, Waiting
<1>2. storage[Wrap(readIndex + fetched)] = consumed + fetched + 1
  <2>1. fetched \in 0 .. Waiting + copied - 1
    BY <1>1, RingAssumption
  <2>2. QED
    BY <2>1 DEF RingInv, CellsInOrder
<1>3. drained' = [drained EXCEPT ![fetched + 1] = consumed + (fetched + 1)]
  <2>1. storage[Wrap(readIndex + fetched)] = consumed + (fetched + 1)
    BY <1>1, <1>2
  <2>2. QED
    BY <2>1 DEF CopyOut
<1>4. fetched + 1 \in 1 .. Chunk
  BY <1>1, RingAssumption
<1>5. RingTypeOK'
  <2>1. drained' \in [1 .. Chunk -> Nat]
    BY <1>1, <1>3, <1>4
  <2>2. QED
    BY <2>1 DEF RingInv, RingTypeOK, CopyOut, writeVars
<1>6. RoomIsKept' /\ WriterIsAtTheEnd' /\ CellsInOrder'
  BY <1>1
     DEF RingInv, RoomIsKept, WriterIsAtTheEnd, CellsInOrder, CopyOut, writeVars, Wrap
<1>7. FetchedInOrder'
  <2> SUFFICES ASSUME NEW i \in 1 .. fetched + 1
               PROVE  drained'[i] = consumed + i
    BY <1>1 DEF FetchedInOrder
  <2>1. CASE i = fetched + 1
    BY <2>1, <1>1, <1>3, <1>4
  <2>2. CASE i # fetched + 1
    BY <2>2, <1>1, <1>3, <1>4 DEF RingInv, FetchedInOrder
  <2>3. QED
    BY <2>1, <2>2
<1>8. QED
  BY <1>5, <1>6, <1>7 DEF RingInv

\* Moving the reader's index by n of the samples that wait keeps the order.
LEMMA ReaderMoves ==
  ASSUME RingInv, NEW n \in 0 .. Waiting, UNCHANGED writeVars,
         readIndex' = Wrap(readIndex + n), consumed' = consumed + n,
         taking' = 0, fetched' = 0, drained' = drained
  PROVE  RingInv'
<1>1. /\ Waiting \in 0 .. Capacity /\ Waiting + giving <= Capacity
      /\ Waiting' = Waiting - n /\ copied \in 0 .. giving /\ giving \in Nat
      /\ readIndex \in 0 .. Size - 1 /\ accepted \in Nat /\ consumed \in Nat
      /\ accepted' = accepted /\ copied' = copied /\ giving' = giving
      /\ storage' = storage /\ writeIndex' = writeIndex
  BY RingAssumption DEF RingInv, RingTypeOK, RoomIsKept, writeVars, Waiting
<1>2. RingTypeOK'
  <2>1. readIndex' \in 0 .. Size - 1
    BY <1>1, WrapInRange, RingAssumption
  <2>2. QED
    BY <2>1, <1>1, RingAssumption DEF RingInv, RingTypeOK
<1>3. RoomIsKept'
  BY <1>1, RingAssumption DEF RoomIsKept
<1>4. WriterIsAtTheEnd'
  <2>1. Wrap(readIndex' + (Waiting - n)) = Wrap(readIndex + (n + (Waiting - n)))
    BY <1>1, WrapTwice, RingAssumption
  <2>2. n + (Waiting - n) = Waiting
    BY <1>1
  <2>3. QED
    BY <2>1, <2>2, <1>1 DEF RingInv, WriterIsAtTheEnd, Wrap
<1>5. CellsInOrder'
  <2> SUFFICES ASSUME NEW k \in 0 .. Waiting - n + copied - 1
               PROVE  storage[Wrap(readIndex' + k)] = consumed + n + k + 1
    BY <1>1 DEF CellsInOrder, Wrap
  <2>1. n + k \in 0 .. Waiting + copied - 1 /\ n + k <= Capacity
        /\ n \in Nat /\ k \in Nat
    BY <1>1, RingAssumption
  <2>2. Wrap(readIndex' + k) = Wrap(readIndex + (n + k))
    BY <2>1, <1>1, WrapTwice
  <2>3. storage[Wrap(readIndex + (n + k))] = consumed + (n + k) + 1
    BY <2>1 DEF RingInv, CellsInOrder
  <2>4. QED
    BY <2>1, <2>2, <2>3, <1>1
<1>6. FetchedInOrder'
  BY DEF FetchedInOrder
<1>7. QED
  BY <1>2, <1>3, <1>4, <1>5, <1>6 DEF RingInv

LEMMA EndReadKeeps ==
  ASSUME RingInv, EndRead, UNCHANGED writeVars
  PROVE  /\ RingInv'
         /\ handed' = [i \in 1 .. taking |-> consumed + i]
         /\ taking \in 1 .. Waiting
<1>1. taking \in 1 .. Waiting /\ taking \in 0 .. Waiting /\ fetched = taking
  BY RingAssumption DEF RingInv, RingTypeOK, RoomIsKept, EndRead
<1>2. RingInv'
  BY <1>1, ReaderMoves DEF EndRead
<1>3. \A i \in 1 .. taking : drained[i] = consumed + i
  BY <1>1 DEF RingInv, FetchedInOrder
<1>4. QED
  BY <1>1, <1>2, <1>3 DEF EndRead

LEMMA DiscardKeeps ==
  ASSUME RingInv, taking = 0, NEW n \in Nat, Discard(n), UNCHANGED writeVars
  PROVE  RingInv' /\ Discarded(n) \in 0 .. Waiting
<1>1. Discarded(n) \in 0 .. Waiting
  BY IndicesTell, RingAssumption DEF Discarded, Least, RingInv, RoomIsKept
<1>2. fetched = 0
  BY RingAssumption DEF RingInv, RingTypeOK
<1>3. QED
  BY <1>1, <1>2, ReaderMoves DEF Discard

\* The cells the producer has still to write and those the consumer has still
\* to read are at different distances from the reader's index.
LEMMA SidesApart ==
  ASSUME RingInv, NEW i \in copied .. giving - 1, NEW j \in fetched .. taking - 1
  PROVE  Wrap(writeIndex + i) # Wrap(readIndex + j)
<1>1. /\ i \in Nat /\ j \in Nat /\ Waiting \in Nat /\ j < Waiting
      /\ Waiting + i < Capacity /\ readIndex \in 0 .. Size - 1
  BY RingAssumption DEF RingInv, RingTypeOK, RoomIsKept
<1>2. Wrap(writeIndex + i) = Wrap(readIndex + (Waiting + i))
  <2>1. writeIndex = Wrap(readIndex + Waiting) /\ Waiting + i <= Capacity
    BY <1>1, RingAssumption DEF RingInv, WriterIsAtTheEnd
  <2>2. QED
    BY <1>1, <2>1, WrapTwice
<1>3. /\ Waiting + i \in 0 .. Capacity /\ j \in 0 .. Capacity /\ Waiting + i # j
  BY <1>1, RingAssumption
<1>4. QED
  BY <1>1, <1>2, <1>3, WrapInjective

-----------------------------------------------------------------------------
(* The sender *)

\* Which thread is inside which operation of the ring.
InsideRing ==
  /\ callback # "write" => giving = 0
  /\ callback = "idle" => refused = 0
  /\ worker # "copy" => taking = 0
  /\ worker = "trim" => waiting > Backlog

\* How far stop() has got, as the two other threads can rely on it.
StopInOrder ==
  /\ owner \in {"new", "opened", "failed"} => worker = "none"
  /\ owner # "started" => ~captureReady
  /\ owner \in {"telling", "joining", "stopped"} => callback = "idle"
  /\ flushing => owner \in {"telling", "joining", "stopped"}
  /\ worker # "none" /\ ~workerRunning => owner \in {"telling", "joining", "stopped"}

\* The last drain leaves nothing: a read that is not filled has taken all.
LastDrain ==
  /\ flushing /\ worker = "copy" /\ taking < Chunk => taking = Waiting
  /\ worker = "done" => flushing /\ Waiting = 0
  /\ owner = "stopped" => worker = "done"
  /\ flushing => worker \notin {"none", "loop", "wait", "woken"}

IInv == TypeOK /\ RingInv /\ InsideRing /\ Accounted /\ StopInOrder /\ LastDrain

-----------------------------------------------------------------------------
(* Initially *)

LEMMA Starts == Init => IInv
<1> SUFFICES ASSUME Init
             PROVE  IInv
  OBVIOUS
<1>1. RingInv
  BY RingStarts DEF Init
<1>2. TypeOK
  <2>1. 0 \in 0 .. Capacity /\ 0 \in Nat
    BY RingAssumption
  <2>2. QED
    BY <1>1, <2>1 DEF Init, TypeOK, RingInv
<1>3. InsideRing /\ Accounted /\ StopInOrder /\ LastDrain
  BY DEF Init, RingInit, InsideRing, Accounted, StopInOrder, LastDrain
<1>4. QED
  BY <1>1, <1>2, <1>3 DEF IInv

-----------------------------------------------------------------------------
(* The device's thread *)

LEMMA SliceStep ==
  ASSUME IInv, NEW n \in 1 .. MaxCaptured, callback # "write", Slice(n),
         captureReady \/ callback = "post",
         dropped' = dropped + refused
  PROVE  IInv'
<1> USE SenderAssumption
<1>1. RingInv' /\ giving' \in 0 .. n
  BY BeginWriteKeeps DEF IInv, InsideRing, Slice
<1>2. giving = 0 /\ accepted' = accepted /\ consumed' = consumed /\ taking' = taking
  BY DEF IInv, InsideRing, Slice, BeginWrite, readVars
<1>3. /\ callback' = IF giving' = 0 THEN "post" ELSE "write"
      /\ UNCHANGED <<stream, captureReady, workerRunning, wake, waiting, flushing, worker,
                     owner, sent>>
  BY DEF Slice, captureVars
<1> DEFINE new == giving'
<1>4. /\ captured \in Nat /\ refused \in Nat /\ dropped \in Nat /\ sent \in Nat
      /\ accepted \in Nat /\ consumed \in Nat /\ new \in 0 .. n /\ n \in Nat
  BY <1>1 DEF IInv, TypeOK, RingTypeOK
<1>5. /\ refused' = n - new /\ captured' = captured + n
      /\ dropped' = dropped + refused
  BY DEF Slice
<1> HIDE DEF new
<1>6. refused' \in Nat /\ captured' \in Nat /\ dropped' \in Nat
  BY <1>4, <1>5
<1>7. TypeOK'
  BY <1>1, <1>3, <1>6 DEF IInv, TypeOK, RingInv
<1>8. InsideRing'
  BY <1>1, <1>2, <1>3 DEF IInv, InsideRing
<1>9. Accounted'
  <2>1. captured = sent + (accepted - consumed) + 0 + refused + dropped
    BY <1>2 DEF IInv, Accounted
  <2>2. captured' = sent + (accepted - consumed) + new + refused' + dropped'
    BY <2>1, <1>4, <1>5
  <2>3. QED
    BY <2>2, <1>2, <1>3 DEF Accounted, new
<1>10. owner \notin {"telling", "joining", "stopped"}
  BY DEF IInv, StopInOrder
<1>11. StopInOrder' /\ LastDrain'
  BY <1>2, <1>3, <1>10 DEF IInv, StopInOrder, LastDrain, Waiting
<1>12. QED
  BY <1>1, <1>7, <1>8, <1>9, <1>11 DEF IInv

LEMMA CaptureStep ==
  ASSUME IInv, NEW n \in 1 .. MaxCaptured, Capture(n)
  PROVE  IInv'
<1>1. dropped' = dropped + refused
  BY DEF Capture, Delivers, IInv, TypeOK, InsideRing
<1>2. QED
  BY <1>1, SliceStep DEF Capture, Delivers

LEMMA NextSliceStep ==
  ASSUME IInv, NEW n \in 1 .. MaxCaptured, NextSlice(n)
  PROVE  IInv'
BY SliceStep DEF NextSlice

LEMMA WriteSamplesStep ==
  ASSUME IInv, WriteSamples
  PROVE  IInv'
<1>1. owner \notin {"telling", "joining", "stopped"} /\ callback = "write"
  BY DEF IInv, StopInOrder, WriteSamples
<1>2. /\ UNCHANGED <<taking, consumed, stream, captureReady, workerRunning, wake, refused,
                     waiting, flushing, worker, owner, captured, sent, dropped>>
  BY DEF WriteSamples, readVars, threadVars, captureVars
<1>3. CASE CopyIn /\ UNCHANGED callback
  <2>1. RingInv'
    BY <1>3, CopyInKeeps DEF IInv, WriteSamples
  <2>2. UNCHANGED <<accepted, giving>>
    BY <1>3 DEF CopyIn
  <2>3. TypeOK'
    BY <1>2, <1>3, <2>1 DEF IInv, TypeOK, RingInv
  <2>4. InsideRing' /\ Accounted' /\ StopInOrder' /\ LastDrain'
    BY <1>2, <1>3, <2>2
       DEF IInv, InsideRing, Accounted, StopInOrder, LastDrain, Waiting
  <2>5. QED
    BY <2>1, <2>3, <2>4 DEF IInv
<1>4. CASE EndWrite /\ callback' = "post"
  <2>1. RingInv'
    BY <1>4, EndWriteKeeps DEF IInv, WriteSamples
  <2>2. accepted' = accepted + giving /\ giving' = 0 /\ giving \in Nat
    BY <1>4, RingAssumption DEF EndWrite, IInv, TypeOK, RingTypeOK
  <2>3. TypeOK'
    BY <1>2, <1>4, <2>1 DEF IInv, TypeOK, RingInv
  <2>4. InsideRing' /\ StopInOrder' /\ LastDrain'
    BY <1>1, <1>2, <1>4, <2>2 DEF IInv, InsideRing, StopInOrder, LastDrain
  <2>5. Accounted'
    BY <1>2, <2>2 DEF IInv, Accounted, TypeOK, RingTypeOK
  <2>6. QED
    BY <2>1, <2>3, <2>4, <2>5 DEF IInv
<1>5. QED
  BY <1>3, <1>4 DEF WriteSamples

\* A step that leaves the ring alone keeps what the ring promises.
LEMMA RingUntouched ==
  ASSUME IInv, UNCHANGED ringVars
  PROVE  /\ RingInv' /\ RingTypeOK'
         /\ UNCHANGED <<accepted, consumed, giving, taking, Waiting, Available>>
BY DEF IInv, RingInv, RingTypeOK, RoomIsKept, WriterIsAtTheEnd, CellsInOrder,
       FetchedInOrder, Waiting, Available, Wrap, ringVars, writeVars, readVars

LEMMA PostStep ==
  ASSUME IInv, Post
  PROVE  IInv'
<1>1. RingInv' /\ RingTypeOK' /\ UNCHANGED <<accepted, consumed, giving, taking, Waiting>>
  BY RingUntouched DEF Post, captureVars
<1>2. dropped' \in Nat /\ wake' \in Nat
  BY DEF Post, captureVars, Posted, IInv, TypeOK
<1>3. TypeOK'
  BY <1>1, <1>2 DEF Post, captureVars, IInv, TypeOK
<1>4. Accounted'
  BY <1>1 DEF Post, captureVars, IInv, Accounted, TypeOK, RingTypeOK
<1>5. InsideRing' /\ StopInOrder' /\ LastDrain'
  BY <1>1 DEF Post, captureVars, IInv, InsideRing, StopInOrder, LastDrain
<1>6. QED
  BY <1>1, <1>3, <1>4, <1>5 DEF IInv

-----------------------------------------------------------------------------
(* The worker *)

LEMMA TestStep ==
  ASSUME IInv,
         NEW from \in {"loop", "woken"}, NEW to \in {"wait", "drain"}, Test(from, to),
         from = "loop" => to = "wait", from = "woken" => to = "drain"
  PROVE  IInv'
<1>1. RingInv' /\ RingTypeOK' /\ UNCHANGED <<accepted, consumed, giving, taking, Waiting>>
  BY RingUntouched DEF Test, captureVars
<1>2. TypeOK'
  BY <1>1 DEF Test, captureVars, AfterLoop, IInv, TypeOK
<1>3. Accounted' /\ InsideRing'
  BY <1>1 DEF Test, captureVars, AfterLoop, IInv, Accounted, InsideRing
<1>4. StopInOrder' /\ LastDrain'
  BY <1>1 DEF Test, captureVars, AfterLoop, IInv, StopInOrder, LastDrain, TypeOK
<1>5. QED
  BY <1>1, <1>2, <1>3, <1>4 DEF IInv

LEMMA SleepStep ==
  ASSUME IInv, Sleep
  PROVE  IInv'
<1>1. RingInv' /\ RingTypeOK' /\ UNCHANGED <<accepted, consumed, giving, taking, Waiting>>
  BY RingUntouched DEF Sleep, captureVars
<1>2. wake' \in Nat
  BY DEF Sleep, captureVars, IInv, TypeOK
<1>3. TypeOK'
  BY <1>1, <1>2 DEF Sleep, captureVars, IInv, TypeOK
<1>4. Accounted' /\ InsideRing' /\ StopInOrder' /\ LastDrain'
  BY <1>1 DEF Sleep, captureVars, IInv, Accounted, InsideRing, StopInOrder, LastDrain
<1>5. QED
  BY <1>1, <1>3, <1>4 DEF IInv

LEMMA LookStep ==
  ASSUME IInv, Look
  PROVE  IInv'
<1>1. RingInv' /\ RingTypeOK' /\ UNCHANGED <<accepted, consumed, giving, taking, Waiting>>
  BY RingUntouched DEF Look, captureVars
<1>3. waiting' \in 0 .. Capacity
  BY IndicesTell DEF Look, captureVars, IInv, RingInv, RoomIsKept
<1>4. worker' \in {"trim", "read"}
  BY DEF Look, captureVars
<1>5. TypeOK'
  BY <1>1, <1>3, <1>4 DEF Look, captureVars, IInv, TypeOK
<1>6. worker' = "trim" => waiting' > Backlog
  BY DEF Look, captureVars
<1>7. Accounted' /\ InsideRing' /\ StopInOrder' /\ LastDrain'
  BY <1>1, <1>4, <1>6 DEF Look, captureVars, IInv, Accounted, InsideRing, StopInOrder, LastDrain
<1>8. QED
  BY <1>1, <1>5, <1>7 DEF IInv

LEMMA TrimStep ==
  ASSUME IInv, Trim
  PROVE  IInv' /\ Discarded(waiting - Backlog) \in 0 .. Waiting
<1> DEFINE n == Discarded(waiting - Backlog)
<1>1. waiting - Backlog \in Nat /\ taking = 0
  BY SenderAssumption, RingAssumption DEF Trim, IInv, TypeOK, InsideRing
<1>2. RingInv' /\ n \in 0 .. Waiting
  BY <1>1, DiscardKeeps DEF Trim, IInv
<1>3. /\ consumed' = consumed + n /\ dropped' = dropped + n
      /\ n \in Nat /\ consumed \in Nat /\ accepted \in Nat /\ dropped \in Nat
      /\ UNCHANGED <<accepted, giving, taking>>
      /\ UNCHANGED <<stream, captureReady, workerRunning, wake, refused, waiting, flushing>>
      /\ UNCHANGED <<callback, owner, captured, sent>> /\ worker' = "read"
  BY <1>2 DEF Trim, Discard, Counted, writeVars, threadVars, captureVars, IInv, TypeOK, RingTypeOK,
         RingInv, RoomIsKept
<1> HIDE DEF n
<1>4. TypeOK'
  <2>1. dropped' \in Nat
    BY <1>3
  <2>2. QED
    BY <1>2, <1>3, <2>1 DEF IInv, TypeOK, RingInv
<1>5. Accounted'
  BY <1>3 DEF IInv, Accounted, TypeOK, RingTypeOK
<1>6. InsideRing' /\ StopInOrder' /\ LastDrain'
  BY <1>1, <1>3 DEF Trim, IInv, InsideRing, StopInOrder, LastDrain
<1>7. QED
  BY <1>2, <1>4, <1>5, <1>6 DEF IInv, n

LEMMA StartReadStep ==
  ASSUME IInv, StartRead
  PROVE  IInv'
<1>1. taking = 0
  BY DEF StartRead, IInv, InsideRing
<1>2. RingInv' /\ (taking' < Chunk => taking' = Waiting)
  BY <1>1, BeginReadKeeps DEF StartRead, IInv
<1>3. /\ UNCHANGED <<accepted, consumed, giving>>
      /\ UNCHANGED <<stream, captureReady, workerRunning, wake, refused, waiting, flushing>>
      /\ UNCHANGED <<callback, owner, captured, sent, dropped>>
      /\ worker = "read"
      /\ worker' = IF taking' = 0 THEN Drained ELSE "copy"
  BY DEF StartRead, BeginRead, writeVars, threadVars, captureVars
<1>4. Drained = IF flushing THEN "done" ELSE "loop"
  BY DEF Drained
<1>5. TypeOK'
  BY <1>2, <1>3, <1>4 DEF IInv, TypeOK, RingInv
<1>6. Accounted' /\ InsideRing'
  BY <1>3, <1>4 DEF IInv, Accounted, InsideRing
<1>7. Waiting' = Waiting /\ (taking' = 0 => Waiting = 0)
  BY <1>2, <1>3, RingAssumption DEF Waiting
<1>8. StopInOrder' /\ LastDrain'
  BY <1>2, <1>3, <1>4, <1>7 DEF IInv, StopInOrder, LastDrain, TypeOK
<1>9. QED
  BY <1>2, <1>5, <1>6, <1>8 DEF IInv

LEMMA ReadSamplesStep ==
  ASSUME IInv, ReadSamples
  PROVE  IInv'
<1>1. /\ UNCHANGED <<accepted, giving>>
      /\ UNCHANGED <<stream, captureReady, workerRunning, wake, refused, waiting, flushing>>
      /\ UNCHANGED <<callback, owner, captured, dropped>>
      /\ worker = "copy"
  BY DEF ReadSamples, writeVars, threadVars, captureVars
<1>2. CASE CopyOut /\ UNCHANGED <<worker, sent>>
  <2>1. RingInv'
    BY <1>2, CopyOutKeeps DEF IInv, ReadSamples
  <2>2. UNCHANGED <<taking, consumed, worker, sent>>
    BY <1>2 DEF CopyOut
  <2>3. TypeOK'
    BY <1>1, <2>1, <2>2 DEF IInv, TypeOK, RingInv
  <2>4. Accounted' /\ InsideRing' /\ StopInOrder' /\ LastDrain'
    BY <1>1, <2>2 DEF IInv, Accounted, InsideRing, StopInOrder, LastDrain, Waiting
  <2>5. QED
    BY <2>1, <2>3, <2>4 DEF IInv
<1>3. CASE /\ EndRead /\ sent' = sent + taking
           /\ worker' = IF taking < Chunk THEN Drained ELSE "read"
  <2>1. RingInv' /\ taking \in 1 .. Waiting
    BY <1>3, EndReadKeeps DEF IInv, ReadSamples
  <2>2. consumed' = consumed + taking /\ taking' = 0 /\ sent' = sent + taking
    BY <1>3 DEF EndRead
  <2>3. /\ worker' = IF taking < Chunk THEN Drained ELSE "read"
        /\ Drained = IF flushing THEN "done" ELSE "loop"
    BY <1>3 DEF Drained
  <2>4. /\ taking \in Nat /\ consumed \in Nat /\ accepted \in Nat /\ sent \in Nat
        /\ sent' \in Nat
    BY <2>2, RingAssumption DEF IInv, TypeOK, RingTypeOK
  <2>5. TypeOK'
    BY <1>1, <2>1, <2>3, <2>4 DEF IInv, TypeOK, RingInv
  <2>6. Accounted'
    BY <1>1, <2>2, <2>4 DEF IInv, Accounted, TypeOK
  <2>7. InsideRing'
    BY <1>1, <2>2, <2>3 DEF IInv, InsideRing
  <2>8. flushing /\ taking < Chunk => Waiting' = 0
    BY <1>1, <2>2, <2>4 DEF IInv, LastDrain, Waiting
  <2>9. StopInOrder' /\ LastDrain'
    BY <1>1, <2>3, <2>8 DEF IInv, StopInOrder, LastDrain, TypeOK
  <2>10. QED
    BY <2>1, <2>5, <2>6, <2>7, <2>9 DEF IInv
<1>4. QED
  BY <1>2, <1>3 DEF ReadSamples

LEMMA WorkerStep ==
  ASSUME IInv, Worker
  PROVE  IInv'
<1>1. CASE Test("loop", "wait")
  BY <1>1, TestStep
<1>2. CASE Test("woken", "drain")
  BY <1>2, TestStep
<1>3. QED
  BY <1>1, <1>2, SleepStep, LookStep, TrimStep, StartReadStep, ReadSamplesStep DEF Worker

-----------------------------------------------------------------------------
(* The thread that starts and stops *)

LEMMA OwnerStep ==
  ASSUME IInv, OpenCapture \/ StartFails \/ Start \/ Stop \/ Teardown \/ StreamBreaks
  PROVE  IInv'
<1>1. /\ UNCHANGED ringVars
      /\ UNCHANGED <<refused, waiting, flushing, callback, captured, sent, dropped>>
  BY DEF OpenCapture, StartFails, StreamBreaks, Start, Stop, Teardown, CaptureStops, Tell, Join, threadVars, captureVars
<1>2. RingInv' /\ RingTypeOK' /\ UNCHANGED <<accepted, consumed, giving, taking, Waiting>>
  BY <1>1, RingUntouched
<1>3. wake' \in Nat
  BY DEF OpenCapture, StartFails, StreamBreaks, Start, Stop, Teardown, CaptureStops, Tell, Told, Join, threadVars, captureVars, IInv, TypeOK
<1>4. TypeOK'
  BY <1>1, <1>2, <1>3
     DEF OpenCapture, StartFails, StreamBreaks, Start, Stop, Teardown, CaptureStops, Tell, Join, threadVars, captureVars, IInv, TypeOK
<1>5. Accounted'
  BY <1>1, <1>2 DEF IInv, Accounted
<1>6. InsideRing' /\ StopInOrder' /\ LastDrain'
  BY <1>1, <1>2
     DEF OpenCapture, StartFails, StreamBreaks, Start, Stop, Teardown, CaptureStops, Tell, Join, threadVars, captureVars, IInv, InsideRing,
         StopInOrder, LastDrain, TypeOK
<1>7. QED
  BY <1>2, <1>4, <1>5, <1>6 DEF IInv

-----------------------------------------------------------------------------
(* Theorems *)

LEMMA Stutter ==
  ASSUME IInv, UNCHANGED vars
  PROVE  IInv'
<1>1. RingInv' /\ RingTypeOK' /\ UNCHANGED <<accepted, consumed, giving, taking, Waiting>>
  BY RingUntouched DEF vars
<1>2. QED
  BY <1>1
     DEF vars, threadVars, captureVars, IInv, TypeOK, InsideRing, Accounted, StopInOrder, LastDrain

\* The inductive invariant: it is needed because what the threads may do to the
\* ring follows from where each of them is, and what the last drain leaves from
\* the order in which stop() silences the other two.
THEOREM SenderInvariant == Spec => []IInv
<1>1. ASSUME IInv, [Next]_vars
      PROVE  IInv'
  <2>1. CASE \E n \in 1 .. MaxCaptured : Capture(n) \/ NextSlice(n)
    BY <1>1, <2>1, CaptureStep, NextSliceStep
  <2>2. CASE DeviceThread
    BY <1>1, <2>2, WriteSamplesStep, PostStep DEF DeviceThread
  <2>3. CASE Worker
    BY <1>1, <2>3, WorkerStep
  <2>4. CASE OpenCapture \/ StartFails \/ Start \/ Stop \/ Teardown \/ StreamBreaks
    BY <1>1, <2>4, OwnerStep
  <2>5. CASE UNCHANGED vars
    BY <1>1, <2>5, Stutter
  <2>6. QED
    BY <1>1, <2>1, <2>2, <2>3, <2>4, <2>5 DEF Next
<1>2. QED
  BY <1>1, Starts, PTL DEF Spec

\* Every variable keeps its type, the indices of the ring among them.
THEOREM SenderTypes == Spec => []TypeOK
BY SenderInvariant, PTL DEF IInv

\* Whatever the capacity, the two sides never touch one cell at once, so the
\* memcpys of Write and Read do not race.
THEOREM RingDoesNotRace == Spec => []NoRace
<1>1. IInv => NoRace
  BY SidesApart DEF IInv, NoRace
<1>2. QED
  BY <1>1, SenderInvariant, PTL

\* droppedSamples() accounts for every sample that was not sent.
THEOREM SamplesAccounted == Spec => []Accounted
BY SenderInvariant, PTL DEF IInv

\* Nothing that was accepted is left behind when stop() returns.
THEOREM NothingLeftBehind == Spec => []StopFlushes
<1>1. IInv => StopFlushes
  BY DEF IInv, StopFlushes, LastDrain, Waiting, TypeOK, RingTypeOK
<1>2. QED
  BY <1>1, SenderInvariant, PTL

\* Neither the ring, nor the trimming, nor stop() loses a sample uncounted.
THEOREM SamplesNeverVanish == Spec => []NoSampleVanishes
BY SamplesAccounted, NothingLeftBehind, PTL DEF NoSampleVanishes

\* The lock-free ring implements the abstract FIFO of the same capacity.
THEOREM RingRefinesFifo == Spec => QueueIsFifo
<1>1. Init => Fifo!FifoInit
  BY DEF Init, RingInit, Fifo!FifoInit
<1> DEFINE step == Fifo!FifoNext \/ UNCHANGED <<accepted, consumed, handed>>
<1>2. ASSUME IInv, [Next]_vars
      PROVE  step
  <2>1. CASE UNCHANGED <<accepted, consumed, handed>>
    BY <2>1
  <2>2. CASE WriteSamples
    <3>1. CASE CopyIn
      BY <2>2, <3>1 DEF WriteSamples, CopyIn, readVars
    <3>2. CASE EndWrite
      <4>1. giving \in 1 .. Capacity /\ accepted + giving - consumed <= Capacity
        BY <1>2, <3>2, RingAssumption
           DEF EndWrite, IInv, RingInv, RingTypeOK, RoomIsKept, Waiting
      <4>2. accepted' = accepted + giving /\ UNCHANGED <<consumed, handed>>
        BY <2>2, <3>2 DEF EndWrite, WriteSamples, readVars
      <4>3. Fifo!Put(giving)
        BY <4>1, <4>2 DEF Fifo!Put
      <4>4. QED
        BY <4>1, <4>3 DEF Fifo!FifoNext
    <3>3. QED
      BY <2>2, <3>1, <3>2 DEF WriteSamples
  <2>3. CASE Trim
    <3> DEFINE n == Discarded(waiting - Backlog)
    <3>1. n \in 0 .. Waiting /\ Waiting \in 0 .. Capacity
      BY <1>2, <2>3, TrimStep DEF IInv, RingInv, RoomIsKept
    <3>2. consumed' = consumed + n /\ UNCHANGED <<accepted, handed>>
      BY <2>3 DEF Trim, Discard, writeVars
    <3>3. accepted \in Nat /\ consumed \in Nat
      BY <1>2 DEF IInv, TypeOK, RingTypeOK
    <3> HIDE DEF n
    <3>4. CASE n = 0
      BY <3>2, <3>3, <3>4
    <3>5. CASE n # 0
      <4>1. n \in 1 .. Capacity /\ consumed + n <= accepted
        BY <3>1, <3>3, <3>5, RingAssumption DEF Waiting
      <4>2. Fifo!Skip(n)
        BY <3>2, <4>1 DEF Fifo!Skip
      <4>3. QED
        BY <4>1, <4>2 DEF Fifo!FifoNext
    <3>6. QED
      BY <3>4, <3>5
  <2>4. CASE ReadSamples
    <3>1. CASE CopyOut
      BY <2>4, <3>1 DEF ReadSamples, CopyOut, writeVars
    <3>2. CASE EndRead
      <4>1. /\ handed' = [i \in 1 .. taking |-> consumed + i]
            /\ taking \in 1 .. Waiting
        BY <1>2, <2>4, <3>2, EndReadKeeps DEF ReadSamples, IInv
      <4>2. taking \in 1 .. Capacity /\ consumed + taking <= accepted
        BY <1>2, <4>1, RingAssumption
           DEF IInv, RingInv, RingTypeOK, RoomIsKept, Waiting
      <4>3. consumed' = consumed + taking /\ UNCHANGED accepted
        BY <2>4, <3>2 DEF EndRead, ReadSamples, writeVars
      <4>4. Fifo!Take(taking)
        BY <4>1, <4>2, <4>3 DEF Fifo!Take
      <4>5. QED
        BY <4>2, <4>4 DEF Fifo!FifoNext
    <3>3. QED
      BY <2>4, <3>1, <3>2 DEF ReadSamples
  <2>5. ASSUME NEW n \in 1 .. MaxCaptured, Capture(n) \/ NextSlice(n)
        PROVE  UNCHANGED <<accepted, consumed, handed>>
    BY <2>5 DEF Capture, NextSlice, Slice, BeginWrite, readVars
  <2>6. StartRead => UNCHANGED <<accepted, consumed, handed>>
    BY DEF StartRead, BeginRead, writeVars
  <2>7. Post \/ Sleep \/ Look \/ OpenCapture \/ StartFails \/ Start \/ Stop
      \/ Teardown \/ StreamBreaks \/ UNCHANGED vars
        => UNCHANGED <<accepted, consumed, handed>>
    BY DEF Post, captureVars, Sleep, Look, OpenCapture, StartFails, StreamBreaks, Start, Stop, Teardown, CaptureStops, Tell, Join, vars,
           ringVars, writeVars, readVars
  <2>8. Test("loop", "wait") \/ Test("woken", "drain")
        => UNCHANGED <<accepted, consumed, handed>>
    BY DEF Test, captureVars, ringVars, writeVars, readVars
  <2>9. QED
    BY <1>2, <2>1, <2>2, <2>3, <2>4, <2>5, <2>6, <2>7, <2>8
       DEF Next, DeviceThread, Worker
<1>3. IInv /\ [Next]_vars => [Fifo!FifoNext]_<<accepted, consumed, handed>>
  BY <1>2
<1>4. QED
  BY <1>1, <1>3, SenderInvariant, PTL DEF Spec, QueueIsFifo, Fifo!FifoSpec

=============================================================================
