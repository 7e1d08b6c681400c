---------------------- MODULE PipeWireVirtualMic_proofs ----------------------
(***************************************************************************)
(* What the two threads of the PipeWire microphone keep without a lock.    *)
(***************************************************************************)
EXTENDS PipeWireVirtualMic, TLAPS

\* The samples copied into the ring so far, published or not.
Head == IF main = "push" THEN write ELSE writeCount

\* The last RingSize of them are in their cells.
RingIsTrue == \A i \in 1 .. Head : i > Head - RingSize => ring[Cell(i)] = i

\* How far each count may be ahead of the next.
CountsInOrder ==
  /\ main = "push" => writeCount <= write /\ write <= end /\ end <= writeCount + MaxAhead
  /\ main = "stop" => ~stream
  /\ callback = "none" => heard = readCount /\ readCount <= writeCount
  /\ callback = "copy" =>
       /\ main # "stop" /\ stream
       /\ readCount <= read /\ read <= written /\ written <= writeCount
       /\ written - read <= MaxBuffered
       /\ Head <= written + MaxAhead
       /\ heard = read \/ (heard < read /\ written - heard > MaxBuffered)
       /\ left = Quantum => read < written
       /\ left < Quantum => heard = read

IInv == TypeOK /\ RingIsTrue /\ CountsInOrder

-----------------------------------------------------------------------------
(* Cells *)

LEMMA Division ==
  ASSUME NEW R \in Int, R > 0, NEW a \in Int
  PROVE  a = R * (a \div R) + (a % R)
  BY Z3

\* Samples less than a ring apart are in different cells.
LEMMA CellsDiffer ==
  ASSUME NEW R \in Int, R > 0, NEW a \in Int, NEW b \in Int, a < b, b - a < R
  PROVE  a % R # b % R
  <1>1. a = R * (a \div R) + (a % R) /\ b = R * (b \div R) + (b % R)
    BY Division
  <1>2. a \div R \in Int /\ b \div R \in Int
    OBVIOUS
  <1> SUFFICES ASSUME a % R = b % R PROVE FALSE
    OBVIOUS
  <1> DEFINE q == (b \div R) - (a \div R)
  <1>3. q \in Int /\ b - a = R * q
    BY <1>1, <1>2
  <1> HIDE DEF q
  <1>4. CASE q <= 0
    <2>1. R * q <= 0
      BY <1>3, <1>4
    <2>. QED BY <2>1, <1>3
  <1>5. CASE q >= 1
    <2>1. R * q >= R
      BY <1>3, <1>5
    <2>. QED BY <2>1, <1>3
  <1>. QED BY <1>3, <1>4, <1>5

LEMMA CellInRing ==
  ASSUME NEW i \in Nat \ {0}, RingSize > 0
  PROVE  Cell(i) \in 0 .. RingSize - 1
  BY RingAssumption DEF Cell

LEMMA CellsApart ==
  ASSUME NEW i \in Nat, NEW j \in Nat, i < j, j - i < RingSize
  PROVE  Cell(i) # Cell(j)
  <1>1. /\ RingSize \in Int /\ RingSize > 0
        /\ i - 1 \in Int /\ j - 1 \in Int /\ i - 1 < j - 1 /\ (j - 1) - (i - 1) < RingSize
    BY RingAssumption
  <1>. QED BY <1>1, CellsDiffer DEF Cell

LEMMA RoomForOne == RingSize > 0
  BY RingAssumption

LEMMA TrueSamples == IInv => SamplesAreTrue
  <1> SUFFICES ASSUME IInv, callback = "copy", NEW i \in read + 1 .. written
               PROVE  ring[Cell(i)] = i
    BY DEF SamplesAreTrue
  <1>1. i \in 1 .. Head /\ i > Head - RingSize
    BY RingAssumption DEF IInv, TypeOK, CountsInOrder, Head
  <1>. QED BY <1>1 DEF IInv, RingIsTrue

-----------------------------------------------------------------------------
(* The steps *)

LEMMA InitInv == Init => IInv
  <1> SUFFICES ASSUME Init PROVE IInv
    OBVIOUS
  <1>1. Head = 0
    BY DEF Init, Head
  <1>2. TypeOK
    <2>1. ring \in [0 .. RingSize - 1 -> Nat]
      BY DEF Init
    <2>2. 0 \in 0 .. Quantum /\ 0 \in 0 .. MaxLives
      BY RingAssumption
    <2>. QED BY <2>1, <2>2 DEF Init, TypeOK
  <1>3. RingIsTrue
    BY <1>1 DEF RingIsTrue
  <1>4. CountsInOrder
    BY DEF Init, CountsInOrder
  <1>. QED BY <1>2, <1>3, <1>4 DEF IInv

LEMMA PutInv == ASSUME IInv, Put PROVE IInv'
  <1>1. /\ main = "push" /\ main' = "push" /\ write' = write + 1 /\ write \in Nat
        /\ Head = write /\ Head' = write + 1
        /\ ring \in [0 .. RingSize - 1 -> Nat]
        /\ ring' = [ring EXCEPT ![Cell(write + 1)] = write + 1]
    BY DEF IInv, TypeOK, Put, Head
  <1>2. Cell(write + 1) \in 0 .. RingSize - 1
    BY <1>1, CellInRing, RoomForOne
  <1>3. TypeOK'
    BY <1>1, <1>2 DEF IInv, TypeOK, Put, fillVars
  <1>4. RingIsTrue'
    <2> SUFFICES ASSUME NEW i \in 1 .. write + 1, i > (write + 1) - RingSize
                 PROVE  ring'[Cell(i)] = i
      BY <1>1 DEF RingIsTrue, Cell
    <2>1. CASE i = write + 1
      BY <2>1, <1>1, <1>2
    <2>2. CASE i # write + 1
      <3>1. i \in 1 .. write /\ i > write - RingSize /\ i < write + 1
            /\ (write + 1) - i < RingSize /\ i \in Nat /\ write + 1 \in Nat
        BY <2>2, <1>1, RingAssumption
      <3>2. Cell(i) # Cell(write + 1) /\ Cell(i) \in 0 .. RingSize - 1
        BY <3>1, CellsApart, CellInRing, RoomForOne
      <3>3. ring[Cell(i)] = i
        BY <3>1, <1>1 DEF IInv, RingIsTrue
      <3>. QED BY <3>2, <3>3, <1>1
    <2>. QED BY <2>1, <2>2
  <1>5. CountsInOrder'
    BY <1>1, RingAssumption DEF IInv, TypeOK, CountsInOrder, Put, Head, fillVars
  <1>. QED BY <1>3, <1>4, <1>5 DEF IInv

\* The ring is empty again; no callback runs, since the stream is gone.
LEMMA ResetInv == ASSUME IInv, Reset PROVE IInv'
  <1>1. Head' = 0
    BY DEF Reset, Head
  <1>2. TypeOK'
    BY RingAssumption DEF IInv, TypeOK, Reset, fillVars
  <1>3. RingIsTrue'
    BY <1>1 DEF RingIsTrue
  <1>4. callback # "copy"
    BY DEF IInv, CountsInOrder, Reset
  <1>5. CountsInOrder'
    BY <1>4 DEF IInv, TypeOK, CountsInOrder, Reset, fillVars
  <1>. QED BY <1>2, <1>3, <1>5 DEF IInv

LEMMA StartInv == ASSUME IInv, Start PROVE IInv'
  <1>1. TypeOK'
    BY RingAssumption DEF IInv, TypeOK, Start, ringVars, pushVars, fillVars
  <1>2. RingIsTrue'
    BY DEF IInv, TypeOK, RingIsTrue, CountsInOrder, Head, Cell, Start, ringVars, pushVars, fillVars
  <1>3. CountsInOrder'
    BY RingAssumption DEF IInv, TypeOK, CountsInOrder, Head, Start, ringVars, pushVars, fillVars
  <1>. QED BY <1>1, <1>2, <1>3 DEF IInv

LEMMA PublishInv == ASSUME IInv, Publish PROVE IInv'
  <1>1. TypeOK'
    BY RingAssumption DEF IInv, TypeOK, Publish, ringVars, pushVars, fillVars
  <1>2. RingIsTrue'
    BY DEF IInv, TypeOK, RingIsTrue, CountsInOrder, Head, Cell,
       Publish, ringVars, pushVars, fillVars
  <1>3. CountsInOrder'
    BY RingAssumption DEF IInv, TypeOK, CountsInOrder, Head, Publish, ringVars, pushVars, fillVars
  <1>. QED BY <1>1, <1>2, <1>3 DEF IInv

LEMMA DestroyInv == ASSUME IInv, Destroy PROVE IInv'
  <1>1. TypeOK'
    BY RingAssumption DEF IInv, TypeOK, Destroy, ringVars, pushVars, fillVars
  <1>2. RingIsTrue'
    BY DEF IInv, TypeOK, RingIsTrue, CountsInOrder, Head, Cell,
       Destroy, ringVars, pushVars, fillVars
  <1>3. CountsInOrder'
    BY RingAssumption DEF IInv, TypeOK, CountsInOrder, Head, Destroy, ringVars, pushVars, fillVars
  <1>. QED BY <1>1, <1>2, <1>3 DEF IInv

LEMMA NegotiateInv == ASSUME IInv, Negotiate PROVE IInv'
  <1>1. TypeOK'
    BY RingAssumption DEF IInv, TypeOK, Negotiate, ringVars, pushVars, fillVars
  <1>2. RingIsTrue'
    BY DEF IInv, TypeOK, RingIsTrue, CountsInOrder, Head, Cell,
       Negotiate, ringVars, pushVars, fillVars
  <1>3. CountsInOrder'
    BY RingAssumption DEF IInv, TypeOK, CountsInOrder, Head, Negotiate, ringVars, pushVars, fillVars
  <1>. QED BY <1>1, <1>2, <1>3 DEF IInv

LEMMA QueueInv == ASSUME IInv, Queue PROVE IInv'
  <1>1. TypeOK'
    BY RingAssumption DEF IInv, TypeOK, Queue, ringVars, pushVars, fillVars
  <1>2. RingIsTrue'
    BY DEF IInv, TypeOK, RingIsTrue, CountsInOrder, Head, Cell, Queue, ringVars, pushVars, fillVars
  <1>3. CountsInOrder'
    BY RingAssumption DEF IInv, TypeOK, CountsInOrder, Head, Queue, ringVars, pushVars, fillVars
  <1>. QED BY <1>1, <1>2, <1>3 DEF IInv

LEMMA PushInv == ASSUME IInv, NEW n \in 1 .. MaxAhead, Push(n) PROVE IInv'
  <1>1. TypeOK'
    BY RingAssumption DEF IInv, TypeOK, Push, ringVars, pushVars, fillVars
  <1>2. RingIsTrue'
    BY DEF IInv, TypeOK, RingIsTrue, CountsInOrder, Head, Cell, Push, ringVars, pushVars, fillVars
  <1>3. CountsInOrder'
    BY RingAssumption DEF IInv, TypeOK, CountsInOrder, Head, Push, ringVars, pushVars, fillVars
  <1>. QED BY <1>1, <1>2, <1>3 DEF IInv

LEMMA ProcessInv == ASSUME IInv, Process PROVE IInv'
  <1>1. TypeOK'
    BY RingAssumption DEF IInv, TypeOK, Process, Oldest, Plays, ringVars, pushVars, fillVars
  <1>2. RingIsTrue'
    BY DEF IInv, TypeOK, RingIsTrue, CountsInOrder, Head, Cell,
       Process, Oldest, Plays, ringVars, pushVars, fillVars
  <1>3. CountsInOrder'
    <2>1. writeCount \in Nat /\ readCount \in Nat /\ heard = readCount /\ readCount <= writeCount
      BY DEF IInv, TypeOK, CountsInOrder, Process
    <2>2. /\ Oldest \in Nat /\ readCount <= Oldest /\ Oldest <= writeCount
          /\ writeCount - Oldest <= MaxBuffered
          /\ Oldest # readCount =>
               writeCount - Oldest = MaxBuffered /\ writeCount - readCount > MaxBuffered
      BY <2>1, RingAssumption DEF Oldest
    <2>3. CASE Plays
      <3>1. Oldest < writeCount
        BY <2>1, <2>2, <2>3, RingAssumption DEF Plays
      <3>2. Head <= writeCount + MaxAhead /\ main # "stop" /\ stream
        BY RingAssumption DEF IInv, TypeOK, CountsInOrder, Head, Process
      <3>. QED
        BY <2>1, <2>2, <2>3, <3>1, <3>2, RingAssumption
        DEF IInv, TypeOK, CountsInOrder, Head, Process, ringVars, pushVars
    <2>4. CASE ~Plays
      <3>1. Oldest = readCount
        BY <2>1, <2>2, <2>4, RingAssumption DEF Plays
      <3>. QED
        BY <2>1, <2>4, <3>1
        DEF IInv, TypeOK, CountsInOrder, Head, Process, ringVars, pushVars, fillVars
    <2>. QED BY <2>3, <2>4
  <1>. QED BY <1>1, <1>2, <1>3 DEF IInv

\* What it copies is the sample after the last it read.
LEMMA CopyNext == ASSUME IInv, Copy, read < written PROVE heard' = read + 1
  <1>1. read + 1 \in read + 1 .. written /\ callback = "copy"
    BY DEF IInv, TypeOK, Copy
  <1>. QED BY <1>1, TrueSamples DEF SamplesAreTrue, Copy

LEMMA CopyInv == ASSUME IInv, Copy PROVE IInv'
  <1>1. \/ read < written /\ heard' = read + 1 /\ read' = read + 1
        \/ read >= written /\ heard' = heard /\ read' = read
    BY CopyNext DEF IInv, TypeOK, Copy
  <1>2. TypeOK'
    BY <1>1, RingAssumption DEF IInv, TypeOK, Copy, ringVars, pushVars
  <1>3. RingIsTrue'
    BY DEF IInv, RingIsTrue, Head, Cell, Copy, ringVars, pushVars
  <1>4. CountsInOrder'
    BY <1>1, RingAssumption DEF IInv, TypeOK, CountsInOrder, Head, Copy, ringVars, pushVars
  <1>. QED BY <1>2, <1>3, <1>4 DEF IInv

LEMMA IdleInv == ASSUME IInv, UNCHANGED vars PROVE IInv'
  BY DEF IInv, TypeOK, RingIsTrue, CountsInOrder, Head, Cell, vars, ringVars, pushVars, fillVars

LEMMA Inductive == IInv /\ [Next]_vars => IInv'
  BY StartInv, PushInv, PutInv, PublishInv, DestroyInv, ResetInv, NegotiateInv, ProcessInv,
     CopyInv, QueueInv, IdleInv
  DEF Next, MainThread, DataThread

-----------------------------------------------------------------------------
(* The theorems *)

\* The counts are numbers in their ranges and both threads in their places.
THEOREM CountsKeepRanges == Spec => []TypeOK
  BY InitInv, Inductive, PTL DEF Spec, IInv

\* pushSamples and fillBuffer: a callback copies no sample that is unfinished,
\* overwritten or of an earlier life, for every size of the ring that leaves
\* room for what is handed over meanwhile.
THEOREM SamplesStayTrue == Spec => []SamplesAreTrue
  BY InitInv, Inductive, TrueSamples, PTL DEF Spec

\* One step of an application's recording.
LEMMA HeardNext ==
  ASSUME IInv, [Next]_vars, heard' # heard
  PROVE  \/ heard' = heard + 1
         \/ heard' > heard /\ written - heard > MaxBuffered
         \/ main = "stop"
  <1>1. CASE Reset
    BY <1>1 DEF Reset
  <1>2. CASE Copy
    <2>1. read < written /\ heard' = read + 1
      BY <1>2, CopyNext DEF Copy, IInv, TypeOK
    <2>. QED BY <1>2, <2>1 DEF Copy, IInv, TypeOK, CountsInOrder
  <1>3. Reset \/ Copy
    BY DEF Next, MainThread, DataThread, Start, Push, Put, Publish, Destroy, Negotiate, Process,
           Queue, vars
  <1>. QED BY <1>1, <1>2, <1>3

\* fillBuffer's catching up: samples are recorded in order and each once, and
\* skipped only where more than MaxBuffered waited.
THEOREM HeardStaysInOrder == Spec => HeardInOrder
  <1> DEFINE Onward == \/ heard' = heard + 1
                       \/ heard' > heard /\ written - heard > MaxBuffered
                       \/ main = "stop"
  <1>1. ASSUME IInv, [Next]_vars, heard' # heard PROVE Onward
    BY <1>1, HeardNext
  <1> HIDE DEF Onward
  <1>2. IInv /\ [Next]_vars => [heard' # heard => Onward]_vars
    BY <1>1
  <1>3. Spec => [][heard' # heard => Onward]_vars
    BY <1>2, InitInv, Inductive, PTL DEF Spec
  <1>. QED BY <1>3 DEF HeardInOrder, Onward

=============================================================================
