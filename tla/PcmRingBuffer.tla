---------------------------- MODULE PcmRingBuffer ----------------------------
(***************************************************************************)
(* audio::PcmRingBuffer: the single-producer single-consumer queue between *)
(* the device audio callback and the sender thread, without locks.         *)
(*                                                                         *)
(* An operation loads the other side's index, copies cell by cell and      *)
(* stores its own index, each a step, so that the two sides interleave     *)
(* inside their operations.  Release stores and acquire loads order the    *)
(* copies of a program that never touches one cell from both sides at      *)
(* once, which is what NoRace says; steps on shared memory are then all    *)
(* that can be observed.                                                   *)
(*                                                                         *)
(* The content of a sample is its number, in the order of acceptance.      *)
(***************************************************************************)
EXTENDS Integers

CONSTANTS
  Capacity,   \* capacity()
  Chunk       \* drained_.size(): the most samples one Read is asked for

ASSUME RingAssumption == Capacity \in Nat \ {0} /\ Chunk \in Nat \ {0}

\* storage_.size(): one cell stays empty.
Size == Capacity + 1

VARIABLES
  storage, writeIndex, readIndex,
  giving,     \* take of the Write under way, 0 when there is none
  copied,     \* the samples it has copied
  taking,     \* take of the Read under way, 0 when there is none
  drained,    \* the caller's buffer
  fetched,    \* the samples copied into it
  handed,     \* history: what the last Read returned
  accepted, consumed    \* history: samples that went in, and that came out

writeVars == <<storage, writeIndex, giving, copied, accepted>>
readVars  == <<readIndex, taking, drained, fetched, handed, consumed>>
ringVars  == <<writeVars, readVars>>

RingInit ==
  /\ storage = [i \in 0 .. Size - 1 |-> 0] /\ writeIndex = 0 /\ readIndex = 0
  /\ giving = 0 /\ copied = 0
  /\ taking = 0 /\ drained = [i \in 1 .. Chunk |-> 0] /\ fetched = 0
  /\ handed = <<>> /\ accepted = 0 /\ consumed = 0

\* n % size, for the n the code takes it of, which are below 2 * size.
Wrap(n) == IF n < Size THEN n ELSE n - Size

\* available()
Available == Wrap(writeIndex + Size - readIndex)

\* Mutant: no cell stays empty.
AllFree == Wrap(readIndex + Size - writeIndex - 1) + 1

\* Mutant: the producer does not look at the consumer's index.
Unchecked == Capacity

Free == Wrap(readIndex + Size - writeIndex - 1)

Least(m, n) == IF m < n THEN m ELSE n

-----------------------------------------------------------------------------
(* Write: the producer *)

BeginWrite(count) ==
  /\ giving' = Least(count, Free) /\ copied' = 0
  /\ UNCHANGED <<storage, writeIndex, accepted>>

CopyIn ==
  /\ copied < giving
  /\ storage' = [storage EXCEPT ![Wrap(writeIndex + copied)] = accepted + copied + 1]
  /\ copied' = copied + 1
  /\ UNCHANGED <<writeIndex, giving, accepted>>

EndWrite ==
  /\ giving > 0 /\ copied = giving
  /\ writeIndex' = Wrap(writeIndex + giving)
  /\ accepted' = accepted + giving
  /\ giving' = 0 /\ copied' = 0
  /\ UNCHANGED storage

-----------------------------------------------------------------------------
(* Read and Discard: the consumer *)

BeginRead ==
  /\ taking' = Least(Chunk, Available) /\ fetched' = 0
  /\ UNCHANGED <<readIndex, drained, handed, consumed>>

CopyOut ==
  /\ fetched < taking
  /\ drained' = [drained EXCEPT ![fetched + 1] = storage[Wrap(readIndex + fetched)]]
  /\ fetched' = fetched + 1
  /\ UNCHANGED <<readIndex, taking, handed, consumed>>

EndRead ==
  /\ taking > 0 /\ fetched = taking
  /\ readIndex' = Wrap(readIndex + taking)
  /\ consumed' = consumed + taking
  /\ handed' = [i \in 1 .. taking |-> drained[i]]
  /\ taking' = 0 /\ fetched' = 0
  /\ UNCHANGED drained

\* What Discard(n) throws away: the oldest n, or all there are.
Discarded(n) == Least(n, Available)

\* It copies nothing, so loading the other index and storing this one are one
\* step.
Discard(n) ==
  /\ readIndex' = Wrap(readIndex + Discarded(n))
  /\ consumed' = consumed + Discarded(n)
  /\ UNCHANGED <<taking, drained, fetched, handed>>

-----------------------------------------------------------------------------

RingTypeOK ==
  /\ storage \in [0 .. Size - 1 -> Nat]
  /\ writeIndex \in 0 .. Size - 1 /\ readIndex \in 0 .. Size - 1
  /\ giving \in 0 .. Capacity /\ copied \in 0 .. giving
  /\ taking \in 0 .. Chunk /\ fetched \in 0 .. taking
  /\ drained \in [1 .. Chunk -> Nat]
  /\ accepted \in Nat /\ consumed \in Nat

=============================================================================
