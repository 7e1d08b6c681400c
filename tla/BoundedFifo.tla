----------------------------- MODULE BoundedFifo -----------------------------
(***************************************************************************)
(* What a queue of samples promises: the samples come out in the order in  *)
(* which they went in, each once, and never more than Capacity wait.       *)
(*                                                                         *)
(* Samples are told apart by the order in which they went in: put is the   *)
(* number of the last one in, taken of the last one out.                   *)
(***************************************************************************)
EXTENDS Integers

CONSTANT Capacity

VARIABLES put, taken,
  handed    \* the samples the last Take returned

FifoInit == put = 0 /\ taken = 0 /\ handed = <<>>

Put(n) ==
  /\ put + n - taken <= Capacity
  /\ put' = put + n
  /\ UNCHANGED <<taken, handed>>

Take(n) ==
  /\ taken + n <= put
  /\ taken' = taken + n
  /\ handed' = [i \in 1 .. n |-> taken + i]
  /\ UNCHANGED put

\* The oldest samples are thrown away.
Skip(n) ==
  /\ taken + n <= put
  /\ taken' = taken + n
  /\ UNCHANGED <<put, handed>>

FifoNext == \E n \in 1 .. Capacity : Put(n) \/ Take(n) \/ Skip(n)

FifoSpec == FifoInit /\ [][FifoNext]_<<put, taken, handed>>

=============================================================================
