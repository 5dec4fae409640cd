----------------------------- MODULE BoundedFifo -----------------------------
(***************************************************************************)
(* What a jitter buffer promises to the two threads it joins: a queue of   *)
(* bounded length whose elements come out in the order they went in, which *)
(* may be emptied as a whole but never loses, repeats or swaps an element  *)
(* in any other way.  Elements are tags counted modulo Tags, so "in the    *)
(* order they went in" is visible in the tag itself.                       *)
(***************************************************************************)
EXTENDS Integers, Sequences

CONSTANTS Capacity,  \* the largest length of the queue
          Batch,     \* the most elements that go in or come out together
          Tags       \* the number of distinct tags, larger than Capacity

VARIABLES queue,  \* the tags that are in the buffer, oldest first
          put,    \* the tag of the next element to go in
          got     \* the tag of the last element that came out, -1 before any

fifoVars == <<queue, put, got>>

FifoInit ==
  /\ queue = <<>>
  /\ put = 0
  /\ got = -1

\* The producer appends the next n elements.
Put(n) ==
  /\ Len(queue) + n <= Capacity
  /\ queue' = queue \o [i \in 1 .. n |-> (put + i - 1) % Tags]
  /\ put' = (put + n) % Tags
  /\ UNCHANGED got

\* The consumer takes the n oldest elements.
Take(n) ==
  /\ n <= Len(queue)
  /\ got' = queue[n]
  /\ queue' = SubSeq(queue, n + 1, Len(queue))
  /\ UNCHANGED put

\* A controlling thread, or the end of a flushed stream, throws away all the
\* elements, with those that go in at that time.
Clear ==
  /\ queue' = <<>>
  /\ \E n \in 0 .. Batch : put' = (put + n) % Tags
  /\ UNCHANGED got

FifoNext == (\E n \in 1 .. Batch : Put(n) \/ Take(n)) \/ Clear

FifoSpec == FifoInit /\ [][FifoNext]_fifoVars
=============================================================================
