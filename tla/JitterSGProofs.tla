--------------------------- MODULE JitterSGProofs ---------------------------
(***************************************************************************)
(* Proofs about the scatter-gather jitter buffer, for every number of      *)
(* scatters, every thredhold and every use of pause, flush and reset.      *)
(*                                                                         *)
(* None of the properties is inductive: that pull and peer never share a   *)
(* scatter needs to know which scatter each thread owns, which needs to    *)
(* know what the states of the scatters are while a reset is under way.    *)
(* IInv is the conjunction of that knowledge; the parts below "torn" hold  *)
(* again as soon as a reset finds the consumer outside of the buffer.      *)
(*                                                                         *)
(* The refinement needs one thing more, QueueInv: the scatters with data   *)
(* are the level ones that follow out, and in is the one after them.  Its  *)
(* proof maps push to Put, pop to Take, the first critical section of      *)
(* reset to Clear and every other step to a stutter.                       *)
(***************************************************************************)
EXTENDS JitterSG, FiniteSetTheorems, TLAPS

AllFree == \A s \in Scatters : slot[s] = "FREE"

\* A thread has memory exactly while it is between the two calls.
Pointers ==
  /\ mine # -1 <=> pcP \in {"fill", "push", "pushEnd"}
  /\ hold # -1 <=> pcC \in {"use", "pop", "popStray"}

\* The producer owns the scatter under in from pull to push; after a reset it
\* may still have the memory of a scatter that is no longer pulled.
ProducerOwns ==
  /\ pcP \in {"push", "pushEnd"} => slot[in] = "PULL" /\ mine = in
  /\ pcP = "fill" => (slot[in] = "PULL" /\ mine = in) \/ AllFree
  /\ \A s \in Scatters :
       slot[s] = "PULL" => s = in /\ pcP \in {"fill", "push", "pushEnd"}

\* The consumer owns the scatter under out from peer to pop.
ConsumerOwns ==
  /\ pcC \in {"beat", "use", "pop"} => slot[out] = "POP"
  /\ pcC \in {"use", "pop"} => hold = out
  /\ pcC # "popStray"
  /\ \A s \in Scatters :
       slot[s] = "POP" => s = out /\ pcC \in {"beat", "use", "pop"}

\* A stopped buffer is empty and nobody pushes.
Stopped == state = "STOP" => AllFree /\ pcP \in {"idle", "fill"}

\* While a reset is under way the producer's thread is outside of the buffer.
Joined == ctl \in Resetting => pcP \in {"idle", "fill"}

\* Between its two critical sections a reset keeps the buffer empty.
Cleared == ctl \in {"clearSignal", "rewind"} => AllFree /\ Quiet

Whole == ProducerOwns /\ ConsumerOwns /\ Stopped /\ Cleared

IInv == TypeOK /\ Pointers /\ Joined /\ (~torn => Whole) /\ LevelExact

-----------------------------------------------------------------------------
(* Types and pointers *)

\* The initial state is well typed and nobody has memory.
LEMMA InitType == Init => TypeOK /\ Pointers
<1> SUFFICES ASSUME Init PROVE TypeOK /\ Pointers
  OBVIOUS
<1> USE JitterAssumption DEF Init, Scatters
<1>1. slot \in [Scatters -> SlotStates] /\ data \in [Scatters -> -1 .. Tags - 1]
  BY DEF SlotStates
<1>2. in \in Scatters /\ out \in Scatters /\ level \in 0 .. LevelSpan - 1
  OBVIOUS
<1>3. put \in 0 .. Tags - 1 /\ got \in -1 .. Tags - 1
  OBVIOUS
<1>4. Pointers
  BY DEF Pointers
<1>5. QED
  BY <1>1, <1>2, <1>3, <1>4 DEF TypeOK, JitterStates

\* Every step keeps the types and moves the pointers with the program counters.
LEMMA StepType ==
  ASSUME TypeOK, Pointers, [Next]_vars
  PROVE  TypeOK' /\ Pointers'
<1> USE JitterAssumption
    DEF TypeOK, Pointers, Scatters, SlotStates, JitterStates, Resetting, ring,
        producer, consumer
<1>1. CASE PullBlock
  BY <1>1 DEF PullBlock, Pulling, PullState, Started
<1>2. CASE PullGrant
  BY <1>2 DEF PullGrant, Pulling, PullState, Started
<1>3. CASE PullNull
  BY <1>3 DEF PullNull, Pulling, PullState, Started
<1>4. CASE PushIgnored
  BY <1>4 DEF PushIgnored
<1>5. CASE PushCheck
  BY <1>5 DEF PushCheck
<1>6. CASE PushEnd
  BY <1>6 DEF PushEnd
<1>7. CASE PushReady
  BY <1>7 DEF PushReady, Next1, Unsigned
<1>8. CASE PushTail
  BY <1>8 DEF PushTail
<1>9. CASE PushRun
  BY <1>9 DEF PushRun
<1>10. CASE PeerStart
  BY <1>10 DEF PeerStart, Started
<1>11. CASE PeerCheck
  BY <1>11 DEF PeerCheck
<1>12. CASE PeerBlock
  BY <1>12 DEF PeerBlock, Peering, MustWait
<1>13. CASE PeerTake
  BY <1>13 DEF PeerTake, Peering, MustWait
<1>14. CASE PeerReturn
  BY <1>14 DEF PeerReturn
<1>15. CASE PopBack
  BY <1>15 DEF PopBack
<1>16. CASE PopCheck
  BY <1>16 DEF PopCheck
<1>17. CASE PopStray
  BY <1>17 DEF PopStray
<1>18. CASE PopFree
  BY <1>18 DEF PopFree, Next1, Unsigned
<1>19. CASE PopSignal
  BY <1>19 DEF PopSignal
<1>20. CASE \E enable \in BOOLEAN : Pause(enable)
  BY <1>20 DEF Pause
<1>21. CASE PauseSignal
  BY <1>21 DEF PauseSignal
<1>22. CASE FlushSignal
  BY <1>22 DEF FlushSignal
<1>23. CASE Flush
  BY <1>23 DEF Flush
<1>24. CASE Reset
  BY <1>24 DEF Reset
<1>25. CASE ResetClear
  BY <1>25 DEF ResetClear, Quiet
<1>26. CASE ResetRewind
  BY <1>26 DEF ResetRewind
<1>27. CASE \E t \in {"producer", "consumer"} : Spurious(t)
  BY <1>27 DEF Spurious
<1>28. CASE UNCHANGED vars
  BY <1>28 DEF vars
<1>29. QED
  BY <1>1, <1>2, <1>3, <1>4, <1>5, <1>6, <1>7, <1>8, <1>9, <1>10, <1>11, <1>12, <1>13,
    <1>14, <1>15, <1>16, <1>17, <1>18, <1>19, <1>20, <1>21, <1>22, <1>23, <1>24, <1>25,
    <1>26, <1>27, <1>28 DEF Next, Producer, Consumer, Controller, Signal

-----------------------------------------------------------------------------
(* Who owns which scatter *)

\* No step brings a producer into the buffer while a reset is under way.
LEMMA StepJoined ==
  ASSUME TypeOK, Joined, [Next]_vars
  PROVE  Joined'
<1> USE DEF TypeOK, Joined, Resetting, ring, producer, consumer
<1>1. CASE PullBlock
  BY <1>1 DEF PullBlock, Pulling, PullState, Started
<1>2. CASE PullGrant
  BY <1>2 DEF PullGrant, Pulling, PullState, Started
<1>3. CASE PullNull
  BY <1>3 DEF PullNull, Pulling, PullState, Started
<1>4. CASE PushIgnored
  BY <1>4 DEF PushIgnored
<1>5. CASE PushCheck
  BY <1>5 DEF PushCheck
<1>6. CASE PushEnd
  BY <1>6 DEF PushEnd
<1>7. CASE PushReady
  BY <1>7 DEF PushReady, Next1, Unsigned
<1>8. CASE PushTail
  BY <1>8 DEF PushTail
<1>9. CASE PushRun
  BY <1>9 DEF PushRun
<1>10. CASE PeerStart
  BY <1>10 DEF PeerStart, Started
<1>11. CASE PeerCheck
  BY <1>11 DEF PeerCheck
<1>12. CASE PeerBlock
  BY <1>12 DEF PeerBlock, Peering, MustWait
<1>13. CASE PeerTake
  BY <1>13 DEF PeerTake, Peering, MustWait
<1>14. CASE PeerReturn
  BY <1>14 DEF PeerReturn
<1>15. CASE PopBack
  BY <1>15 DEF PopBack
<1>16. CASE PopCheck
  BY <1>16 DEF PopCheck
<1>17. CASE PopStray
  BY <1>17 DEF PopStray
<1>18. CASE PopFree
  BY <1>18 DEF PopFree, Next1, Unsigned
<1>19. CASE PopSignal
  BY <1>19 DEF PopSignal
<1>20. CASE \E enable \in BOOLEAN : Pause(enable)
  BY <1>20 DEF Pause
<1>21. CASE PauseSignal
  BY <1>21 DEF PauseSignal
<1>22. CASE FlushSignal
  BY <1>22 DEF FlushSignal
<1>23. CASE Flush
  BY <1>23 DEF Flush
<1>24. CASE Reset
  BY <1>24 DEF Reset
<1>25. CASE ResetClear
  BY <1>25 DEF ResetClear
<1>26. CASE ResetRewind
  BY <1>26 DEF ResetRewind
<1>27. CASE \E t \in {"producer", "consumer"} : Spurious(t)
  BY <1>27 DEF Spurious
<1>28. CASE UNCHANGED vars
  BY <1>28 DEF vars
<1>29. QED
  BY <1>1, <1>2, <1>3, <1>4, <1>5, <1>6, <1>7, <1>8, <1>9, <1>10, <1>11, <1>12, <1>13,
    <1>14, <1>15, <1>16, <1>17, <1>18, <1>19, <1>20, <1>21, <1>22, <1>23, <1>24, <1>25,
    <1>26, <1>27, <1>28 DEF Next, Producer, Consumer, Controller, Signal

\* Ownership is kept by every step of an untorn buffer.
LEMMA StepWhole ==
  ASSUME TypeOK, Pointers, Joined, Whole, ~torn, ~torn', [Next]_vars
  PROVE  Whole'
<1> USE JitterAssumption
    DEF TypeOK, Pointers, Joined, Whole, ProducerOwns, ConsumerOwns, Stopped,
        Cleared, AllFree, Quiet, Scatters, SlotStates, JitterStates, Resetting,
        ring, producer, consumer
<1>1. CASE PullBlock
  BY <1>1 DEF PullBlock, Pulling, PullState, Started
<1>2. CASE PullGrant
  BY <1>2 DEF PullGrant, Pulling, PullState, Started
<1>3. CASE PullNull
  BY <1>3 DEF PullNull, Pulling, PullState, Started
<1>4. CASE PushIgnored
  BY <1>4 DEF PushIgnored
<1>5. CASE PushCheck
  BY <1>5 DEF PushCheck
<1>6. CASE PushEnd
  BY <1>6 DEF PushEnd
<1>7. CASE PushReady
  BY <1>7 DEF PushReady, Next1, Unsigned
<1>8. CASE PushTail
  BY <1>8 DEF PushTail
<1>9. CASE PushRun
  BY <1>9 DEF PushRun
<1>10. CASE PeerStart
  BY <1>10 DEF PeerStart, Started
<1>11. CASE PeerCheck
  BY <1>11 DEF PeerCheck
<1>12. CASE PeerBlock
  BY <1>12 DEF PeerBlock, Peering, MustWait
<1>13. CASE PeerTake
  BY <1>13 DEF PeerTake, Peering, MustWait
<1>14. CASE PeerReturn
  BY <1>14 DEF PeerReturn
<1>15. CASE PopBack
  BY <1>15 DEF PopBack
<1>16. CASE PopCheck
  BY <1>16 DEF PopCheck
<1>17. CASE PopStray
  BY <1>17 DEF PopStray
<1>18. CASE PopFree
  BY <1>18 DEF PopFree, Next1, Unsigned
<1>19. CASE PopSignal
  BY <1>19 DEF PopSignal
<1>20. CASE \E enable \in BOOLEAN : Pause(enable)
  BY <1>20 DEF Pause
<1>21. CASE PauseSignal
  BY <1>21 DEF PauseSignal
<1>22. CASE FlushSignal
  BY <1>22 DEF FlushSignal
<1>23. CASE Flush
  BY <1>23 DEF Flush
<1>24. CASE Reset
  BY <1>24 DEF Reset
<1>25. CASE ResetClear
  BY <1>25 DEF ResetClear
<1>26. CASE ResetRewind
  BY <1>26 DEF ResetRewind
<1>27. CASE \E t \in {"producer", "consumer"} : Spurious(t)
  BY <1>27 DEF Spurious
<1>28. CASE UNCHANGED vars
  BY <1>28 DEF vars
<1>29. QED
  BY <1>1, <1>2, <1>3, <1>4, <1>5, <1>6, <1>7, <1>8, <1>9, <1>10, <1>11, <1>12, <1>13,
    <1>14, <1>15, <1>16, <1>17, <1>18, <1>19, <1>20, <1>21, <1>22, <1>23, <1>24, <1>25,
    <1>26, <1>27, <1>28 DEF Next, Producer, Consumer, Controller, Signal

\* A reset that finds the consumer outside of the buffer mends it, whatever
\* happened before.
LEMMA StepMended ==
  ASSUME TypeOK, Pointers, Joined, torn, ~torn', [Next]_vars
  PROVE  ResetClear /\ ctl' = "clearSignal" /\ Whole'
<1>1. ResetClear
  BY DEF Next, Producer, Consumer, Controller, Signal, PullBlock, PullGrant,
         PullNull, PushIgnored, PushCheck, PushEnd, PushReady, PushTail, PushRun,
         PeerStart, PeerCheck, PeerBlock, PeerTake, PeerReturn, PopBack, PopCheck,
         PopStray, PopFree, PopSignal, Pause, PauseSignal, FlushSignal, Flush,
         Reset, ResetRewind, Spurious, vars
<1>2. pcP' \in {"idle", "fill"} /\ Quiet' /\ AllFree' /\ ctl' = "clearSignal"
  BY <1>1 DEF ResetClear, Joined, Resetting, Quiet, AllFree, producer, consumer
<1>3. ProducerOwns' /\ ConsumerOwns'
  BY <1>2 DEF ProducerOwns, ConsumerOwns, Quiet, AllFree
<1>4. QED
  BY <1>1, <1>2, <1>3 DEF Whole, Stopped, Cleared

-----------------------------------------------------------------------------
(* The level *)

\* The scatters that hold data are finitely many, at most Count.
LEMMA FilledFinite ==
  /\ IsFiniteSet(Filled)
  /\ Cardinality(Filled) \in 0 .. Count
<1>1. IsFiniteSet(Scatters) /\ Cardinality(Scatters) = Count
  BY FS_Interval, JitterAssumption DEF Scatters
<1>2. Filled \subseteq Scatters
  BY DEF Filled
<1>3. IsFiniteSet(Filled) /\ Cardinality(Filled) <= Cardinality(Scatters)
  BY <1>1, <1>2, FS_Subset
<1>4. Cardinality(Filled) \in Nat
  BY <1>3, FS_CardinalityType
<1>5. QED
  BY <1>1, <1>3, <1>4, JitterAssumption

\* level stays the number of scatters with data: push adds one, pop removes one,
\* a reset leaves none, and every other step leaves both alone.
LEMMA StepLevel ==
  ASSUME TypeOK, Pointers, Joined, Whole, LevelExact, ~torn, ~torn', [Next]_vars
  PROVE  LevelExact'
<1> DEFINE Window == ctl \in {"clearSignal", "rewind"}
<1>1. ASSUME UNCHANGED <<level, ctl, torn>>, Filled' = Filled PROVE LevelExact'
  BY <1>1 DEF LevelExact
<1>2. ASSUME UNCHANGED <<slot, level, torn>>, Window' \/ ~Window PROVE LevelExact'
  BY <1>2 DEF LevelExact, Filled
<1>3. CASE PullGrant
  <2>1. Filled' = Filled
    BY <1>3 DEF PullGrant, TypeOK, Filled
  <2>2. QED
    BY <1>1, <1>3, <2>1 DEF PullGrant
<1>4. CASE PushEnd
  <2>1. Filled' = Filled
    BY <1>4 DEF PushEnd, TypeOK, Filled, Whole, ProducerOwns
  <2>2. QED
    BY <1>1, <1>4, <2>1 DEF PushEnd
<1>5. CASE PushReady
  <2>1. Filled' = Filled \cup {in} /\ in \notin Filled
    BY <1>5 DEF PushReady, TypeOK, Filled, Whole, ProducerOwns
  <2>2. Cardinality(Filled') = Cardinality(Filled) + 1
    BY <2>1, FilledFinite, FS_AddElement
  <2>3. Cardinality(Filled') \in 0 .. Count
    <3>1. Filled' \subseteq Scatters /\ IsFiniteSet(Scatters)
          /\ Cardinality(Scatters) = Count
      BY FS_Interval, JitterAssumption DEF Scatters, Filled
    <3>2. QED
      BY <3>1, FS_Subset, <2>2, FilledFinite, JitterAssumption
  <2>4. ~Window => level' = level + 1
    BY <1>5, <2>2, <2>3, FilledFinite, JitterAssumption
       DEF PushReady, Unsigned, LevelExact, TypeOK
  <2>5. QED
    BY <1>5, <2>2, <2>4 DEF PushReady, LevelExact
<1>6. CASE PeerTake
  <2>1. Filled' = Filled
    BY <1>6 DEF PeerTake, MustWait, TypeOK, Filled
  <2>2. QED
    BY <1>1, <1>6, <2>1 DEF PeerTake
<1>7. CASE PopBack
  <2>1. Filled' = Filled
    BY <1>7 DEF PopBack, TypeOK, Filled, Whole, ConsumerOwns
  <2>2. QED
    BY <1>1, <1>7, <2>1 DEF PopBack
<1>8. CASE PopStray
  BY <1>8 DEF PopStray, Whole, ConsumerOwns
<1>9. CASE PopFree
  <2>1. Filled' = Filled \ {out} /\ out \in Filled
    BY <1>9 DEF PopFree, TypeOK, Filled, Whole, ConsumerOwns
  <2>2. Cardinality(Filled') = Cardinality(Filled) - 1
    BY <2>1, FilledFinite, FS_RemoveElement
  <2>3. Cardinality(Filled) # 0
    BY <2>1, FilledFinite, FS_EmptySet
  <2>4. ~Window => level' = level - 1
    BY <1>9, <2>3, FilledFinite, JitterAssumption
       DEF PopFree, Unsigned, LevelExact, TypeOK
  <2>5. QED
    BY <1>9, <2>2, <2>4 DEF PopFree, LevelExact
<1>10. CASE ResetRewind
  <2>1. Filled' = {}
    BY <1>10 DEF ResetRewind, Filled, Whole, Cleared, AllFree
  <2>2. QED
    BY <1>10, <2>1, FS_EmptySet DEF ResetRewind, LevelExact
<1>11. CASE ResetClear
  BY <1>11 DEF ResetClear, LevelExact
<1>12. CASE PullBlock
  BY <1>12, <1>2 DEF PullBlock, ring
<1>13. CASE PullNull
  BY <1>13, <1>2 DEF PullNull, ring
<1>14. CASE PushIgnored
  BY <1>14, <1>2 DEF PushIgnored, ring
<1>15. CASE PushCheck
  BY <1>15, <1>2 DEF PushCheck, ring
<1>16. CASE PushTail
  BY <1>16, <1>2 DEF PushTail, ring
<1>17. CASE PushRun
  BY <1>17, <1>2 DEF PushRun, ring
<1>18. CASE PeerStart
  BY <1>18, <1>2 DEF PeerStart, ring
<1>19. CASE PeerCheck
  BY <1>19, <1>2 DEF PeerCheck, ring
<1>20. CASE PeerBlock
  BY <1>20, <1>2 DEF PeerBlock, ring
<1>21. CASE PeerReturn
  BY <1>21, <1>2 DEF PeerReturn, ring
<1>22. CASE PopCheck
  BY <1>22, <1>2 DEF PopCheck, ring
<1>23. CASE PopSignal
  BY <1>23, <1>2 DEF PopSignal, ring
<1>24. CASE \E enable \in BOOLEAN : Pause(enable)
  BY <1>24, <1>2 DEF Pause
<1>25. CASE PauseSignal
  BY <1>25, <1>2 DEF PauseSignal, ring
<1>26. CASE FlushSignal
  BY <1>26, <1>2 DEF FlushSignal, ring
<1>27. CASE Flush
  BY <1>27, <1>2 DEF Flush, ring
<1>28. CASE Reset
  BY <1>28, <1>2 DEF Reset, ring
<1>29. CASE \E t \in {"producer", "consumer"} : Spurious(t)
  BY <1>29, <1>2 DEF Spurious, ring
<1>30. CASE UNCHANGED vars
  BY <1>30, <1>2 DEF vars, ring
<1>31. QED
  BY <1>3, <1>4, <1>5, <1>6, <1>7, <1>8, <1>9, <1>10, <1>11, <1>12, <1>13, <1>14, <1>15,
    <1>16, <1>17, <1>18, <1>19, <1>20, <1>21, <1>22, <1>23, <1>24, <1>25, <1>26, <1>27,
    <1>28, <1>29, <1>30
     DEF Next, Producer, Consumer, Controller, Signal

-----------------------------------------------------------------------------
(* The invariant and what follows from it *)

\* A buffer just made satisfies the inductive invariant.
LEMMA InitInv == Init => IInv
<1> SUFFICES ASSUME Init PROVE IInv
  OBVIOUS
<1>1. TypeOK /\ Pointers
  BY InitType
<1>2. AllFree
  BY DEF Init, AllFree
<1>3. Filled = {}
  BY <1>2 DEF Filled, AllFree
<1>4. LevelExact
  BY <1>3, FS_EmptySet DEF Init, LevelExact
<1>5. Joined /\ Whole
  BY <1>2 DEF Init, Joined, Resetting, Whole, ProducerOwns, ConsumerOwns, Stopped,
              Cleared, AllFree
<1>6. QED
  BY <1>1, <1>4, <1>5 DEF IInv

\* The invariant is inductive.
LEMMA StepInv == IInv /\ [Next]_vars => IInv'
<1> SUFFICES ASSUME IInv, [Next]_vars PROVE IInv'
  OBVIOUS
<1> USE DEF IInv
<1>1. TypeOK' /\ Pointers'
  BY StepType
<1>2. Joined'
  BY StepJoined
<1>3. CASE torn'
  BY <1>1, <1>2, <1>3 DEF LevelExact
<1>4. CASE ~torn' /\ ~torn
  BY <1>1, <1>2, <1>4, StepWhole, StepLevel
<1>5. CASE ~torn' /\ torn
  BY <1>1, <1>2, <1>5, StepMended DEF LevelExact
<1>6. QED
  BY <1>3, <1>4, <1>5

\* Every reachable state satisfies the invariant.
THEOREM Invariance == Spec => []IInv
BY InitInv, StepInv, PTL DEF Spec

\* Every variable keeps its type for every ring size and thredhold; the level
\* stays an unsigned integer even when a reset tears the buffer.
THEOREM TypeCorrect == Spec => []TypeOK
<1>1. IInv => TypeOK
  BY DEF IInv
<1>2. QED
  BY <1>1, Invariance, PTL

\* Outside a torn reset (one that freed the scatter that the consumer held, up to the
\* next that finds it outside), the level is the number of scatters with data, so it
\* does not wrap around.
THEOREM LevelCorrect == Spec => []LevelExact
<1>1. IInv => LevelExact
  BY DEF IInv
<1>2. QED
  BY <1>1, Invariance, PTL

\* Outside a torn reset, the producer does not write the memory the consumer reads.
THEOREM NoSharing == Spec => []NoSharedBuffer
<1>1. IInv => NoSharedBuffer
  <2> SUFFICES ASSUME IInv, ~torn, mine # -1, hold # -1 PROVE mine # hold
    BY DEF NoSharedBuffer
  <2>1. slot[out] = "POP" /\ hold = out /\ out \in Scatters
    BY DEF IInv, TypeOK, Pointers, Whole, ConsumerOwns
  <2>2. ~AllFree
    BY <2>1 DEF AllFree
  <2>3. slot[in] = "PULL" /\ mine = in
    BY <2>2 DEF IInv, Pointers, Whole, ProducerOwns
  <2>4. QED
    BY <2>1, <2>3
<1>2. QED
  BY <1>1, Invariance, PTL

-----------------------------------------------------------------------------
(* The queue *)

\* The i-th scatter from out on.
Pos(i) == IF out + i < Count THEN out + i ELSE out + i - Count

\* The scatters with data are the level ones that follow out, and in is the next
\* one; between the two critical sections of reset there is none.
Contiguous ==
  ctl \notin {"clearSignal", "rewind"} =>
    /\ in = Pos(level)
    /\ \A i \in 0 .. Count - 1 : Pos(i) \in Filled <=> i < level

\* The scatter that is about to be ready holds the producer's buffer.
Handed == pcP = "push" => data[in] = put

QueueInv == ~torn => Contiguous /\ Handed

\* Once around the ring, an index comes back to the same scatter.
LEMMA Wrap ==
  \A x \in 0 .. 2 * Count - 1 : x % Count = IF x < Count THEN x ELSE x - Count
BY JitterAssumption

\* The index of a scatter is taken modulo their number.
LEMMA PosIsMod ==
  TypeOK =>
    \A i \in 0 .. Count - 1 : (out + i) % Count = Pos(i) /\ Pos(i) \in Scatters
<1> SUFFICES ASSUME TypeOK, NEW i \in 0 .. Count - 1
             PROVE  (out + i) % Count = Pos(i) /\ Pos(i) \in Scatters
  OBVIOUS
<1>1. out + i \in 0 .. 2 * Count - 1 /\ out \in 0 .. Count - 1
  BY JitterAssumption DEF TypeOK, Scatters
<1>2. QED
  BY <1>1, Wrap, JitterAssumption DEF Pos, Scatters

\* What the queue is when it is not being cleared.
QueueShape ==
  TypeOK /\ LevelExact /\ ~torn /\ ctl \notin {"clearSignal", "rewind"} =>
    /\ level \in 0 .. Count
    /\ Queue = [i \in 1 .. level |-> data[Pos(i - 1)]]

\* While no reset clears the ring, the queue is what the level scatters from out
\* on hold.
LEMMA QueueIs == QueueShape
<1> SUFFICES ASSUME TypeOK, LevelExact, ~torn, ctl \notin {"clearSignal", "rewind"}
             PROVE  /\ level \in 0 .. Count
                    /\ Queue = [i \in 1 .. level |-> data[Pos(i - 1)]]
  BY DEF QueueShape
<1>1. level = Cardinality(Filled) /\ level \in 0 .. Count
  BY FilledFinite DEF LevelExact
<1>2. \A i \in 1 .. level : data[(out + i - 1) % Count] = data[Pos(i - 1)]
  <2> SUFFICES ASSUME NEW i \in 1 .. level PROVE (out + i - 1) % Count = Pos(i - 1)
    OBVIOUS
  <2>1. i - 1 \in 0 .. Count - 1 /\ out + i - 1 = out + (i - 1)
    BY <1>1, JitterAssumption DEF TypeOK, Scatters
  <2>2. QED
    BY <2>1, PosIsMod
<1>3. QED
  BY <1>1, <1>2 DEF Queue

\* A ring of free scatters is an empty queue.
LEMMA QueueEmpty == ASSUME AllFree PROVE Queue = << >>
<1>1. Filled = {}
  BY DEF Filled, AllFree
<1>2. QED
  BY <1>1, FS_EmptySet DEF Queue

\* A push appends the producer's tag.
LEMMA PushPuts ==
  ASSUME IInv, QueueInv, ~torn, PushReady
  PROVE  Contiguous' /\ Fifo!Put(1)
<1> USE JitterAssumption
<1>1. ctl \notin {"clearSignal", "rewind"} /\ slot[in] = "PULL" /\ in \in Scatters
  BY DEF PushReady, IInv, Joined, Resetting, Whole, ProducerOwns, TypeOK
<1>2. level \in 0 .. Count /\ Queue = [i \in 1 .. level |-> data[Pos(i - 1)]]
  BY <1>1, QueueIs DEF QueueShape, IInv
<1>3. in = Pos(level) /\ in \notin Filled
      /\ \A i \in 0 .. Count - 1 : Pos(i) \in Filled <=> i < level
  BY <1>1 DEF QueueInv, Contiguous, Filled
<1>4. level < Count
  <2>1. Pos(Count) = out /\ Pos(0) = out
    BY DEF IInv, TypeOK, Scatters, Pos
  <2>2. QED
    BY <1>2, <1>3, <2>1
<1>5. Filled' = Filled \cup {in} /\ level' = level + 1 /\ UNCHANGED <<out, ctl, data>>
  BY <1>1, <1>2, <1>4 DEF PushReady, Unsigned, IInv, TypeOK, Filled
<1>6. Contiguous'
  <2>1. in' = Pos(level)'
    <3>1. in' = IF in = Count - 1 THEN 0 ELSE in + 1
      BY DEF PushReady, Next1
    <3>2. out \in 0 .. Count - 1
      BY DEF IInv, TypeOK, Scatters
    <3>3. Pos(level)' = IF out + (level + 1) < Count THEN out + (level + 1)
                        ELSE out + (level + 1) - Count
      BY <1>5 DEF Pos
    <3>4. QED
      BY <1>2, <1>3, <1>4, <3>1, <3>2, <3>3 DEF Pos
  <2>2. \A i \in 0 .. Count - 1 : Pos(i)' = Pos(i) /\ (Pos(i) = in <=> i = level)
    BY <1>2, <1>3, <1>4, <1>5 DEF Pos, IInv, TypeOK, Scatters
  <2>3. \A i \in 0 .. Count - 1 : Pos(i)' \in Filled' <=> i < level'
    BY <1>2, <1>3, <1>5, <2>2
  <2>4. QED
    BY <2>1, <2>3 DEF Contiguous
<1>7. Queue' = [i \in 1 .. level + 1 |-> data[Pos(i - 1)]]
  <2>1. TypeOK' /\ LevelExact' /\ ~torn' /\ ctl' \notin {"clearSignal", "rewind"}
    BY <1>1, StepType, StepLevel DEF IInv, PushReady, Next, Producer, QueueInv
  <2>2. QueueShape'
    BY QueueIs, PTL
  <2>3. QED
    BY <2>1, <2>2, <1>5 DEF QueueShape, Pos
<1>8. put \in 0 .. Tags - 1 /\ data[Pos(level)] = put
  BY <1>3 DEF IInv, TypeOK, QueueInv, Handed, PushReady
<1>9. Queue' = Queue \o [i \in 1 .. 1 |-> (put + i - 1) % Tags] /\ Len(Queue) = level
  <2>1. \A i \in 1 .. level + 1 : data[Pos(i - 1)] \in -1 .. Tags - 1
    BY <1>2, <1>4, PosIsMod DEF IInv, TypeOK
  <2>2. [i \in 1 .. 1 |-> (put + i - 1) % Tags] = <<put>>
    BY <1>8
  <2>3. QED
    BY <1>2, <1>7, <1>8, <2>1, <2>2
<1>10. QED
  BY <1>4, <1>6, <1>8, <1>9 DEF Fifo!Put, PushReady, consumer

\* A pop takes the oldest tag.
LEMMA PopTakes ==
  ASSUME IInv, QueueInv, ~torn, PopFree
  PROVE  Contiguous' /\ Fifo!Take(1)
<1> USE JitterAssumption
<1>1. ctl \notin {"clearSignal", "rewind"} /\ slot[out] = "POP" /\ hold = out
  BY DEF PopFree, IInv, Cleared, Quiet, Whole, ConsumerOwns
<1>2. level \in 0 .. Count /\ Queue = [i \in 1 .. level |-> data[Pos(i - 1)]]
  BY <1>1, QueueIs DEF QueueShape, IInv
<1>3. in = Pos(level) /\ \A i \in 0 .. Count - 1 : Pos(i) \in Filled <=> i < level
  BY <1>1 DEF QueueInv, Contiguous
<1>4. Pos(0) = out /\ out \in Filled /\ out \in 0 .. Count - 1 /\ level > 0
  <2>1. Pos(0) = out /\ out \in Filled /\ out \in 0 .. Count - 1
    BY <1>1 DEF IInv, TypeOK, Scatters, Pos, Filled
  <2>2. QED
    BY <1>2, <1>3, <2>1
<1>5. /\ Filled' = Filled \ {out} /\ level' = level - 1
      /\ out' = Next1(out) /\ UNCHANGED <<in, ctl, data>>
  <2>1. level' = level - 1
    BY <1>2, <1>4 DEF PopFree, Unsigned
  <2>2. QED
    BY <2>1 DEF PopFree, IInv, TypeOK, Filled
<1>6. \A i \in 0 .. Count - 1 : Pos(i)' = Pos(i + 1)
  BY <1>4, <1>5 DEF Pos, Next1
<1>7. Contiguous'
  <2>1. in' = Pos(level)'
    BY <1>2, <1>3, <1>4, <1>5 DEF Pos, Next1
  <2>2. ASSUME NEW i \in 0 .. Count - 1 PROVE Pos(i)' \in Filled' <=> i < level'
    <3>1. CASE i = Count - 1
      <4>1. Pos(i + 1) = out
        BY <3>1, <1>4 DEF Pos
      <4>2. QED
        BY <1>2, <1>5, <1>6, <3>1, <4>1
    <3>2. CASE i < Count - 1
      <4>1. i + 1 \in 0 .. Count - 1 /\ Pos(i + 1) # out
        BY <3>2, <1>4 DEF Pos
      <4>2. QED
        BY <1>2, <1>3, <1>5, <1>6, <4>1
    <3>3. QED
      BY <3>1, <3>2
  <2>3. QED
    BY <2>1, <2>2 DEF Contiguous
<1>8. Queue' = [i \in 1 .. level - 1 |-> data[Pos(i)]]
  <2>1. TypeOK' /\ LevelExact' /\ ~torn' /\ ctl' \notin {"clearSignal", "rewind"}
    BY <1>1, StepType, StepLevel DEF IInv, PopFree, Next, Consumer, QueueInv
  <2>2. QueueShape'
    BY QueueIs, PTL
  <2>3. Queue' = [i \in 1 .. level' |-> data'[(Pos(i - 1))']]
    BY <2>1, <2>2 DEF QueueShape, Pos
  <2>4. \A i \in 1 .. level - 1 : (Pos(i - 1))' = Pos(i)
    <3> SUFFICES ASSUME NEW i \in 1 .. level - 1 PROVE (Pos(i - 1))' = Pos(i)
      OBVIOUS
    <3>1. i - 1 \in 0 .. Count - 1 /\ (i - 1) + 1 = i
      BY <1>2
    <3>2. QED
      BY <3>1, <1>6
  <2>5. QED
    BY <2>3, <2>4, <1>5
<1>9. Queue' = SubSeq(Queue, 2, Len(Queue)) /\ Len(Queue) = level /\ Queue[1] = data[out]
  <2>1. \A i \in 1 .. level : data[Pos(i - 1)] \in -1 .. Tags - 1
    BY <1>2, PosIsMod DEF IInv, TypeOK
  <2>2. QED
    BY <1>2, <1>4, <1>8, <2>1
<1>10. QED
  BY <1>1, <1>4, <1>7, <1>9 DEF Fifo!Take, PopFree, producer

\* A step that leaves the ring's indices, its filled scatters and its memory
\* alone leaves the queue alone.
LEMMA QueueFrame ==
  ASSUME QueueInv, ~torn, UNCHANGED <<data, in, out, level, put, got>>,
         Filled' = Filled, pcP' # "push" \/ pcP = "push",
         ctl \in {"clearSignal", "rewind"} => ctl' \in {"clearSignal", "rewind"}
  PROVE  Contiguous' /\ Handed' /\ UNCHANGED Fifo!fifoVars
<1>1. Queue' = Queue
  BY DEF Queue
<1>2. Contiguous'
  BY DEF QueueInv, Contiguous, Pos
<1>3. Handed'
  BY DEF QueueInv, Handed
<1>4. QED
  BY <1>1, <1>2, <1>3 DEF Fifo!fifoVars

\* Filling a pulled scatter does not touch the queue; filling one that a reset
\* has freed happens while the queue is empty.
LEMMA PushFills ==
  ASSUME IInv, QueueInv, ~torn, PushCheck \/ PushIgnored
  PROVE  Contiguous' /\ Handed' /\ UNCHANGED Fifo!fifoVars
<1>1. ctl \notin {"clearSignal", "rewind"} /\ UNCHANGED <<slot, in, out, level, ctl, torn, put, got>>
  BY DEF PushCheck, PushIgnored, Resetting, consumer
<1>2. Filled' = Filled
  BY <1>1 DEF Filled
<1>3. Contiguous'
  BY <1>1, <1>2 DEF QueueInv, Contiguous, Pos
<1>4. CASE PushIgnored
  <2>1. AllFree /\ AllFree'
    BY <1>1, <1>4 DEF PushIgnored, IInv, Whole, ProducerOwns, AllFree
  <2>2. Queue = << >>
    BY <2>1, QueueEmpty
  <2>3. Filled' = {}
    BY <2>1 DEF Filled, AllFree
  <2>4. Queue' = << >>
    BY <2>3, FS_EmptySet DEF Queue
  <2>5. QED
    BY <1>1, <1>3, <1>4, <2>2, <2>4 DEF PushIgnored, Handed, Fifo!fifoVars
<1>5. CASE PushCheck /\ pcP' # "push"
  BY <1>1, <1>2, <1>5, QueueFrame DEF PushCheck, consumer
<1>6. CASE PushCheck /\ pcP' = "push"
  <2>0. data' = [data EXCEPT ![mine] = put]
    BY <1>6 DEF PushCheck
  <2>1. mine = in /\ in \in Scatters /\ in \notin Filled /\ ~AllFree
    BY <1>6 DEF PushCheck, IInv, Whole, ProducerOwns, AllFree, TypeOK, Filled
  <2>2. level \in 0 .. Count /\ level = Cardinality(Filled)
    BY <1>1, QueueIs DEF QueueShape, IInv, LevelExact
  <2>3. ASSUME NEW i \in 1 .. level
        PROVE  data'[(out + i - 1) % Count] = data[(out + i - 1) % Count]
    <3>1. i - 1 \in 0 .. Count - 1 /\ out + i - 1 = out + (i - 1) /\ i - 1 < level
      BY <2>2, JitterAssumption DEF IInv, TypeOK, Scatters
    <3>2. Pos(i - 1) \in Filled /\ (out + i - 1) % Count = Pos(i - 1)
      BY <1>1, <3>1, PosIsMod DEF QueueInv, Contiguous, IInv
    <3>3. QED
      BY <2>0, <2>1, <3>2 DEF IInv, TypeOK
  <2>4. Queue' = Queue
    BY <1>1, <1>2, <2>2, <2>3 DEF Queue
  <2>5. Handed'
    BY <1>1, <1>6, <2>0, <2>1 DEF Handed, IInv, TypeOK, PushCheck
  <2>6. QED
    BY <1>1, <1>3, <2>4, <2>5 DEF Fifo!fifoVars
<1>7. QED
  BY <1>4, <1>5, <1>6 DEF PushCheck

\* Reset empties the queue in its first critical section; in the second one it
\* moves the indices of an empty ring.
LEMMA ResetClears ==
  ASSUME IInv, QueueInv, ~torn, ~torn', ResetClear \/ ResetRewind
  PROVE  Contiguous' /\ Handed' /\ (Fifo!Clear \/ UNCHANGED Fifo!fifoVars)
<1> USE JitterAssumption
<1>1. AllFree' /\ Filled' = {}
  BY DEF ResetClear, ResetRewind, IInv, Whole, Cleared, AllFree, Filled
<1>2. Queue' = << >>
  BY <1>1, FS_EmptySet DEF Queue
<1>3. UNCHANGED <<put, got, pcP>> /\ Handed'
  BY DEF ResetClear, ResetRewind, producer, consumer, IInv, Joined, Resetting, Handed
<1>4. CASE ResetClear
  <2>1. put' = (put + 0) % Tags
    BY <1>3 DEF IInv, TypeOK
  <2>2. Fifo!Clear
    BY <1>2, <1>3, <2>1 DEF Fifo!Clear
  <2>3. Contiguous'
    BY <1>4 DEF ResetClear, Contiguous
  <2>4. QED
    BY <1>3, <2>2, <2>3
<1>5. CASE ResetRewind
  <2>1. AllFree
    BY <1>5 DEF ResetRewind, IInv, Whole, Cleared
  <2>2. Queue = << >>
    BY <2>1, QueueEmpty
  <2>3. in' = 0 /\ out' = 0 /\ level' = 0
    BY <1>5 DEF ResetRewind
  <2>4. Contiguous'
    BY <1>1, <2>3 DEF Contiguous, Pos
  <2>5. QED
    BY <1>2, <1>3, <2>2, <2>4 DEF Fifo!fifoVars
<1>6. QED
  BY <1>4, <1>5

\* Every step of a buffer that is not torn keeps the ring contiguous and is a
\* step of the bounded queue, or leaves the queue alone.
LEMMA StepQueue ==
  ASSUME IInv, QueueInv, ~torn, ~torn', [Next]_vars
  PROVE  Contiguous' /\ Handed' /\ [Fifo!FifoNext]_(Fifo!fifoVars)
<1>1. CASE PushReady
  <2>1. Handed'
    BY <1>1 DEF PushReady, Handed
  <2>2. QED
    BY <1>1, <2>1, PushPuts DEF Fifo!FifoNext
<1>2. CASE PopFree
  <2>1. Handed'
    BY <1>2 DEF PopFree, Handed, QueueInv, producer
  <2>2. QED
    BY <1>2, <2>1, PopTakes DEF Fifo!FifoNext
<1>3. CASE PushCheck \/ PushIgnored
  BY <1>3, PushFills
<1>4. CASE ResetClear \/ ResetRewind
  BY <1>4, ResetClears DEF Fifo!FifoNext
<1>5. CASE PullGrant \/ PushEnd \/ PeerTake \/ PopBack \/ PopStray
  <2>1. Filled' = Filled
    BY <1>5 DEF PullGrant, PushEnd, PeerTake, PopBack, PopStray, MustWait, Filled, IInv,
                TypeOK, Whole, ProducerOwns, ConsumerOwns
  <2>2. UNCHANGED <<data, in, out, level, put, got, ctl>> /\ (pcP' # "push" \/ pcP = "push")
    BY <1>5 DEF PullGrant, PushEnd, PeerTake, PopBack, PopStray, producer, consumer
  <2>3. QED
    BY <2>1, <2>2, QueueFrame
<1>6. CASE \/ PullBlock \/ PullNull \/ PushTail \/ PushRun \/ PeerStart \/ PeerCheck
           \/ PeerBlock \/ PeerReturn \/ PopCheck \/ PopSignal
           \/ \E t \in {"producer", "consumer"} : Spurious(t)
           \/ UNCHANGED vars
  <2>1. /\ UNCHANGED <<slot, data, in, out, level, put, got, ctl>>
        /\ pcP' # "push" \/ pcP = "push"
    BY <1>6 DEF PullBlock, PullNull, PushTail, PushRun, PeerStart, PeerCheck, PeerBlock,
                PeerReturn, PopCheck, PopSignal, Spurious, vars, ring, producer, consumer
  <2>2. QED
    BY <2>1, QueueFrame DEF Filled
<1>7. CASE Signal \/ Flush \/ Reset \/ \E enable \in BOOLEAN : Pause(enable)
  <2>1. /\ UNCHANGED <<slot, data, in, out, level, put, got, pcP>>
        /\ ctl \in {"clearSignal", "rewind"} => ctl' \in {"clearSignal", "rewind"}
    BY <1>7 DEF Signal, PauseSignal, FlushSignal, Flush, Reset, Pause, ring, producer,
                consumer
  <2>2. QED
    BY <2>1, QueueFrame DEF Filled
<1>8. QED
  BY <1>1, <1>2, <1>3, <1>4, <1>5, <1>6, <1>7 DEF Next, Producer, Consumer, Controller

\* The ring is contiguous in every reachable state that no reset has torn.
LEMMA QueueInvariance == Spec => []QueueInv
<1>1. Init => QueueInv
  <2> SUFFICES ASSUME Init PROVE QueueInv
    OBVIOUS
  <2>1. Filled = {}
    BY DEF Init, Filled
  <2>2. QED
    BY <2>1, JitterAssumption DEF Init, QueueInv, Contiguous, Handed, Pos
<1>2. IInv /\ QueueInv /\ [Next]_vars => QueueInv'
  <2> SUFFICES ASSUME IInv, QueueInv, [Next]_vars, ~torn' PROVE Contiguous' /\ Handed'
    BY DEF QueueInv
  <2>1. CASE ~torn
    BY <2>1, StepQueue
  <2>2. CASE torn
    <3>1. ctl' = "clearSignal" /\ Whole' /\ Joined'
      BY <2>2, StepMended, StepJoined DEF IInv
    <3>2. pcP' # "push"
      BY <3>1 DEF Joined, Resetting
    <3>3. QED
      BY <3>1, <3>2 DEF Contiguous, Handed
  <2>3. QED
    BY <2>1, <2>2
<1>3. QED
  BY <1>1, <1>2, Invariance, PTL DEF Spec

\* The reset that mends a torn buffer empties the queue.
LEMMA MendClears ==
  ASSUME IInv, torn, ~torn', [Next]_vars
  PROVE  Fifo!Clear
<1>1. ResetClear
  BY StepMended DEF IInv
<1>2. AllFree'
  BY <1>1 DEF ResetClear, AllFree
<1>3. Filled' = {}
  BY <1>2 DEF AllFree, Filled
<1>4. Queue' = << >>
  BY <1>3, FS_EmptySet DEF Queue
<1>5. UNCHANGED <<put, got>> /\ put' = (put + 0) % Tags /\ 0 \in 0 .. 1
  BY <1>1, JitterAssumption DEF ResetClear, producer, consumer, IInv, TypeOK
<1>6. QED
  BY <1>4, <1>5 DEF Fifo!Clear

\* Outside of a torn reset, and with the reset that mends it, each step of the
\* buffer is a step of a bounded queue or leaves it alone: what pop releases is
\* what push gave, in order.
THEOREM QueueRefinement == Spec => ImplementsFifo
<1>1. Init => Fifo!FifoInit
  <2>1. Init => AllFree /\ put = 0 /\ got = -1
    BY DEF Init, AllFree
  <2>2. QED
    BY <2>1, QueueEmpty DEF Fifo!FifoInit
<1>2. IInv /\ QueueInv /\ [Next]_vars => [Fifo!FifoNext \/ torn']_(Fifo!fifoVars)
  <2> SUFFICES ASSUME IInv, QueueInv, [Next]_vars, ~torn'
               PROVE  [Fifo!FifoNext]_(Fifo!fifoVars)
    OBVIOUS
  <2>1. CASE ~torn
    BY <2>1, StepQueue
  <2>2. CASE torn
    BY <2>2, MendClears DEF Fifo!FifoNext
  <2>3. QED
    BY <2>1, <2>2
<1>3. QED
  BY <1>1, <1>2, Invariance, QueueInvariance, PTL DEF Spec, ImplementsFifo

\* Where the callers reset a buffer only while its consumer is outside of it,
\* the buffer implements the queue without exception.
THEOREM QueueRefinementQuiet ==
  ASSUME ResetWhileHeld = FALSE PROVE Spec => ImplementsFifo /\ Fifo!FifoSpec
<1>1. Init => ~torn
  BY DEF Init
<1>2. ~torn /\ [Next]_vars => ~torn'
  BY DEF Next, Producer, Consumer, Controller, Signal, PullBlock, PullGrant,
         PullNull, PushIgnored, PushCheck, PushEnd, PushReady, PushTail, PushRun,
         PeerStart, PeerCheck, PeerBlock, PeerTake, PeerReturn, PopBack, PopCheck,
         PopStray, PopFree, PopSignal, Pause, PauseSignal, FlushSignal, Flush,
         Reset, ResetClear, ResetRewind, Spurious, vars
<1>3. Spec => []~torn
  BY <1>1, <1>2, PTL DEF Spec
<1>4. []~torn /\ ImplementsFifo => Fifo!FifoSpec
  <2>1. ~torn' /\ [Fifo!FifoNext \/ torn']_(Fifo!fifoVars) => [Fifo!FifoNext]_(Fifo!fifoVars)
    OBVIOUS
  <2>2. QED
    BY <2>1, PTL DEF ImplementsFifo, Fifo!FifoSpec
<1>5. QED
  BY <1>3, <1>4, QueueRefinement, PTL
=============================================================================
