-------------------------- MODULE JitterRingProofs --------------------------
(***************************************************************************)
(* Proofs about the byte ring, for every number and size of blocks, every  *)
(* thredhold, every length a source pushes and every use of flush.         *)
(*                                                                         *)
(* That the two blocks pull and peer hand out are apart, and inside of the *)
(* allocated memory, is not inductive: it follows from where in and out    *)
(* are (Positions), from what the level of the ring was when pull and peer *)
(* returned and may only have changed to since (Granted, Peered).          *)
(*                                                                         *)
(* That the ring is a queue of the bytes of the stream, each byte at the   *)
(* place where it was written (Home), is one invariant on the memory:      *)
(* Bytes.  What peer has copied in front of the ring is there too, up to   *)
(* where the bytes ended at that time (Copied); with a callback, which is  *)
(* asked until there is a block (Primed), they never end before the ring   *)
(* does, and the copy is whole.                                            *)
(***************************************************************************)
EXTENDS JitterRing, TLAPS

\* in is level bytes after out, around the ring.  out may stand on the end with
\* a full ring behind it, until peer moves it; and peer may move it to the
\* front while in has not come back to the start.
Positions ==
  /\ in # Null => in \in 0 .. Cap - 1
  /\ out # Null => out \in 1 - Size .. Cap
  /\ in # Null /\ out # Null => out + level \in {in - Cap, in, in + Cap, in + 2 * Cap}

\* The thread that may write a block at in has room for it; in is lost when the
\* source's thread has pushed its last.
Granted ==
  /\ pcP \in {"fill", "push"} => level + Size <= Cap
  /\ in = Null => pcP \in {"pushTail", "pushRun", "flush", "signal", "end"}
  /\ produce => pcP = "none"
  /\ pcC = "produce" => produce /\ level < Thredhold * Size

\* The decoder, once peer has moved out, has a block in the memory, and what it
\* pops is in the ring; out is lost when peer returns NULL.
Peered ==
  /\ pcC \in {"peerWait", "use", "read", "pop"} => out # Null /\ out + Size <= Cap
  /\ pcC \in {"read", "pop"} => view <= level
  /\ out = Null => pcC = "end"

IInv == TypeOK /\ Positions /\ Granted /\ Peered

-----------------------------------------------------------------------------
\* The bytes of the ring, and of its thredhold, are numbers in proportion.
LEMMA CapFacts ==
  /\ Cap \in Nat /\ Size <= Cap
  /\ Thredhold * Size \in Nat /\ Thredhold * Size + Size <= Cap
<1> USE RingAssumption
<1>1. Count - 1 - Thredhold \in Nat
  OBVIOUS
<1>2. \A a, b \in Nat : a * b \in Nat
  OBVIOUS
<1>3. (Count - 1 - Thredhold) * Size \in Nat /\ Thredhold * Size \in Nat
  BY <1>1, <1>2
<1>4. Count * Size = (Count - 1 - Thredhold) * Size + Thredhold * Size + Size
  OBVIOUS
<1>5. QED
  BY <1>3, <1>4 DEF Cap

\* A ring just made is empty, with both ends on its first byte.
LEMMA InitInv == Init => IInv
<1> SUFFICES ASSUME Init PROVE IInv
  OBVIOUS
<1> USE RingAssumption, CapFacts DEF Init, Null
<1>1. mem \in [Cells -> -1 .. Tags - 1]
  OBVIOUS
<1>2. in \in Cells \cup {Null} /\ out \in Cells \cup {Null} /\ level \in 0 .. Cap
  BY DEF Cells
<1>3. produce \in BOOLEAN
  OBVIOUS
<1>4. len \in 0 .. Size /\ put \in 0 .. Tags - 1 /\ view \in 0 .. Size /\ got \in -1 .. Tags - 1
  OBVIOUS
<1>5. TypeOK
  BY <1>1, <1>2, <1>3, <1>4 DEF TypeOK
<1>6. Positions /\ Granted /\ Peered
  BY DEF Positions, Granted, Peered
<1>7. QED
  BY <1>5, <1>6 DEF IInv

-----------------------------------------------------------------------------
(* Where the two ends are *)

\* What a step needs to know of the numbers; the memory and the tags play no
\* part in where in and out are.
Numbers ==
  /\ in \in Int /\ out \in Int /\ level \in 0 .. Cap
  /\ len \in 0 .. Size /\ view \in 0 .. Size

Located == Numbers /\ Positions /\ Granted /\ Peered

\* The steps of the source's thread keep the two ends in place.
LEMMA ProducerLocated ==
  ASSUME Located, Producer
  PROVE  Located'
<1> USE RingAssumption, CapFacts
    DEF Located, Numbers, Positions, Granted, Peered, Null, ring, producer, consumer
<1>1. CASE PullBlock
  BY <1>1 DEF PullBlock, Pulling
<1>2. CASE PullGrant
  BY <1>2 DEF PullGrant, Pulling, HasRoom
<1>3. CASE PullNull
  BY <1>3 DEF PullNull, Pulling
<1>4. CASE \E n \in Lens : Fill(n)
  BY <1>4 DEF Fill, Lens
<1>5. CASE EndOfStream
  BY <1>5 DEF EndOfStream
<1>6. CASE Push
  <2> USE <1>6 DEF Push, Wrap
  <2>1. CASE len = 0
    BY <2>1
  <2>2. CASE len # 0
    <3>1. in # Null /\ level + len <= Cap
      OBVIOUS
    <3>2. Numbers' /\ Granted' /\ Peered'
      BY <3>1
    <3>3. in' \in 0 .. Cap - 1 /\ in' \in {in + len, in + len - Cap}
      BY <2>2, <3>1
    <3>4. ASSUME out # Null
          PROVE  (out + level)' \in {in' - Cap, in', in' + Cap, in' + 2 * Cap}
      BY <2>2, <3>1, <3>3, <3>4
    <3>5. QED
      BY <3>2, <3>3, <3>4
  <2>3. QED
    BY <2>1, <2>2
<1>7. CASE PushTail
  BY <1>7 DEF PushTail, Pushed
<1>8. CASE PushRun
  BY <1>8 DEF PushRun, Pushed
<1>9. CASE FlushByProducer
  BY <1>9 DEF FlushByProducer, SetFlush, Flushed
<1>10. CASE SignalByProducer
  BY <1>10 DEF SignalByProducer
<1>11. CASE SourceFails
  BY <1>11 DEF SourceFails
<1>12. QED
  BY <1>1, <1>2, <1>3, <1>4, <1>5, <1>6, <1>7, <1>8, <1>9, <1>10, <1>11 DEF Producer

\* The variatic move of peer leaves a block between out and the end.
LEMMA MoveLocated ==
  ASSUME Located, Peering, Move, pcC' \in {"peerWait", "use"},
         UNCHANGED <<in, level, produce, len, view, pcP>>
  PROVE  Located'
<1> USE RingAssumption, CapFacts DEF Located
<1>1. out # Null /\ out \in 1 - Size .. Cap
  BY DEF Positions, Peered, Peering, Entering
<1>2. out' \in {out, out - Cap} /\ out' \in 1 - Size .. Cap - Size
  <2>1. CASE Moves
    BY <1>1, <2>1 DEF Moves, Move
  <2>2. CASE ~Moves
    <3>1. out + Size <= Cap
      BY <1>1, <2>2 DEF Moves, Peering, Peered
    <3>2. QED
      BY <1>1, <2>2, <3>1 DEF Move
  <2>3. QED
    BY <2>1, <2>2
<1>3. out' # Null
  BY <1>2 DEF Null
<1>4. Numbers'
  BY <1>2 DEF Numbers
<1>5. Granted'
  BY DEF Granted
<1>6. Peered'
  <2>1. Cap \in Nat /\ Size \in Nat
    OBVIOUS
  <2>2. out' + Size <= Cap
    <3> HIDE RingAssumption, CapFacts DEF Located
    <3>1. out' \in 1 - Size .. Cap - Size
      BY <1>2
    <3>2. \A p \in 1 - Size .. Cap - Size : p + Size <= Cap
      BY <2>1
    <3>3. QED
      BY <3>1, <3>2
  <2>3. QED
    BY <1>3, <2>2 DEF Peered
<1>7. ASSUME in # Null
      PROVE  out' + level \in {in - Cap, in, in + Cap, in + 2 * Cap}
  <2>1. in \in 0 .. Cap - 1 /\ level \in 0 .. Cap
        /\ out + level \in {in - Cap, in, in + Cap, in + 2 * Cap}
    BY <1>1, <1>7 DEF Positions, Numbers
  <2>2. CASE Moves
    <3>1. out' = out - Cap /\ out + Size > Cap
      BY <2>2 DEF Moves, Move
    <3>2. out + level # in - Cap
      BY <2>1, <3>1, <1>1
    <3>3. QED
      BY <1>1, <2>1, <3>1, <3>2
  <2>3. CASE ~Moves
    BY <2>1, <2>3 DEF Move
  <2>4. QED
    BY <2>2, <2>3
<1>8. Positions'
  BY <1>2, <1>7 DEF Positions, Null
<1>9. QED
  BY <1>4, <1>5, <1>6, <1>8

\* The steps of the decoder's thread keep the two ends in place.
LEMMA DecodeLocated ==
  ASSUME Located, Decode
  PROVE  Located'
<1> USE RingAssumption, CapFacts
    DEF Located, Numbers, Positions, Granted, Peered, Null, ring, producer, consumer
<1>1. ASSUME NEW n \in Lens, PeerProduce(n)
      PROVE  Located'
  <2> USE <1>1 DEF PeerProduce, Lens, HasRoom, Wrap
  <2>1. level + Size <= Cap /\ n \in 1 .. Size /\ in # Null
    OBVIOUS
  <2>2. Numbers' /\ Peered'
    BY <2>1
  <2>3. Granted'
    BY <2>1
  <2>4. Positions'
    BY <2>1
  <2>5. QED
    BY <2>2, <2>3, <2>4
<1>2. CASE PeerProduceNull
  BY <1>2 DEF PeerProduceNull
<1>3. CASE PeerFull
  BY <1>3 DEF PeerFull
<1>4. CASE PeerBlock
  BY <1>4, MoveLocated DEF PeerBlock
<1>5. CASE PeerTake
  BY <1>5, MoveLocated DEF PeerTake
<1>6. CASE PeerNull
  <2>1. /\ out' = Null /\ pcC' = "end"
        /\ UNCHANGED <<in, level, produce, len, view, pcP>>
    BY <1>6 DEF PeerNull
  <2>2. QED
    BY <2>1
<1>7. CASE Length
  BY <1>7 DEF Length
<1>8. CASE \E n \in 0 .. Size : PopCheck(n)
  BY <1>8 DEF PopCheck
<1>9. CASE Pop
  BY <1>9 DEF Pop
<1>10. CASE PopSignal
  BY <1>10 DEF PopSignal
<1>11. CASE SignalByConsumer
  BY <1>11 DEF SignalByConsumer
<1>12. QED
  BY <1>1, <1>2, <1>3, <1>4, <1>5, <1>6, <1>7, <1>8, <1>9, <1>10, <1>11 DEF Decode

\* Every step keeps the two ends in place.
LEMMA StepLocated ==
  ASSUME Located, [Next]_vars
  PROVE  Located'
<1> USE DEF Located, Numbers, Positions, Granted, Peered, Null, ring, producer, consumer
<1>1. CASE Producer
  BY <1>1, ProducerLocated
<1>2. CASE Decode
  BY <1>2, DecodeLocated
<1>3. CASE FlushByConsumer
  BY <1>3 DEF FlushByConsumer, SetFlush, Flushed
<1>4. CASE FlushByControl
  BY <1>4 DEF FlushByControl, SetFlush, Flushed
<1>5. CASE SignalByControl
  BY <1>5 DEF SignalByControl
<1>6. CASE \E t \in {"producer", "consumer"} : Spurious(t)
  BY <1>6 DEF Spurious
<1>7. CASE UNCHANGED vars
  BY <1>7 DEF vars
<1>8. QED
  BY <1>1, <1>2, <1>3, <1>4, <1>5, <1>6, <1>7 DEF Next

-----------------------------------------------------------------------------
(* Types *)

\* A tag counted modulo Tags is a tag.
LEMMA TagMod == \A n \in Int : n % Tags \in 0 .. Tags - 1
<1>1. Tags \in Nat /\ Tags > 0
  BY RingAssumption, CapFacts DEF Cap
<1>2. QED
  BY <1>1

\* The operations on the memory keep a tag in every byte.
LEMMA MemType ==
  ASSUME TypeOK
  PROVE  /\ \A n \in Lens : Written(n) \in [Cells -> -1 .. Tags - 1]
         /\ \A m \in [Cells -> -1 .. Tags - 1], top \in 0 .. Cap + Size :
              BehindToStart(m, top) \in [Cells -> -1 .. Tags - 1]
         /\ out # Null /\ out + Size > Cap =>
              LeftToFront(mem) \in [Cells -> -1 .. Tags - 1]
         /\ \A n \in 0 .. Size : Popped(n) \in [Cells -> -1 .. Tags - 1]
<1> USE RingAssumption, CapFacts
<1>1. ASSUME NEW n \in Lens
      PROVE  Written(n) \in [Cells -> -1 .. Tags - 1]
  <2>1. in \in Int /\ put \in Int
    BY DEF TypeOK, Cells, Null
  <2>2. ASSUME NEW c \in Cells
        PROVE  (put + c - in) % Tags \in -1 .. Tags - 1
    <3>1. put + c - in \in Int
      BY <2>1 DEF Cells
    <3>2. (put + c - in) % Tags \in 0 .. Tags - 1
      BY <3>1, TagMod
    <3>3. QED
      BY <3>2
  <2>3. QED
    BY <2>2 DEF Written, TypeOK
<1>2. ASSUME NEW m \in [Cells -> -1 .. Tags - 1], NEW top \in 0 .. Cap + Size
      PROVE  BehindToStart(m, top) \in [Cells -> -1 .. Tags - 1]
  BY DEF BehindToStart, Cells
<1>3. ASSUME out # Null, out + Size > Cap
      PROVE  LeftToFront(mem) \in [Cells -> -1 .. Tags - 1]
  BY <1>3 DEF LeftToFront, TypeOK, Cells, Null
<1>4. ASSUME NEW n \in 0 .. Size
      PROVE  Popped(n) \in [Cells -> -1 .. Tags - 1]
  BY DEF Popped, TypeOK
<1>5. QED
  BY <1>1, <1>2, <1>3, <1>4

\* Every step keeps a tag in every byte of the memory, and counts the tags that
\* went in and came out.
LEMMA StepMem ==
  ASSUME IInv, [Next]_vars
  PROVE  /\ mem' \in [Cells -> -1 .. Tags - 1]
         /\ put' \in 0 .. Tags - 1 /\ got' \in -1 .. Tags - 1
<1> USE RingAssumption, CapFacts
    DEF IInv, TypeOK, ring, producer, consumer
<1>1. CASE \E n \in Lens : Fill(n)
  BY <1>1, MemType DEF Fill, Lens
<1>2. CASE Push
  <2>1. put + len \in Int
    BY DEF TypeOK
  <2>2. in # Null /\ in + len \in 0 .. Cap + Size
    BY <1>2 DEF Push, Granted, Positions
  <2>3. mem' \in [Cells -> -1 .. Tags - 1]
    BY <1>2, <2>2, MemType DEF Push
  <2>4. QED
    BY <1>2, <2>1, <2>3, TagMod DEF Push
<1>3. ASSUME NEW n \in Lens, PeerProduce(n)
      PROVE  mem' \in [Cells -> -1 .. Tags - 1] /\ put' \in 0 .. Tags - 1 /\ got' = got
  <2>1. put + n \in Int /\ n \in 1 .. Size
    BY DEF TypeOK, Lens
  <2>2. in # Null /\ in + n \in 0 .. Cap + Size
    BY <1>3, <2>1 DEF PeerProduce, Granted, Positions
  <2>3. Written(n) \in [Cells -> -1 .. Tags - 1]
    BY MemType
  <2>4. mem' \in [Cells -> -1 .. Tags - 1]
    BY <1>3, <2>2, <2>3, MemType DEF PeerProduce
  <2>5. QED
    BY <1>3, <2>1, <2>4, TagMod DEF PeerProduce
<1>4. CASE PeerBlock \/ PeerTake \/ PeerNull
  <2>1. Moves => out # Null
    BY DEF Moves, Entering, Peered
  <2>2. mem' \in {mem, LeftToFront(mem)} /\ (mem' = LeftToFront(mem) => mem' = mem \/ Moves)
        /\ UNCHANGED <<put, got>>
    BY <1>4 DEF PeerBlock, PeerTake, PeerNull, Move
  <2>3. QED
    BY <2>1, <2>2, MemType DEF Moves
<1>5. CASE Pop
  <2>1. out # Null /\ out + Size <= Cap /\ out \in 1 - Size .. Cap
    BY <1>5 DEF Pop, Peered, Positions
  <2>2. view # 0 => Home(out + view - 1) \in Cells
    BY <2>1 DEF Cells, Home, Wrap
  <2>3. got' \in -1 .. Tags - 1
    BY <1>5, <2>2 DEF Pop
  <2>4. QED
    BY <1>5, <2>3, MemType DEF Pop
<1>6. CASE UNCHANGED <<mem, put, got>>
  BY <1>6
<1>7. \/ \E n \in Lens : Fill(n)
      \/ Push
      \/ \E n \in Lens : PeerProduce(n)
      \/ PeerBlock \/ PeerTake \/ PeerNull
      \/ Pop
      \/ UNCHANGED <<mem, put, got>>
  BY DEF Next, Producer, Decode, PullBlock, PullGrant, PullNull, EndOfStream, SourceFails,
         PushTail, PushRun, FlushByProducer, SignalByProducer, PeerProduceNull,
         PeerFull, Length, PopCheck, PopSignal, SignalByConsumer, FlushByConsumer,
         FlushByControl, SignalByControl, SetFlush, Spurious, vars
<1>8. QED
  BY <1>1, <1>2, <1>3, <1>4, <1>5, <1>6, <1>7

\* Every step keeps the threads where the code has a place for them.
LEMMA StepPlace ==
  ASSUME TypeOK, [Next]_vars
  PROVE  /\ state' \in {"STOP", "FILLING", "RUNNING", "FLUSH"}
         /\ produce' = produce
         /\ asleep' \subseteq {"producer", "consumer"}
         /\ pcP' \in {"none", "idle", "pullWait", "fill", "push", "pushTail",
                      "pushRun", "flush", "signal", "end", "gone"}
         /\ pcC' \in {"idle", "produce", "peer", "peerWait", "use", "read", "pop",
                      "popSignal", "signal", "end"}
         /\ ctl' \in {"idle", "signal", "end"}
<1> USE DEF TypeOK, ring, producer, consumer
<1>1. CASE Producer
  <2>1. CASE PullBlock \/ PullGrant \/ PullNull \/ \E n \in Lens : Fill(n)
    BY <2>1 DEF PullBlock, PullGrant, PullNull, Fill
  <2>2. CASE EndOfStream \/ SourceFails \/ Push
    BY <2>2 DEF EndOfStream, SourceFails, Push
  <2>3. CASE PushTail \/ PushRun
    BY <2>3 DEF PushTail, PushRun, Pushed
  <2>4. CASE FlushByProducer \/ SignalByProducer
    BY <2>4 DEF FlushByProducer, SignalByProducer, SetFlush, Flushed
  <2>5. QED
    BY <1>1, <2>1, <2>2, <2>3, <2>4 DEF Producer
<1>2. CASE Decode
  <2>1. CASE \E n \in Lens : PeerProduce(n)
    BY <2>1 DEF PeerProduce
  <2>2. CASE PeerProduceNull
    BY <2>2 DEF PeerProduceNull
  <2>3. CASE PeerFull
    BY <2>3 DEF PeerFull
  <2>4. CASE PeerBlock
    BY <2>4 DEF PeerBlock
  <2>5. CASE PeerTake
    BY <2>5 DEF PeerTake
  <2>6. CASE PeerNull
    BY <2>6 DEF PeerNull
  <2>7. CASE Length
    BY <2>7 DEF Length
  <2>8. CASE \E n \in 0 .. Size : PopCheck(n)
    BY <2>8 DEF PopCheck
  <2>9. CASE Pop
    BY <2>9 DEF Pop
  <2>10. CASE PopSignal
    BY <2>10 DEF PopSignal
  <2>11. CASE SignalByConsumer
    BY <2>11 DEF SignalByConsumer
  <2>12. QED
    BY <1>2, <2>1, <2>2, <2>3, <2>4, <2>5, <2>6, <2>7, <2>8, <2>9, <2>10, <2>11 DEF Decode
<1>3. CASE FlushByConsumer \/ FlushByControl \/ SignalByControl
  BY <1>3 DEF FlushByConsumer, FlushByControl, SignalByControl, SetFlush, Flushed
<1>4. CASE \E t \in {"producer", "consumer"} : Spurious(t)
  BY <1>4 DEF Spurious
<1>5. CASE UNCHANGED vars
  BY <1>5 DEF vars
<1>6. QED
  BY <1>1, <1>2, <1>3, <1>4, <1>5 DEF Next

\* Every step keeps the end of the copy in front of the ring.
LEMMA StepCopied ==
  ASSUME IInv, [Next]_vars
  PROVE  copied' \in 1 - Size .. 0
<1> USE RingAssumption, CapFacts
<1>1. copied \in 1 - Size .. 0 /\ level \in 0 .. Cap
  BY DEF IInv, TypeOK
<1>2. ASSUME Moves PROVE CopyEnd \in 1 - Size .. 0
  <2>1. out \in 1 - Size .. Cap /\ out + Size > Cap
    BY <1>2 DEF Moves, Entering, IInv, Peered, Positions
  <2>2. QED
    BY <1>1, <2>1 DEF CopyEnd
<1>3. CASE PeerBlock \/ PeerTake
  <2>1. copied' = IF Moves THEN CopyEnd ELSE copied
    BY <1>3 DEF PeerBlock, PeerTake, Move
  <2>2. QED
    BY <1>1, <1>2, <2>1
<1>4. copied' = copied \/ PeerBlock \/ PeerTake
  BY DEF Next, Producer, Decode, PullBlock, PullGrant, PullNull, Fill, EndOfStream, SourceFails,
         Push, PushTail, PushRun, FlushByProducer, SignalByProducer, PeerProduce,
         PeerProduceNull, PeerFull, PeerNull, Length, PopCheck, Pop, PopSignal,
         SignalByConsumer, FlushByConsumer, FlushByControl, SignalByControl, SetFlush,
         Spurious, vars, ring
<1>5. QED
  BY <1>1, <1>3, <1>4

-----------------------------------------------------------------------------
(* The invariant and what follows from it *)

\* IInv is inductive.
LEMMA StepInv == IInv /\ [Next]_vars => IInv'
<1> SUFFICES ASSUME IInv, [Next]_vars PROVE IInv'
  OBVIOUS
<1> USE RingAssumption, CapFacts
<1>1. Located
  BY DEF IInv, Located, Numbers, TypeOK, Cells, Null
<1>2. Located'
  BY <1>1, StepLocated
<1>3. in' \in Cells \cup {Null} /\ out' \in Cells \cup {Null}
  BY <1>2 DEF Located, Positions, Cells, Null
<1>4. level' \in 0 .. Cap /\ len' \in 0 .. Size /\ view' \in 0 .. Size
  BY <1>2 DEF Located, Numbers
<1>5. TypeOK
  BY DEF IInv
<1>6. produce' \in BOOLEAN
  BY <1>5, StepPlace, Zenon DEF TypeOK
<1>7. TypeOK'
  BY <1>3, <1>4, <1>5, <1>6, StepMem, StepPlace, StepCopied DEF TypeOK
<1>8. QED
  BY <1>2, <1>7 DEF IInv, Located

\* The inductive invariant holds in every reachable state.
THEOREM Invariance == Spec => []IInv
<1>1. QED
  BY InitInv, StepInv, PTL DEF Spec

\* Every variable of the ring has its type: in and out never leave the memory
\* that jitter_ringbuffer_init allocates, and the level never leaves the ring.
THEOREM TypeCorrect == Spec => []TypeOK
<1>1. IInv => TypeOK
  BY DEF IInv
<1>2. QED
  BY <1>1, Invariance, PTL

\* The block that pull gives to the source and the bytes that peer gives to the
\* decoder are inside of the memory and have no byte in common, whatever the
\* lengths of the pushes and of the pops.
THEOREM BlocksApart == Spec => []BlocksAreApart
<1>1. IInv => BlocksAreApart
  <2> SUFFICES ASSUME IInv PROVE BlocksAreApart
    OBVIOUS
  <2> USE RingAssumption, CapFacts DEF IInv, TypeOK, Positions, Granted, Peered, Null
  <2>1. ASSUME pcP \in {"fill", "push"}
        PROVE  in \in 0 .. Cap - 1
    BY <2>1
  <2>2. ASSUME pcC \in {"use", "read", "pop"}
        PROVE  out \in 1 - Size .. Cap - Size
    BY <2>2
  <2>3. ASSUME pcP \in {"fill", "push"}, pcC \in {"read", "pop"}
        PROVE  (in .. in + Size - 1) \cap (out .. out + view - 1) = {}
    <3>1. out + level \in {in - Cap, in, in + Cap} /\ level + Size <= Cap /\ view <= level
      BY <2>1, <2>2, <2>3
    <3>2. in >= out + view \/ out >= in + Size
      BY <2>1, <2>2, <2>3, <3>1
    <3>3. QED
      BY <2>1, <2>2, <2>3, <3>2
  <2>4. pcP \in {"fill", "push"} => in .. in + Size - 1 \subseteq Cells
    BY <2>1 DEF Cells
  <2>5. pcC \in {"use", "read", "pop"} => out .. out + Size - 1 \subseteq Cells
    BY <2>2 DEF Cells
  <2>6. QED
    BY <2>3, <2>4, <2>5 DEF BlocksAreApart
<1>2. QED
  BY <1>1, Invariance, PTL

-----------------------------------------------------------------------------
(* The bytes are those of the stream *)

\* The tag of the i-th byte that is not popped yet
Tag(i) == (got + 1 + i) % Tags

\* A callback is asked until there is a block to read.
Primed ==
  produce /\ pcC \notin {"signal", "end"} =>
    /\ state \in {"FILLING", "RUNNING"}
    /\ state = "RUNNING" => level >= Size
    /\ pcC \in {"peer", "pop"} => state = "RUNNING"

\* Hence what peer copies to the front is the whole end of the ring.
Whole == produce => copied = 0

\* What is in the ring, and what is written at its end before it is pushed
Unread(bytes, l) == \A b \in 0 .. l - 1 : bytes[Home(out + b)] = Tag(b)
Fresh == pcP = "push" => \A j \in 0 .. len - 1 : mem[in + j] = (put + j) % Tags

\* What peer has copied to the front, as far as it was there
CopiedIn(bytes, l) ==
  out < 0 =>
    /\ copied <= out + l
    /\ \A c \in out .. copied - 1 : bytes[c] = Tag(c - out)

Bytes ==
  /\ put = Tag(level)
  /\ Fresh
  /\ out # Null => Unread(mem, level) /\ CopiedIn(mem, level)

StreamInv == Primed /\ Whole /\ Bytes

\* Numbers that are less than twice Tags come around once at most.
LEMMA TagWrap ==
  /\ Tags \in Nat /\ Cap < Tags
  /\ \A x \in 0 .. 3 * Tags - 1 :
       x % Tags = IF x < Tags THEN x ELSE IF x < 2 * Tags THEN x - Tags ELSE x - 2 * Tags
<1>1. Tags \in Nat /\ Cap < Tags /\ Cap \in Nat
  BY RingAssumption, CapFacts DEF Cap
<1>2. ASSUME NEW x \in 0 .. 3 * Tags - 1
      PROVE  x % Tags = IF x < Tags THEN x ELSE IF x < 2 * Tags THEN x - Tags ELSE x - 2 * Tags
  BY <1>1
<1>3. QED
  BY <1>1, <1>2

\* A tag so many bytes further
LEMMA TagAdd ==
  \A a \in 0 .. 2 * Tags - 1, b \in 0 .. Cap : ((a % Tags) + b) % Tags = (a + b) % Tags
<1> SUFFICES ASSUME NEW a \in 0 .. 2 * Tags - 1, NEW b \in 0 .. Cap
             PROVE  ((a % Tags) + b) % Tags = (a + b) % Tags
  OBVIOUS
<1>1. Tags \in Nat /\ Cap < Tags /\ Cap \in Nat
  BY TagWrap, CapFacts
<1>2. PICK r \in 0 .. Tags - 1 : r = a % Tags /\ (r = a \/ r = a - Tags)
  <2>1. a \in 0 .. 3 * Tags - 1
    BY <1>1
  <2>2. a % Tags = IF a < Tags THEN a ELSE IF a < 2 * Tags THEN a - Tags ELSE a - 2 * Tags
    BY <2>1, TagWrap
  <2>3. QED
    BY <1>1, <2>2
<1>3. PICK u, v \in 0 .. 3 * Tags - 1 : u = r + b /\ v = a + b
  BY <1>1
<1>4. PICK x, y \in Int : x = u % Tags /\ y = v % Tags
  BY <1>1
<1>5. /\ x = IF u < Tags THEN u ELSE IF u < 2 * Tags THEN u - Tags ELSE u - 2 * Tags
      /\ y = IF v < Tags THEN v ELSE IF v < 2 * Tags THEN v - Tags ELSE v - 2 * Tags
  BY <1>4, TagWrap
<1>6. x = y
  BY <1>1, <1>2, <1>3, <1>5
<1>7. QED
  BY <1>2, <1>3, <1>4, <1>6

\* Where the two ends of the ring are
LEMMA Ends ==
  ASSUME Located, in # Null, out # Null
  PROVE  /\ in \in 0 .. Cap - 1 /\ out \in 1 - Size .. Cap /\ level \in 0 .. Cap
         /\ out + level \in {in - Cap, in, in + Cap, in + 2 * Cap}
         /\ Size \in Nat \ {0} /\ Cap \in Nat /\ Size <= Cap
<1>1. Cap \in Nat /\ Size \in Nat \ {0} /\ Size <= Cap
  BY CapFacts, RingAssumption
<1>2. in \in 0 .. Cap - 1 /\ out \in 1 - Size .. Cap /\ level \in 0 .. Cap
  BY <1>1 DEF Located, Numbers, Positions
<1>3. QED
  BY <1>1, <1>2 DEF Located, Positions

\* The place of a byte in the ring: it comes back by one turn, or was moved to
\* the front by one.
LEMMA HomeAt ==
  ASSUME NEW p \in 1 - Size .. 2 * Cap - 1
  PROVE  \E c \in Int : /\ c = Home(p)
                        /\ c = IF p < 0 THEN p + Cap ELSE IF p >= Cap THEN p - Cap ELSE p
                        /\ c \in 0 .. Cap - 1 /\ c \in Cells
<1>1. Cap \in Nat /\ Size \in Nat \ {0} /\ Size <= Cap
  BY CapFacts, RingAssumption
<1>2. Home(p) = IF p < 0 THEN p + Cap ELSE IF p >= Cap THEN p - Cap ELSE p
  BY DEF Home, Wrap
<1>3. PICK c : c = IF p < 0 THEN p + Cap ELSE IF p >= Cap THEN p - Cap ELSE p
  OBVIOUS
<1>4. c \in 0 .. Cap - 1 /\ c \in Int
  BY <1>1, <1>3
<1>5. c \in Cells
  BY <1>1, <1>4 DEF Cells
<1>6. QED
  BY <1>2, <1>3, <1>4, <1>5

\* What was unread stays at its place, and what is written at in goes on from it, when
\* what is behind the end has been copied to the start.
LEMMA Appended ==
  ASSUME Located, in # Null, out # Null, level + Size <= Cap,
         NEW n \in 1 .. Size, NEW m \in [Cells -> -1 .. Tags - 1],
         Unread(m, level), CopiedIn(m, level), copied \in 1 - Size .. 0,
         \A j \in 0 .. n - 1 : m[in + j] = Tag(level + j)
  PROVE  LET after == IF in + n >= Cap THEN BehindToStart(m, in + n) ELSE m
         IN  Unread(after, level + n) /\ CopiedIn(after, level + n)
<1>1. /\ in \in 0 .. Cap - 1 /\ out \in 1 - Size .. Cap /\ level \in 0 .. Cap - Size
      /\ out + level \in {in - Cap, in, in + Cap, in + 2 * Cap}
      /\ Size \in Nat \ {0} /\ Cap \in Nat /\ Size <= Cap
  BY Ends
<1>0. PICK after : after = IF in + n >= Cap THEN BehindToStart(m, in + n) ELSE m
  OBVIOUS
<1>2. \A c \in Cells : after[c] = IF c \in 0 .. in + n - Cap - 1 THEN m[c + Cap] ELSE m[c]
  BY SMTT(30), <1>0, <1>1 DEF BehindToStart, Cells
<1>3. ASSUME NEW i \in 0 .. level + n - 1
      PROVE  after[Home(out + i)] = Tag(i)
  <2>1. PICK p \in 1 - Size .. 2 * Cap - 1 : p = out + i
    BY <1>1
  <2>2. PICK c \in Int : /\ c = Home(p)
                         /\ c = IF p < 0 THEN p + Cap ELSE IF p >= Cap THEN p - Cap ELSE p
                         /\ c \in 0 .. Cap - 1 /\ c \in Cells
    BY HomeAt
  <2>3. CASE i < level
    <3>1. c \notin 0 .. in + n - Cap - 1
      BY <1>1, <2>1, <2>2, <2>3
    <3>2. after[c] = m[c]
      BY <1>2, <2>2, <3>1
    <3>3. m[c] = Tag(i)
      BY <1>1, <2>1, <2>2, <2>3 DEF Unread
    <3>4. QED
      BY <2>1, <2>2, <3>2, <3>3
  <2>4. CASE i >= level
    <3>1. PICK j \in 0 .. n - 1 : i = level + j
      <4>1. i - level \in 0 .. n - 1 /\ i = level + (i - level)
        BY <1>1, <2>4
      <4>2. QED
        BY <4>1
    <3>2. \/ c = in + j /\ c \notin 0 .. in + n - Cap - 1
          \/ c = in + j - Cap /\ c \in 0 .. in + n - Cap - 1
      BY <1>1, <2>1, <2>2, <3>1
    <3>3. after[c] = m[in + j]
      BY <1>1, <1>2, <2>2, <3>2
    <3>4. QED
      BY <2>1, <2>2, <3>1, <3>3
  <2>5. QED
    BY <1>1, <2>3, <2>4
<1>4. Unread(after, level + n)
  BY <1>1, <1>3 DEF Unread
<1>5. CopiedIn(after, level + n)
  <2> SUFFICES ASSUME out < 0
               PROVE  copied <= out + (level + n)
                      /\ \A c \in out .. copied - 1 : after[c] = Tag(c - out)
    BY DEF CopiedIn
  <2>1. copied <= out + (level + n)
    BY <1>1 DEF CopiedIn
  <2>2. ASSUME NEW c \in out .. copied - 1 PROVE after[c] = Tag(c - out)
    <3>1. c \in Cells /\ c < 0
      BY <1>1 DEF Cells
    <3>2. after[c] = m[c]
      BY <1>2, <3>1
    <3>3. QED
      BY <3>2 DEF CopiedIn
  <2>3. QED
    BY <2>1, <2>2
<1>6. QED
  BY <1>0, <1>4, <1>5

\* What the producer writes are the next tags of the stream.
LEMMA Writes ==
  ASSUME TypeOK, in \in 0 .. Cap - 1, put = Tag(level), level + Size <= Cap, NEW n \in 1 .. Size
  PROVE  /\ \A j \in 0 .. n - 1 : Written(n)[in + j] = (put + j) % Tags
         /\ \A j \in 0 .. n - 1 : (put + j) % Tags = Tag(level + j)
         /\ \A c \in Cells : c \notin in .. in + n - 1 => Written(n)[c] = mem[c]
<1>1. /\ Cap \in Nat /\ Size \in Nat \ {0} /\ Size <= Cap /\ Tags \in Nat /\ Cap < Tags
      /\ level \in 0 .. Cap /\ put \in Int /\ got \in -1 .. Tags - 1
  BY CapFacts, RingAssumption, TagWrap DEF TypeOK
<1>2. ASSUME NEW j \in 0 .. n - 1 PROVE Written(n)[in + j] = (put + j) % Tags
  <2>1. in + j \in Cells /\ in + j \in in .. in + n - 1 /\ put + (in + j) - in = put + j
    BY <1>1 DEF Cells
  <2>2. QED
    BY <2>1 DEF Written
<1>3. ASSUME NEW j \in 0 .. n - 1 PROVE (put + j) % Tags = Tag(level + j)
  <2>1. PICK a \in 0 .. 2 * Tags - 1 : a = got + 1 + level
    BY <1>1
  <2>2. PICK b \in 0 .. Cap : b = j
    BY <1>1
  <2>3. ((a % Tags) + b) % Tags = (a + b) % Tags
    BY TagAdd
  <2>4. got + 1 + (level + j) = a + b
    BY <1>1, <2>1, <2>2
  <2>5. QED
    BY <2>1, <2>2, <2>3, <2>4 DEF Tag
<1>4. \A c \in Cells : c \notin in .. in + n - 1 => Written(n)[c] = mem[c]
  BY DEF Written
<1>5. QED
  BY <1>2, <1>3, <1>4

\* What is written at in disturbs nothing that is unread.
LEMMA WritesApart ==
  ASSUME TypeOK, Located, in # Null, out # Null, put = Tag(level), level + Size <= Cap,
         Unread(mem, level), CopiedIn(mem, level), NEW n \in 1 .. Size
  PROVE  Unread(Written(n), level) /\ CopiedIn(Written(n), level)
<1>1. /\ in \in 0 .. Cap - 1 /\ out \in 1 - Size .. Cap /\ level \in 0 .. Cap - Size
      /\ out + level \in {in - Cap, in, in + Cap, in + 2 * Cap}
      /\ Size \in Nat \ {0} /\ Cap \in Nat /\ Size <= Cap
  BY Ends
<1>2. ASSUME NEW i \in 0 .. level - 1 PROVE Written(n)[Home(out + i)] = Tag(i)
  <2>1. PICK p \in 1 - Size .. 2 * Cap - 1 : p = out + i
    BY <1>1
  <2>2. PICK c \in Int : /\ c = Home(p)
                         /\ c = IF p < 0 THEN p + Cap ELSE IF p >= Cap THEN p - Cap ELSE p
                         /\ c \in 0 .. Cap - 1 /\ c \in Cells
    BY HomeAt
  <2>3. c \notin in .. in + n - 1
    BY <1>1, <2>1, <2>2
  <2>4. Written(n)[c] = mem[c]
    BY <1>1, <2>2, <2>3, Writes
  <2>5. mem[c] = Tag(i)
    BY <2>1, <2>2 DEF Unread
  <2>6. QED
    BY <2>1, <2>2, <2>4, <2>5
<1>3. ASSUME out < 0, NEW c \in out .. copied - 1 PROVE Written(n)[c] = Tag(c - out)
  <2>1. c \in Cells /\ c \notin in .. in + n - 1
    BY <1>1 DEF Cells, TypeOK
  <2>2. Written(n)[c] = mem[c]
    BY <1>1, <2>1, Writes
  <2>3. QED
    BY <1>3, <2>2 DEF CopiedIn
<1>4. QED
  BY <1>2, <1>3 DEF Unread, CopiedIn

\* A step that leaves the ring alone leaves its bytes.
LEMMA KeepsBytes ==
  ASSUME Bytes, UNCHANGED <<mem, in, out, copied, level, got, put>>,
         pcP' = "push" => len' = 0 \/ (pcP = "push" /\ len' = len)
  PROVE  Bytes'
<1>1. \A i \in Int : Tag(i)' = Tag(i)
  BY DEF Tag
<1>2. (put = Tag(level))'
  BY DEF Bytes, Tag
<1>3. Fresh'
  BY DEF Bytes, Fresh
<1>4. (out # Null => Unread(mem, level) /\ CopiedIn(mem, level))'
  BY DEF Bytes, Unread, CopiedIn, Tag
<1>5. QED
  BY <1>2, <1>3, <1>4 DEF Bytes

\* The move to the front leaves every byte at its place in the ring, and copies in front
\* of it what is there.
LEMMA MovedBytes ==
  ASSUME TypeOK, Located, out # Null, out + Size > Cap, Unread(mem, level)
  PROVE  /\ \A i \in 0 .. level - 1 : LeftToFront(mem)[Home(out - Cap + i)] = Tag(i)
         /\ \A c \in Cells : c >= 0 => LeftToFront(mem)[c] = mem[c]
         /\ CopyEnd <= out - Cap + level
         /\ \A c \in out - Cap .. CopyEnd - 1 : LeftToFront(mem)[c] = Tag(c - (out - Cap))
<1>1. /\ out \in Cap + 1 - Size .. Cap /\ level \in 0 .. Cap
      /\ Size \in Nat \ {0} /\ Cap \in Nat /\ Size <= Cap
  BY CapFacts, RingAssumption DEF Located, Numbers, Positions
<1>2. \A c \in Cells : LeftToFront(mem)[c] = IF c \in out - Cap .. -1 THEN mem[c + Cap] ELSE mem[c]
  BY DEF LeftToFront
<1>3. \A c \in Cells : c >= 0 => LeftToFront(mem)[c] = mem[c]
  BY <1>1, <1>2
<1>4. ASSUME NEW i \in 0 .. level - 1 PROVE LeftToFront(mem)[Home(out - Cap + i)] = Tag(i)
  <2>1. PICK p, q \in 1 - Size .. 2 * Cap - 1 : p = out + i /\ q = out - Cap + i
    BY <1>1
  <2>2. PICK c \in Int : /\ c = Home(p)
                         /\ c = IF p < 0 THEN p + Cap ELSE IF p >= Cap THEN p - Cap ELSE p
                         /\ c \in 0 .. Cap - 1 /\ c \in Cells
    BY HomeAt
  <2>3. PICK d \in Int : /\ d = Home(q)
                         /\ d = IF q < 0 THEN q + Cap ELSE IF q >= Cap THEN q - Cap ELSE q
                         /\ d \in 0 .. Cap - 1 /\ d \in Cells
    BY HomeAt
  <2>4. d = c
    BY <1>1, <2>1, <2>2, <2>3
  <2>5. mem[c] = Tag(i)
    BY <2>1, <2>2 DEF Unread
  <2>6. LeftToFront(mem)[c] = mem[c]
    BY <1>1, <1>3, <2>2
  <2>7. QED
    BY <2>1, <2>3, <2>4, <2>5, <2>6
<1>5. CopyEnd <= out - Cap + level /\ CopyEnd <= 0 /\ CopyEnd \in Int
  BY <1>1 DEF CopyEnd
<1>6. ASSUME NEW c \in out - Cap .. CopyEnd - 1
      PROVE  LeftToFront(mem)[c] = Tag(c - (out - Cap))
  <2>1. c \in Cells /\ c \in out - Cap .. -1 /\ c - (out - Cap) \in 0 .. level - 1
    BY <1>1, <1>5 DEF Cells
  <2>2. PICK i \in 0 .. level - 1 : i = c - (out - Cap)
    BY <2>1
  <2>3. PICK p \in 1 - Size .. 2 * Cap - 1 : p = out + i
    BY <1>1
  <2>4. Home(p) = c + Cap
    BY <1>1, <2>1, <2>2, <2>3 DEF Home, Wrap
  <2>5. mem[c + Cap] = Tag(i)
    BY <2>3, <2>4 DEF Unread
  <2>6. QED
    BY <1>2, <2>1, <2>2, <2>5
<1>7. QED
  BY <1>3, <1>4, <1>5, <1>6

\* peer keeps the bytes, whether it moves them or not, and whether it returns them.
LEMMA PeerBytes ==
  ASSUME TypeOK, Located, Bytes, PeerBlock \/ PeerTake \/ PeerNull
  PROVE  Bytes'
<1>1. /\ UNCHANGED <<in, level, got, put, len, pcP>> /\ Peering
      /\ mem' = IF Moves THEN LeftToFront(mem) ELSE mem
      /\ \/ /\ out' = IF Moves THEN out - Cap ELSE out
            /\ copied' = IF Moves THEN CopyEnd ELSE copied
         \/ out' = Null
  BY DEF PeerBlock, PeerTake, PeerNull, Move, producer
<1>2. out # Null
  BY <1>1 DEF Located, Peered, Peering, Entering
<1>3. (put = Tag(level))'
  BY <1>1 DEF Bytes, Tag
<1>4. CASE Moves
  <2>1. /\ \A i \in 0 .. level - 1 : LeftToFront(mem)[Home(out - Cap + i)] = Tag(i)
        /\ \A c \in Cells : c >= 0 => LeftToFront(mem)[c] = mem[c]
        /\ CopyEnd <= out - Cap + level
        /\ \A c \in out - Cap .. CopyEnd - 1 : LeftToFront(mem)[c] = Tag(c - (out - Cap))
    BY <1>2, <1>4, MovedBytes DEF Moves, Bytes
  <2>2. Fresh'
    <3>1. ASSUME pcP = "push", NEW j \in 0 .. len - 1 PROVE in + j \in Cells /\ in + j >= 0
      <4>1. in \in 0 .. Cap - 1 /\ len \in 0 .. Size /\ Cap \in Nat /\ Size \in Nat
        BY <3>1, CapFacts, RingAssumption DEF Located, Numbers, Positions, Granted
      <4>2. QED
        BY <4>1 DEF Cells
    <3>2. QED
      BY <1>1, <1>4, <2>1, <3>1 DEF Fresh, Bytes
  <2>3. (out # Null => Unread(mem, level))'
    BY <1>1, <1>4, <2>1 DEF Unread, Tag
  <2>4. (out # Null => CopiedIn(mem, level))'
    BY <1>1, <1>4, <2>1 DEF CopiedIn, Tag
  <2>5. QED
    BY <1>3, <2>2, <2>3, <2>4 DEF Bytes
<1>5. CASE ~Moves /\ out' = out /\ copied' = copied
  BY <1>1, <1>5, KeepsBytes
<1>6. CASE ~Moves /\ out' = Null
  <2>1. Fresh'
    BY <1>1, <1>6 DEF Bytes, Fresh
  <2>2. QED
    BY <1>3, <1>6, <2>1 DEF Bytes
<1>7. QED
  BY <1>1, <1>4, <1>5, <1>6

\* A pop takes the oldest bytes and forgets no other.
LEMMA PopBytes ==
  ASSUME TypeOK, Located, Bytes, Pop
  PROVE  /\ Bytes'
         /\ \A i \in 0 .. level - view - 1 : Tag(i)' = Tag(view + i)
         /\ view > 0 => got' = Tag(view - 1)
<1>1. /\ pcC = "pop" /\ out' = out + view /\ level' = level - view /\ mem' = Popped(view)
      /\ got' = IF view = 0 THEN got ELSE mem[Home(out + view - 1)]
      /\ UNCHANGED <<in, copied, put, len, pcP>>
  BY DEF Pop, producer
<1>2. /\ out # Null /\ out \in 1 - Size .. Cap - Size /\ level \in 0 .. Cap
      /\ view \in 0 .. Size /\ view <= level /\ got \in -1 .. Tags - 1
      /\ Size \in Nat \ {0} /\ Cap \in Nat /\ Size <= Cap /\ Tags \in Nat /\ Cap < Tags
  BY <1>1, CapFacts, RingAssumption, TagWrap DEF Located, Numbers, Positions, Peered, TypeOK
<1>3. \A c \in Cells : c \notin out .. out + view - 1 /\ c - Cap \notin out .. out + view - 1
                         => Popped(view)[c] = mem[c]
  BY <1>2 DEF Popped
<1>4. ASSUME view > 0 PROVE got' = Tag(view - 1)
  <2>1. PICK i \in 0 .. level - 1 : i = view - 1
    BY <1>2, <1>4
  <2>2. mem[Home(out + i)] = Tag(i)
    BY <1>2 DEF Bytes, Unread
  <2>3. out + i = out + view - 1 /\ view # 0
    BY <1>2, <1>4, <2>1
  <2>4. QED
    BY <1>1, <2>1, <2>2, <2>3
<1>5. ASSUME NEW i \in 0 .. level - view PROVE Tag(i)' = Tag(view + i)
  <2>1. CASE view = 0
    BY <1>1, <1>2, <2>1 DEF Tag
  <2>2. CASE view > 0
    <3>1. PICK a \in 0 .. 2 * Tags - 1 : a = got + 1 + (view - 1)
      BY <1>2, <2>2
    <3>2. PICK b \in 0 .. Cap : b = 1 + i
      BY <1>2, <2>2
    <3>3. ((a % Tags) + b) % Tags = (a + b) % Tags
      BY TagAdd
    <3>4. got' = a % Tags /\ got + 1 + (view + i) = a + b
      BY <1>2, <1>4, <2>2, <3>1, <3>2 DEF Tag
    <3>5. a % Tags \in 0 .. Tags - 1
      BY TagMod
    <3>6. got' + 1 + i = (a % Tags) + b
      BY <3>2, <3>4, <3>5
    <3>7. QED
      BY <3>3, <3>4, <3>6 DEF Tag
  <2>3. QED
    BY <1>2, <2>1, <2>2
<1>6. (put = Tag(level))'
  <2>1. PICK l \in 0 .. level - view : l = level'
    BY <1>1, <1>2
  <2>2. Tag(l)' = Tag(view + l) /\ view + l = level
    BY <1>1, <1>2, <1>5, <2>1
  <2>3. QED
    BY <1>1, <2>1, <2>2 DEF Bytes, Tag
<1>7. Fresh'
  <2> SUFFICES ASSUME pcP = "push", NEW j \in 0 .. len - 1
               PROVE  Popped(view)[in + j] = (put + j) % Tags
    BY <1>1 DEF Fresh
  <2>1. /\ in \in 0 .. Cap - 1 /\ len \in 0 .. Size /\ level + Size <= Cap
        /\ out + level \in {in - Cap, in, in + Cap, in + 2 * Cap}
    BY <1>2 DEF Located, Numbers, Positions, Granted
  <2>2. PICK c \in Int : c = in + j
    BY <1>2, <2>1
  <2>3. c \in Cells /\ c \notin out .. out + view - 1 /\ c - Cap \notin out .. out + view - 1
    BY <1>2, <2>1, <2>2 DEF Cells
  <2>4. mem[c] = (put + j) % Tags
    BY <2>2 DEF Bytes, Fresh
  <2>5. QED
    BY <1>3, <2>2, <2>3, <2>4
<1>8. ASSUME NEW i \in 0 .. level - view - 1
      PROVE  Popped(view)[Home(out + view + i)] = Tag(i)'
  <2>1. PICK b \in 0 .. level - 1 : b = view + i
    BY <1>2
  <2>2. PICK p \in 1 - Size .. 2 * Cap - 1 : p = out + b /\ p = out + view + i
    BY <1>2, <2>1
  <2>3. PICK c \in Int : /\ c = Home(p)
                         /\ c = IF p < 0 THEN p + Cap ELSE IF p >= Cap THEN p - Cap ELSE p
                         /\ c \in 0 .. Cap - 1 /\ c \in Cells
    BY HomeAt
  <2>4. c \notin out .. out + view - 1 /\ c - Cap \notin out .. out + view - 1
    BY <1>2, <2>1, <2>2, <2>3
  <2>5. mem[c] = Tag(b)
    BY <1>2, <2>2, <2>3 DEF Bytes, Unread
  <2>6. Tag(i)' = Tag(b)
    BY <1>2, <1>5, <2>1
  <2>7. Popped(view)[c] = mem[c]
    BY <1>3, <2>3, <2>4
  <2>8. QED
    BY <2>2, <2>3, <2>5, <2>6, <2>7
<1>9. ASSUME out + view < 0
      PROVE  /\ copied <= out + view + (level - view)
             /\ \A c \in out + view .. copied - 1 :
                  Popped(view)[c] = (got' + 1 + (c - (out + view))) % Tags
  <2>1. copied <= out + level /\ copied \in 1 - Size .. 0
        /\ \A c \in out .. copied - 1 : mem[c] = Tag(c - out)
    BY <1>2, <1>9 DEF Bytes, CopiedIn, TypeOK
  <2>2. copied <= out + view + (level - view)
    BY <1>2, <2>1
  <2>3. ASSUME NEW c \in out + view .. copied - 1
        PROVE  Popped(view)[c] = (got' + 1 + (c - (out + view))) % Tags
    <3>1. /\ c \in Cells /\ c \in out .. copied - 1 /\ c < 0 /\ c - out = view + (c - (out + view))
          /\ c \notin out .. out + view - 1 /\ c - Cap \notin out .. out + view - 1
          /\ c - (out + view) \in 0 .. level - view
      BY <1>2, <2>1 DEF Cells
    <3>2. PICK i \in 0 .. level - view : i = c - (out + view)
      BY <3>1
    <3>3. Tag(i)' = Tag(view + i)
      BY <1>5
    <3>4. Popped(view)[c] = mem[c] /\ mem[c] = Tag(view + i)
      BY <1>3, <2>1, <3>1, <3>2
    <3>5. QED
      BY <3>2, <3>3, <3>4 DEF Tag
  <2>4. QED
    BY <2>2, <2>3
<1>10. (out # Null => Unread(mem, level))'
  BY <1>1, <1>8 DEF Unread
<1>11. (out # Null => CopiedIn(mem, level))'
  BY <1>1, <1>9 DEF CopiedIn, Tag
<1>12. QED
  BY <1>2, <1>4, <1>5, <1>6, <1>7, <1>10, <1>11 DEF Bytes

\* The tag that follows what is written next
LEMMA NextTag ==
  ASSUME TypeOK, put = Tag(level), NEW n \in 0 .. Size
  PROVE  (put + n) % Tags = Tag(level + n)
<1>1. /\ Cap \in Nat /\ Size \in Nat /\ Size <= Cap /\ Tags \in Nat /\ Cap < Tags
      /\ level \in 0 .. Cap /\ got \in -1 .. Tags - 1
  BY CapFacts, RingAssumption, TagWrap DEF TypeOK
<1>2. PICK a \in 0 .. 2 * Tags - 1 : a = got + 1 + level
  BY <1>1
<1>3. PICK b \in 0 .. Cap : b = n
  BY <1>1
<1>4. ((a % Tags) + b) % Tags = (a + b) % Tags
  BY TagAdd
<1>5. got + 1 + (level + n) = a + b
  BY <1>1, <1>2, <1>3
<1>6. QED
  BY <1>2, <1>3, <1>4, <1>5 DEF Tag

\* push and the callback put the bytes written at in behind those unread.
LEMMA PushBytes ==
  ASSUME IInv, Bytes, Push
  PROVE  Bytes'
<1> USE DEF IInv
<1>1. /\ pcP = "push" /\ in # Null /\ in \in 0 .. Cap - 1 /\ level + Size <= Cap
      /\ len \in 0 .. Size /\ level \in 0 .. Cap /\ Cap \in Nat /\ Size \in Nat \ {0}
  BY CapFacts, RingAssumption DEF Push, Granted, Positions, TypeOK
<1>2. /\ level' = level + len /\ put' = (put + len) % Tags /\ pcP' # "push"
      /\ mem' = (IF in + len >= Cap THEN BehindToStart(mem, in + len) ELSE mem)
      /\ UNCHANGED <<out, copied, got>>
  BY DEF Push, consumer
<1>3. Located
  BY DEF Located, Numbers, TypeOK, Cells, Null
<1>4. put' = Tag(level + len)
  BY <1>1, <1>2, NextTag DEF Bytes
<1>5. (put = Tag(level))' /\ Fresh'
  BY <1>2, <1>4 DEF Tag, Fresh
<1>6. ASSUME out # Null PROVE Unread(mem, level)' /\ CopiedIn(mem, level)'
  <2>1. CASE len = 0
    <3>1. mem' = mem /\ level' = level
      BY <1>1, <1>2, <2>1
    <3>2. QED
      BY <1>2, <1>6, <3>1 DEF Bytes, Unread, CopiedIn, Tag
  <2>2. CASE len > 0
    <3>1. \A j \in 0 .. len - 1 : mem[in + j] = Tag(level + j)
      <4>1. len \in 1 .. Size
        BY <1>1, <2>2
      <4>2. \A j \in 0 .. len - 1 : (put + j) % Tags = Tag(level + j)
        BY <1>1, <4>1, Writes DEF Bytes
      <4>3. QED
        BY <1>1, <4>2 DEF Bytes, Fresh
    <3>2. PICK m : m = IF in + len >= Cap THEN BehindToStart(mem, in + len) ELSE mem
      OBVIOUS
    <3>3. Unread(m, level + len) /\ CopiedIn(m, level + len)
      BY <1>1, <1>3, <1>6, <2>2, <3>1, <3>2, Appended DEF Bytes, TypeOK
    <3>4. QED
      BY <1>2, <3>2, <3>3 DEF Unread, CopiedIn, Tag
  <2>3. QED
    BY <1>1, <2>1, <2>2
<1>7. QED
  BY <1>2, <1>5, <1>6 DEF Bytes

\* A callback writes and pushes in one step of the decoder's thread.
LEMMA ProduceBytes ==
  ASSUME IInv, Bytes, NEW n \in Lens, PeerProduce(n)
  PROVE  Bytes'
<1> USE DEF IInv
<1>1. /\ in # Null /\ in \in 0 .. Cap - 1 /\ level + Size <= Cap /\ out # Null /\ pcP = "none"
      /\ n \in 1 .. Size /\ level \in 0 .. Cap /\ Cap \in Nat /\ Size \in Nat \ {0}
  BY CapFacts, RingAssumption DEF PeerProduce, HasRoom, Granted, Positions, Peered, TypeOK, Lens
<1>2. /\ level' = level + n /\ put' = (put + n) % Tags /\ pcP' # "push"
      /\ mem' = (IF in + n >= Cap THEN BehindToStart(Written(n), in + n) ELSE Written(n))
      /\ UNCHANGED <<out, copied, got>>
  BY <1>1 DEF PeerProduce
<1>3. Located
  BY DEF Located, Numbers, TypeOK, Cells, Null
<1>4. put' = Tag(level + n)
  BY <1>1, <1>2, NextTag DEF Bytes
<1>5. (put = Tag(level))' /\ Fresh'
  BY <1>2, <1>4 DEF Tag, Fresh
<1>6. Written(n) \in [Cells -> -1 .. Tags - 1]
  BY MemType
<1>7. Unread(Written(n), level) /\ CopiedIn(Written(n), level)
  BY <1>1, <1>3, WritesApart DEF Bytes
<1>8. \A j \in 0 .. n - 1 : Written(n)[in + j] = Tag(level + j)
  BY <1>1, Writes DEF Bytes
<1>9. PICK m \in [Cells -> -1 .. Tags - 1] : m = Written(n)
  BY <1>6
<1>10. PICK a : a = IF in + n >= Cap THEN BehindToStart(m, in + n) ELSE m
  OBVIOUS
<1>11. Unread(a, level + n) /\ CopiedIn(a, level + n)
  BY <1>1, <1>3, <1>7, <1>8, <1>9, <1>10, Appended DEF TypeOK
<1>12. Unread(mem, level)' /\ CopiedIn(mem, level)'
  BY <1>2, <1>9, <1>10, <1>11 DEF Unread, CopiedIn, Tag
<1>13. QED
  BY <1>5, <1>12 DEF Bytes

\* What the source's thread writes is not in the ring before it is pushed.
LEMMA FillBytes ==
  ASSUME IInv, Bytes, NEW n \in Lens, Fill(n)
  PROVE  Bytes'
<1> USE DEF IInv
<1>1. /\ in # Null /\ in \in 0 .. Cap - 1 /\ level + Size <= Cap
      /\ n \in 1 .. Size /\ level \in 0 .. Cap /\ Cap \in Nat /\ Size \in Nat \ {0}
  BY CapFacts, RingAssumption DEF Fill, Granted, Positions, TypeOK, Lens
<1>2. /\ mem' = Written(n) /\ len' = n /\ pcP' = "push"
      /\ UNCHANGED <<in, out, copied, level, put, got>>
  BY DEF Fill, consumer
<1>3. Located
  BY DEF Located, Numbers, TypeOK, Cells, Null
<1>4. (put = Tag(level))'
  BY <1>2 DEF Bytes, Tag
<1>5. Fresh'
  BY <1>1, <1>2, Writes DEF Bytes, Fresh
<1>6. (out # Null => Unread(mem, level) /\ CopiedIn(mem, level))'
  <2>1. out # Null => Unread(Written(n), level) /\ CopiedIn(Written(n), level)
    BY <1>1, <1>3, WritesApart DEF Bytes
  <2>2. QED
    BY <1>2, <2>1 DEF Unread, CopiedIn, Tag
<1>7. QED
  BY <1>4, <1>5, <1>6 DEF Bytes

\* Every step keeps the bytes, if both ends are where they have to be.
LEMMA StepBytes ==
  ASSUME IInv, Bytes, [Next]_vars
  PROVE  Bytes'
<1>1. Located
  BY DEF IInv, Located, Numbers, TypeOK, Cells, Null
<1>2. CASE \E n \in Lens : Fill(n)
  BY <1>2, FillBytes
<1>3. CASE Push
  BY <1>3, PushBytes
<1>4. CASE \E n \in Lens : PeerProduce(n)
  BY <1>4, ProduceBytes
<1>5. CASE PeerBlock \/ PeerTake \/ PeerNull
  BY <1>1, <1>5, PeerBytes DEF IInv
<1>6. CASE Pop
  BY <1>1, <1>6, PopBytes DEF IInv
<1>7. ASSUME PullBlock \/ PullGrant \/ PullNull \/ EndOfStream \/ SourceFails
             \/ PushTail \/ PushRun \/ FlushByProducer \/ SignalByProducer
      PROVE  Bytes'
  <2>1. CASE EndOfStream
    <3>1. len' = 0 /\ UNCHANGED <<mem, in, out, copied, level, got, put>>
      BY <2>1 DEF EndOfStream, ring, consumer
    <3>2. QED
      BY <3>1, KeepsBytes
  <2>2. CASE PullBlock \/ PullGrant \/ PullNull \/ SourceFails
    BY <2>2, KeepsBytes DEF PullBlock, PullGrant, PullNull, SourceFails, ring, consumer
  <2>3. CASE PushTail \/ PushRun
    BY <2>3, KeepsBytes DEF PushTail, PushRun, Pushed, ring, consumer
  <2>4. CASE FlushByProducer \/ SignalByProducer
    BY <2>4, KeepsBytes DEF FlushByProducer, SignalByProducer, SetFlush, Flushed, ring, consumer
  <2>5. QED
    BY <1>7, <2>1, <2>2, <2>3, <2>4
<1>8. ASSUME PeerProduceNull \/ PeerFull \/ Length \/ (\E n \in 0 .. Size : PopCheck(n))
             \/ PopSignal \/ SignalByConsumer
      PROVE  Bytes'
  BY <1>8, KeepsBytes DEF PeerProduceNull, PeerFull, Length, PopCheck, PopSignal,
     SignalByConsumer, ring, producer
<1>9. ASSUME FlushByConsumer \/ FlushByControl \/ SignalByControl \/ UNCHANGED vars
              \/ \E t \in {"producer", "consumer"} : Spurious(t)
       PROVE  Bytes'
  BY <1>9, KeepsBytes DEF FlushByConsumer, FlushByControl, SignalByControl, SetFlush,
     Spurious, vars, ring, producer, consumer
<1>10. QED
  BY <1>2, <1>3, <1>4, <1>5, <1>6, <1>7, <1>8, <1>9 DEF Next, Producer, Decode

\* A callback's decoder finds a block when it is done asking.
LEMMA StepPrimed ==
  ASSUME IInv, Primed, [Next]_vars
  PROVE  Primed'
<1> USE DEF IInv
<1>1. produce' = produce
  BY StepPlace
<1>2. Thredhold * Size >= Size /\ Thredhold * Size \in Nat
  <2>1. \A a, b, c \in Nat : a <= b => a * c <= b * c
    OBVIOUS
  <2>2. 1 * Size <= Thredhold * Size
    BY <2>1, RingAssumption, 1 \in Nat, 1 <= Thredhold, Thredhold \in Nat, Size \in Nat, Zenon
  <2>3. 1 * Size = Size
    BY RingAssumption
  <2>4. QED
    BY <2>2, <2>3, CapFacts
<1> SUFFICES ASSUME produce, pcC' \notin {"signal", "end"} PROVE Primed'
  BY <1>1 DEF Primed
<1>3. /\ level \in 0 .. Cap /\ Size \in Nat /\ Cap \in Nat /\ Thredhold * Size + Size <= Cap
      /\ pcP = "none"
  BY CapFacts, RingAssumption DEF TypeOK, Granted
<1>4. CASE Producer
  BY <1>3, <1>4 DEF Producer, PullBlock, PullGrant, PullNull, Fill, EndOfStream, SourceFails, Push,
     PushTail, PushRun, FlushByProducer, SignalByProducer, Pulling
<1>5. ASSUME NEW n \in Lens, PeerProduce(n) PROVE Primed'
  <2>1. n \in 1 .. Size /\ level' = level + n
        /\ state' = (IF state = "FILLING" /\ level' >= Thredhold * Size THEN "RUNNING" ELSE state)
        /\ pcC' = (IF state' = "FILLING" THEN "produce" ELSE "peer")
        /\ pcC \notin {"signal", "end"}
    BY <1>5 DEF PeerProduce, Lens
  <2>2. state \in {"FILLING", "RUNNING"} /\ (state = "RUNNING" => level >= Size)
    BY <2>1 DEF Primed
  <2>3. QED
    BY <1>2, <1>3, <2>1, <2>2 DEF Primed
<1>6. CASE PeerFull
  BY <1>2, <1>3, <1>6 DEF PeerFull, HasRoom, Primed
<1>7. CASE PeerTake
  BY <1>3, <1>7 DEF PeerTake, Primed, Peering, Entering
<1>8. CASE Length
  BY <1>8 DEF Length, Primed, ring
<1>9. CASE \E n \in 0 .. Size : PopCheck(n)
  BY <1>9 DEF PopCheck, Primed, ring
<1>10. CASE Pop
  <2>1. view \in 0 .. Size /\ level' = level - view /\ pcC' = "popSignal" /\ pcC = "pop"
        /\ state' = (IF level' > Size THEN state ELSE IF state = "RUNNING" THEN "FILLING" ELSE "STOP")
    BY <1>10 DEF Pop, TypeOK
  <2>2. QED
    BY <1>3, <2>1 DEF Primed
<1>11. CASE PopSignal
  BY <1>11 DEF PopSignal, Primed, ring
<1>12. CASE PeerProduceNull \/ PeerBlock \/ PeerNull \/ SignalByConsumer \/ FlushByConsumer
            \/ FlushByControl
  BY <1>12 DEF PeerProduceNull, PeerBlock, PeerNull, SignalByConsumer, FlushByConsumer, Flushed,
     FlushByControl, MustWait
<1>13. CASE SignalByControl \/ (\E t \in {"producer", "consumer"} : Spurious(t)) \/ UNCHANGED vars
  BY <1>13 DEF SignalByControl, Spurious, vars, Primed, ring, consumer
<1>14. QED
  BY <1>4, <1>5, <1>6, <1>7, <1>8, <1>9, <1>10, <1>11, <1>12, <1>13 DEF Next, Decode

\* When peer moves a block to the front for a callback's decoder, the block is there.
LEMMA StepWhole ==
  ASSUME IInv, Primed, Whole, [Next]_vars
  PROVE  Whole'
<1> USE DEF IInv
<1>1. produce' = produce
  BY StepPlace
<1> SUFFICES ASSUME produce PROVE copied' = 0
  BY <1>1 DEF Whole
<1>2. copied = 0 /\ level \in 0 .. Cap /\ Size \in Nat /\ Cap \in Nat
  BY CapFacts, RingAssumption DEF Whole, TypeOK
<1>3. ASSUME Moves PROVE CopyEnd = 0
  <2>1. pcC = "peer" /\ out + Size > Cap /\ out \in 1 - Size .. Cap
    BY <1>3 DEF Moves, Entering, Peered, Positions
  <2>2. level >= Size
    BY <2>1 DEF Primed
  <2>3. QED
    BY <1>2, <2>1, <2>2 DEF CopyEnd
<1>4. CASE PeerBlock \/ PeerTake
  <2>1. copied' = IF Moves THEN CopyEnd ELSE copied
    BY <1>4 DEF PeerBlock, PeerTake, Move
  <2>2. QED
    BY <1>2, <1>3, <2>1
<1>5. copied' = copied \/ PeerBlock \/ PeerTake
  BY DEF Next, Producer, Decode, PullBlock, PullGrant, PullNull, Fill, EndOfStream, SourceFails,
         Push, PushTail, PushRun, FlushByProducer, SignalByProducer, PeerProduce,
         PeerProduceNull, PeerFull, PeerNull, Length, PopCheck, Pop, PopSignal,
         SignalByConsumer, FlushByConsumer, FlushByControl, SignalByControl, SetFlush,
         Spurious, vars, ring
<1>6. QED
  BY <1>2, <1>4, <1>5

\* A ring just made holds nothing.
LEMMA InitStream == Init => StreamInv
<1> SUFFICES ASSUME Init PROVE StreamInv
  OBVIOUS
<1>1. /\ in = 0 /\ out = 0 /\ copied = 0 /\ level = 0 /\ put = 0 /\ got = -1
      /\ state = "FILLING" /\ pcP # "push" /\ pcC = "idle" /\ 0 .. level - 1 = {}
  BY DEF Init
<1>2. Primed /\ Whole
  BY <1>1 DEF Primed, Whole
<1>3. put = Tag(level)
  <2>1. PICK x \in 0 .. 3 * Tags - 1 : x = 0 /\ x < Tags
    BY TagWrap, CapFacts
  <2>2. x % Tags = x
    BY <2>1, TagWrap
  <2>3. QED
    BY <1>1, <2>1, <2>2 DEF Tag
<1>4. Bytes
  BY <1>1, <1>3 DEF Bytes, Fresh, Unread, CopiedIn
<1>5. QED
  BY <1>2, <1>4 DEF StreamInv

\* At their places in the ring the bytes are those of the stream.
LEMMA StreamInvariance == Spec => []StreamInv
<1>1. IInv /\ StreamInv /\ [Next]_vars => StreamInv'
  BY StepPrimed, StepWhole, StepBytes DEF StreamInv
<1>2. QED
  BY <1>1, InitStream, Invariance, PTL DEF Spec

\* What the decoder may read, once peer has returned and length was asked, is the next
\* bytes of the stream, whatever is pushed and popped and whoever flushes: all of them when
\* a callback gives the data, and all but those pushed at the end of the ring after peer has
\* copied what was left there when a thread does.
THEOREM StreamIsRead == Spec => []ReadsTheStream
<1>1. IInv /\ StreamInv => ReadsTheStream
  <2> SUFFICES ASSUME IInv, StreamInv, pcC = "read", NEW i \in 0 .. view - 1,
                      ~(~produce /\ out + i \in copied .. -1)
               PROVE  mem[out + i] = (got + 1 + i) % Tags
    BY DEF ReadsTheStream
  <2>1. /\ out # Null /\ out \in 1 - Size .. Cap - Size /\ view <= level /\ view \in 0 .. Size
        /\ level \in 0 .. Cap /\ Size \in Nat /\ Cap \in Nat /\ copied \in 1 - Size .. 0
    BY CapFacts, RingAssumption DEF IInv, Peered, Positions, TypeOK
  <2>2. out + i < copied \/ out + i >= 0
    <3>1. produce => copied = 0
      BY DEF StreamInv, Whole
    <3>2. produce \in BOOLEAN
      BY DEF IInv, TypeOK
    <3>3. out + i \notin copied .. -1
      BY <2>1, <3>1, <3>2
    <3>4. QED
      BY <2>1, <3>3
  <2>3. mem[out + i] = Tag(i)
    <3>1. PICK c \in Int : c = out + i
      BY <2>1
    <3>2. CASE c >= 0
      <4>1. Home(c) = c
        BY <2>1, <3>1, <3>2 DEF Home, Wrap
      <4>2. i \in 0 .. level - 1
        BY <2>1
      <4>3. mem[Home(out + i)] = Tag(i)
        BY <2>1, <4>2 DEF StreamInv, Bytes, Unread
      <4>4. QED
        BY <3>1, <4>1, <4>3
    <3>3. CASE c < 0
      <4>1. out < 0 /\ c \in out .. copied - 1 /\ c - out = i
        BY <2>1, <2>2, <3>1, <3>3
      <4>2. QED
        BY <2>1, <3>1, <4>1 DEF StreamInv, Bytes, CopiedIn
    <3>4. QED
      BY <3>2, <3>3
  <2>4. QED
    BY <2>3 DEF Tag
<1>2. QED
  BY <1>1, StreamInvariance, Invariance, PTL

-----------------------------------------------------------------------------
(* The ring is a queue of bytes *)

\* The n tags after the tag g
Stretch(g, n) == [i \in 1 .. n |-> (g + i) % Tags]

\* A function on the first numbers is a sequence.
LEMMA IsSeq ==
  ASSUME NEW S, NEW n \in Nat, NEW f,
         f = [i \in 1 .. n |-> f[i]], \A i \in 1 .. n : f[i] \in S
  PROVE  f \in Seq(S)
  OBVIOUS

\* A stretch is a sequence of tags.
LEMMA StretchType ==
  ASSUME NEW g \in Int, NEW n \in Nat
  PROVE  /\ Stretch(g, n) \in Seq(Int) /\ Len(Stretch(g, n)) = n
         /\ \A i \in 1 .. n : Stretch(g, n)[i] = (g + i) % Tags
<1>1. \A i \in 1 .. n : Stretch(g, n)[i] = (g + i) % Tags /\ (g + i) % Tags \in Int
  BY TagMod DEF Stretch
<1>2. Stretch(g, n) = [i \in 1 .. n |-> Stretch(g, n)[i]]
  BY DEF Stretch
<1>3. Stretch(g, n) \in Seq(Int)
  BY <1>1, <1>2, IsSeq
<1>4. QED
  BY <1>1, <1>2, <1>3

\* Two sequences put together
LEMMA Joined ==
  ASSUME NEW S, NEW s \in Seq(S), NEW t \in Seq(S)
  PROVE  /\ s \o t \in Seq(S) /\ Len(s \o t) = Len(s) + Len(t)
         /\ \A i \in 1 .. Len(s) : (s \o t)[i] = s[i]
         /\ \A i \in 1 .. Len(t) : (s \o t)[Len(s) + i] = t[i]
  OBVIOUS

\* The tags that go in next make the stretch longer.
LEMMA StretchPut ==
  ASSUME NEW g \in -1 .. Tags - 1, NEW l \in 0 .. Cap, NEW n \in 0 .. Cap, l + n <= Cap,
         NEW p \in Int, p = (g + 1 + l) % Tags
  PROVE  Stretch(g, l) \o [i \in 1 .. n |-> (p + i - 1) % Tags] = Stretch(g, l + n)
<1>1. Tags \in Nat /\ Cap < Tags /\ Cap \in Nat
  BY TagWrap, CapFacts
<1>2. PICK t : t = [i \in 1 .. n |-> (p + i - 1) % Tags]
  OBVIOUS
<1>3. ASSUME NEW i \in 1 .. n PROVE t[i] = (g + (l + i)) % Tags /\ t[i] \in Int
  <2>1. PICK a \in 0 .. 2 * Tags - 1 : a = g + 1 + l
    BY <1>1
  <2>2. PICK b \in 0 .. Cap : b = i - 1
    BY <1>1
  <2>3. ((a % Tags) + b) % Tags = (a + b) % Tags
    BY TagAdd
  <2>4. p + i - 1 = (a % Tags) + b /\ g + (l + i) = a + b
    BY <1>1, <2>1, <2>2
  <2>5. (a + b) % Tags \in Int
    BY TagMod, a + b \in Int
  <2>6. QED
    BY <1>2, <2>3, <2>4, <2>5
<1>4. t \in Seq(Int) /\ Len(t) = n
  <2>1. t = [i \in 1 .. n |-> t[i]] /\ n \in Nat
    BY <1>1, <1>2
  <2>2. t \in Seq(Int)
    BY <1>3, <2>1, IsSeq
  <2>3. QED
    BY <2>1, <2>2
<1>5. PICK s \in Seq(Int) : s = Stretch(g, l) /\ Len(s) = l /\ \A i \in 1 .. l : s[i] = (g + i) % Tags
  BY StretchType
<1>6. PICK x \in Seq(Int) : x = s \o t /\ Len(x) = l + n
                            /\ (\A i \in 1 .. l : x[i] = s[i]) /\ (\A i \in 1 .. n : x[l + i] = t[i])
  <2>1. PICK u \in Seq(Int) : u = t
    BY <1>4
  <2>2. /\ s \o u \in Seq(Int) /\ Len(s \o u) = Len(s) + Len(u)
        /\ \A i \in 1 .. Len(s) : (s \o u)[i] = s[i]
        /\ \A i \in 1 .. Len(u) : (s \o u)[Len(s) + i] = u[i]
    BY Joined
  <2>3. Len(u) = n /\ Len(s) = l
    BY <1>4, <1>5, <2>1
  <2>4. QED
    BY <2>1, <2>2, <2>3
<1>7. ASSUME NEW i \in 1 .. l + n PROVE x[i] = (g + i) % Tags
  <2>1. CASE i <= l
    <3>1. i \in 1 .. l
      BY <2>1
    <3>2. QED
      BY <1>5, <1>6, <3>1
  <2>2. CASE i > l
    <3>1. PICK j \in 1 .. n : i = l + j
      <4>1. i - l \in 1 .. n /\ i = l + (i - l)
        BY <1>1, <2>2
      <4>2. QED
        BY <4>1
    <3>2. QED
      BY <1>3, <1>6, <3>1
  <2>3. QED
    BY <1>1, <2>1, <2>2
<1>8. x = [i \in 1 .. l + n |-> x[i]]
  <2>1. x = [i \in 1 .. Len(x) |-> x[i]]
    OBVIOUS
  <2>2. QED
    BY <1>6, <2>1
<1>9. x = Stretch(g, l + n)
  BY <1>7, <1>8 DEF Stretch
<1>10. QED
  BY <1>2, <1>5, <1>6, <1>9

\* What comes out first makes it shorter.
LEMMA StretchTake ==
  ASSUME NEW g \in -1 .. Tags - 1, NEW l \in 0 .. Cap, NEW v \in 1 .. l,
         NEW h \in Int, h = (g + v) % Tags
  PROVE  /\ Stretch(g, l)[v] = h
         /\ SubSeq(Stretch(g, l), v + 1, Len(Stretch(g, l))) = Stretch(h, l - v)
<1>1. Tags \in Nat /\ Cap < Tags /\ Cap \in Nat
  BY TagWrap, CapFacts
<1>2. PICK s \in Seq(Int) : s = Stretch(g, l) /\ Len(s) = l /\ \A i \in 1 .. l : s[i] = (g + i) % Tags
  BY StretchType
<1>3. PICK x : x = SubSeq(s, v + 1, l)
  OBVIOUS
<1>4. x = [i \in 1 .. l - v |-> s[v + i]]
  BY <1>1, <1>2, <1>3
<1>5. ASSUME NEW i \in 1 .. l - v PROVE s[v + i] = (h + i) % Tags
  <2>1. PICK a \in 0 .. 2 * Tags - 1 : a = g + v
    BY <1>1
  <2>2. PICK b \in 0 .. Cap : b = i
    BY <1>1
  <2>3. ((a % Tags) + b) % Tags = (a + b) % Tags
    BY TagAdd
  <2>4. h + i = (a % Tags) + b /\ g + (v + i) = a + b /\ v + i \in 1 .. l
    BY <1>1, <2>1, <2>2
  <2>5. QED
    BY <1>2, <2>3, <2>4
<1>6. x = Stretch(h, l - v)
  BY <1>4, <1>5 DEF Stretch
<1>7. QED
  BY <1>2, <1>3, <1>6

\* As long as it is made of the tags of the stream, the queue is one stretch of them.
LEMMA QueueIs ==
  ASSUME TypeOK, Bytes
  PROVE  Queue = IF out = Null THEN <<>> ELSE Stretch(got, level)
<1> SUFFICES ASSUME out # Null PROVE Queue = Stretch(got, level)
  BY DEF Queue
<1>1. level \in 0 .. Cap /\ Cap \in Nat /\ out \in Int /\ got \in Int
  BY CapFacts DEF TypeOK, Cells
<1>2. ASSUME NEW i \in 1 .. level PROVE mem[Home(out + i - 1)] = (got + i) % Tags
  <2>1. PICK b \in 0 .. level - 1 : b = i - 1
    BY <1>1
  <2>2. out + i - 1 = out + b /\ got + 1 + b = got + i
    BY <1>1, <2>1
  <2>3. mem[Home(out + b)] = Tag(b)
    BY DEF Bytes, Unread
  <2>4. QED
    BY <2>2, <2>3 DEF Tag
<1>3. QED
  BY <1>2 DEF Queue, Stretch

\* Each step is one of the queue or none.
LEMMA StepFifo ==
  ASSUME IInv, StreamInv, [Next]_vars, IInv', StreamInv'
  PROVE  [Fifo!FifoNext]_(Fifo!fifoVars)
<1> USE DEF StreamInv
<1>1. TypeOK /\ Located
  <2>1. TypeOK /\ Positions /\ Granted /\ Peered
    BY DEF IInv
  <2>2. Numbers
    BY <2>1, RingAssumption, CapFacts DEF Numbers, TypeOK, Cells, Null
  <2>3. QED
    BY <2>1, <2>2 DEF Located
<1>2. Queue = IF out = Null THEN <<>> ELSE Stretch(got, level)
  BY <1>1, QueueIs
<1>3. Queue' = IF out' = Null THEN <<>> ELSE Stretch(got', level')
  <2>1. TypeOK' /\ Bytes'
    BY DEF IInv
  <2>2. (Queue = IF out = Null THEN <<>> ELSE Stretch(got, level))'
    BY <2>1, QueueIs, PTL
  <2>3. QED
    BY <2>2 DEF Stretch
<1>4. /\ level \in 0 .. Cap /\ Cap \in Nat /\ Size \in Nat \ {0} /\ Size <= Cap
      /\ got \in -1 .. Tags - 1 /\ put \in Int /\ put = (got + 1 + level) % Tags
      /\ len \in 0 .. Size /\ view \in 0 .. Size
  BY <1>1, CapFacts, RingAssumption DEF TypeOK, Bytes, Tag
<1>5. ASSUME NEW n \in 1 .. Size, out # Null, out' = out, got' = got, level' = level + n,
             level + Size <= Cap, put' = (put + n) % Tags
      PROVE  Fifo!Put(n)
  <2>1. PICK g \in -1 .. Tags - 1, l \in 0 .. Cap, p \in Int : g = got /\ l = level /\ p = put
    BY <1>4
  <2>2. n \in 0 .. Cap /\ l + n <= Cap /\ p = (g + 1 + l) % Tags
    BY <1>4, <1>5, <2>1
  <2>3. Stretch(g, l) \o [i \in 1 .. n |-> (p + i - 1) % Tags] = Stretch(g, l + n)
    BY <2>2, StretchPut
  <2>4. Queue = Stretch(g, l) /\ Queue' = Stretch(g, l + n)
    BY <1>2, <1>3, <1>5, <2>1
  <2>5. Len(Stretch(g, l)) = l
    BY StretchType
  <2>6. Queue' = Queue \o [i \in 1 .. n |-> (put + i - 1) % Tags]
    BY <2>1, <2>3, <2>4
  <2>7. Len(Queue) + n <= Cap
    BY <2>2, <2>4, <2>5
  <2>8. QED
    BY <1>5, <2>6, <2>7 DEF Fifo!Put
<1>6. CASE Push
  <2>1. /\ level' = level + len /\ put' = (put + len) % Tags /\ UNCHANGED <<out, got>>
        /\ level + Size <= Cap
    BY <1>6 DEF Push, consumer, IInv, Granted
  <2>2. CASE out = Null
    <3>1. Fifo!Clear
      BY <1>2, <1>3, <1>4, <2>1, <2>2 DEF Fifo!Clear
    <3>2. QED
      BY <3>1 DEF Fifo!FifoNext
  <2>3. CASE out # Null /\ len > 0
    <3>1. len \in 1 .. Size /\ Fifo!Put(len)
      BY <1>4, <1>5, <2>1, <2>3
    <3>2. QED
      BY <3>1 DEF Fifo!FifoNext
  <2>4. CASE out # Null /\ len = 0
    <3>1. level' = level
      BY <1>4, <2>1, <2>4
    <3>2. Tag(level)' = Tag(level)
      BY <2>1, <3>1 DEF Tag
    <3>3. put' = put
      BY <3>1, <3>2 DEF Bytes, Tag
    <3>4. QED
      BY <1>2, <1>3, <2>1, <3>1, <3>3 DEF Fifo!fifoVars
  <2>5. QED
    BY <1>4, <2>2, <2>3, <2>4
<1>7. ASSUME NEW n \in Lens, PeerProduce(n) PROVE Fifo!FifoNext
  <2>1. /\ level' = level + n /\ put' = (put + n) % Tags /\ UNCHANGED <<out, got>>
        /\ level + Size <= Cap /\ out # Null /\ n \in 1 .. Size
    BY <1>4, <1>7, CapFacts DEF PeerProduce, IInv, Granted, Peered, HasRoom, Lens
  <2>2. Fifo!Put(n)
    BY <1>5, <2>1
  <2>3. QED
    BY <2>1, <2>2 DEF Fifo!FifoNext
<1>8. CASE Pop
  <2>1. /\ level' = level - view /\ put' = put /\ out # Null /\ out' # Null /\ view <= level
        /\ view = 0 => got' = got
        /\ view > 0 => got' = (got + view) % Tags
    <3>1. /\ level' = level - view /\ put' = put /\ out # Null /\ out' = out + view
          /\ view <= level /\ out \in 1 - Size .. Cap /\ (view = 0 => got' = got)
      BY <1>8 DEF Pop, IInv, Peered, Positions, producer
    <3>2. out' # Null
      BY <1>4, <3>1 DEF Null
    <3>3. view > 0 => got' = Tag(view - 1)
      BY <1>1, <1>8, PopBytes
    <3>4. got + 1 + (view - 1) = got + view
      BY <1>4
    <3>5. QED
      BY <3>1, <3>2, <3>3, <3>4 DEF Tag
  <2>2. CASE view = 0
    <3>1. level' = level
      BY <1>4, <2>1, <2>2
    <3>2. QED
      BY <1>2, <1>3, <2>1, <2>2, <3>1 DEF Fifo!fifoVars
  <2>3. CASE view > 0
    <3>1. PICK v \in 1 .. level, h \in Int : v = view /\ h = (got + v) % Tags /\ got' = h
      BY <1>4, <2>1, <2>3, TagMod
    <3>2. /\ Stretch(got, level)[v] = h
          /\ SubSeq(Stretch(got, level), v + 1, Len(Stretch(got, level))) = Stretch(h, level - v)
      BY <1>4, <3>1, StretchTake
    <3>3. Len(Stretch(got, level)) = level
      BY <1>4, StretchType
    <3>4. Fifo!Take(v)
      BY <1>2, <1>3, <2>1, <3>1, <3>2, <3>3 DEF Fifo!Take
    <3>5. v \in 1 .. Size
      BY <1>4, <3>1
    <3>6. QED
      BY <3>4, <3>5 DEF Fifo!FifoNext
  <2>4. QED
    BY <1>4, <2>2, <2>3
<1>9. CASE PeerNull
  <2>1. out' = Null /\ put' = put /\ got' = got
    BY <1>9 DEF PeerNull, producer
  <2>2. (put + 0) % Tags = put
    <3>1. (put + 0) % Tags = Tag(level + 0)
      BY <1>1, <1>4, NextTag DEF Bytes
    <3>2. QED
      BY <1>4, <3>1 DEF Tag
  <2>3. 0 \in 0 .. Size
    BY <1>4
  <2>4. Fifo!Clear
    BY <1>3, <2>1, <2>2, <2>3 DEF Fifo!Clear
  <2>5. QED
    BY <2>4 DEF Fifo!FifoNext
<1>10. CASE UNCHANGED <<level, put, got>> /\ (out = Null <=> out' = Null)
  BY <1>2, <1>3, <1>10 DEF Fifo!fifoVars
<1>11. ASSUME PullBlock \/ PullGrant \/ PullNull \/ (\E n \in Lens : Fill(n)) \/ EndOfStream
             \/ SourceFails \/ PushTail \/ PushRun \/ FlushByProducer \/ SignalByProducer
      PROVE  UNCHANGED <<level, put, got, out>>
  BY <1>11 DEF PullBlock, PullGrant, PullNull, Fill, EndOfStream, SourceFails, PushTail,
     PushRun, FlushByProducer, SignalByProducer, SetFlush, ring, consumer
<1>12. ASSUME PeerBlock \/ PeerTake PROVE UNCHANGED <<level, put, got>> /\ (out = Null <=> out' = Null)
  <2>1. UNCHANGED <<level, put, got>> /\ out' = (IF Moves THEN out - Cap ELSE out)
        /\ out # Null
    BY <1>1, <1>12 DEF PeerBlock, PeerTake, Move, producer, Located, Peered, Peering, Entering
  <2>2. Moves => out - Cap # Null
    BY <1>1, <1>4 DEF Moves, Null, Located, Numbers
  <2>3. QED
    BY <2>1, <2>2
<1>13. ASSUME PeerProduceNull \/ PeerFull \/ Length \/ (\E n \in 0 .. Size : PopCheck(n))
             \/ PopSignal \/ SignalByConsumer
      PROVE  UNCHANGED <<level, put, got, out>>
  BY <1>13 DEF PeerProduceNull, PeerFull, Length, PopCheck, PopSignal, SignalByConsumer,
     ring, producer
<1>14. ASSUME FlushByConsumer \/ FlushByControl \/ SignalByControl \/ UNCHANGED vars
              \/ \E t \in {"producer", "consumer"} : Spurious(t)
       PROVE  UNCHANGED <<level, put, got, out>>
  BY <1>14 DEF FlushByConsumer, FlushByControl, SignalByControl, SetFlush,
     Spurious, vars, ring, producer, consumer
<1>15. QED
  BY <1>6, <1>7, <1>8, <1>9, <1>10, <1>11, <1>12, <1>13, <1>14 DEF Next, Producer, Decode

\* As far as the positions go, the ring is a bounded queue of bytes: each byte stands at its
\* place until it is popped, they are popped in the order they were pushed, and are lost only
\* as a whole, when a stopped buffer is left.
THEOREM QueueRefinement == Spec => ImplementsFifo
<1>1. Init => Fifo!FifoInit
  <2>1. Init => put = 0 /\ got = -1 /\ level = 0 /\ Queue = [i \in 1 .. 0 |-> mem[Home(out + i - 1)]]
    BY RingAssumption DEF Init, Queue, Null
  <2>2. QED
    BY <2>1 DEF Fifo!FifoInit
<1>2. IInv /\ StreamInv /\ IInv' /\ StreamInv' /\ [Next]_vars => [Fifo!FifoNext]_(Fifo!fifoVars)
  BY StepFifo
<1>3. QED
  BY <1>1, <1>2, Invariance, StreamInvariance, PTL DEF Spec, ImplementsFifo, Fifo!FifoSpec

=============================================================================
