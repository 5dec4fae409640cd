----------------------------- MODULE JitterRing -----------------------------
(***************************************************************************)
(* The byte ring of src/src/jitter_ring.c, between a source and a decoder. *)
(* The memory has one block of Size bytes before the ring and one behind   *)
(* it, so that a producer may push, and a consumer may pop, less than a    *)
(* block: push copies what was written behind the end to the start, peer   *)
(* copies what is left at the end before the start.  Positions are counted *)
(* from private->bufferstart.                                              *)
(*                                                                         *)
(* The data come from a thread of the source (src_curl, src_unix, src_udp),*)
(* which calls pull and push, or, with a produce callback (src_file), from *)
(* the decoder's own thread inside peer.  The producer, the consumer and a *)
(* controlling thread (the player's main loop, which destroys the source)  *)
(* may flush.  As in JitterSG an action is a run of code that no other     *)
(* thread can observe in the middle.  The payload is a tag per byte; a     *)
(* thread pushes what it has received, from one byte to a block.           *)
(*                                                                         *)
(* Not modelled: the consume callback (src/src/sink_file.c), and with it   *)
(* pause and reset, which nobody calls on a decoder's input.               *)
(***************************************************************************)
EXTENDS Integers, FiniteSets, Sequences

CONSTANTS
  Count,       \* jitter->count, the blocks of the ring
  Size,        \* jitter->size, the bytes of a block
  Thredhold,   \* jitter->thredhold, in blocks
  Tags,        \* the number of payload tags (a bound of the model)
  Produces,    \* may the source be a callback (TRUE), a thread (FALSE)?
  Abandons,    \* may the decoder stop before the end of its source?
  Destroys     \* may the source be destroyed while it runs?

ASSUME RingAssumption ==
  /\ Count \in Nat
  /\ Size \in Nat \ {0}
  /\ Thredhold \in Nat \ {0}
  /\ Thredhold + 2 <= Count     \* the decoders set it to half of 4 blocks or more
  /\ Tags \in Nat
  /\ Tags > Count * Size
  /\ Produces \subseteq BOOLEAN
  /\ Abandons \in BOOLEAN
  /\ Destroys \in BOOLEAN

VARIABLES
  mem,      \* the tag each byte of the memory holds, -1 before any
  in, out,  \* private->in and private->out
  copied,   \* where the last copy that peer made in front of the ring ends
  level,    \* private->level
  state,    \* private->state
  produce,  \* jitter->produce is set
  asleep,   \* the threads blocked in pthread_cond_wait
  pcP,      \* where the source's thread is
  len,      \* how many bytes it has written
  put,      \* the tag of the next byte it writes
  pcC,      \* where the decoder's thread is
  view,     \* the bytes it may read, then the bytes it pops
  got,      \* the tag of the last byte it popped, where the source wrote it
  ctl       \* where the controlling thread is

ring == <<mem, in, out, copied, level, state, produce>>
producer == <<pcP, len, put>>
consumer == <<pcC, view, got>>
vars == <<ring, asleep, producer, consumer, ctl>>

Cap == Count * Size
Cells == - Size .. Cap + Size - 1
Null == - Size - 1
Lens == 1 .. Size

Init ==
  /\ mem = [c \in Cells |-> -1]
  /\ in = 0 /\ out = 0 /\ copied = 0
  /\ level = 0
  /\ state = "FILLING"
  /\ produce \in Produces
  /\ asleep = {}
  /\ pcP = IF produce THEN "none" ELSE "idle"
  /\ len = 0 /\ put = 0
  /\ pcC = "idle" /\ view = 0 /\ got = -1
  /\ ctl = "idle"

\* The memory after n bytes were written at in.
Written(n) ==
  [c \in Cells |-> IF c \in in .. in + n - 1 THEN (put + c - in) % Tags ELSE mem[c]]

\* The variatic moves: what is behind the end goes to the start, what is left
\* before the end goes in front of the start.
BehindToStartShort(m, top) ==  \* mutant: one byte less than was written
  [c \in Cells |-> IF c \in 0 .. top - Cap - 2 THEN m[c + Cap] ELSE m[c]]
BehindToStart(m, top) ==
  [c \in Cells |-> IF c \in 0 .. top - Cap - 1 THEN m[c + Cap] ELSE m[c]]
LeftToFrontLost(m) == m  \* mutant: peer moves out and copies nothing
LeftToFront(m) ==
  [c \in Cells |-> IF c \in out - Cap .. -1 THEN m[c + Cap] ELSE m[c]]

\* The code leaves the n bytes at out, and their copies, in the memory; the
\* model forgets them, so that reading them again is seen.
Popped(n) ==
  [c \in Cells |-> IF {c, c - Cap} \cap (out .. out + n - 1) # {} THEN -1 ELSE mem[c]]

WrapNever(p) == p  \* mutant: push does not come back to the start
Wrap(p) == IF p >= Cap THEN p - Cap ELSE p

\* Where in the ring the byte at p was written, be p in front or behind.
Home(p) == IF p < 0 THEN p + Cap ELSE Wrap(p)

-----------------------------------------------------------------------------
(* The source's thread                                                     *)

Pulling == pcP = "idle" \/ (pcP = "pullWait" /\ "producer" \notin asleep)
HasRoomAlways == TRUE  \* mutant: pull does not look at the level
HasRoom == level + Size <= Cap

\* pull: no block is free.
PullBlock ==
  /\ Pulling
  /\ ~HasRoom /\ state # "FLUSH"
  /\ pcP' = "pullWait"
  /\ asleep' = asleep \cup {"producer"}
  /\ UNCHANGED <<ring, len, put, consumer, ctl>>

\* pull: the memory under in.
PullGrant ==
  /\ Pulling
  /\ HasRoom /\ state \in {"RUNNING", "FILLING"}
  /\ pcP' = "fill"
  /\ UNCHANGED <<ring, asleep, len, put, consumer, ctl>>

\* pull returns NULL: the thread leaves its loop; some sources flush then.
PullNull ==
  /\ Pulling
  /\ state = "FLUSH" \/ (HasRoom /\ state = "STOP")
  /\ \E next \in {"flush", "end"} : pcP' = next
  /\ UNCHANGED <<ring, asleep, len, put, consumer, ctl>>

\* The source writes the n bytes it has received.
Fill(n) ==
  /\ pcP = "fill"
  /\ mem' = Written(n)
  /\ len' = n
  /\ pcP' = "push"
  /\ UNCHANGED <<in, out, copied, level, state, produce, asleep, put, consumer, ctl>>

\* The source has nothing more: it pushes nothing, or just flushes, some
\* without a pull before.
EndOfStream ==
  /\ \E next \in {"push", "flush"} :
       /\ pcP = "fill" \/ (pcP = "idle" /\ next = "flush")
       /\ pcP' = next
  /\ len' = 0
  /\ UNCHANGED <<ring, asleep, put, consumer, ctl>>

\* The transfer of src_curl fails between two writes: its thread returns, and
\* neither pushes nor flushes.
SourceFails ==
  /\ pcP = "idle"
  /\ pcP' = "gone"
  /\ UNCHANGED <<ring, asleep, len, put, consumer, ctl>>

\* push, locked.
Push ==
  /\ pcP = "push"
  /\ level' = level + len
  /\ put' = (put + len) % Tags
  /\ in' = IF len = 0 THEN Null ELSE Wrap(in + len)
  /\ mem' = IF in + len >= Cap THEN BehindToStart(mem, in + len) ELSE mem
  /\ len' = 0
  /\ pcP' = "pushTail"
  /\ UNCHANGED <<out, copied, state, produce, asleep, consumer, ctl>>

\* A push of nothing was the last one.
Pushed == IF in = Null THEN "flush" ELSE "idle"

\* mutant: push does not wake the consumer
PushTailSilent ==
  /\ pcP = "pushTail"
  /\ pcP' = IF state = "FILLING" /\ level >= Thredhold * Size THEN "pushRun" ELSE Pushed
  /\ UNCHANGED <<ring, asleep, len, put, consumer, ctl>>

\* push, after the lock: wake the consumer of a running buffer, or see that
\* the level reaches the thredhold.
PushTail ==
  /\ pcP = "pushTail"
  /\ asleep' = IF state = "RUNNING" THEN asleep \ {"consumer"} ELSE asleep
  /\ pcP' = IF state = "FILLING" /\ level >= Thredhold * Size THEN "pushRun" ELSE Pushed
  /\ UNCHANGED <<ring, len, put, consumer, ctl>>

\* push, after the lock and the test: the buffer runs.  Nobody is woken.
PushRun ==
  /\ pcP = "pushRun"
  /\ state' = "RUNNING"
  /\ pcP' = Pushed
  /\ UNCHANGED <<mem, in, out, copied, level, produce, asleep, len, put, consumer, ctl>>

-----------------------------------------------------------------------------
(* The decoder's thread                                                    *)

\* peer with a produce callback: n bytes are produced and pushed by the
\* decoder's own thread, again and again until the buffer runs.
PeerProduce(n) ==
  /\ produce
  /\ pcC = "produce" \/ (pcC = "idle" /\ HasRoom)
  /\ mem' = IF in + n >= Cap THEN BehindToStart(Written(n), in + n) ELSE Written(n)
  /\ in' = Wrap(in + n)
  /\ level' = level + n
  /\ put' = (put + n) % Tags
  /\ state' = IF state = "FILLING" /\ level' >= Thredhold * Size THEN "RUNNING" ELSE state
  /\ pcC' = IF state' = "FILLING" THEN "produce" ELSE "peer"
  /\ UNCHANGED <<out, copied, produce, asleep, pcP, len, view, got, ctl>>

\* peer with a produce callback: the source has nothing more, return NULL.
PeerProduceNull ==
  /\ produce
  /\ pcC = "produce" \/ (pcC = "idle" /\ HasRoom)
  /\ pcC' = "end"
  /\ UNCHANGED <<ring, asleep, producer, view, got, ctl>>

\* peer with a produce callback: the buffer is full enough.
PeerFull ==
  /\ produce
  /\ pcC = "idle" /\ ~HasRoom
  /\ state' = "RUNNING"
  /\ pcC' = "peer"
  /\ UNCHANGED <<mem, in, out, copied, level, produce, asleep, producer, view, got, ctl>>

\* The rest of peer: the variatic move, made once on entry, and then the wait.
Entering == (pcC = "idle" /\ ~produce) \/ pcC = "peer"
Peering == Entering \/ (pcC = "peerWait" /\ "consumer" \notin asleep)
Moves == Entering /\ out + Size > Cap

\* The copy holds the bytes that were pushed by then.
CopyEnd == IF out - Cap + level < 0 THEN out - Cap + level ELSE 0

Move ==
  /\ out' = IF Moves THEN out - Cap ELSE out
  /\ mem' = IF Moves THEN LeftToFront(mem) ELSE mem
  /\ copied' = IF Moves THEN CopyEnd ELSE copied

MustWait == state = "FILLING" /\ in # Null /\ ~produce

PeerBlock ==
  /\ Peering
  /\ MustWait
  /\ Move
  /\ pcC' = "peerWait"
  /\ asleep' = asleep \cup {"consumer"}
  /\ UNCHANGED <<in, level, state, produce, producer, view, got, ctl>>

\* peer returns the memory under out.
PeerTake ==
  /\ Peering
  /\ ~MustWait /\ state # "STOP"
  /\ Move
  /\ pcC' = "use"
  /\ UNCHANGED <<in, level, state, produce, asleep, producer, view, got, ctl>>

\* peer of a stopped buffer returns NULL.
PeerNull ==
  /\ Peering
  /\ state = "STOP"
  /\ out' = Null
  /\ mem' = IF Moves THEN LeftToFront(mem) ELSE mem
  /\ pcC' = "end"
  /\ UNCHANGED <<in, copied, level, state, produce, asleep, producer, view, got, ctl>>

\* length: how much of a block is there.
Length ==
  /\ pcC = "use"
  /\ view' = IF level < Size THEN level ELSE Size
  /\ pcC' = "read"
  /\ UNCHANGED <<ring, asleep, producer, got, ctl>>

\* pop(n), before it locks: a buffer that is filling or stopped is left alone.
\* The decoder may want more data first, but a whole block is enough for a frame.
PopCheck(n) ==
  /\ pcC = "read"
  /\ view = Size => n > 0
  /\ n <= view
  /\ \/ state \in {"FILLING", "STOP"} /\ pcC' = "idle" /\ view' = 0
     \/ state \in {"RUNNING", "FLUSH"} /\ pcC' = "pop" /\ view' = n
  /\ UNCHANGED <<ring, asleep, producer, got, ctl>>

\* pop(n), locked: out moves; a buffer with a block or less fills again, or
\* stops when it is flushed.
Pop ==
  /\ pcC = "pop"
  /\ out' = out + view
  /\ level' = level - view
  /\ got' = IF view = 0 THEN got ELSE mem[Home(out + view - 1)]
  /\ state' = IF level' > Size THEN state
              ELSE IF state = "RUNNING" THEN "FILLING" ELSE "STOP"
  /\ mem' = Popped(view)
  /\ view' = 0
  /\ pcC' = "popSignal"
  /\ UNCHANGED <<in, copied, produce, asleep, producer, ctl>>

\* mutant: pop does not wake the producer
PopSignalSilent ==
  /\ pcC = "popSignal"
  /\ pcC' = "idle"
  /\ UNCHANGED <<ring, asleep, producer, view, got, ctl>>

\* pop, after the lock: wake the producer.
PopSignal ==
  /\ pcC = "popSignal"
  /\ asleep' = asleep \ {"producer"}
  /\ pcC' = "idle"
  /\ UNCHANGED <<ring, producer, view, got, ctl>>

-----------------------------------------------------------------------------
(* flush: the source's thread at its end, the decoder when its output is   *)
(* broken, the thread that destroys the source.                            *)

Flushed == IF state = "FLUSH" THEN "end" ELSE "signal"
SetFlush ==
  /\ state' = "FLUSH"
  /\ UNCHANGED <<mem, in, out, copied, level, produce, asleep>>

FlushByProducer ==
  /\ pcP = "flush"
  /\ SetFlush
  /\ pcP' = Flushed
  /\ UNCHANGED <<len, put, consumer, ctl>>

FlushByConsumer ==
  /\ Abandons
  /\ pcC \in {"idle", "read"}
  /\ SetFlush
  /\ pcC' = Flushed
  /\ UNCHANGED <<producer, view, got, ctl>>

FlushByControl ==
  /\ Destroys /\ ~produce
  /\ ctl = "idle"
  /\ SetFlush
  /\ ctl' = Flushed
  /\ UNCHANGED <<producer, consumer>>

\* flush, after the lock: wake everybody.
SignalByProducer ==
  /\ pcP = "signal" /\ pcP' = "end"
  /\ asleep' = {}
  /\ UNCHANGED <<ring, len, put, consumer, ctl>>

SignalByConsumer ==
  /\ pcC = "signal" /\ pcC' = "end"
  /\ asleep' = {}
  /\ UNCHANGED <<ring, producer, view, got, ctl>>

SignalByControl ==
  /\ ctl = "signal" /\ ctl' = "end"
  /\ asleep' = {}
  /\ UNCHANGED <<ring, producer, consumer>>

\* POSIX lets a thread return from pthread_cond_wait without a broadcast.
Spurious(t) ==
  /\ t \in asleep
  /\ asleep' = asleep \ {t}
  /\ UNCHANGED <<ring, producer, consumer, ctl>>

-----------------------------------------------------------------------------
Producer == PullBlock \/ PullGrant \/ PullNull \/ (\E n \in Lens : Fill(n))
            \/ EndOfStream \/ SourceFails \/ Push \/ PushTail \/ PushRun
            \/ FlushByProducer \/ SignalByProducer

Decode == (\E n \in Lens : PeerProduce(n)) \/ PeerProduceNull \/ PeerFull
          \/ PeerBlock \/ PeerTake \/ PeerNull \/ Length
          \/ (\E n \in 0 .. Size : PopCheck(n)) \/ Pop \/ PopSignal
          \/ SignalByConsumer

Next == Producer \/ Decode \/ FlushByConsumer \/ FlushByControl \/ SignalByControl
        \/ (\E t \in {"producer", "consumer"} : Spurious(t))

Spec == Init /\ [][Next]_vars

\* A source's thread runs until its stream ends, a decoder until it is given
\* NULL, and a thread that flushes wakes the others.
FairSpec == Spec /\ WF_vars(Producer) /\ WF_vars(Decode) /\ WF_vars(SignalByControl)

-----------------------------------------------------------------------------
(* Properties                                                              *)

\* Every variable has its type; in and out stay inside the allocated memory.
TypeOK ==
  /\ mem \in [Cells -> -1 .. Tags - 1]
  /\ in \in Cells \cup {Null} /\ out \in Cells \cup {Null}
  /\ copied \in 1 - Size .. 0
  /\ level \in 0 .. Cap
  /\ state \in {"STOP", "FILLING", "RUNNING", "FLUSH"}
  /\ produce \in BOOLEAN
  /\ asleep \subseteq {"producer", "consumer"}
  /\ pcP \in {"none", "idle", "pullWait", "fill", "push", "pushTail", "pushRun",
              "flush", "signal", "end", "gone"}
  /\ len \in 0 .. Size
  /\ put \in 0 .. Tags - 1
  /\ pcC \in {"idle", "produce", "peer", "peerWait", "use", "read", "pop",
              "popSignal", "signal", "end"}
  /\ view \in 0 .. Size
  /\ got \in -1 .. Tags - 1
  /\ ctl \in {"idle", "signal", "end"}

\* pull hands out a whole block of memory, and peer's block ends in the memory
\* too; the producer's block never covers a byte the consumer may read, in the
\* ring or in the blocks around it.
BlocksAreApart ==
  /\ pcP \in {"fill", "push"} => in .. in + Size - 1 \subseteq Cells
  /\ pcC \in {"use", "read", "pop"} => out .. out + Size - 1 \subseteq Cells
  /\ pcP \in {"fill", "push"} /\ pcC \in {"read", "pop"} =>
       (in .. in + Size - 1) \cap (out .. out + view - 1) = {}

\* What the decoder may read, once peer has returned and length was asked, is
\* the next bytes of the stream, across both copies, for every length pushed
\* and popped; but for the bytes that a source's thread pushed at the end of
\* the ring after peer had copied what was left there to the front
\* (jitter_ring.c:302-315, before the wait of 320-327): they stay where they
\* were written, while the decoder reads in front of the ring.  "The variatic
\* configuration allows to push and to pop a quantity of data different of the
\* configurated block size" (299-301) promises these bytes too.
ReadsTheStream ==
  pcC = "read" =>
    \A i \in 0 .. view - 1 :
      \/ mem[out + i] = (got + 1 + i) % Tags
      \/ ~produce /\ out + i \in copied .. -1

\* As far as the positions go, the ring is a queue of bytes: at the place in the
\* ring of each byte between out and in stands what the source wrote there, the
\* bytes are popped in the order they were pushed, and they are lost only as a
\* whole, when a flushed buffer stops.
Queue ==
  IF out = Null THEN <<>> ELSE [i \in 1 .. level |-> mem[Home(out + i - 1)]]
Fifo == INSTANCE BoundedFifo WITH Capacity <- Cap, Batch <- Size, queue <- Queue
ImplementsFifo == Fifo!FifoSpec

\* A source's thread that waits in pull goes on while the decoder runs, and a
\* decoder that waits in peer goes on: although the step to RUNNING wakes
\* nobody, a flush is set and signalled in two steps and the level is compared
\* in four places.  A source's thread that failed wakes nobody: the decoder then
\* sleeps until the buffer is flushed.
PullReturns ==
  pcP = "pullWait" /\ pcC # "end" ~> pcP # "pullWait" \/ pcC = "end"
PeerReturns ==
  pcC = "peerWait" ~> pcC # "peerWait" \/ (pcP = "gone" /\ state # "FLUSH")
=============================================================================
