------------------------------ MODULE JitterSG ------------------------------
(***************************************************************************)
(* The scatter-gather jitter buffer of src/src/jitter_sg.c: a ring of      *)
(* Count scatters between a producer thread (a decoder's filter, a source, *)
(* an encoder), which calls pull and push, and a consumer thread (a sink,  *)
(* an encoder, a demultiplexer), which calls peer and pop.  A third thread *)
(* (the player's main loop, a decoder's destroy) controls the buffer with  *)
(* pause, flush and reset.                                                 *)
(*                                                                         *)
(* An action is a maximal run of code that no other thread can observe in  *)
(* the middle: a critical section of private->mutex, or one of the reads,  *)
(* writes and broadcasts that the code does outside of it.  A thread in    *)
(* pthread_cond_wait is asleep until a broadcast (or a spurious wake-up).  *)
(*                                                                         *)
(* The payload of a buffer is the tag the producer gave it.  Not modelled: *)
(* the channels (every caller uses channel 0), the synchronous produce and *)
(* consume callbacks and the arithmetic of the heartbeat, whose wait is    *)
(* the delay before PeerReturn.                                            *)
(***************************************************************************)
EXTENDS Integers, FiniteSets, Sequences

CONSTANTS
  Count,          \* jitter->count, the number of scatters
  Thredhold,      \* jitter->thredhold, the level at which the consumer starts
  Tags,           \* the number of payload tags (a bound of the model)
  LevelSpan,      \* how many values the unsigned level has
  Controls,       \* which of "pause", "flush" and "reset" are called
  MayEnd,         \* may the producer end the stream with a push of length 0?
  ResetWhileHeld  \* may reset clear the buffer while the consumer holds a
                  \* scatter, between its peer and the end of its pop?

ASSUME JitterAssumption ==
  /\ Count \in Nat \ {0}
  /\ Thredhold \in Nat
  /\ Thredhold < Count           \* every caller of jitter_init sets it so
  /\ Tags \in Nat
  /\ Tags > Count
  /\ LevelSpan \in Nat
  /\ LevelSpan > Count
  /\ Controls \subseteq {"pause", "flush", "reset"}
  /\ MayEnd \in BOOLEAN
  /\ ResetWhileHeld \in BOOLEAN

VARIABLES
  slot,    \* the state of each scatter
  data,    \* the tag each scatter's memory holds, -1 before any
  in, out, \* private->in and private->out
  level,   \* private->level
  state,   \* private->state
  pause,   \* private->pause
  asleep,  \* the threads blocked in pthread_cond_wait
  pcP,     \* where the producer is
  mine,    \* the scatter whose memory the producer was given, -1 for none
  put,     \* the tag of the producer's next buffer
  pcC,     \* where the consumer is
  hold,    \* the scatter whose memory the consumer was given, -1 for none
  got,     \* the tag of the last buffer the consumer released, -1 before any
  ctl,     \* where the controlling thread is
  torn     \* history: the last reset cleared a scatter the consumer held

ring == <<slot, data, in, out, level, state, pause>>
producer == <<pcP, mine, put>>
consumer == <<pcC, hold, got>>
vars == <<ring, asleep, producer, consumer, ctl, torn>>

Scatters == 0 .. Count - 1
SlotStates == {"FREE", "PULL", "POP", "READY"}
JitterStates == {"STOP", "FILLING", "RUNNING", "FLUSH", "COMPLETE"}

\* it->next: the ring of scatters; unsigned arithmetic of the level.
Next1NoWrap(s) == s + 1  \* mutant: the ring does not close
Next1(s) == IF s = Count - 1 THEN 0 ELSE s + 1
Unsigned(n) == IF n < 0 THEN n + LevelSpan
               ELSE IF n >= LevelSpan THEN n - LevelSpan ELSE n

\* _jitter_init: the state in which a stopped buffer starts again.
Started == IF state = "STOP"
           THEN IF Thredhold = 0 THEN "RUNNING" ELSE "FILLING"
           ELSE state

Resetting == {"resetSignal", "clear", "clearSignal", "rewind"}

Init ==
  /\ slot = [s \in Scatters |-> "FREE"]
  /\ data = [s \in Scatters |-> -1]
  /\ in = 0 /\ out = 0
  /\ level = 0
  /\ state = "STOP"
  /\ pause = FALSE
  /\ asleep = {}
  /\ pcP = "idle" /\ mine = -1 /\ put = 0
  /\ pcC = "idle" /\ hold = -1 /\ got = -1
  /\ ctl = "idle" /\ torn = FALSE

-----------------------------------------------------------------------------
(* The producer                                                            *)

\* The two ways into the loop of pull: the call, and a wake-up.  The player
\* joins the decoder's thread before it resets the buffer, so no call is
\* running while the controlling thread is in reset.
Pulling ==
  /\ \/ pcP = "idle"
     \/ pcP = "pullWait" /\ "producer" \notin asleep
  /\ ctl \notin Resetting

\* What the state is once the call has passed _jitter_init.
PullState == IF pcP = "idle" THEN Started ELSE state

\* The ring is full: wait on condpush.
PullBlock ==
  /\ Pulling
  /\ slot[in] # "FREE" /\ PullState # "FLUSH"
  /\ state' = PullState
  /\ pcP' = "pullWait"
  /\ asleep' = asleep \cup {"producer"}
  /\ UNCHANGED <<slot, data, in, out, level, pause, mine, put, consumer, ctl, torn>>

\* mutant: pull does not test that the scatter is free
PullGrantAny ==
  /\ Pulling
  /\ PullState \notin {"FLUSH", "STOP"}
  /\ state' = PullState
  /\ slot' = [slot EXCEPT ![in] = "PULL"]
  /\ mine' = in
  /\ pcP' = "fill"
  /\ UNCHANGED <<data, in, out, level, pause, asleep, put, consumer, ctl, torn>>

\* The scatter under in is free: give its memory to the producer.
PullGrant ==
  /\ Pulling
  /\ slot[in] = "FREE" /\ PullState \notin {"FLUSH", "STOP"}
  /\ state' = PullState
  /\ slot' = [slot EXCEPT ![in] = "PULL"]
  /\ mine' = in
  /\ pcP' = "fill"
  /\ UNCHANGED <<data, in, out, level, pause, asleep, put, consumer, ctl, torn>>

\* The buffer is flushed (or stopped): return NULL.
PullNull ==
  /\ Pulling
  /\ \/ PullState = "FLUSH"
     \/ PullState = "STOP" /\ slot[in] = "FREE"
  /\ pcP' = "idle"
  /\ UNCHANGED <<ring, asleep, mine, put, consumer, ctl, torn>>

\* push, before it locks: a scatter that is no longer pulled (reset freed it
\* meanwhile) is not pushed; the peer is woken and the call returns.
PushIgnored ==
  /\ pcP = "fill" /\ ctl \notin Resetting
  /\ slot[in] # "PULL"
  /\ data' = [data EXCEPT ![mine] = put]
  /\ asleep' = asleep \ {"consumer"}
  /\ pcP' = "idle" /\ mine' = -1
  /\ UNCHANGED <<slot, in, out, level, state, pause, put, consumer, ctl, torn>>

\* push, before it locks: the producer has filled its buffer, or ends the
\* stream with an empty one.
PushCheck ==
  /\ pcP = "fill" /\ ctl \notin Resetting
  /\ slot[in] = "PULL"
  /\ \/ /\ data' = [data EXCEPT ![mine] = put]
        /\ pcP' = "push"
     \/ /\ MayEnd
        /\ pcP' = "pushEnd"
        /\ UNCHANGED data
  /\ UNCHANGED <<slot, in, out, level, state, pause, asleep, mine, put,
                 consumer, ctl, torn>>

\* push(0), locked: the end of the stream.
PushEnd ==
  /\ pcP = "pushEnd"
  /\ slot' = [slot EXCEPT ![in] = "FREE"]
  /\ state' = "COMPLETE"
  /\ pcP' = "pushTail" /\ mine' = -1
  /\ UNCHANGED <<data, in, out, level, pause, asleep, put, consumer, ctl, torn>>

\* push(len), locked: the scatter is ready and in moves to the next one.
PushReady ==
  /\ pcP = "push"
  /\ slot' = [slot EXCEPT ![in] = "READY"]
  /\ level' = Unsigned(level + 1)
  /\ in' = Next1(in)
  /\ put' = (put + 1) % Tags
  /\ pcP' = "pushTail" /\ mine' = -1
  /\ UNCHANGED <<data, out, state, pause, asleep, consumer, ctl, torn>>

\* mutant: push does not wake the consumer
PushTailSilent ==
  /\ pcP = "pushTail"
  /\ pcP' = IF state = "FILLING" /\ level = Thredhold THEN "pushRun" ELSE "idle"
  /\ UNCHANGED <<ring, asleep, mine, put, consumer, ctl, torn>>

\* push, after the lock: wake the consumer if the buffer is running, or see
\* that the level reaches the thredhold.
PushTail ==
  /\ pcP = "pushTail"
  /\ asleep' = IF state = "RUNNING" THEN asleep \ {"consumer"} ELSE asleep
  /\ pcP' = IF state = "FILLING" /\ level = Thredhold THEN "pushRun" ELSE "idle"
  /\ UNCHANGED <<ring, mine, put, consumer, ctl, torn>>

\* push, after the lock and the test: the buffer runs.  Nobody is woken.
PushRun ==
  /\ pcP = "pushRun"
  /\ state' = "RUNNING"
  /\ pcP' = "idle"
  /\ UNCHANGED <<slot, data, in, out, level, pause, asleep, mine, put,
                 consumer, ctl, torn>>

-----------------------------------------------------------------------------
(* The consumer                                                            *)

\* peer, first critical section: start a stopped buffer.
PeerStart ==
  /\ pcC = "idle"
  /\ state' = Started
  /\ pcC' = "peerCheck"
  /\ UNCHANGED <<slot, data, in, out, level, pause, asleep, producer, hold,
                 got, ctl, torn>>

\* peer, unlocked: a complete and empty stream returns NULL.
PeerCheck ==
  /\ pcC = "peerCheck"
  /\ pcC' = IF slot[out] = "FREE" /\ state = "COMPLETE" THEN "idle" ELSE "peer"
  /\ UNCHANGED <<ring, asleep, producer, hold, got, ctl, torn>>

Peering == pcC = "peer" \/ (pcC = "peerWait" /\ "consumer" \notin asleep)

MustWaitLess == state = "FILLING" \/ pause  \* mutant: the scatter may be unready
MustWait == state = "FILLING" \/ slot[out] # "READY" \/ pause

\* peer, second critical section: wait on condpeer.
PeerBlock ==
  /\ Peering
  /\ MustWait
  /\ pcC' = "peerWait"
  /\ asleep' = asleep \cup {"consumer"}
  /\ UNCHANGED <<ring, producer, hold, got, ctl, torn>>

\* peer, second critical section: take the scatter under out.
PeerTake ==
  /\ Peering
  /\ ~MustWait
  /\ slot' = [slot EXCEPT ![out] = "POP"]
  /\ pcC' = "beat"
  /\ UNCHANGED <<data, in, out, level, state, pause, asleep, producer, hold,
                 got, ctl, torn>>

\* peer, unlocked: after the heartbeat, return the memory under out.
PeerReturn ==
  /\ pcC = "beat"
  /\ hold' = out
  /\ pcC' = "use"
  /\ UNCHANGED <<ring, asleep, producer, got, ctl, torn>>

\* pop(0): give the scatter back unread.
PopBack ==
  /\ pcC = "use"
  /\ slot' = [slot EXCEPT ![out] = "READY"]
  /\ hold' = -1
  /\ pcC' = "popSignal"
  /\ UNCHANGED <<data, in, out, level, state, pause, asleep, producer, got, ctl, torn>>

\* pop(len), before it locks: was the scatter freed meanwhile?
PopCheck ==
  /\ pcC = "use"
  /\ pcC' = IF state = "STOP" \/ slot[out] # "POP" THEN "popStray" ELSE "pop"
  /\ UNCHANGED <<ring, asleep, producer, hold, got, ctl, torn>>

\* pop(len), still unlocked: free what is under out now.
PopStray ==
  /\ pcC = "popStray"
  /\ slot' = [slot EXCEPT ![out] = "FREE"]
  /\ hold' = -1
  /\ pcC' = "popSignal"
  /\ UNCHANGED <<data, in, out, level, state, pause, asleep, producer, got, ctl, torn>>

\* pop(len), locked: the scatter is free and out moves to the next one; an
\* empty buffer fills again.
PopFree ==
  /\ pcC = "pop"
  /\ slot' = [slot EXCEPT ![out] = "FREE"]
  /\ level' = Unsigned(level - 1)
  /\ out' = Next1(out)
  /\ state' = IF level' = 0 /\ Thredhold > 0 THEN "FILLING" ELSE state
  /\ got' = data[hold]
  /\ hold' = -1
  /\ pcC' = "popSignal"
  /\ UNCHANGED <<data, in, pause, asleep, producer, ctl, torn>>

\* mutant: pop does not wake the producer
PopSignalSilent ==
  /\ pcC = "popSignal"
  /\ pcC' = "idle"
  /\ UNCHANGED <<ring, asleep, producer, hold, got, ctl, torn>>

\* pop, after the lock: wake the producer.
PopSignal ==
  /\ pcC = "popSignal"
  /\ asleep' = asleep \ {"producer"}
  /\ pcC' = "idle"
  /\ UNCHANGED <<ring, producer, hold, got, ctl, torn>>

-----------------------------------------------------------------------------
(* The controlling thread                                                  *)

\* pause(enable), locked: leaving the pause also ends a flush.
Pause(enable) ==
  /\ ctl = "idle" /\ "pause" \in Controls
  /\ pause' = enable
  /\ state' = IF state = "FLUSH" /\ ~enable
              THEN IF level > Thredhold THEN "RUNNING" ELSE "FILLING"
              ELSE state
  /\ ctl' = "pauseSignal"
  /\ UNCHANGED <<slot, data, in, out, level, asleep, producer, consumer, torn>>

PauseSignal ==
  /\ ctl = "pauseSignal"
  /\ asleep' = asleep \ {"consumer"}
  /\ ctl' = "idle"
  /\ UNCHANGED <<ring, producer, consumer, torn>>

\* flush: a flushed buffer is left alone.
Flush ==
  /\ ctl = "idle" /\ "flush" \in Controls
  /\ state # "FLUSH"
  /\ state' = "FLUSH"
  /\ ctl' = "flushSignal"
  /\ UNCHANGED <<slot, data, in, out, level, pause, asleep, producer, consumer, torn>>

FlushSignal ==
  /\ ctl \in {"flushSignal", "resetSignal", "clearSignal"}
  /\ asleep' = {}
  /\ ctl' = CASE ctl = "flushSignal" -> "idle"
              [] ctl = "resetSignal" -> "clear"
              [] ctl = "clearSignal" -> "rewind"
  /\ UNCHANGED <<ring, producer, consumer, torn>>

\* reset begins with a flush.  The producer's thread has been joined: it is in
\* no call of the buffer, but the filter may still own a half-filled scatter.
Reset ==
  /\ ctl = "idle" /\ "reset" \in Controls
  /\ pcP \in {"idle", "fill"}
  /\ state' = "FLUSH"
  /\ ctl' = IF state = "FLUSH" THEN "clear" ELSE "resetSignal"
  /\ UNCHANGED <<slot, data, in, out, level, pause, asleep, producer, consumer, torn>>

\* The consumer holds no scatter: it is outside of peer, or blocked in it.
Quiet == pcC \in {"idle", "peerCheck", "peer", "peerWait"}

\* reset, first critical section: free all the scatters.
ResetClear ==
  /\ ctl = "clear"
  /\ torn' = ~Quiet
  /\ ResetWhileHeld \/ Quiet
  /\ state' = "STOP"
  /\ slot' = [s \in Scatters |-> "FREE"]
  /\ ctl' = "clearSignal"
  /\ UNCHANGED <<data, in, out, level, pause, asleep, producer, consumer>>

\* mutant: reset keeps the level
ResetRewindLevel ==
  /\ ctl = "rewind"
  /\ state' = "FILLING"
  /\ in' = 0 /\ out' = 0
  /\ ctl' = "idle"
  /\ UNCHANGED <<slot, data, level, pause, asleep, producer, consumer, torn>>

\* reset, second critical section: start from the first scatter.
ResetRewind ==
  /\ ctl = "rewind"
  /\ level' = 0
  /\ state' = "FILLING"
  /\ in' = 0 /\ out' = 0
  /\ ctl' = "idle"
  /\ UNCHANGED <<slot, data, pause, asleep, producer, consumer, torn>>

\* POSIX lets a thread return from pthread_cond_wait without a broadcast.
Spurious(t) ==
  /\ t \in asleep
  /\ asleep' = asleep \ {t}
  /\ UNCHANGED <<ring, producer, consumer, ctl, torn>>

-----------------------------------------------------------------------------
Producer == PullBlock \/ PullGrant \/ PullNull \/ PushIgnored \/ PushCheck
            \/ PushEnd \/ PushReady \/ PushTail \/ PushRun

Consumer == PeerStart \/ PeerCheck \/ PeerBlock \/ PeerTake \/ PeerReturn
            \/ PopBack \/ PopCheck \/ PopStray \/ PopFree \/ PopSignal

Signal == PauseSignal \/ FlushSignal

Controller == (\E enable \in BOOLEAN : Pause(enable)) \/ Signal \/ Flush
              \/ Reset \/ ResetClear \/ ResetRewind

Next == Producer \/ Consumer \/ Controller
        \/ (\E t \in {"producer", "consumer"} : Spurious(t))

Spec == Init /\ [][Next]_vars

\* Both threads call the buffer for ever: a decoder decodes while it is given
\* memory, a sink plays while it is given data; and a controlling thread that
\* began a call ends it.  A sink may give a scatter back with pop(0) when its
\* device takes nothing, but not for ever: it plays at last.
Fairness ==
  /\ WF_vars(Producer)
  /\ WF_vars(Consumer)
  /\ SF_vars(PopCheck)
  /\ WF_vars(Signal)

FairSpec == Spec /\ Fairness

-----------------------------------------------------------------------------
(* Properties                                                              *)

\* Every variable has its type; level stays an unsigned integer.
TypeOK ==
  /\ slot \in [Scatters -> SlotStates]
  /\ data \in [Scatters -> -1 .. Tags - 1]
  /\ in \in Scatters /\ out \in Scatters
  /\ level \in 0 .. LevelSpan - 1
  /\ state \in JitterStates
  /\ pause \in BOOLEAN
  /\ asleep \subseteq {"producer", "consumer"}
  /\ pcP \in {"idle", "pullWait", "fill", "push", "pushEnd", "pushTail", "pushRun"}
  /\ mine \in Scatters \cup {-1}
  /\ put \in 0 .. Tags - 1
  /\ pcC \in {"idle", "peerCheck", "peer", "peerWait", "beat", "use", "pop",
              "popStray", "popSignal"}
  /\ hold \in Scatters \cup {-1}
  /\ got \in -1 .. Tags - 1
  /\ ctl \in {"idle", "pauseSignal", "flushSignal"} \cup Resetting
  /\ torn \in BOOLEAN

Filled == {s \in Scatters : slot[s] \in {"READY", "POP"}}

\* Outside a torn reset, the memory the producer writes is never the memory the
\* consumer reads: pull and peer do not hand out the same scatter.  Torn is the
\* time from a reset that freed the scatter the consumer was reading to the
\* next reset that finds the consumer outside; with that one the two are apart
\* again, wherever the torn pop has left in, out and the slots.  Torn itself is
\* no exception the code makes: reset "may be called by any thread"
\* (jitter_sg.c:535-538), and while torn the two do hold the same scatter.
NoSharedBuffer == ~torn /\ mine # -1 => mine # hold

\* Outside a torn reset, level counts the scatters that hold data, so it never
\* leaves 0..Count; only between the two critical sections of reset is it out
\* of date.  While torn, pop may decrement a level of 0 (jitter_sg.c:494).
LevelExact ==
  ~torn /\ ctl \notin {"clearSignal", "rewind"} => level = Cardinality(Filled)

\* The buffer is a bounded queue: what the consumer releases is what the
\* producer pushed, in order, none lost or repeated except by a reset.  What
\* happens while the buffer is torn is excepted; the reset that mends it empties
\* the queue, wherever the torn pop has left it, and it is a queue again.
Queue == [i \in 1 .. Cardinality(Filled) |-> data[(out + i - 1) % Count]]
Fifo == INSTANCE BoundedFifo WITH Capacity <- Count, Batch <- 1, queue <- Queue
ImplementsFifo == Fifo!FifoInit /\ [][Fifo!FifoNext \/ torn']_(Fifo!fifoVars)

\* Every buffer the producer pushes is taken by the consumer, although the
\* step from filling to running wakes nobody; only a flush may leave it there.
EveryBufferIsConsumed ==
  \A s \in Scatters : slot[s] = "READY" ~> slot[s] = "FREE" \/ state = "FLUSH"

\* A producer that waits in pull does not wait for ever: the consumer frees a
\* scatter, or a flush sends it away (the player joins it after a flush).
PullReturns == pcP = "pullWait" ~> pcP \in {"fill", "idle"}
=============================================================================
