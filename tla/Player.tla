------------------------------- MODULE Player -------------------------------
(***************************************************************************)
(* The player of src/src/player.c: one register, ctx->state, which the     *)
(* commands, the sinks and the decoders' threads write to ask for          *)
(* something, and which the main loop reads, obeys and writes itself.      *)
(*                                                                         *)
(* The main loop (player_run) owns the source that plays, ctx->src, and    *)
(* the one that is ready to follow it, ctx->nextsrc.  Every other thread   *)
(* is a caller of player_state: the clients, which may then block in       *)
(* player_waiton, and the decoder thread of each source, which asks for    *)
(* CHANGE when its stream ends.  player_state only tries to lock: when the *)
(* mutex is taken the request is dropped.                                  *)
(*                                                                         *)
(* An action is a run of code that no other thread can observe in the      *)
(* middle.  The state engine runs without the mutex, one action per branch *)
(* or per blocking call.  The playlist is external: a call of its play     *)
(* operation builds a source, fails to, or has no entry left.  Not here:   *)
(* player_change and player_play called by a command's thread, the event   *)
(* listeners and the volume.  A media is set before the main loop starts.  *)
(* A local variable that is dead has its initial value.                    *)
(***************************************************************************)
EXTENDS Integers, FiniteSets

CONSTANTS
  Clients,    \* the threads of the commands and of the sinks
  Sources,    \* the memory for sources; each has at most one decoder thread
  Main,       \* the main loop's thread
  None,       \* a null pointer, an unlocked mutex
  Requests,   \* what the clients ask for
  MaxCalls    \* how many calls each client makes (a bound of the model)

Callers == Clients \cup Sources

ASSUME PlayerAssumption ==
  /\ Clients \cap Sources = {}
  /\ Main \notin Callers \cup {None}
  /\ None \notin Callers
  /\ Requests \subseteq {"PLAY", "PAUSE", "STOP", "CHANGE", "ERROR", "NEXT"}
  /\ MaxCalls \in Nat

VARIABLES
  state,     \* ctx->state
  mutex,     \* the thread that holds ctx->mutex
  sleepers,  \* the threads in pthread_cond_wait: Main on cond_int, clients on cond
  src,       \* ctx->src
  nextsrc,   \* ctx->nextsrc
  live,      \* the sources that are built and not destroyed
  paused,    \* the output stream is paused
  pcM,       \* where the main loop is
  last,      \* its last_state
  seen,      \* its first read of ctx->state for the arguments of the engine
  hush,      \* the engine's argument pause
  new,       \* the engine's result, new_state
  pc,        \* where each caller is
  req,       \* the argument of its player_state
  old,       \* the argument of its player_waiton
  jumping,   \* the clients whose call is player_next
  calls      \* how many calls each client has left

shared == <<state, mutex, sleepers>>
streams == <<src, nextsrc, live, paused>>
main == <<pcM, last, seen, hush, new>>
callers == <<pc, req, old, jumping, calls>>
vars == <<shared, streams, main, callers>>

\* state_t; PAUSE is PLAY with the pause bit.
States == {"STOP", "PLAY", "CHANGE", "ERROR", "PAUSE"}
MaskedNot(s) == s  \* mutant: the pause bit is not masked
Masked(s) == IF s = "PAUSE" THEN "PLAY" ELSE s
PauseBit(s) == s = "PAUSE"

Init ==
  /\ state = "STOP" /\ mutex = None /\ sleepers = {}
  /\ src = None /\ nextsrc = None /\ live = {} /\ paused = FALSE
  /\ pcM = "loop" /\ last = "STOP" /\ seen = "STOP" /\ hush = FALSE /\ new = "STOP"
  /\ pc = [t \in Callers |-> IF t \in Clients THEN "idle" ELSE "off"]
  /\ req = [t \in Callers |-> "CHANGE"]
  /\ old = [t \in Callers |-> "STOP"]
  /\ jumping = {}
  /\ calls = [c \in Clients |-> MaxCalls]

-----------------------------------------------------------------------------
(* The main loop, up to the state engine                                   *)

MainLock ==
  /\ pcM = "loop" /\ last # "ERROR"
  /\ mutex = None
  /\ mutex' = Main
  /\ pcM' = "test"
  /\ UNCHANGED <<state, sleepers, streams, last, seen, hush, new, callers>>

\* Nothing new is asked: wait on cond_int.
MainSleep ==
  /\ pcM = "test"
  /\ last = Masked(state)
  /\ mutex' = None
  /\ sleepers' = sleepers \cup {Main}
  /\ pcM' = "asleep"
  /\ UNCHANGED <<state, streams, last, seen, hush, new, callers>>

\* Woken: if only the pause bit changed the waiters are told; in any case the
\* output stream follows the pause bit.
MainWake ==
  /\ pcM = "asleep" /\ Main \notin sleepers
  /\ mutex = None
  /\ mutex' = Main
  /\ sleepers' = IF last = Masked(state) THEN {} ELSE sleepers
  /\ paused' = PauseBit(state)
  /\ pcM' = "test"
  /\ UNCHANGED <<state, src, nextsrc, live, last, seen, hush, new, callers>>

\* A new state is asked.
MainTake ==
  /\ pcM = "test"
  /\ last # Masked(state)
  /\ last' = Masked(state)
  /\ mutex' = None
  /\ pcM' = "taken"
  /\ UNCHANGED <<state, sleepers, streams, seen, hush, new, callers>>

\* The arguments of the engine are two reads of ctx->state without the mutex,
\* which the compiler may order or merge as it likes.
MainRead ==
  /\ pcM = "taken"
  /\ seen' = state
  /\ pcM' = "read"
  /\ UNCHANGED <<shared, streams, last, hush, new, callers>>

Branch(s) == IF s = "STOP" THEN "stop" ELSE IF s = "PLAY" THEN "play"
             ELSE IF s = "CHANGE" THEN "change" ELSE "finish"

MainCall ==
  /\ pcM = "read"
  /\ \E s, p \in {seen, state} :
       /\ pcM' = Branch(Masked(s))
       /\ hush' = PauseBit(p)
       /\ new' = Masked(s)
  /\ seen' = "STOP"
  /\ UNCHANGED <<shared, streams, last, callers>>

-----------------------------------------------------------------------------
(* The state engine                                                        *)

\* src_destroy joins the decoder's thread, which the flush of its output sends
\* to its end; a source that never ran has no thread.
JoinedAlways(ss) ==  \* mutant: a source that never ran is joined too
  \A s \in ss \cap Sources : pc[s] = "over"
Joined(ss) == \A s \in ss \cap Sources : pc[s] \in {"off", "over"}

\* The sources of ss are freed, with their threads.
Destroy(ss) ==
  /\ live' = live \ ss
  /\ pc' = [t \in Callers |-> IF t \in ss THEN "off" ELSE pc[t]]

\* mutant: STOP forgets the prepared source
EngineStopKeepNext ==
  /\ pcM = "stop"
  /\ Joined({src})
  /\ Destroy({src})
  /\ src' = None /\ UNCHANGED nextsrc
  /\ pcM' = "finish"
  /\ UNCHANGED <<shared, paused, last, seen, hush, new, req, old, jumping, calls>>

\* STOP: destroy both sources, rewind the media, reset the output.
EngineStop ==
  /\ pcM = "stop"
  /\ Joined({src, nextsrc})
  /\ Destroy({src, nextsrc})
  /\ src' = None /\ nextsrc' = None
  /\ pcM' = "finish"
  /\ UNCHANGED <<shared, paused, last, seen, hush, new, req, old, jumping, calls>>

\* PLAY with the pause bit does nothing.
EngineHeld ==
  /\ pcM = "play" /\ hush
  /\ pcM' = "finish"
  /\ UNCHANGED <<shared, streams, last, seen, hush, new, callers>>

\* Without a stream that plays, PLAY goes on to CHANGE.
AfterPlay == IF src = None THEN "CHANGE" ELSE "PLAY"

\* PLAY: the media's next entry becomes nextsrc, in place of one that is there.
EnginePrepare ==
  /\ pcM = "play" /\ ~hush
  /\ \E s \in Sources \ live :
       /\ live' = (live \ {nextsrc}) \cup {s}
       /\ nextsrc' = s
  /\ new' = AfterPlay
  /\ pcM' = "finish"
  /\ UNCHANGED <<shared, src, paused, last, seen, hush, callers>>

\* PLAY: the source of the next entry cannot be built.
EngineNoSource ==
  /\ pcM = "play" /\ ~hush
  /\ nextsrc' = None
  /\ new' = AfterPlay
  /\ pcM' = "finish"
  /\ UNCHANGED <<shared, src, live, paused, last, seen, hush, callers>>

\* PLAY: the media has no entry left.
EngineNoEntry ==
  /\ pcM = "play" /\ ~hush
  /\ new' = AfterPlay
  /\ pcM' = "finish"
  /\ UNCHANGED <<shared, streams, last, seen, hush, callers>>

\* mutant: CHANGE forgets to destroy the source that plays
EngineLeaveAlive ==
  /\ pcM = "change"
  /\ src' = None
  /\ pcM' = "switch"
  /\ UNCHANGED <<shared, nextsrc, live, paused, last, seen, hush, new, callers>>

\* CHANGE: destroy the source that plays.
EngineLeave ==
  /\ pcM = "change"
  /\ Joined({src})
  /\ Destroy({src})
  /\ src' = None
  /\ pcM' = "switch"
  /\ UNCHANGED <<shared, nextsrc, paused, last, seen, hush, new, req, old, jumping, calls>>

\* CHANGE: the prepared source plays; its decoder's thread starts.
EngineSwitch ==
  /\ pcM = "switch"
  /\ src' = nextsrc
  /\ nextsrc' = None
  /\ paused' = hush
  /\ pc' = IF nextsrc = None THEN pc ELSE [pc EXCEPT ![nextsrc] = "decode"]
  /\ new' = IF nextsrc = None THEN "STOP" ELSE IF hush THEN "PAUSE" ELSE "PLAY"
  /\ pcM' = "finish"
  /\ UNCHANGED <<shared, live, last, seen, hush, req, old, jumping, calls>>

\* The result of the engine overwrites ctx->state, without the mutex.
MainWrite ==
  /\ pcM = "finish"
  /\ IF last = new
     THEN pcM' = "loop" /\ UNCHANGED state
     ELSE pcM' = "tell" /\ state' = new
  /\ UNCHANGED <<mutex, sleepers, streams, last, seen, hush, new, callers>>

MainTell ==
  /\ pcM = "tell"
  /\ sleepers' = sleepers \ Clients
  /\ pcM' = "loop"
  /\ UNCHANGED <<state, mutex, streams, last, seen, hush, new, callers>>

-----------------------------------------------------------------------------
(* The callers of player_state                                             *)

Go(t, place) == pc' = [pc EXCEPT ![t] = place]

\* A client calls player_state, or reads the state and calls player_next.
Call(c, r) ==
  /\ pc[c] = "idle" /\ calls[c] > 0
  /\ calls' = [calls EXCEPT ![c] = @ - 1]
  /\ old' = [old EXCEPT ![c] = state]
  /\ req' = [req EXCEPT ![c] = IF r = "NEXT" THEN "CHANGE" ELSE r]
  /\ jumping' = IF r = "NEXT" THEN jumping \cup {c} ELSE jumping
  /\ Go(c, IF r = "NEXT" THEN "next" ELSE "ask")
  /\ UNCHANGED <<shared, streams, main>>

\* player_next starts a stopped player, and asks a playing one to jump.
NextChoose(c) ==
  /\ pc[c] = "next"
  /\ req' = [req EXCEPT ![c] = IF state = "STOP" THEN "PLAY" ELSE "CHANGE"]
  /\ Go(c, "ask")
  /\ UNCHANGED <<shared, streams, main, old, jumping, calls>>

\* A decoder's thread reaches the end of its stream, or is flushed.
DecoderEnd(s) ==
  /\ pc[s] = "decode"
  /\ Go(s, "ask")
  /\ UNCHANGED <<shared, streams, main, req, old, jumping, calls>>

\* player_state returns the state to the caller: a decoder's thread ends, a
\* command on the line goes on, a command in JSON waits for a change.
Return(t, value) ==
  /\ jumping' = jumping \ {t}
  /\ req' = [req EXCEPT ![t] = "CHANGE"]
  /\ \/ /\ Go(t, IF t \in Sources THEN "over" ELSE "idle")
        /\ old' = [old EXCEPT ![t] = "STOP"]
     \/ /\ t \in Clients
        /\ Go(t, "wait")
        /\ old' = [old EXCEPT ![t] = IF t \in jumping THEN @ ELSE value]

\* player_state: the state is already what is asked.
AskSame(t) ==
  /\ pc[t] = "ask"
  /\ state = req[t]
  /\ Return(t, state)
  /\ UNCHANGED <<shared, streams, main, calls>>

AskNew(t) ==
  /\ pc[t] = "ask"
  /\ state # req[t]
  /\ old' = [old EXCEPT ![t] = IF t \in jumping THEN @ ELSE state]
  /\ Go(t, "try")
  /\ UNCHANGED <<shared, streams, main, req, jumping, calls>>

\* player_state: another thread holds the mutex, the request is dropped.
TryFail(t) ==
  /\ pc[t] = "try"
  /\ mutex # None
  /\ Return(t, state)
  /\ UNCHANGED <<shared, streams, main, calls>>

TryLock(t) ==
  /\ pc[t] = "try"
  /\ mutex = None
  /\ mutex' = t
  /\ Go(t, "set")
  /\ UNCHANGED <<state, sleepers, streams, main, req, old, jumping, calls>>

SetState(t) ==
  /\ pc[t] = "set"
  /\ state' = req[t]
  /\ mutex' = None
  /\ Go(t, "signal")
  /\ UNCHANGED <<sleepers, streams, main, req, old, jumping, calls>>

\* player_state: wake the main loop.
Signal(t) ==
  /\ pc[t] = "signal"
  /\ sleepers' = sleepers \ {Main}
  /\ Return(t, old[t])
  /\ UNCHANGED <<state, mutex, streams, main, calls>>

Leave(c) == Go(c, "idle") /\ old' = [old EXCEPT ![c] = "STOP"]
Doze(c) == Go(c, "doze") /\ UNCHANGED old

\* player_waiton: lock, and compare the state with the one it was.
WaitLock(c) ==
  /\ pc[c] = "wait"
  /\ mutex = None
  /\ IF state = "ERROR" \/ state # old[c]
     THEN Leave(c) /\ UNCHANGED mutex
     ELSE Doze(c) /\ mutex' = c
  /\ UNCHANGED <<state, sleepers, streams, main, req, jumping, calls>>

\* player_waiton: sleep on cond.
WaitSleep(c) ==
  /\ pc[c] = "doze"
  /\ mutex' = None
  /\ sleepers' = sleepers \cup {c}
  /\ Go(c, "asleep")
  /\ UNCHANGED <<state, streams, main, req, old, jumping, calls>>

\* player_waiton: woken, sleep again while the state is what it was.
WaitWake(c) ==
  /\ pc[c] = "asleep" /\ c \notin sleepers
  /\ mutex = None
  /\ IF state = old[c]
     THEN Doze(c) /\ mutex' = c
     ELSE Leave(c) /\ UNCHANGED mutex
  /\ UNCHANGED <<state, sleepers, streams, main, req, jumping, calls>>

\* POSIX lets a thread return from pthread_cond_wait without a broadcast.
Spurious(t) ==
  /\ t \in sleepers
  /\ sleepers' = sleepers \ {t}
  /\ UNCHANGED <<state, mutex, streams, main, callers>>

-----------------------------------------------------------------------------
MainLoop == MainLock \/ MainSleep \/ MainWake \/ MainTake \/ MainRead \/ MainCall
            \/ EngineStop \/ EngineHeld \/ EnginePrepare \/ EngineNoSource
            \/ EngineNoEntry \/ EngineLeave \/ EngineSwitch \/ MainWrite \/ MainTell

InState(t) == AskSame(t) \/ AskNew(t) \/ TryFail(t) \/ TryLock(t) \/ SetState(t)
              \/ Signal(t)

Waiton(c) == WaitLock(c) \/ WaitSleep(c) \/ WaitWake(c)

Next ==
  \/ MainLoop
  \/ \E c \in Clients : (\E r \in Requests : Call(c, r)) \/ NextChoose(c) \/ Waiton(c)
  \/ \E s \in Sources : DecoderEnd(s)
  \/ \E t \in Callers : InState(t)
  \/ \E t \in Clients \cup {Main} : Spurious(t)

Spec == Init /\ [][Next]_vars

\* The main loop runs, a call of player_state ends, a thread that holds the
\* mutex releases it, and a decoder that is being destroyed (its output is
\* flushed) reaches its end.  No stream has to end by itself.
DecoderFlushed == pcM \in {"stop", "change"} /\ src \in Sources /\ DecoderEnd(src)

Fairness ==
  /\ WF_vars(MainLoop) /\ SF_vars(MainLock) /\ SF_vars(MainWake)
  /\ WF_vars(DecoderFlushed)
  /\ \A t \in Callers : WF_vars(InState(t))
  /\ \A c \in Clients : WF_vars(WaitSleep(c))

FairSpec == Spec /\ Fairness

-----------------------------------------------------------------------------
(* Properties                                                              *)

\* Every variable has its type.
TypeOK ==
  /\ state \in States
  /\ mutex \in Callers \cup {Main, None}
  /\ sleepers \subseteq Clients \cup {Main}
  /\ src \in Sources \cup {None} /\ nextsrc \in Sources \cup {None}
  /\ live \subseteq Sources
  /\ paused \in BOOLEAN
  /\ pcM \in {"loop", "test", "asleep", "taken", "read", "stop", "play", "change",
              "switch", "finish", "tell"}
  /\ last \in States \ {"PAUSE"} /\ seen \in States /\ new \in States
  /\ hush \in BOOLEAN
  /\ pc \in [Callers -> {"idle", "next", "ask", "try", "set", "signal", "wait", "doze",
                         "asleep", "off", "decode", "over"}]
  /\ req \in [Callers -> States] /\ old \in [Callers -> States]
  /\ jumping \subseteq Clients
  /\ calls \in [Clients -> 0 .. MaxCalls]

\* The sources whose decoder's thread is alive.
Decoding == {s \in Sources : pc[s] \notin {"off", "over"}}

\* The output stream has one producer: at most the decoder of the source that
\* plays runs (player_run destroys, and so joins, the old one before it runs
\* the new one), and neither src nor nextsrc is ever a freed source.
OneProducer ==
  /\ Decoding \subseteq {src}
  /\ {src, nextsrc} \subseteq live \cup {None}
  /\ src = nextsrc => src = None

\* When the main loop rests on what its engine answered, the streams are what
\* the state says, however the requests and the ends of streams interleaved: a
\* stopped player has freed both sources and joined their threads (which asked
\* for CHANGE meanwhile), a playing one has a source that was run.
RestIsConsistent ==
  pcM = "asleep" /\ last = new =>
    /\ last = "STOP" => src = None /\ nextsrc = None /\ Decoding = {}
    /\ last = "PLAY" /\ ~hush => src # None /\ pc[src] # "off"

\* No request is between its write of the state and its broadcast.
Signalled == \A t \in Callers : pc[t] # "signal"

\* "next command just request the main loop to complete the current entry to
\* jump to the next one" (player.c:156-158): while an entry plays, the main loop
\* never waits on a request to change that it was told of and has not obeyed.
ChangeIsObeyed ==
  ~ (Main \in sleepers /\ state = "CHANGE" /\ src # None /\ Signalled)

\* No stream is ending.
Steady == \A s \in Sources : pc[s] \in {"off", "decode", "over"}

\* The main loop comes to rest, unless streams end again and again: the states
\* of the engine do not chase one another for ever, and the join of a decoder's
\* thread that calls player_state itself returns.
MainRests == <>[]Steady => []<>(pcM = "asleep" \/ last = "ERROR")
=============================================================================
