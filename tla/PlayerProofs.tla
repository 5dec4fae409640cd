---------------------------- MODULE PlayerProofs ----------------------------
(***************************************************************************)
(* Proofs about the player, for any number of clients, of sources and of   *)
(* calls, whatever the clients ask for.                                    *)
(*                                                                         *)
(* OneProducer is nearly inductive: a source runs only from EngineSwitch,  *)
(* and what has to be known there is that EngineLeave has joined the old   *)
(* one, that is, that no source plays between the two.                     *)
(*                                                                         *)
(* RestIsConsistent needs to know what the engine's result says of the     *)
(* streams from the moment it is written (RestInv); the two reads of the   *)
(* state by the main loop only decide which result that is.                *)
(***************************************************************************)
EXTENDS Player, TLAPS

\* Between EngineLeave and EngineSwitch no source plays.
Left == pcM = "switch" => src = None

IInv == TypeOK /\ OneProducer /\ Left

-----------------------------------------------------------------------------
(* Types *)

\* The initial state is well typed.
LEMMA InitType == Init => TypeOK
<1> SUFFICES ASSUME Init PROVE TypeOK
  OBVIOUS
<1>1. pc \in [Callers -> {"idle", "off"}] /\ req \in [Callers -> States]
      /\ old \in [Callers -> States] /\ calls \in [Clients -> 0 .. MaxCalls]
  BY PlayerAssumption DEF Init, States
<1>2. paused \in BOOLEAN /\ hush \in BOOLEAN
  BY Zenon DEF Init
<1>3. state \in States /\ last \in States \ {"PAUSE"} /\ seen \in States /\ new \in States
  BY DEF Init, States
<1>4. QED
  BY <1>1, <1>2, <1>3 DEF Init, TypeOK

\* Every step of the main loop keeps the types.
LEMMA MainType ==
  ASSUME TypeOK, MainLoop
  PROVE  TypeOK'
<1> USE PlayerAssumption
    DEF TypeOK, States, Callers, shared, streams, main, callers, Masked, PauseBit
<1>1. CASE MainLock
  BY <1>1 DEF MainLock
<1>2. CASE MainSleep
  BY <1>2 DEF MainSleep
<1>3. CASE MainWake
  BY <1>3 DEF MainWake
<1>4. CASE MainTake
  BY <1>4 DEF MainTake
<1>5. CASE MainRead
  BY <1>5 DEF MainRead
<1>6. CASE MainCall
  BY <1>6 DEF MainCall, Branch
<1>7. CASE EngineStop
  BY <1>7 DEF EngineStop, Destroy
<1>8. CASE EngineHeld
  BY <1>8 DEF EngineHeld
<1>9. CASE EnginePrepare
  BY <1>9 DEF EnginePrepare, AfterPlay
<1>10. CASE EngineNoSource
  BY <1>10 DEF EngineNoSource, AfterPlay
<1>11. CASE EngineNoEntry
  BY <1>11 DEF EngineNoEntry, AfterPlay
<1>12. CASE EngineLeave
  BY <1>12 DEF EngineLeave, Destroy
<1>13. CASE EngineSwitch
  BY <1>13 DEF EngineSwitch
<1>14. CASE MainWrite
  BY <1>14 DEF MainWrite
<1>15. CASE MainTell
  BY <1>15 DEF MainTell
<1>16. QED
  BY <1>1, <1>2, <1>3, <1>4, <1>5, <1>6, <1>7, <1>8, <1>9, <1>10, <1>11, <1>12,
     <1>13, <1>14, <1>15 DEF MainLoop

\* Every step of a caller keeps the types.
LEMMA CallerType ==
  ASSUME TypeOK,
         \/ \E c \in Clients :
              (\E r \in Requests : Call(c, r)) \/ NextChoose(c) \/ Waiton(c)
         \/ \E s \in Sources : DecoderEnd(s)
         \/ \E t \in Callers : InState(t)
         \/ \E t \in Clients \cup {Main} : Spurious(t)
  PROVE  TypeOK'
<1> USE PlayerAssumption
    DEF TypeOK, States, Callers, shared, streams, main, callers, Go
<1>1. ASSUME NEW c \in Clients, NEW r \in Requests, Call(c, r) PROVE TypeOK'
  BY <1>1 DEF Call
<1>2. ASSUME NEW c \in Clients, NextChoose(c) PROVE TypeOK'
  BY <1>2 DEF NextChoose
<1>3. ASSUME NEW c \in Clients, Waiton(c) PROVE TypeOK'
  BY <1>3 DEF Waiton, WaitLock, WaitSleep, WaitWake, Leave, Doze
<1>4. ASSUME NEW s \in Sources, DecoderEnd(s) PROVE TypeOK'
  BY <1>4 DEF DecoderEnd
<1>5. ASSUME NEW t \in Callers, InState(t) PROVE TypeOK'
  <2>1. CASE AskSame(t)
    BY <2>1 DEF AskSame, Return
  <2>2. CASE AskNew(t)
    BY <2>2 DEF AskNew
  <2>3. CASE TryFail(t)
    BY <2>3 DEF TryFail, Return
  <2>4. CASE TryLock(t)
    BY <2>4 DEF TryLock
  <2>5. CASE SetState(t)
    BY <2>5 DEF SetState
  <2>6. CASE Signal(t)
    BY <2>6 DEF Signal, Return
  <2>7. QED
    BY <1>5, <2>1, <2>2, <2>3, <2>4, <2>5, <2>6 DEF InState
<1>6. ASSUME NEW t \in Clients \cup {Main}, Spurious(t) PROVE TypeOK'
  BY <1>6 DEF Spurious
<1>7. QED
  BY <1>1, <1>2, <1>3, <1>4, <1>5, <1>6

-----------------------------------------------------------------------------
(* The sources *)

\* Initially there is no source and no decoder's thread.
LEMMA InitOwned == Init => OneProducer /\ Left
  BY PlayerAssumption DEF Init, OneProducer, Left, Decoding, Callers

\* What the other steps of the main loop leave alone.
LEMMA FrameOwned ==
  ASSUME TypeOK, OneProducer, UNCHANGED <<src, nextsrc, live, pc>>
  PROVE  OneProducer'
  BY DEF OneProducer, Decoding

\* Every step of the main loop keeps the output stream to one decoder.
LEMMA MainOwned ==
  ASSUME TypeOK, OneProducer, Left, MainLoop
  PROVE  OneProducer' /\ Left'
<1> USE PlayerAssumption DEF TypeOK, Left, Callers
<1>1. CASE MainLock \/ MainSleep \/ MainWake \/ MainTake \/ MainRead \/ MainCall
           \/ EngineHeld \/ EngineNoEntry \/ MainWrite \/ MainTell
  <2>1. UNCHANGED <<src, nextsrc, live, pc>>
    BY <1>1 DEF MainLock, MainSleep, MainWake, MainTake, MainRead, MainCall,
                EngineHeld, EngineNoEntry, MainWrite, MainTell, streams, callers
  <2>2. pcM' # "switch"
    BY <1>1 DEF MainLock, MainSleep, MainWake, MainTake, MainRead, MainCall, States,
                EngineHeld, EngineNoEntry, MainWrite, MainTell, Branch, Masked
  <2>3. QED
    BY <2>1, <2>2, FrameOwned
<1>2. CASE EngineStop
  <2>1. Decoding' = {}
    BY <1>2 DEF EngineStop, Joined, Destroy, Decoding, OneProducer
  <2>2. QED
    BY <1>2, <2>1 DEF EngineStop, OneProducer
<1>3. CASE EnginePrepare
  <2>1. PICK s \in Sources \ live :
          live' = (live \ {nextsrc}) \cup {s} /\ nextsrc' = s
    BY <1>3 DEF EnginePrepare
  <2>2. UNCHANGED <<src, pc>> /\ pcM' = "finish"
    BY <1>3 DEF EnginePrepare, callers
  <2>3. QED
    BY <2>1, <2>2 DEF OneProducer, Decoding
<1>4. CASE EngineNoSource
  BY <1>4 DEF EngineNoSource, OneProducer, Decoding, callers
<1>5. CASE EngineLeave
  <2>1. Decoding' = {}
    BY <1>5 DEF EngineLeave, Joined, Destroy, Decoding, OneProducer
  <2>2. QED
    BY <1>5, <2>1 DEF EngineLeave, Destroy, OneProducer
<1>6. CASE EngineSwitch
  <2>1. src = None /\ src' = nextsrc /\ nextsrc' = None /\ live' = live
    BY <1>6 DEF EngineSwitch
  <2>2. Decoding = {}
    BY <2>1 DEF OneProducer, Decoding
  <2>3. Decoding' \subseteq {src'}
    BY <1>6, <2>1, <2>2 DEF EngineSwitch, Decoding
  <2>4. QED
    BY <1>6, <2>1, <2>3 DEF EngineSwitch, OneProducer
<1>7. QED
  BY <1>1, <1>2, <1>3, <1>4, <1>5, <1>6 DEF MainLoop

\* No step of a caller starts a decoder's thread.
LEMMA CallerOwned ==
  ASSUME TypeOK, OneProducer, Left,
         \/ \E c \in Clients :
              (\E r \in Requests : Call(c, r)) \/ NextChoose(c) \/ Waiton(c)
         \/ \E s \in Sources : DecoderEnd(s)
         \/ \E t \in Callers : InState(t)
         \/ \E t \in Clients \cup {Main} : Spurious(t)
  PROVE  OneProducer' /\ Left'
<1> USE PlayerAssumption DEF TypeOK, Callers, shared, streams, main, callers, Go
<1>1. ASSUME NEW c \in Clients, NEW r \in Requests, Call(c, r) PROVE Decoding' = Decoding
  BY <1>1 DEF Call, Decoding
<1>2. ASSUME NEW c \in Clients, NextChoose(c) PROVE Decoding' = Decoding
  BY <1>2 DEF NextChoose, Decoding
<1>3. ASSUME NEW c \in Clients, Waiton(c) PROVE Decoding' = Decoding
  BY <1>3 DEF Waiton, WaitLock, WaitSleep, WaitWake, Leave, Doze, Decoding
<1>4. ASSUME NEW s \in Sources, DecoderEnd(s) PROVE Decoding' = Decoding
  BY <1>4 DEF DecoderEnd, Decoding
<1>5. ASSUME NEW t \in Callers, InState(t) PROVE Decoding' \subseteq Decoding
  <2>1. CASE AskSame(t)
    BY <2>1 DEF AskSame, Return, Decoding
  <2>2. CASE AskNew(t)
    BY <2>2 DEF AskNew, Decoding
  <2>3. CASE TryFail(t)
    BY <2>3 DEF TryFail, Return, Decoding
  <2>4. CASE TryLock(t)
    BY <2>4 DEF TryLock, Decoding
  <2>5. CASE SetState(t)
    BY <2>5 DEF SetState, Decoding
  <2>6. CASE Signal(t)
    BY <2>6 DEF Signal, Return, Decoding
  <2>7. QED
    BY <1>5, <2>1, <2>2, <2>3, <2>4, <2>5, <2>6 DEF InState
<1>6. ASSUME NEW t \in Clients \cup {Main}, Spurious(t) PROVE Decoding' = Decoding
  BY <1>6 DEF Spurious, Decoding
<1>7. Decoding' \subseteq Decoding
  BY <1>1, <1>2, <1>3, <1>4, <1>5, <1>6
<1>8. UNCHANGED <<src, nextsrc, live, pcM>>
  BY DEF Call, NextChoose, Waiton, WaitLock, WaitSleep, WaitWake, DecoderEnd, InState,
         AskSame, AskNew, TryFail, TryLock, SetState, Signal, Spurious
<1>9. QED
  BY <1>7, <1>8 DEF OneProducer, Left

-----------------------------------------------------------------------------
(* The invariant *)

\* Every step keeps the invariant.
LEMMA StepInv ==
  ASSUME IInv, [Next]_vars
  PROVE  IInv'
<1>1. CASE MainLoop
  BY <1>1, MainType, MainOwned DEF IInv
<1>2. CASE UNCHANGED vars
  BY <1>2 DEF IInv, TypeOK, OneProducer, Left, Decoding, vars, shared, streams, main,
              callers
<1>3. CASE Next /\ ~MainLoop
  BY <1>3, CallerType, CallerOwned DEF IInv, Next
<1>4. QED
  BY <1>1, <1>2, <1>3

\* IInv holds in every state of every behaviour of the player.
THEOREM Invariance == Spec => []IInv
<1>1. Init => IInv
  BY InitType, InitOwned DEF IInv
<1>2. IInv /\ [Next]_vars => IInv'
  BY StepInv
<1>3. QED
  BY <1>1, <1>2, PTL DEF Spec

\* The variables of the player always have their types (player.c:58-76).
THEOREM TypeCorrect == Spec => []TypeOK
<1>1. IInv => TypeOK
  BY DEF IInv
<1>2. QED
  BY Invariance, <1>1, PTL

\* At most the decoder of the playing source feeds the output, and no pointer
\* of the player is to a freed source (player.c:466-476).
THEOREM SingleProducer == Spec => []OneProducer
<1>1. IInv => OneProducer
  BY DEF IInv
<1>2. QED
  BY Invariance, <1>1, PTL

-----------------------------------------------------------------------------
(* The rest *)

\* Where the engine's result is what it answered last.
AtRest == pcM \in {"loop", "test", "asleep", "finish", "tell"}

\* What the engine answered is what it left: STOP no source, PLAY one that plays.
Answered ==
  /\ pcM = "stop" => new = "STOP"
  /\ pcM = "play" => new = "PLAY"
  /\ AtRest /\ new = "STOP" => src = None /\ nextsrc = None
  /\ AtRest /\ new = "PLAY" /\ ~hush => src # None

\* The source that plays was run.
Running == src # None => pc[src] # "off"

RestInv == Answered /\ Running

\* Every step of the main loop leaves the streams as the engine's result says.
LEMMA MainRest ==
  ASSUME IInv, RestInv, MainLoop
  PROVE  RestInv'
<1> USE PlayerAssumption DEF RestInv, Answered, Running, AtRest
<1>1. CASE MainLock \/ MainSleep \/ MainWake \/ MainTake \/ MainRead \/ MainWrite \/ MainTell
  <2>1. UNCHANGED <<src, nextsrc, pc, new, hush>>
    BY <1>1 DEF MainLock, MainSleep, MainWake, MainTake, MainRead, MainWrite, MainTell,
                streams, callers
  <2>2. pcM' \notin {"stop", "play"} /\ (AtRest' => AtRest)
    BY <1>1 DEF MainLock, MainSleep, MainWake, MainTake, MainRead, MainWrite, MainTell
  <2>3. QED
    BY <2>1, <2>2
<1>2. CASE MainCall
  <2>1. /\ UNCHANGED <<src, nextsrc, pc>>
        /\ \E s \in States : pcM' = Branch(Masked(s)) /\ new' = Masked(s)
    BY <1>2 DEF MainCall, streams, callers, IInv, TypeOK
  <2>2. /\ pcM' = "stop" => new' = "STOP"
        /\ pcM' = "play" => new' = "PLAY"
        /\ (AtRest' => new' \notin {"STOP", "PLAY"})
    BY <2>1 DEF Branch, Masked, States
  <2>3. QED
    BY <2>1, <2>2
<1>3. CASE EngineStop
  BY <1>3 DEF EngineStop
<1>4. CASE EngineHeld
  BY <1>4 DEF EngineHeld, streams, callers
<1>5. CASE EnginePrepare \/ EngineNoSource \/ EngineNoEntry
  BY <1>5 DEF EnginePrepare, EngineNoSource, EngineNoEntry, AfterPlay, streams, callers
<1>6. CASE EngineLeave
  BY <1>6 DEF EngineLeave
<1>7. CASE EngineSwitch
  <2>1. nextsrc # None => nextsrc \in Callers
    BY DEF IInv, TypeOK, Callers
  <2>2. QED
    BY <1>7, <2>1 DEF EngineSwitch, IInv, TypeOK
<1>8. QED
  BY <1>1, <1>2, <1>3, <1>4, <1>5, <1>6, <1>7 DEF MainLoop

\* The callers change neither the sources nor the engine's result, and only the
\* main loop forgets a decoder's thread.
LEMMA CallerRest ==
  ASSUME IInv, RestInv,
         \/ \E c \in Clients :
              (\E r \in Requests : Call(c, r)) \/ NextChoose(c) \/ Waiton(c)
         \/ \E s \in Sources : DecoderEnd(s)
         \/ \E t \in Callers : InState(t)
         \/ \E t \in Clients \cup {Main} : Spurious(t)
  PROVE  RestInv'
<1> USE PlayerAssumption DEF IInv, TypeOK, Callers, shared, streams, main, callers, Go
<1>1. UNCHANGED <<src, nextsrc, pcM, new, hush>>
  BY DEF Call, NextChoose, Waiton, WaitLock, WaitSleep, WaitWake, DecoderEnd, InState,
         AskSame, AskNew, TryFail, TryLock, SetState, Signal, Spurious
<1>2. ASSUME NEW s \in Sources, pc[s] # "off" PROVE pc'[s] # "off"
  <2>1. ASSUME NEW c \in Clients, NEW r \in Requests, Call(c, r) PROVE pc'[s] # "off"
    BY <1>2, <2>1 DEF Call
  <2>2. ASSUME NEW c \in Clients, NextChoose(c) PROVE pc'[s] # "off"
    BY <1>2, <2>2 DEF NextChoose
  <2>3. ASSUME NEW c \in Clients, Waiton(c) PROVE pc'[s] # "off"
    BY <1>2, <2>3 DEF Waiton, WaitLock, WaitSleep, WaitWake, Leave, Doze
  <2>4. ASSUME NEW d \in Sources, DecoderEnd(d) PROVE pc'[s] # "off"
    BY <1>2, <2>4 DEF DecoderEnd
  <2>5. ASSUME NEW t \in Callers, InState(t) PROVE pc'[s] # "off"
    BY <1>2, <2>5 DEF InState, AskSame, AskNew, TryFail, TryLock, SetState, Signal, Return
  <2>6. ASSUME NEW t \in Clients \cup {Main}, Spurious(t) PROVE pc'[s] # "off"
    BY <1>2, <2>6 DEF Spurious
  <2>7. QED
    BY <2>1, <2>2, <2>3, <2>4, <2>5, <2>6
<1>3. Running'
  BY <1>1, <1>2 DEF RestInv, Running
<1>4. QED
  BY <1>1, <1>3 DEF RestInv, Answered, AtRest

\* The engine's result describes the streams in every state.
LEMMA RestInvariance == Spec => []RestInv
<1>1. Init => RestInv
  BY DEF Init, RestInv, Answered, Running, AtRest
<1>2. ASSUME IInv, RestInv, [Next]_vars PROVE RestInv'
  <2>1. CASE MainLoop
    BY <1>2, <2>1, MainRest
  <2>2. CASE UNCHANGED vars
    BY <1>2, <2>2 DEF vars, streams, main, callers, RestInv, Answered, Running, AtRest
  <2>3. CASE Next /\ ~MainLoop
    BY <1>2, <2>3, CallerRest DEF Next
  <2>4. QED
    BY <1>2, <2>1, <2>2, <2>3
<1>3. QED
  BY <1>1, <1>2, Invariance, PTL DEF Spec

\* A main loop that sleeps on its engine's answer has the streams that the answer
\* says, however the requests and the ends of streams interleaved
\* (player.c:406-500).
THEOREM RestConsistency == Spec => []RestIsConsistent
<1>1. IInv /\ RestInv => RestIsConsistent
  BY PlayerAssumption DEF IInv, OneProducer, Decoding, RestInv, Answered, Running, AtRest,
                          RestIsConsistent, Callers
<1>2. QED
  BY <1>1, Invariance, RestInvariance, PTL
=============================================================================
