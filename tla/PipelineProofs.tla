--------------------------- MODULE PipelineProofs ---------------------------
(***************************************************************************)
(* Proofs about the way of the samples, for any number of scatters of any  *)
(* size, any thredhold, frames of any lengths, any number of entries and   *)
(* any moment at which they are left or stopped.                           *)
(*                                                                         *)
(* The invariant has two parts.  TypeInv knows the threads and the buffer: *)
(* the scatters with data follow out (Queue), but for the one that is      *)
(* taken while the filter fills it (Hole) or that a flush left behind.     *)
(* Content, until a reset tears a pop, knows the samples: those in the     *)
(* hands of the encoder, in the scatters one after the other and in the    *)
(* filter are without a gap what the decoder gave, but for the head of an  *)
(* entry (LostInv, SampleInv).  A scatter holds runs of samples, FlattenSeq*)
(* puts them end to end, and its equations are inductions over the number  *)
(* of runs (Least, Induct).                                                *)
(*                                                                         *)
(* For a flac that refuses the rate of its stream only Plain is known: the *)
(* types, and which scatter the decoder and the encoder have.              *)
(***************************************************************************)
EXTENDS Pipeline, FiniteSetTheorems, TLAPS

-----------------------------------------------------------------------------
(* The decoder and the filter *)

\* What is known of the thread that decodes: a frame is written before the next
\* one, and a decoder that is joined leaves no empty buffer to the next one.
DecoderInv ==
  /\ phase \in {"stop", "change", "noEntry"} => pcD = "off"
  /\ pcD = "fill" <=> nsamples > 0
  /\ pcD # "fill" /\ outbuffer # -1 => outbufferlen > 0
  /\ nsamples <= given
  /\ given <= entry * Samples
  /\ pcD # "off" => entry > 0 /\ given <= (entry - 1) * Samples + decoded

\* The scatters that are given to the filter
PullInv == \A s \in Scatters : slot[s] = "PULL" => s = in /\ outbuffer = in

\* What the encoder has in hand
HoldInv ==
  /\ hold = -1 <=> pcE \in {"peer", "gone"}
  /\ pcE \in {"refuse", "early"} => Refuses

\* ... is the scatter that is given to it, or one that a reset has taken from it.
PopInv ==
  /\ HoldInv
  /\ \A s \in Scatters : slot[s] = "POP" => s = out /\ pcE \in {"length", "encode", "pop"}

-----------------------------------------------------------------------------
(* The buffer *)

Pos(i) == (out + i) % Count

\* The scatters with data are the level ones that follow out.
Full == {"READY", "POP"}
Queue ==
  /\ level <= Count /\ in = Pos(level)
  /\ \A i \in 0 .. Count - 1 : slot[Pos(i)] \in Full <=> i < level

\* A pop after a reset has freed a scatter that was pushed since, and level still
\* counts it: the hole walks to out, where the filter ends up filling it.
Hole(g) ==
  /\ level <= Count /\ in = Pos(level)
  /\ g < level
  /\ \A i \in 0 .. Count - 1 : slot[Pos(i)] \in Full <=> i < level /\ i # g
Overfull ==
  /\ level = Count + 1 /\ in = Pos(1)
  /\ \A s \in Scatters : slot[s] \in Full

\* The encoder has the scatter under out, or one that a reset has taken from it.
Taken == hold = out /\ slot[out] = "POP"
Strayed == torn /\ Queue /\ \A s \in Scatters : slot[s] # "POP"

RingInv ==
  /\ Queue \/ (torn /\ (Overfull \/ \E g \in 0 .. Count - 1 : Hole(g)))
  /\ pcE \in {"length", "encode", "pop"} => Taken \/ Strayed

-----------------------------------------------------------------------------
(* The samples *)

\* The filter fills a buffer that a reset has taken from it.
Astray == outbuffer # -1 /\ slot[outbuffer] # "PULL"

\* The samples the encoder was given, less those of the scatter that it still has
Base == Len(heard) - IF pcE = "pop" THEN Size ELSE 0

LostInv ==
  /\ Astray => /\ stale > 0 /\ Written < Size - stale
               /\ outbufferlen = stale + Written
               /\ level = 0 /\ heard = <<>> /\ pcE # "pop"
  /\ ~Astray => stale = 0 \/ Written >= Size - stale

SampleInv ==
  /\ Written - LostHead = Base + level * Size + IF Astray THEN 0 ELSE outbufferlen
  /\ \A n \in 1 .. Len(heard) : heard[n] = LostHead + n
  /\ \A i \in 0 .. level - 1 : \A p \in 1 .. Size :
       mem[Pos(i)][p] = LostHead + Base + i * Size + p
  /\ outbuffer # -1 /\ ~Astray =>
       \A p \in 1 .. outbufferlen : mem[outbuffer][p] = LostHead + Base + level * Size + p

-----------------------------------------------------------------------------
(* The inductive invariant *)

Owners == PullInv /\ PopInv /\ RingInv
TypeInv == ~Refuses /\ TypeOK /\ DecoderInv /\ Owners
Content == LostInv /\ SampleInv

\* Of an encoder that refuses only this is known.
Plain == TypeOK /\ DecoderInv /\ HoldInv
IInv == Plain /\ (Refuses \/ (TypeInv /\ (~torn => Content)))

-----------------------------------------------------------------------------
(* Numbers *)

\* The product grows with its factor.
LEMMA Grows == \A a, b, c \in Nat : a <= b => a * c \in Nat /\ a * c <= b * c
  OBVIOUS

\* One more entry has so many more samples.
LEMMA OneMore == \A a \in Int, c \in Nat : (a - 1) * c + c = a * c /\ (a + 1) * c = a * c + c
  OBVIOUS

\* Indices wrap once around the scatters.
LEMMA Wrap == \A x \in 0 .. 2 * Count - 1 : x % Count = IF x < Count THEN x ELSE x - Count
  BY PipelineAssumption

\* A frame that is decoded is within the samples of its entry.
LEMMA FrameFits ==
  ASSUME TypeOK, DecoderInv, Decode
  PROVE  given' \in Numbers /\ given' <= entry * Samples
         /\ given' <= (entry - 1) * Samples + decoded'
<1> USE PipelineAssumption DEF TypeOK
<1>1. PICK n \in FrameLens :
        decoded' = decoded + n /\ decoded + n <= Samples /\ given' = given + n /\ n \in Nat
  BY DEF Decode
<1>2. entry > 0 /\ given <= (entry - 1) * Samples + decoded
  BY DEF Decode, DecoderInv
<1>3. PICK before \in Nat : before = (entry - 1) * Samples
  BY <1>2, Grows
<1>4. before + Samples = entry * Samples
  BY <1>3, OneMore
<1>5. PICK now, all \in Nat : now = entry * Samples /\ all = Entries * Samples /\ now <= all
  BY Grows
<1>6. given \in Nat /\ entry \in Nat /\ decoded \in Nat
  BY DEF Numbers
<1>7. given' \in Nat /\ given' <= before + decoded' /\ given' <= before + Samples
  BY <1>1, <1>2, <1>3, <1>6
<1>8. PICK g \in Nat : g = given' /\ g <= before + Samples
  BY <1>7
<1>9. before + Samples = now /\ now <= all
  BY <1>4, <1>5, Zenon
<1>10. g <= now /\ g <= all
  <2> HIDE DEF TypeOK
  <2>1. QED
    BY <1>8, <1>9
<1>11. given' <= entry * Samples
  BY <1>5, <1>8, <1>10
<1>12. given' \in 0 .. Entries * Samples
  BY <1>5, <1>8, <1>10
<1>13. QED
  BY <1>3, <1>7, <1>11, <1>12 DEF Numbers

-----------------------------------------------------------------------------
(* The decoder *)

Controls == <<phase, entry, pcD, decoded, nsamples, outbuffer, outbufferlen, given>>

\* What does not touch the decoder and the filter keeps what is known of them.
LEMMA KeepsDecoder ==
  ASSUME DecoderInv, UNCHANGED Controls
  PROVE  DecoderInv'
  BY DEF DecoderInv, Controls

\* A sample that is poured is one of those that were given.
LEMMA FillAmount ==
  ASSUME TypeOK, DecoderInv, Fill
  PROVE  /\ Room \in 1 .. Size /\ Room <= nsamples /\ outbufferlen + Room <= Size
         /\ nsamples' = nsamples - Room
         /\ nsamples' > 0 => outbufferlen + Room = Size
<1>1. /\ Size \in Nat \ {0} /\ nsamples \in Nat \ {0} /\ outbufferlen \in Nat
      /\ outbufferlen < Size
  BY PipelineAssumption DEF TypeOK, DecoderInv, Fill
<1>2. nsamples' = nsamples - Room
  BY DEF Fill
<1>3. QED
  BY <1>1, <1>2 DEF Room

\* Every step of the decoder's thread keeps what is known of it.
LEMMA DecoderStep ==
  ASSUME TypeOK, DecoderInv, Decoder
  PROVE  DecoderInv'
<1> USE PipelineAssumption
<1>1. CASE Decode
  <2>1. given' <= entry' * Samples /\ given' <= (entry' - 1) * Samples + decoded' /\ entry' = entry
    BY <1>1, FrameFits DEF Decode, player
  <2>2. nsamples' > 0 /\ nsamples' <= given' /\ pcD' = "fill" /\ pcD = "frame" /\ phase' = phase
    BY <1>1 DEF Decode, TypeOK, DecoderInv, Numbers, player
  <2>3. entry > 0
    BY <2>2 DEF DecoderInv
  <2>4. QED
    BY <2>1, <2>2, <2>3 DEF DecoderInv
<1>2. CASE DecodeEnd
  BY <1>2 DEF DecodeEnd, DecoderInv, player, filter
<1>3. CASE Pull
  BY <1>3 DEF Pull, DecoderInv, player, decoder
<1>4. CASE PullNull
  <2>1. /\ pcD = "fill" /\ pcD' = "over" /\ outbuffer' = -1 /\ nsamples' = 0
        /\ given' = given - nsamples /\ nsamples > 0 /\ nsamples <= given
        /\ UNCHANGED <<phase, entry, decoded>>
    BY <1>4 DEF PullNull, DecoderInv, player
  <2>2. given' \in Nat /\ given' <= given
    BY <2>1 DEF TypeOK, Numbers
  <2>3. PICK all, before \in Int : all = entry * Samples /\ before = (entry - 1) * Samples
    BY DEF TypeOK
  <2>4. given <= all /\ given <= before + decoded /\ entry > 0 /\ phase \notin {"stop", "change", "noEntry"}
    BY <2>1, <2>3 DEF DecoderInv
  <2>5. given' <= all /\ given' <= before + decoded
    BY <2>2, <2>3, <2>4 DEF TypeOK, Numbers
  <2>6. QED
    BY <2>1, <2>2, <2>3, <2>4, <2>5 DEF DecoderInv
<1>5. CASE Fill
  <2>1. /\ UNCHANGED <<phase, entry, decoded, given>>
        /\ pcD = "fill" /\ pcD' = IF nsamples' > 0 THEN "fill" ELSE "frame"
        /\ \/ outbufferlen' = outbufferlen + Room /\ outbuffer' = outbuffer
              /\ outbufferlen + Room < Size
           \/ outbufferlen' = 0 /\ outbuffer' = -1
    BY <1>5 DEF Fill, player
  <2>2. nsamples' \in Nat /\ nsamples' <= nsamples /\ Room \in Nat \ {0} /\ outbufferlen \in Nat
    BY <1>5, FillAmount DEF TypeOK
  <2>3. nsamples' <= given' /\ nsamples' \in Nat
    <3>1. nsamples \in Nat /\ given \in Nat /\ nsamples <= given
      BY DEF TypeOK, DecoderInv, Numbers
    <3>2. QED
      BY <2>1, <2>2, <3>1
  <2>4. QED
    BY <2>1, <2>2, <2>3 DEF DecoderInv
<1>6. QED
  BY <1>1, <1>2, <1>3, <1>4, <1>5 DEF Decoder

\* Every step of the main loop keeps what is known of the decoder.
LEMMA LoopDecoder ==
  ASSUME TypeOK, DecoderInv,
         AskPlay \/ Leave \/ Halt \/ JoinToChange \/ Change \/ JoinToStop
  PROVE  DecoderInv'
<1> USE PipelineAssumption
<1>1. CASE AskPlay
  BY <1>1 DEF AskPlay, DecoderInv, decoder, filter
<1>2. CASE Leave
  BY <1>2 DEF Leave, DecoderInv, decoder, filter
<1>3. CASE Halt
  BY <1>3 DEF Halt, DecoderInv, decoder, filter
<1>4. CASE JoinToChange
  BY <1>4 DEF JoinToChange, Joined, DecoderInv, filter
<1>5. CASE Change
  <2>1. /\ phase = "change" /\ pcD = "off" /\ nsamples = 0
        /\ UNCHANGED <<outbuffer, outbufferlen, given>>
    BY <1>5 DEF Change, DecoderInv, filter, TypeOK
  <2>2. CASE phase' = "noEntry" /\ UNCHANGED <<entry, decoder>>
    BY <2>1, <2>2 DEF DecoderInv, decoder
  <2>3. CASE /\ entry < Entries /\ entry' = entry + 1 /\ phase' = "playing"
             /\ pcD' = "frame" /\ decoded' = 0 /\ nsamples' = 0
    <3>1. PICK all, more \in Nat : all = entry * Samples /\ more = (entry + 1) * Samples
      BY Grows DEF TypeOK
    <3>2. more = all + Samples
      BY <3>1, OneMore DEF TypeOK
    <3>3. given <= all /\ given \in Nat
      BY <3>1 DEF DecoderInv, TypeOK, Numbers
    <3>4. given' <= all /\ given' <= more /\ given' \in Nat
      <4> HIDE DEF TypeOK
      <4>1. given <= more
        BY <3>2, <3>3
      <4>2. QED
        BY <2>1, <3>3, <4>1
    <3>5. entry' * Samples = more /\ (entry' - 1) * Samples + decoded' = all /\ entry' > 0
      BY <2>3, <3>1 DEF TypeOK
    <3>6. outbuffer # -1 => outbufferlen > 0
      BY <2>1 DEF DecoderInv
    <3>7. QED
      BY <2>1, <2>3, <3>4, <3>5, <3>6 DEF DecoderInv
  <2>4. QED
    BY <1>5, <2>2, <2>3 DEF Change
<1>6. CASE JoinToStop
  <2>1. /\ pcD \in {"off", "over"} /\ pcD' = "off" /\ given' = 0 /\ phase' = "stop"
        /\ UNCHANGED <<entry, nsamples, outbuffer, outbufferlen>>
    BY <1>6 DEF JoinToStop, Joined
  <2>2. nsamples = 0 /\ (outbuffer # -1 => outbufferlen > 0)
    BY <2>1 DEF DecoderInv, TypeOK
  <2>3. 0 <= entry * Samples
    BY Grows DEF TypeOK
  <2>4. QED
    BY <2>1, <2>2, <2>3 DEF DecoderInv
<1>7. QED
  BY <1>1, <1>2, <1>3, <1>4, <1>5, <1>6

-----------------------------------------------------------------------------
(* The indices of the buffer *)

\* The scatters are those at the first positions from out, each once.
LEMMA Positions ==
  ASSUME TypeOK
  PROVE  /\ Pos(0) = out /\ Pos(Count) = out
         /\ \A i \in 0 .. Count : Pos(i) \in Scatters
         /\ \A i, j \in 0 .. Count - 1 : Pos(i) = Pos(j) => i = j
         /\ \A s \in Scatters : \E i \in 0 .. Count - 1 : s = Pos(i)
         /\ \A i \in 0 .. Count - 1 : (Pos(i) + 1) % Count = Pos(i + 1)
<1> USE PipelineAssumption
<1>1. out \in 0 .. Count - 1 /\ Count \in Nat \ {0, 1}
  BY DEF TypeOK, Scatters
<1>2. \A i \in 0 .. Count : Pos(i) = IF out + i < Count THEN out + i ELSE out + i - Count
  BY <1>1, Wrap DEF Pos
<1>3. \A s \in Scatters : \E i \in 0 .. Count - 1 : s = Pos(i)
  <2> SUFFICES ASSUME NEW s \in 0 .. Count - 1 PROVE \E i \in 0 .. Count - 1 : s = Pos(i)
    BY DEF Scatters
  <2>1. CASE s >= out
    <3>1. s - out \in 0 .. Count - 1 /\ Pos(s - out) = s
      BY <1>1, <1>2, <2>1
    <3>2. QED
      BY <3>1
  <2>2. CASE s < out
    <3>1. s - out + Count \in 0 .. Count - 1 /\ Pos(s - out + Count) = s
      BY <1>1, <1>2, <2>2
    <3>2. QED
      BY <3>1
  <2>3. QED
    BY <1>1, <2>1, <2>2
<1>4. \A i \in 0 .. Count - 1 : (Pos(i) + 1) % Count = Pos(i + 1)
  <2> SUFFICES ASSUME NEW i \in 0 .. Count - 1 PROVE (Pos(i) + 1) % Count = Pos(i + 1)
    OBVIOUS
  <2>1. Pos(i) \in 0 .. Count - 1
    BY <1>1, <1>2
  <2>2. (Pos(i) + 1) % Count = IF Pos(i) + 1 < Count THEN Pos(i) + 1 ELSE Pos(i) + 1 - Count
    BY <1>1, <2>1, Wrap
  <2>3. i \in 0 .. Count /\ i + 1 \in 0 .. Count
    OBVIOUS
  <2>4. /\ Pos(i) = IF out + i < Count THEN out + i ELSE out + i - Count
        /\ Pos(i + 1) = IF out + (i + 1) < Count THEN out + (i + 1) ELSE out + (i + 1) - Count
    BY <1>2, <2>3
  <2>5. QED
    BY <1>1, <2>2, <2>4
<1>5. Pos(0) = out /\ Pos(Count) = out
  BY <1>1, <1>2
<1>6. \A i \in 0 .. Count : Pos(i) \in Scatters
  BY <1>1, <1>2 DEF Scatters
<1>7. \A i, j \in 0 .. Count - 1 : Pos(i) = Pos(j) => i = j
  BY <1>1, <1>2
<1>8. QED
  BY <1>3, <1>4, <1>5, <1>6, <1>7

\* When out goes to the next scatter, so does every position.
LEMMA NextPositions ==
  ASSUME TypeOK, out' = Pos(1)
  PROVE  \A i \in 0 .. Count - 1 : Pos(i)' = Pos(i + 1)
<1> USE PipelineAssumption
<1> SUFFICES ASSUME NEW i \in 0 .. Count - 1 PROVE (out' + i) % Count = Pos(i + 1)
  BY DEF Pos
<1>1. out \in 0 .. Count - 1 /\ Count \in Nat \ {0, 1}
  BY DEF TypeOK, Scatters
<1>2. PICK o \in 0 .. Count - 1 : o = out' /\ o = IF out + 1 < Count THEN out + 1 ELSE out + 1 - Count
  BY <1>1, Wrap DEF Pos
<1>3. (o + i) % Count = IF o + i < Count THEN o + i ELSE o + i - Count
  <2>1. PICK x \in 0 .. 2 * Count - 1 : x = o + i
    BY <1>1
  <2>2. QED
    BY <2>1, Wrap
<1>4. Pos(i + 1) = IF out + (i + 1) < Count THEN out + (i + 1) ELSE out + (i + 1) - Count
  <2>1. \A j \in 0 .. Count : Pos(j) = IF out + j < Count THEN out + j ELSE out + j - Count
    BY <1>1, Wrap DEF Pos
  <2>2. QED
    BY <2>1, i + 1 \in 0 .. Count
<1>5. (o + i) % Count = Pos(i + 1)
  BY <1>1, <1>2, <1>3, <1>4
<1>6. QED
  BY <1>2, <1>5

-----------------------------------------------------------------------------
(* The scatters *)

\* Every step keeps what is known of the encoder that refuses.
LEMMA StepHold ==
  ASSUME TypeOK, HoldInv, [Next]_vars
  PROVE  HoldInv' /\ (Refuses' <=> Refuses)
<1>1. Refuses' <=> Refuses
  BY DEF Next, Decode, DecodeEnd, Pull, PullNull, Fill, Peer, Length, Refuse, EarlyPop, Encode,
         Pop, AskPlay, Leave, Halt, JoinToChange, Change, JoinToStop, player, vars, Refuses
<1>2. CASE UNCHANGED <<pcE, hold>>
  BY <1>1, <1>2 DEF HoldInv
<1>3. CASE Peer
  <2>1. hold' # -1 /\ pcE' = "length"
    BY <1>3, PipelineAssumption DEF Peer, TypeOK, Scatters
  <2>2. hold' = -1 <=> pcE' \in {"peer", "gone"}
    BY <2>1
  <2>3. QED
    BY <1>1, <2>1, <2>2 DEF HoldInv
<1>4. CASE Length
  BY <1>1, <1>4 DEF Length, HoldInv
<1>5. CASE Refuse \/ EarlyPop \/ Encode
  BY <1>1, <1>5 DEF Refuse, EarlyPop, Encode, HoldInv
<1>6. CASE Pop
  <2>1. hold' = -1 /\ pcE' \in {"peer", "gone"}
    BY <1>6 DEF Pop, Ends
  <2>2. QED
    BY <1>1, <2>1 DEF HoldInv
<1>7. ASSUME Decode \/ DecodeEnd \/ Pull \/ PullNull \/ Fill \/ AskPlay \/ Leave \/ Halt
             \/ JoinToChange \/ Change \/ JoinToStop \/ UNCHANGED vars
      PROVE  UNCHANGED <<pcE, hold>>
  BY <1>7 DEF Decode, DecodeEnd, Pull, PullNull, Fill, AskPlay, Leave, Halt, JoinToChange,
              Change, JoinToStop, encoder, vars
<1>8. QED
  BY <1>1, <1>2, <1>3, <1>4, <1>5, <1>6, <1>7 DEF Next

LevelOK == level \in 0 .. IF torn THEN Count + 1 ELSE Count

USE DEF HoldInv, Levels

\* What moves no scatter between those with data and the others keeps the queue.
LEMMA KeepsShape ==
  ASSUME ~Refuses, TypeOK, RingInv, UNCHANGED <<in, out, level, torn>>,
         \A s \in Scatters : slot'[s] \in Full <=> slot[s] \in Full
  PROVE  /\ Queue => Queue'
         /\ Queue' \/ (torn' /\ (Overfull' \/ \E g \in 0 .. Count - 1 : Hole(g)'))
<1>1. \A i \in 0 .. Count : Pos(i) \in Scatters /\ Pos(i)' = Pos(i)
  BY Positions DEF Pos
<1>2. Count \in Nat /\ level \in Int
  BY PipelineAssumption DEF TypeOK
<1>3. Queue => Queue'
  BY <1>1, <1>2 DEF Queue, Pos
<1>4. Overfull => Overfull'
  BY <1>1 DEF Overfull, Pos
<1>5. ASSUME NEW g \in 0 .. Count - 1, Hole(g) PROVE Hole(g)'
  BY <1>1, <1>2, <1>5 DEF Hole, Pos
<1>6. QED
  BY <1>3, <1>4, <1>5 DEF RingInv

\* Nor does what leaves the scatters alone.
LEMMA KeepsOwners ==
  ASSUME ~Refuses, TypeOK, Owners, UNCHANGED <<slot, in, out, level, torn, hold>>,
         outbuffer' = outbuffer \/ slot[in] # "PULL", HoldInv',
         pcE' \in {"length", "encode", "pop"} => pcE \in {"length", "encode", "pop"},
         (\E s \in Scatters : slot[s] = "POP") => pcE' \in {"length", "encode", "pop"}
  PROVE  Owners' /\ LevelOK'
<1>1. PullInv' /\ PopInv' /\ LevelOK'
  BY DEF Owners, PullInv, PopInv, LevelOK, TypeOK
<1>2. Queue => Queue'
  BY KeepsShape DEF Owners
<1>3. Queue' \/ (torn' /\ (Overfull' \/ \E g \in 0 .. Count - 1 : Hole(g)'))
  BY KeepsShape DEF Owners
<1>4. pcE' \in {"length", "encode", "pop"} => Taken' \/ Strayed'
  BY <1>2 DEF Owners, RingInv, Taken, Strayed
<1>5. QED
  BY <1>1, <1>3, <1>4 DEF Owners, RingInv

\* The filter gets a scatter that is free.
LEMMA PullOwners ==
  ASSUME ~Refuses, TypeOK, Owners, Pull
  PROVE  Owners' /\ LevelOK'
<1>1. /\ slot[in] = "FREE" /\ slot' = [slot EXCEPT ![in] = "PULL"]
      /\ outbuffer = -1 /\ outbuffer' = in /\ in \in Scatters
      /\ UNCHANGED <<in, out, level, torn, hold, pcE>>
  BY DEF Pull, encoder, TypeOK
<1>2. \A s \in Scatters : slot'[s] = IF s = in THEN "PULL" ELSE slot[s]
  BY <1>1 DEF TypeOK
<1>3. PullInv' /\ PopInv' /\ LevelOK'
  BY <1>1, <1>2 DEF Owners, PullInv, PopInv, LevelOK, TypeOK
<1>4. \A s \in Scatters : slot'[s] \in Full <=> slot[s] \in Full
  BY <1>1, <1>2 DEF Full
<1>5. /\ Queue => Queue'
      /\ Queue' \/ (torn' /\ (Overfull' \/ \E g \in 0 .. Count - 1 : Hole(g)'))
  BY <1>1, <1>4, KeepsShape DEF Owners
<1>6. pcE' \in {"length", "encode", "pop"} => Taken' \/ Strayed'
  BY <1>1, <1>2, <1>5 DEF Owners, RingInv, Taken, Strayed, TypeOK
<1>7. QED
  BY <1>3, <1>5, <1>6 DEF Owners, RingInv

\* A scatter that is pushed is the one after those with data, or the hole.
LEMMA PushOwners ==
  ASSUME ~Refuses, TypeOK, Owners, slot[in] = "PULL", Push, UNCHANGED <<torn, hold, pcE>>
  PROVE  Owners' /\ LevelOK' /\ (Queue => level < Count)
<1> USE PipelineAssumption
<1>1. /\ slot' = [slot EXCEPT ![in] = "READY"] /\ in' = (in + 1) % Count
      /\ level' = level + 1 /\ out' = out /\ in \in Scatters /\ out \in Scatters
      /\ level \in Nat /\ Count \in Nat \ {0, 1}
  BY DEF Push, TypeOK
<1>2. \A s \in Scatters : slot'[s] = IF s = in THEN "READY" ELSE slot[s]
  BY <1>1 DEF TypeOK
<1>3. PullInv' /\ PopInv'
  BY <1>1, <1>2 DEF Owners, PullInv, PopInv
<1>4. slot[in] \notin Full /\ "READY" \in Full
  BY DEF Full
<1>5. ~Overfull
  BY <1>1, <1>4 DEF Overfull
<1>6. /\ Pos(0) = out /\ Pos(Count) = out
      /\ \A i \in 0 .. Count : Pos(i) \in Scatters /\ Pos(i)' = Pos(i)
      /\ \A i, j \in 0 .. Count - 1 : Pos(i) = Pos(j) => i = j
      /\ \A s \in Scatters : \E i \in 0 .. Count - 1 : s = Pos(i)
      /\ \A i \in 0 .. Count - 1 : (Pos(i) + 1) % Count = Pos(i + 1)
  BY <1>1, Positions DEF Pos
<1>7. CASE Queue
  <2>1. level < Count
    <3> SUFFICES ASSUME level = Count PROVE FALSE
      BY <1>1, <1>7 DEF Queue
    <3>1. in = Pos(0) /\ slot[Pos(0)] \in Full
      BY <1>1, <1>6, <1>7 DEF Queue
    <3>2. QED
      BY <1>4, <3>1
  <2>2. level \in 0 .. Count - 1 /\ in = Pos(level) /\ in' = Pos(level + 1)
    BY <1>1, <1>6, <1>7, <2>1 DEF Queue
  <2>3. ASSUME NEW i \in 0 .. Count - 1
        PROVE  slot'[Pos(i)] \in Full <=> i < level + 1
    <3>1. CASE i = level
      BY <1>1, <1>2, <1>4, <1>6, <2>2, <3>1
    <3>2. CASE i # level
      <4>1. slot'[Pos(i)] = slot[Pos(i)]
        BY <1>2, <1>6, <2>2, <3>2
      <4>2. slot[Pos(i)] \in Full <=> i < level
        BY <1>7 DEF Queue
      <4>3. QED
        BY <1>1, <3>2, <4>1, <4>2
    <3>3. QED
      BY <3>1, <3>2
  <2>4. in' = (out' + level') % Count /\ level' <= Count
    BY <1>1, <1>6, <2>1, <2>2 DEF Pos
  <2>5. Queue'
    BY <1>1, <1>6, <2>3, <2>4 DEF Queue, Full, Pos
  <2>6. LevelOK'
    BY <1>1, <2>4 DEF LevelOK
  <2>7. in # out \/ slot[out] # "POP"
    BY <1>4
  <2>8. pcE' \in {"length", "encode", "pop"} => Taken' \/ Strayed'
    BY <1>1, <1>2, <2>5, <2>7 DEF Owners, RingInv, Taken, Strayed
  <2>9. QED
    BY <1>3, <2>1, <2>5, <2>6, <2>8 DEF Owners, RingInv
<1>8. ASSUME ~Queue, torn, NEW g \in 0 .. Count - 1, Hole(g)
      PROVE  Owners' /\ LevelOK'
  <2>1. pcE' \in {"length", "encode", "pop"} => Taken'
    BY <1>1, <1>2, <1>4, <1>8 DEF Owners, RingInv, Taken, Strayed, Full
  <2>2. LevelOK'
    BY <1>1, <1>8 DEF LevelOK, Hole
  <2>3. CASE level < Count
    <3>1. level \in 0 .. Count - 1 /\ in = Pos(level) /\ in' = Pos(level + 1)
      BY <1>1, <1>6, <1>8, <2>3 DEF Hole
    <3>2. ASSUME NEW i \in 0 .. Count - 1
          PROVE  slot'[Pos(i)] \in Full <=> i < level + 1 /\ i # g
      <4>1. CASE i = level
        BY <1>1, <1>2, <1>4, <1>6, <1>8, <3>1, <4>1 DEF Hole
      <4>2. CASE i # level
        <5>1. slot'[Pos(i)] = slot[Pos(i)]
          BY <1>2, <1>6, <3>1, <4>2
        <5>2. slot[Pos(i)] \in Full <=> i < level /\ i # g
          BY <1>8 DEF Hole
        <5>3. QED
          BY <1>1, <4>2, <5>1, <5>2
      <4>3. QED
        BY <4>1, <4>2
    <3>3. in' = (out' + level') % Count /\ level' <= Count /\ g < level'
      BY <1>1, <1>6, <1>8, <2>3, <3>1 DEF Pos, Hole
    <3>4. Hole(g)'
      BY <1>1, <1>6, <3>2, <3>3 DEF Hole, Full, Pos
    <3>5. QED
      BY <1>3, <1>8, <2>1, <2>2, <3>4 DEF Owners, RingInv
  <2>4. CASE level = Count
    <3>1. in = Pos(0) /\ g = 0
      BY <1>1, <1>4, <1>6, <1>8, <2>4 DEF Hole
    <3>2. level' = Count + 1 /\ in' = Pos(1)'
      BY <1>1, <1>6, <2>4, <3>1 DEF Pos
    <3>3. ASSUME NEW s \in Scatters PROVE slot'[s] \in Full
      <4>1. PICK i \in 0 .. Count - 1 : s = Pos(i)
        BY <1>6
      <4>2. slot[Pos(i)] \in Full <=> i < level /\ i # g
        BY <1>8 DEF Hole
      <4>3. QED
        BY <1>1, <1>2, <1>4, <2>4, <3>1, <4>1, <4>2
    <3>4. Overfull'
      BY <3>2, <3>3 DEF Overfull, Full
    <3>5. QED
      BY <1>3, <1>8, <2>1, <2>2, <3>4 DEF Owners, RingInv
  <2>5. QED
    BY <1>1, <1>8, <2>3, <2>4 DEF Hole
<1>9. QED
  BY <1>5, <1>7, <1>8 DEF Owners, RingInv

\* What is poured is pushed when the buffer is full.
LEMMA FillOwners ==
  ASSUME ~Refuses, TypeOK, Owners, Fill
  PROVE  Owners' /\ LevelOK'
<1>1. UNCHANGED <<torn, hold, pcE>> /\ HoldInv'
  BY DEF Fill, encoder, Owners, PopInv
<1>2. CASE UNCHANGED ring /\ (outbuffer' = outbuffer \/ slot[in] # "PULL")
  BY <1>1, <1>2, KeepsOwners DEF ring, Owners, PopInv
<1>3. CASE slot[in] = "PULL" /\ Push
  BY <1>1, <1>3, PushOwners
<1>4. QED
  BY <1>2, <1>3 DEF Fill, Push

\* The encoder gets the scatter under out.
LEMMA PeerOwners ==
  ASSUME ~Refuses, TypeOK, Owners, Peer
  PROVE  Owners' /\ LevelOK'
<1>1. /\ pcE = "peer" /\ slot[out] = "READY" /\ out \in Scatters
      /\ slot' = [slot EXCEPT ![out] = "POP"] /\ hold' = out /\ pcE' = "length"
      /\ UNCHANGED <<in, out, level, torn, outbuffer>>
  BY DEF Peer, filter, TypeOK
<1>2. \A s \in Scatters : slot'[s] = IF s = out THEN "POP" ELSE slot[s]
  BY <1>1 DEF TypeOK
<1>3. out # -1
  BY <1>1, PipelineAssumption DEF Scatters
<1>4. PullInv' /\ PopInv' /\ LevelOK' /\ Taken'
  BY <1>1, <1>2, <1>3 DEF Owners, PullInv, PopInv, LevelOK, Taken, TypeOK
<1>5. \A s \in Scatters : slot'[s] \in Full <=> slot[s] \in Full
  BY <1>1, <1>2 DEF Full
<1>6. Queue' \/ (torn' /\ (Overfull' \/ \E g \in 0 .. Count - 1 : Hole(g)'))
  BY <1>1, <1>5, KeepsShape DEF Owners
<1>7. QED
  BY <1>4, <1>6 DEF Owners, RingInv

\* A scatter that the encoder had is the first of the free ones.
LEMMA PopTaken ==
  ASSUME ~Refuses, TypeOK, Owners, Popped, slot[out] = "POP", torn' = torn
  PROVE  /\ Queue' \/ (torn' /\ \E g \in 0 .. Count - 1 : Hole(g)')
         /\ LevelOK' /\ out' = Pos(1) /\ level > 0
         /\ Queue => Queue'
<1> USE PipelineAssumption
<1>1. /\ slot' = [slot EXCEPT ![out] = "FREE"] /\ out' = Pos(1)
      /\ level' = level - 1 /\ in' = in /\ in \in Scatters /\ out \in Scatters
      /\ level \in Nat /\ Count \in Nat \ {0, 1}
  BY DEF Popped, Pos, TypeOK
<1>2. \A s \in Scatters : slot'[s] = IF s = out THEN "FREE" ELSE slot[s]
  BY <1>1 DEF TypeOK
<1>3. slot[out] \in Full /\ "FREE" \notin Full
  BY DEF Full
<1>4. /\ Pos(0) = out /\ Pos(Count) = out
      /\ \A i \in 0 .. Count : Pos(i) \in Scatters
      /\ \A i, j \in 0 .. Count - 1 : Pos(i) = Pos(j) => i = j
      /\ \A s \in Scatters : \E i \in 0 .. Count - 1 : s = Pos(i)
  BY Positions
<1>5. \A i \in 0 .. Count - 1 : (out' + i) % Count = Pos(i + 1)
  BY <1>1, NextPositions DEF Pos
<1>6. \A i \in 0 .. Count - 1 :
        slot'[Pos(i + 1)] \in Full <=> i # Count - 1 /\ slot[Pos(i + 1)] \in Full
  <2> SUFFICES ASSUME NEW i \in 0 .. Count - 1
               PROVE slot'[Pos(i + 1)] \in Full <=> i # Count - 1 /\ slot[Pos(i + 1)] \in Full
    OBVIOUS
  <2>1. i + 1 \in 0 .. Count
    BY <1>1
  <2>2. CASE i = Count - 1
    BY <1>1, <1>2, <1>3, <1>4, <2>2
  <2>3. CASE i # Count - 1
    <3>1. i + 1 \in 0 .. Count - 1 /\ i + 1 # 0 /\ 0 \in 0 .. Count - 1
      BY <1>1, <2>3
    <3>2. Pos(i + 1) # out
      BY <1>4, <3>1
    <3>3. QED
      BY <1>2, <1>4, <2>1, <2>3, <3>2
  <2>4. QED
    BY <2>2, <2>3
<1>7. CASE Queue
  <2>1. 0 < level /\ level <= Count /\ in = Pos(level)
    BY <1>1, <1>3, <1>4, <1>7 DEF Queue
  <2>2. level - 1 \in 0 .. Count - 1 /\ (out' + (level - 1)) % Count = Pos(level - 1 + 1)
    BY <1>1, <1>5, <2>1
  <2>3. in' = (out' + level') % Count /\ level' <= Count /\ level' >= 0
    BY <1>1, <2>1, <2>2
  <2>4. ASSUME NEW i \in 0 .. Count - 1 PROVE slot'[Pos(i + 1)] \in Full <=> i < level - 1
    <3>1. CASE i = Count - 1
      BY <1>1, <1>6, <2>1, <3>1
    <3>2. CASE i # Count - 1
      <4>1. i + 1 \in 0 .. Count - 1
        BY <1>1, <3>2
      <4>2. slot[Pos(i + 1)] \in Full <=> i + 1 < level
        BY <1>7, <4>1 DEF Queue
      <4>3. QED
        BY <1>1, <1>6, <3>2, <4>2
    <3>3. QED
      BY <3>1, <3>2
  <2>5. Queue'
    BY <1>1, <1>5, <2>3, <2>4 DEF Queue, Full, Pos
  <2>6. QED
    BY <1>1, <2>1, <2>3, <2>5 DEF LevelOK
<1>8. CASE torn /\ Overfull
  <2>1. level = Count + 1 /\ in = Pos(1)
    BY <1>8 DEF Overfull
  <2>2. Count - 1 \in 0 .. Count - 1 /\ (out' + (Count - 1)) % Count = out
    BY <1>1, <1>4, <1>5, Count - 1 + 1 = Count
  <2>3. (out' + Count) % Count = out'
    <3>1. out' \in Scatters
      BY <1>1, <1>4
    <3>2. PICK x \in 0 .. Count - 1 : x = out'
      BY <3>1 DEF Scatters
    <3>3. (x + Count) % Count = x
      <4>1. PICK y \in 0 .. 2 * Count - 1 : y = x + Count
        BY <1>1
      <4>2. QED
        BY <1>1, <4>1, Wrap
    <3>4. QED
      BY <3>2, <3>3
  <2>4. in' = (out' + level') % Count /\ level' = Count
    BY <1>1, <2>1, <2>3
  <2>5. ASSUME NEW i \in 0 .. Count - 1
        PROVE  slot'[Pos(i + 1)] \in Full <=> i < level' /\ i # Count - 1
    <3>1. i + 1 \in 0 .. Count /\ Pos(i + 1) \in Scatters
      BY <1>1, <1>4
    <3>2. slot[Pos(i + 1)] \in Full
      BY <1>8, <3>1 DEF Overfull
    <3>3. QED
      BY <1>1, <1>6, <2>4, <3>2
  <2>6. \E g \in 0 .. Count - 1 : Hole(g)'
    <3>1. PICK g \in 0 .. Count - 1 : g = Count - 1
      BY <1>1
    <3>2. level' <= Count /\ g < level'
      BY <1>1, <2>4, <3>1
    <3>3. Hole(g)'
      BY <1>1, <1>5, <2>4, <2>5, <3>1, <3>2 DEF Hole, Full, Pos
    <3>4. QED
      BY <3>3
  <2>7. ~Queue /\ LevelOK'
    BY <1>1, <1>8, <2>1 DEF Queue, LevelOK
  <2>8. QED
    BY <1>1, <1>8, <2>1, <2>2, <2>6, <2>7
<1>9. ASSUME torn, NEW g \in 0 .. Count - 1, Hole(g), ~Queue
      PROVE  (\E h \in 0 .. Count - 1 : Hole(h)') /\ LevelOK' /\ level > 0
  <2>1. g # 0
    BY <1>1, <1>3, <1>4, <1>9 DEF Hole
  <2>2. 0 < level /\ level <= Count /\ in = Pos(level) /\ g < level /\ g - 1 \in 0 .. Count - 1
    BY <1>1, <1>9, <2>1 DEF Hole
  <2>3. level - 1 \in 0 .. Count - 1 /\ (out' + (level - 1)) % Count = Pos(level - 1 + 1)
    BY <1>1, <1>5, <2>2
  <2>4. in' = (out' + level') % Count /\ level' <= Count /\ level' >= 0 /\ g - 1 < level'
    BY <1>1, <2>2, <2>3
  <2>5. ASSUME NEW i \in 0 .. Count - 1
        PROVE  slot'[Pos(i + 1)] \in Full <=> i < level - 1 /\ i # g - 1
    <3>1. CASE i = Count - 1
      BY <1>1, <1>6, <2>2, <3>1
    <3>2. CASE i # Count - 1
      <4>1. i + 1 \in 0 .. Count - 1
        BY <1>1, <3>2
      <4>2. slot[Pos(i + 1)] \in Full <=> i + 1 < level /\ i + 1 # g
        BY <1>9, <4>1 DEF Hole
      <4>3. QED
        BY <1>1, <1>6, <3>2, <4>2
    <3>3. QED
      BY <3>1, <3>2
  <2>6. Hole(g - 1)'
    BY <1>1, <1>5, <2>4, <2>5 DEF Hole, Full, Pos
  <2>7. LevelOK'
    BY <1>1, <2>4 DEF LevelOK
  <2>8. QED
    BY <2>2, <2>6, <2>7
<1>10. QED
  BY <1>1, <1>7, <1>8, <1>9 DEF Owners, RingInv

\* One that a reset has taken from it may be one that was pushed since.
LEMMA PopStrayed ==
  ASSUME ~Refuses, TypeOK, Strayed, Popped, torn' = torn
  PROVE  (Queue' \/ (torn' /\ \E g \in 0 .. Count - 1 : Hole(g)')) /\ LevelOK'
<1> USE PipelineAssumption
<1>1. /\ slot' = [slot EXCEPT ![out] = "FREE"] /\ UNCHANGED <<in, out, level>>
      /\ out \in Scatters /\ level \in Nat /\ Count \in Nat \ {0, 1}
  BY DEF Popped, Strayed, TypeOK
<1>2. \A s \in Scatters : slot'[s] = IF s = out THEN "FREE" ELSE slot[s]
  BY <1>1 DEF TypeOK
<1>3. "FREE" \notin Full
  BY DEF Full
<1>4. /\ Pos(0) = out
      /\ \A i \in 0 .. Count : Pos(i) \in Scatters /\ Pos(i)' = Pos(i)
      /\ \A i, j \in 0 .. Count - 1 : Pos(i) = Pos(j) => i = j
  BY <1>1, Positions DEF Pos
<1>5. /\ level <= Count /\ in = Pos(level)
      /\ \A i \in 0 .. Count - 1 : slot[Pos(i)] \in Full <=> i < level
  BY DEF Strayed, Queue
<1>6. ASSUME NEW i \in 0 .. Count - 1
      PROVE  slot'[Pos(i)] \in Full <=> i < level /\ i # 0
  <2>1. CASE i = 0
    BY <1>2, <1>3, <1>4, <2>1
  <2>2. CASE i # 0
    <3>1. 0 \in 0 .. Count - 1 /\ Pos(i) # out /\ Pos(i) \in Scatters
      BY <1>1, <1>4, <2>2
    <3>2. QED
      BY <1>2, <1>5, <2>2, <3>1
  <2>3. QED
    BY <2>1, <2>2
<1>7. in' = (out' + level') % Count
  BY <1>1, <1>5 DEF Pos
<1>8. CASE level = 0
  <2>1. Queue'
    BY <1>1, <1>4, <1>6, <1>7, <1>8 DEF Queue, Full, Pos
  <2>2. QED
    BY <1>1, <1>8, <2>1 DEF LevelOK
<1>9. CASE level > 0
  <2>1. PICK g \in 0 .. Count - 1 : g = 0
    BY <1>1
  <2>2. Hole(g)'
    BY <1>1, <1>4, <1>5, <1>6, <1>7, <1>9, <2>1 DEF Hole, Full, Pos
  <2>3. QED
    BY <1>1, <1>5, <2>2 DEF LevelOK, Strayed
<1>10. QED
  BY <1>1, <1>8, <1>9

\* After a pop the encoder has no scatter.
LEMMA PopOwners ==
  ASSUME ~Refuses, TypeOK, Owners, Pop
  PROVE  Owners' /\ LevelOK'
<1>1. /\ pcE = "pop" /\ pcE' \in {"peer", "gone"} /\ hold' = -1 /\ Popped
      /\ UNCHANGED <<torn, outbuffer, in>>
  BY DEF Pop, Popped, Ends, filter
<1>2. \A s \in Scatters : slot'[s] = IF s = out THEN "FREE" ELSE slot[s]
  BY <1>1 DEF Popped, TypeOK
<1>3. PullInv' /\ PopInv'
  BY <1>1, <1>2 DEF Owners, PullInv, PopInv
<1>4. (Queue' \/ (torn' /\ \E g \in 0 .. Count - 1 : Hole(g)')) /\ LevelOK'
  <2>1. Taken \/ Strayed
    BY <1>1 DEF Owners, RingInv
  <2>2. QED
    BY <1>1, <2>1, PopTaken, PopStrayed DEF Taken
<1>5. QED
  BY <1>1, <1>3, <1>4 DEF Owners, RingInv

\* A reset empties the buffer, whatever the filter and the encoder have in hand.
LEMMA StopOwners ==
  ASSUME ~Refuses, TypeOK, Owners, JoinToStop
  PROVE  Owners' /\ LevelOK'
<1> USE PipelineAssumption
<1>1. /\ slot' = Cleared /\ in' = 0 /\ out' = 0 /\ level' = 0
      /\ torn' = (hold # -1) /\ UNCHANGED <<hold, pcE, outbuffer>>
  BY DEF JoinToStop
<1>2. \A s \in Scatters : slot'[s] = "FREE"
  BY <1>1 DEF Cleared
<1>3. PullInv' /\ PopInv' /\ LevelOK'
  BY <1>1, <1>2 DEF Owners, PullInv, PopInv, LevelOK
<1>4. Count \in Nat \ {0, 1} /\ \A i \in 0 .. Count - 1 : (0 + i) % Count \in Scatters
  <2>1. Count \in Nat \ {0, 1}
    OBVIOUS
  <2>2. QED
    BY <2>1, Wrap DEF Scatters
<1>5. Queue'
  <2>1. (0 + 0) % Count = 0
    BY <1>4, Wrap
  <2>2. \A i \in 0 .. Count - 1 : slot'[(0 + i) % Count] = "FREE" /\ ~(i < 0)
    BY <1>2, <1>4
  <2>3. QED
    BY <1>1, <1>4, <2>1, <2>2 DEF Queue, Full, Pos
<1>6. pcE' \in {"length", "encode", "pop"} => Strayed'
  BY <1>1, <1>2, <1>5 DEF Owners, PopInv, Strayed
<1>7. QED
  BY <1>3, <1>5, <1>6 DEF Owners, RingInv

\* Initially the buffer is empty.
LEMMA InitOwners == Init => DecoderInv /\ Owners /\ LevelOK
<1> SUFFICES ASSUME Init PROVE DecoderInv /\ Owners /\ LevelOK
  OBVIOUS
<1> USE PipelineAssumption
<1>1. /\ slot = Cleared /\ in = 0 /\ out = 0 /\ level = 0 /\ hold = -1 /\ pcE = "peer"
  BY DEF Init
<1>2. Count \in Nat \ {0, 1}
  OBVIOUS
<1>3. \A s \in Scatters : slot[s] = "FREE"
  BY <1>1 DEF Cleared
<1>4. \A i \in 0 .. Count - 1 : (0 + i) % Count \in Scatters
  BY <1>2, Wrap DEF Scatters
<1>5. Queue
  <2>1. (0 + 0) % Count = 0
    BY <1>2, Wrap
  <2>2. \A i \in 0 .. Count - 1 : slot[(0 + i) % Count] = "FREE" /\ ~(i < 0)
    BY <1>3, <1>4
  <2>3. QED
    BY <1>1, <1>2, <2>1, <2>2 DEF Queue, Full, Pos
<1>6. DecoderInv
  <2>1. 0 * Samples = 0
    OBVIOUS
  <2>2. QED
    BY <2>1 DEF Init, DecoderInv
<1>7. QED
  BY <1>1, <1>2, <1>3, <1>5, <1>6 DEF Owners, PullInv, PopInv, RingInv, LevelOK, Init

\* Every step keeps the owners of the scatters and the shape of the queue.
LEMMA StepOwners ==
  ASSUME ~Refuses, TypeOK, Owners, [Next]_vars
  PROVE  Owners' /\ LevelOK'
<1> DEFINE Apart == UNCHANGED <<slot, in, out, level, torn, hold, outbuffer, pcE>>
<1> HoldInv'
  BY StepHold DEF Owners, PopInv
<1>1. CASE Apart
  BY <1>1, KeepsOwners DEF Owners, PopInv
<1>2. CASE Pull \/ Fill \/ Peer \/ Pop \/ JoinToStop
  BY <1>2, PullOwners, FillOwners, PeerOwners, PopOwners, StopOwners
<1>3. CASE Length
  <2>1. UNCHANGED <<slot, in, out, level, torn, hold, outbuffer>>
        /\ pcE = "length" /\ pcE' = IF slot[out] = "POP" THEN "encode" ELSE "astray"
    BY <1>3 DEF Length, ring, filter
  <2>2. QED
    BY <2>1, KeepsOwners DEF Owners, PopInv
<1> ~Refuse /\ ~EarlyPop
  BY DEF Refuse, EarlyPop, Owners, PopInv
<1>4. CASE Encode
  <2>1. UNCHANGED <<slot, in, out, level, torn, hold, outbuffer>>
        /\ pcE = "encode" /\ pcE' = "pop"
    BY <1>4 DEF Encode, ring, filter
  <2>2. QED
    BY <2>1, KeepsOwners
<1>5. ASSUME Decode \/ DecodeEnd \/ PullNull \/ AskPlay \/ Leave \/ Halt \/ JoinToChange \/ Change
             \/ UNCHANGED vars
      PROVE  Apart
  BY <1>5 DEF Decode, DecodeEnd, PullNull, AskPlay, Leave, Halt, JoinToChange, Change, vars,
              ring, filter, encoder
<1>6. QED
  BY <1>1, <1>2, <1>3, <1>4, <1>5 DEF Next

HIDE DEF HoldInv, Levels

-----------------------------------------------------------------------------
(* Types *)

\* The initial state is well typed.
LEMMA InitType == Init => TypeOK
<1> SUFFICES ASSUME Init PROVE TypeOK
  OBVIOUS
<1> USE PipelineAssumption
<1>1. 0 \in Numbers /\ heard \in Seq(Numbers)
  <2>1. Entries * Samples \in Nat
    BY Grows
  <2>2. 0 \in Numbers
    BY <2>1 DEF Numbers
  <2>3. QED
    BY <2>2 DEF Init
<1>2. mem \in [Scatters -> [1 .. Size -> Numbers]]
  BY <1>1 DEF Init, Old
<1>3. slot \in [Scatters -> {"FREE", "PULL", "READY", "POP"}] /\ 0 \in Scatters
  BY DEF Init, Cleared, Scatters
<1>4. level \in Levels
  BY DEF Init, Levels
<1>5. /\ decoded \in 0 .. Samples /\ nsamples \in 0 .. Samples /\ entry \in 0 .. Entries
      /\ calls \in 0 .. MaxCalls /\ outbufferlen \in 0 .. Size - 1 /\ stale \in 0 .. Size - 1
  BY DEF Init
<1>6. torn \in BOOLEAN /\ asked \in BOOLEAN
  BY Zenon DEF Init
<1>7. QED
  BY <1>1, <1>2, <1>3, <1>4, <1>5, <1>6 DEF Init, TypeOK

\* What is poured is a number of a sample.
LEMMA PouredType ==
  ASSUME TypeOK, DecoderInv, Fill
  PROVE  /\ mem' \in [Scatters -> [1 .. Size -> Numbers]]
         /\ \A s \in Scatters : \A p \in 1 .. Size :
              mem'[s][p] = IF s = outbuffer /\ p \in outbufferlen + 1 .. outbufferlen + Room
                           THEN Written + (p - outbufferlen) ELSE mem[s][p]
<1>1. outbuffer \in Scatters
  BY DEF Fill, TypeOK
<1>2. /\ Room \in 1 .. Size /\ Room <= nsamples /\ outbufferlen + Room <= Size
      /\ given \in Numbers /\ nsamples \in Nat /\ nsamples <= given /\ outbufferlen \in Nat
      /\ Size \in Nat
  BY FillAmount, PipelineAssumption DEF TypeOK, DecoderInv
<1>3. mem' = [mem EXCEPT ![outbuffer] =
               [i \in 1 .. Size |-> IF i - outbufferlen \in 1 .. Room
                                    THEN given - nsamples + i - outbufferlen
                                    ELSE mem[outbuffer][i]]]
  BY DEF Fill, Poured
<1>4. \A i \in 1 .. Size : i - outbufferlen \in 1 .. Room =>
        given - nsamples + i - outbufferlen \in Numbers
  <2>1. PICK all \in Nat : all = Entries * Samples
    BY Grows, PipelineAssumption
  <2>2. given \in 0 .. all
    BY <1>2, <2>1 DEF Numbers
  <2>3. \A i \in 1 .. Size : i - outbufferlen \in 1 .. Room =>
          given - nsamples + i - outbufferlen \in 0 .. all
    BY <1>2, <2>2
  <2>4. QED
    BY <2>1, <2>3 DEF Numbers
<1>5. \A i \in 1 .. Size : mem[outbuffer][i] \in Numbers
  BY <1>1 DEF TypeOK
<1>6. mem' \in [Scatters -> [1 .. Size -> Numbers]]
  BY <1>1, <1>3, <1>4, <1>5 DEF TypeOK
<1>7. \A s \in Scatters : \A p \in 1 .. Size :
        mem'[s][p] = IF s = outbuffer /\ p - outbufferlen \in 1 .. Room
                     THEN given - nsamples + p - outbufferlen ELSE mem[s][p]
  BY <1>1, <1>3 DEF TypeOK
<1>8. given \in Int
  BY <1>2 DEF Numbers
<1>9. \A p \in 1 .. Size :
        /\ p - outbufferlen \in 1 .. Room <=> p \in outbufferlen + 1 .. outbufferlen + Room
        /\ given - nsamples + p - outbufferlen = Written + (p - outbufferlen)
  BY <1>2, <1>8 DEF Written
<1>10. QED
  BY <1>6, <1>7, <1>9

\* Whatever is freed, the level is a number.
LEMMA StepLevel ==
  ASSUME TypeOK, HoldInv, Refuses \/ LevelOK', [Next]_vars
  PROVE  (level \in Levels)'
<1>1. Refuses' <=> Refuses
  BY StepHold
<1>2. CASE ~Refuses
  BY <1>1, <1>2 DEF Levels, LevelOK
<1>3. CASE Refuses
  <2>1. level \in Int
    BY <1>3 DEF TypeOK, Levels
  <2>2. level' \in {level, level + 1, level - 1, 0}
    BY DEF Next, Decode, DecodeEnd, Pull, PullNull, Fill, Push, Peer, Length, Refuse, EarlyPop,
           Encode, Pop, Popped, AskPlay, Leave, Halt, JoinToChange, Change, JoinToStop, vars, ring
  <2>3. level' \in Int
    BY <2>1, <2>2
  <2>4. QED
    BY <1>1, <1>3, <2>3 DEF Levels
<1>4. QED
  BY <1>2, <1>3

\* A pop frees a scatter and leaves the rest of the buffer well typed.
LEMMA PoppedType ==
  ASSUME TypeOK, Popped
  PROVE  /\ slot' \in [Scatters -> {"FREE", "PULL", "READY", "POP"}]
         /\ in' = in /\ out' \in Scatters /\ state' \in {"FILLING", "RUNNING", "FLUSH"}
<1>1. (out + 1) % Count \in Scatters
  BY Wrap, PipelineAssumption DEF TypeOK, Scatters
<1>2. slot' = [slot EXCEPT ![out] = "FREE"] /\ in' = in /\ out' \in {out, (out + 1) % Count}
      /\ state' \in {state, "FILLING"}
  BY DEF Popped
<1>3. QED
  BY <1>1, <1>2 DEF TypeOK

\* Every step keeps the types, if it keeps that of the level.
LEMMA StepType ==
  ASSUME TypeOK, DecoderInv, HoldInv, (level \in Levels)', [Next]_vars
  PROVE  TypeOK'
<1> USE PipelineAssumption
<1> USE DEF player, decoder, filter, ring, encoder
<1>1. CASE Decode
  <2>1. given' \in Numbers /\ nsamples' \in 0 .. Samples /\ decoded' \in 0 .. Samples
    <3>1. PICK n \in FrameLens : decoded' = decoded + n /\ decoded + n <= Samples /\ nsamples' = n
      BY <1>1 DEF Decode
    <3>2. QED
      BY <1>1, <3>1, FrameFits DEF TypeOK
  <2>2. QED
    BY <1>1, <2>1 DEF Decode, TypeOK
<1>2. CASE DecodeEnd
  BY <1>2 DEF DecodeEnd, TypeOK
<1>3. CASE Pull
  BY <1>3 DEF Pull, TypeOK
<1>4. CASE PullNull
  <2>1. given' \in Numbers
    BY <1>4 DEF PullNull, TypeOK, Numbers, DecoderInv
  <2>2. QED
    BY <1>4, <2>1 DEF PullNull, TypeOK
<1>5. CASE Fill
  <2>1. mem' \in [Scatters -> [1 .. Size -> Numbers]]
    BY <1>5, PouredType
  <2>2. nsamples' \in 0 .. Samples
    BY <1>5, FillAmount DEF TypeOK
  <2>3. /\ outbuffer' \in Scatters \cup {-1} /\ outbufferlen' \in 0 .. Size - 1
        /\ outbuffer' = -1 => outbufferlen' = 0
    <3>1. /\ Room \in Nat /\ outbufferlen \in Nat /\ outbuffer \in Scatters \cup {-1}
          /\ outbuffer # -1 /\ Size \in Nat \ {0}
      BY <1>5, FillAmount DEF TypeOK, Fill
    <3>2. \/ outbufferlen' = outbufferlen + Room /\ outbuffer' = outbuffer
             /\ outbufferlen + Room < Size
          \/ outbufferlen' = 0 /\ outbuffer' = -1
      BY <1>5 DEF Fill
    <3>3. QED
      BY <3>1, <3>2
  <2>4. /\ slot' \in [Scatters -> {"FREE", "PULL", "READY", "POP"}] /\ in' \in Scatters
        /\ out' = out /\ state' \in {"FILLING", "RUNNING", "FLUSH"}
    <3>1. (in + 1) % Count \in Scatters
      BY Wrap DEF TypeOK, Scatters
    <3>2. QED
      BY <1>5, <3>1 DEF Fill, Push, TypeOK
  <2>5. /\ pcD' \in {"fill", "frame"}
        /\ UNCHANGED <<player, decoded, given, encoder, stale, torn>>
    BY <1>5 DEF Fill
  <2>6. QED
    BY <2>1, <2>2, <2>3, <2>4, <2>5 DEF TypeOK
<1>6. CASE Peer
  BY <1>6 DEF Peer, TypeOK
<1>7. CASE Length
  BY <1>7 DEF Length, TypeOK
<1>8. CASE Encode
  <2>1. hold \in Scatters
    BY <1>8 DEF Encode, HoldInv, TypeOK
  <2>2. mem[hold] \in Seq(Numbers)
    BY <2>1 DEF TypeOK
  <2>3. heard' \in Seq(Numbers)
    BY <1>8, <2>2 DEF Encode, TypeOK
  <2>4. QED
    BY <1>8, <2>3 DEF Encode, TypeOK
<1>9. CASE Pop
  <2>1. hold' = -1 /\ pcE' \in {"peer", "gone"}
    BY <1>9 DEF Pop, Ends
  <2>2. Popped /\ UNCHANGED <<player, decoder, filter, mem, heard, stale, torn>>
    BY <1>9 DEF Pop
  <2>3. QED
    BY <2>1, <2>2, PoppedType DEF TypeOK
<1>18. CASE Refuse
  <2>1. asked' \in BOOLEAN
    BY Zenon, <1>18 DEF Refuse, TypeOK
  <2>2. /\ pcE' = "early"
        /\ UNCHANGED <<coder, calls, phase, entry, decoder, filter, ring, mem, hold, heard,
                       stale, torn>>
    BY <1>18 DEF Refuse
  <2>3. QED
    BY <2>1, <2>2 DEF TypeOK
<1>19. CASE EarlyPop
  <2>1. /\ pcE' = "encode" /\ Popped
        /\ UNCHANGED <<player, decoder, filter, mem, hold, heard, stale, torn>>
    BY <1>19 DEF EarlyPop
  <2>2. QED
    BY <2>1, PoppedType DEF TypeOK
<1>10. CASE AskPlay
  <2>1. asked' = FALSE
    BY <1>10 DEF AskPlay
  <2>2. phase' \in {"stop", "change", "playing", "joinChange", "noEntry", "joinStop"}
    BY <1>10 DEF AskPlay
  <2>3. UNCHANGED <<coder, calls, entry, decoder, filter, ring, mem, encoder, stale, torn>>
    BY <1>10 DEF AskPlay
  <2>4. asked' \in BOOLEAN
    BY <2>1
  <2>5. QED
    BY <2>2, <2>3, <2>4 DEF TypeOK
<1>11. CASE Leave
  <2>1. asked' = FALSE
    BY <1>11 DEF Leave
  <2>2. calls' \in 0 .. MaxCalls
    BY <1>11 DEF Leave, TypeOK
  <2>3. /\ state' = "FLUSH" /\ phase' \in {"joinChange", "joinStop"}
        /\ UNCHANGED <<coder, entry, decoder, filter, slot, in, out, level, mem, encoder,
                       stale, torn>>
    BY <1>11 DEF Leave, Flush
  <2>4. QED
    BY <2>1, <2>2, <2>3 DEF TypeOK
<1>12. CASE Halt
  <2>1. asked' = FALSE
    BY <1>12 DEF Halt
  <2>2. calls' \in 0 .. MaxCalls
    BY <1>12 DEF Halt, TypeOK
  <2>3. /\ state' = "FLUSH" /\ phase' \in {"joinChange", "joinStop"}
        /\ UNCHANGED <<coder, entry, decoder, filter, slot, in, out, level, mem, encoder,
                       stale, torn>>
    BY <1>12 DEF Halt, Flush
  <2>4. QED
    BY <2>1, <2>2, <2>3 DEF TypeOK
<1>13. CASE JoinToChange
  BY <1>13 DEF JoinToChange, TypeOK
<1>14. CASE Change
  <2>1. state' \in {"FILLING", "RUNNING", "FLUSH"}
    BY <1>14 DEF Change, Unpaused, TypeOK
  <2>2. /\ entry' \in 0 .. Entries /\ phase' \in {"playing", "noEntry"}
        /\ pcD' \in {"off", "frame", "fill", "over"}
        /\ decoded' \in 0 .. Samples /\ nsamples' \in 0 .. Samples
    BY <1>14 DEF Change, TypeOK
  <2>3. UNCHANGED <<coder, calls, filter, slot, in, out, level, mem, encoder, stale, torn>>
        /\ asked' = FALSE
    BY <1>14 DEF Change
  <2>4. QED
    BY <2>1, <2>2, <2>3 DEF TypeOK
<1>15. CASE JoinToStop
  <2>1. 0 \in Numbers
    BY Grows DEF Numbers
  <2>2. mem' \in [Scatters -> [1 .. Size -> Numbers]] /\ heard' \in Seq(Numbers) /\ given' \in Numbers
    BY <1>15, <2>1 DEF JoinToStop, Old
  <2>3. slot' \in [Scatters -> {"FREE", "PULL", "READY", "POP"}] /\ 0 \in Scatters
    BY <1>15 DEF JoinToStop, Cleared, Scatters
  <2>4. torn' \in BOOLEAN
    BY <1>15 DEF JoinToStop
  <2>5. QED
    BY <1>15, <2>2, <2>3, <2>4 DEF JoinToStop, TypeOK
<1>16. CASE UNCHANGED vars
  BY SMTT(30), <1>16 DEF vars, TypeOK, Numbers
<1>17. QED
  BY <1>1, <1>2, <1>3, <1>4, <1>5, <1>6, <1>7, <1>8, <1>9, <1>10, <1>11, <1>12,
     <1>13, <1>14, <1>15, <1>16, <1>18, <1>19 DEF Next

\* Every step keeps what is known of the decoder.
LEMMA StepDecoder ==
  ASSUME TypeOK, DecoderInv, [Next]_vars
  PROVE  DecoderInv'
<1>1. ASSUME Peer \/ Length \/ Refuse \/ EarlyPop \/ Encode \/ Pop \/ UNCHANGED vars
      PROVE  UNCHANGED Controls
  BY <1>1 DEF Peer, Length, Refuse, EarlyPop, Encode, Pop, vars, Controls, player, decoder, filter
<1>2. QED
  BY <1>1, KeepsDecoder, DecoderStep, LoopDecoder DEF Next, Decoder


-----------------------------------------------------------------------------
(* The samples *)


\* The numbers that the samples are told by
LEMMA SampleTypes ==
  ASSUME TypeInv
  PROVE  /\ Size \in Nat \ {0} /\ level \in Nat /\ level * Size \in Nat /\ stale \in Nat
         /\ Written \in Nat /\ LostHead \in Nat /\ Base \in Int
         /\ outbufferlen \in Nat /\ outbufferlen < Size /\ Len(heard) \in Nat
<1> USE PipelineAssumption DEF TypeInv
<1>1. given \in Nat /\ nsamples \in Nat /\ nsamples <= given
  BY DEF TypeOK, Numbers, DecoderInv
<1>2. Written \in Nat
  BY <1>1 DEF Written
<1>3. Size \in Nat \ {0} /\ level \in Nat /\ stale \in 0 .. Size - 1
      /\ outbufferlen \in Nat /\ outbufferlen < Size /\ Len(heard) \in Nat
  BY DEF TypeOK, Levels
<1>4. LostHead \in Nat
  BY <1>2, <1>3 DEF LostHead
<1>5. level * Size \in Nat
  BY <1>3, Grows
<1>6. Base \in Int
  BY <1>3 DEF Base
<1>7. QED
  BY <1>2, <1>3, <1>4, <1>5, <1>6

\* Initially there are none.
LEMMA InitSamples == Init => Content
<1> SUFFICES ASSUME Init PROVE Content
  OBVIOUS
<1>1. /\ outbuffer = -1 /\ outbufferlen = 0 /\ level = 0 /\ heard = <<>> /\ stale = 0
      /\ given = 0 /\ nsamples = 0 /\ pcE = "peer"
  BY DEF Init
<1>2. Written = 0 /\ LostHead = 0 /\ Base = 0 /\ ~Astray /\ Len(heard) = 0
  BY <1>1 DEF Written, LostHead, Base, Astray
<1>3. level * Size = 0 /\ 1 .. 0 = {} /\ 0 .. -1 = {}
  BY <1>1, PipelineAssumption
<1>4. QED
  BY <1>1, <1>2, <1>3 DEF Content, LostInv, SampleInv

\* What moves no sample leaves them where they are.
LEMMA KeepsSamples ==
  ASSUME TypeInv, Content, Written' = Written,
         UNCHANGED <<out, level, outbuffer, outbufferlen, mem, heard, stale>>,
         outbuffer # -1 => (slot'[outbuffer] = "PULL" <=> slot[outbuffer] = "PULL"),
         pcE' = "pop" <=> pcE = "pop"
  PROVE  Content'
<1>1. LostHead' = LostHead /\ Base' = Base /\ Astray' = Astray
  BY DEF LostHead, Base, Astray
<1>2. LostInv'
  BY <1>1 DEF Content, LostInv
<1>3. SampleInv'
  BY <1>1 DEF Content, SampleInv, Pos
<1>4. QED
  BY <1>2, <1>3 DEF Content

\* A buffer that is pulled is empty.
LEMMA PullSamples ==
  ASSUME TypeInv, Content, Pull
  PROVE  Content'
<1>1. /\ outbuffer = -1 /\ outbuffer' = in /\ slot' = [slot EXCEPT ![in] = "PULL"]
      /\ outbufferlen = 0 /\ in \in Scatters
      /\ UNCHANGED <<out, level, outbufferlen, mem, heard, stale, given, nsamples, pcE>>
  BY DEF Pull, TypeInv, TypeOK, decoder, encoder
<1>2. ~Astray /\ ~Astray'
  BY <1>1 DEF Astray, TypeInv, TypeOK
<1>3. Written' = Written /\ LostHead' = LostHead /\ Base' = Base
  BY <1>1 DEF Written, LostHead, Base
<1>4. LostInv'
  BY <1>1, <1>2, <1>3 DEF Content, LostInv
<1>5. SampleInv'
  BY <1>1, <1>2, <1>3 DEF Content, SampleInv, Pos
<1>6. QED
  BY <1>4, <1>5 DEF Content

\* What is poured in a buffer that the reset has taken is lost.
LEMMA FillLost ==
  ASSUME TypeInv, Content, Fill, Astray
  PROVE  Content'
<1>1. /\ Room \in 1 .. Size /\ outbufferlen + Room <= Size /\ nsamples' = nsamples - Room
      /\ given' = given
  BY FillAmount DEF Fill, TypeInv
<1>2. PICK r, o, w, s, z \in Nat :
        /\ r = Room /\ o = outbufferlen /\ w = Written /\ s = stale /\ z = Size
        /\ 0 < r /\ o + r <= z /\ s > 0 /\ w < z - s /\ o = s + w
  <2>1. /\ Room \in Nat /\ outbufferlen \in Nat /\ Written \in Nat /\ stale \in Nat
        /\ Size \in Nat /\ 0 < Room
    BY <1>1, SampleTypes
  <2>2. stale > 0 /\ Written < Size - stale /\ outbufferlen = stale + Written
    BY DEF Content, LostInv
  <2>3. QED
    BY <1>1, <2>1, <2>2
<1>3. Written' = w + r
  BY <1>1, <1>2 DEF Written, TypeInv, TypeOK, Numbers
<1>4. slot[in] # "PULL"
  BY DEF Astray, TypeInv, Owners, PullInv, TypeOK
<1>5. /\ level = 0 /\ heard = <<>> /\ pcE # "pop"
      /\ UNCHANGED <<ring, heard, pcE, stale>>
  BY <1>4 DEF Content, LostInv, Fill, Push, encoder
<1>6. LostHead' = IF w + r < z - s THEN w + r ELSE z - s
  BY <1>2, <1>3, <1>5 DEF LostHead
<1>7. /\ level' * Size = 0 /\ level' = 0 /\ Len(heard') = 0
      /\ Base' = 0 /\ 0 .. level' - 1 = {} /\ 1 .. Len(heard') = {}
  BY <1>2, <1>5 DEF Base, ring
<1>8. CASE o + r < z
  <2>1. outbufferlen' = o + r /\ outbuffer' = outbuffer
    BY <1>2, <1>8 DEF Fill
  <2>2. Astray' /\ LostHead' = w + r /\ w + r < z - s
    BY <1>2, <1>5, <1>6, <1>8, <2>1 DEF Astray, ring
  <2>3. LostInv'
    BY <1>2, <1>3, <1>5, <1>7, <2>1, <2>2 DEF LostInv, ring
  <2>4. SampleInv'
    BY <1>2, <1>3, <1>7, <2>2 DEF SampleInv
  <2>5. QED
    BY <2>3, <2>4 DEF Content
<1>9. CASE o + r = z
  <2>1. outbufferlen' = 0 /\ outbuffer' = -1
    BY <1>2, <1>9 DEF Fill
  <2>2. ~Astray' /\ LostHead' = w + r /\ ~(w + r < z - s)
    BY <1>2, <1>6, <1>9, <2>1 DEF Astray
  <2>3. LostInv'
    BY <1>2, <1>3, <1>5, <2>2 DEF LostInv
  <2>4. SampleInv'
    BY <1>2, <1>3, <1>7, <2>1, <2>2 DEF SampleInv
  <2>5. QED
    BY <2>3, <2>4 DEF Content
<1>10. QED
  BY <1>2, <1>8, <1>9

\* What is poured in the buffer that the filter has follows what is there.
LEMMA FillKept ==
  ASSUME TypeInv, Content, Queue, Fill, ~Astray
  PROVE  Content'
<1> USE PipelineAssumption
<1> DEFINE Start == LostHead + Base + level * Size
<1>1. /\ Room \in 1 .. Size /\ outbufferlen + Room <= Size /\ nsamples' = nsamples - Room
      /\ given' = given
  BY FillAmount DEF Fill, TypeInv
<1>2. /\ Size \in Nat \ {0} /\ level \in Nat /\ level * Size \in Nat /\ stale \in Nat
      /\ Written \in Nat /\ LostHead \in Nat /\ Base \in Int
      /\ outbufferlen \in Nat /\ outbufferlen < Size /\ Len(heard) \in Nat
  BY SampleTypes
<1>3. PICK w, o, r, z, f \in Int :
        /\ w = Written /\ o = outbufferlen /\ r = Room /\ z = Size /\ f = Start
        /\ 0 < r /\ 0 <= o /\ o + r <= z
  BY <1>1, <1>2
<1>4. slot[outbuffer] = "PULL" /\ outbuffer = in /\ in \in Scatters
  BY DEF Fill, Astray, TypeInv, TypeOK, Owners, PullInv
<1>5. level \in 0 .. Count - 1 /\ in = Pos(level)
  <2>1. level <= Count /\ in = Pos(level)
    BY DEF Queue
  <2>2. level # Count
    <3> SUFFICES ASSUME level = Count PROVE FALSE
      OBVIOUS
    <3>1. Pos(Count) = Pos(0) /\ 0 \in 0 .. Count - 1
      BY Positions DEF TypeInv
    <3>2. slot[Pos(0)] \in Full
      BY <3>1 DEF Queue
    <3>3. QED
      BY <1>4, <2>1, <3>1, <3>2 DEF Full
  <2>3. QED
    BY <1>2, <2>1, <2>2
<1>6. w = f + o
  <2>1. Written - LostHead = Base + level * Size + outbufferlen
    BY DEF Content, SampleInv
  <2>2. QED
    BY <1>2, <1>3, <2>1
<1>7. Written' = w + r
  BY <1>1, <1>3 DEF Written, TypeInv, TypeOK, Numbers
<1>8. UNCHANGED <<heard, pcE, stale, out>>
  BY DEF Fill, Push, encoder, ring
<1>9. LostHead' = LostHead /\ Base' = Base
  <2>1. stale = 0 \/ Written >= Size - stale
    BY DEF Content, LostInv
  <2>2. Written' >= Written
    BY <1>2, <1>3, <1>7
  <2>3. LostHead' = LostHead
    BY <1>2, <1>3, <1>7, <1>8, <2>1, <2>2 DEF LostHead
  <2>4. QED
    BY <1>8, <2>3 DEF Base
<1>10. \A p \in 1 .. o + r : mem'[in][p] = f + p
  <2> SUFFICES ASSUME NEW p \in 1 .. o + r PROVE mem'[in][p] = f + p
    OBVIOUS
  <2>1. p \in 1 .. Size
    BY <1>2, <1>3
  <2>2. mem'[in][p] = IF p \in outbufferlen + 1 .. outbufferlen + Room
                      THEN Written + (p - outbufferlen) ELSE mem[in][p]
    BY <1>4, <2>1, PouredType DEF TypeInv
  <2>3. p \in 1 .. outbufferlen => mem[in][p] = f + p
    BY <1>3, <1>4 DEF Content, SampleInv, Fill
  <2>4. CASE p \in 1 .. o
    BY <1>3, <2>2, <2>3, <2>4
  <2>5. CASE p \notin 1 .. o
    <3>1. p \in outbufferlen + 1 .. outbufferlen + Room
      BY <1>3, <2>5
    <3>2. mem'[in][p] = w + (p - o)
      BY <1>3, <2>2, <3>1
    <3>3. QED
      BY <1>3, <1>6, <3>2
  <2>6. QED
    BY <2>4, <2>5
<1>11. \A i \in 0 .. level - 1 : \A p \in 1 .. Size :
         Pos(i)' = Pos(i) /\ mem'[Pos(i)][p] = LostHead + Base + i * Size + p
  <2> SUFFICES ASSUME NEW i \in 0 .. level - 1, NEW p \in 1 .. Size
               PROVE  Pos(i)' = Pos(i) /\ mem'[Pos(i)][p] = LostHead + Base + i * Size + p
    OBVIOUS
  <2>1. i \in 0 .. Count - 1 /\ Pos(i) \in Scatters
    BY <1>5, Positions DEF TypeInv
  <2>2. Pos(i) # outbuffer
    BY <1>4, <1>5, <2>1, Positions DEF TypeInv
  <2>3. mem'[Pos(i)][p] = mem[Pos(i)][p]
    BY <2>1, <2>2, PouredType DEF TypeInv
  <2>4. QED
    BY <1>8, <2>3 DEF Content, SampleInv, Pos
<1>12. \A n \in 1 .. Len(heard) : heard[n] = LostHead + n
  BY DEF Content, SampleInv
<1>13. CASE o + r < z
  <2>1. outbufferlen' = o + r /\ outbuffer' = outbuffer /\ level' = level /\ slot' = slot
    BY <1>3, <1>13 DEF Fill, ring
  <2>2. ~Astray'
    BY <1>4, <2>1 DEF Astray
  <2>3. Written' - LostHead = Base + level * Size + (o + r)
    BY <1>2, <1>3, <1>6, <1>7
  <2>4. LostInv'
    BY <1>2, <1>3, <1>7, <1>8, <2>2 DEF LostInv, Content
  <2>5. SampleInv'
    BY <1>3, <1>4, <1>8, <1>9, <1>10, <1>11, <1>12, <2>1, <2>2, <2>3 DEF SampleInv
  <2>6. QED
    BY <2>4, <2>5 DEF Content
<1>14. CASE o + r = z
  <2>1. outbufferlen' = 0 /\ outbuffer' = -1 /\ level' = level + 1
    BY <1>3, <1>4, <1>14 DEF Fill, Push
  <2>2. ~Astray'
    BY <2>1 DEF Astray
  <2>3. PICK ls, ms \in Int : ls = level * Size /\ ms = (level + 1) * Size /\ ms = ls + z
    BY <1>2, <1>3, OneMore
  <2>4. Written' - LostHead = Base + ms
    BY <1>2, <1>3, <1>6, <1>7, <1>14, <2>3
  <2>5. LostInv'
    BY <1>2, <1>3, <1>7, <1>8, <2>2 DEF LostInv, Content
  <2>6. ASSUME NEW i \in 0 .. level, NEW p \in 1 .. Size
        PROVE  Pos(i)' = Pos(i) /\ mem'[Pos(i)][p] = LostHead + Base + i * Size + p
    <3>1. CASE i = level
      BY <1>2, <1>3, <1>5, <1>8, <1>10, <1>14, <3>1 DEF Pos
    <3>2. CASE i # level
      BY <1>2, <1>11, <3>2
    <3>3. QED
      BY <3>1, <3>2
  <2>7. 0 .. level' - 1 = 0 .. level /\ level' * Size = ms
    BY <1>2, <2>1, <2>3
  <2>8. Written' - LostHead' = Base' + level' * Size + outbufferlen'
    BY <1>2, <1>9, <2>1, <2>3, <2>4, <2>7
  <2>9. \A i \in 0 .. level' - 1 : \A p \in 1 .. Size :
          mem'[Pos(i)'][p] = LostHead' + Base' + i * Size + p
    BY <1>9, <2>6, <2>7
  <2>10. \A n \in 1 .. Len(heard') : heard'[n] = LostHead' + n
    BY <1>8, <1>9, <1>12
  <2>11. SampleInv'
    BY <2>1, <2>2, <2>8, <2>9, <2>10 DEF SampleInv
  <2>12. QED
    BY <2>5, <2>11 DEF Content
<1>15. QED
  BY <1>3, <1>13, <1>14

\* The encoder is given the samples of the first scatter.
LEMMA EncodeSamples ==
  ASSUME TypeInv, Content, Queue, Taken, Encode
  PROVE  Content'
<1> USE PipelineAssumption
<1>1. /\ pcE = "encode" /\ pcE' = "pop" /\ heard' = heard \o mem[out]
      /\ UNCHANGED <<out, slot, level, outbuffer, outbufferlen, mem, stale, given, nsamples>>
  BY DEF Encode, Taken, decoder, filter, ring
<1>2. /\ Size \in Nat \ {0} /\ level \in Nat /\ LostHead \in Nat /\ Len(heard) \in Nat
  BY SampleTypes
<1>3. mem[out] \in Seq(Numbers) /\ Len(mem[out]) = Size /\ heard \in Seq(Numbers)
  BY <1>2 DEF TypeInv, TypeOK
<1>4. /\ Len(heard') = Len(heard) + Size
      /\ \A n \in 1 .. Len(heard) : heard'[n] = heard[n]
      /\ \A p \in 1 .. Size : heard'[Len(heard) + p] = mem[out][p]
  <2>1. PICK h, t \in Seq(Numbers) : h = heard /\ t = mem[out]
    BY <1>3
  <2>2. /\ Len(h \o t) = Len(h) + Len(t)
        /\ \A n \in 1 .. Len(h) : (h \o t)[n] = h[n]
        /\ \A p \in 1 .. Len(t) : (h \o t)[Len(h) + p] = t[p]
    BY <2>1
  <2>3. heard' = h \o t
    BY <1>1, <2>1
  <2>4. Len(t) = Size
    BY <1>3, <2>1
  <2>5. QED
    BY <2>1, <2>2, <2>3, <2>4
<1>5. Base = Len(heard) /\ Base' = Base /\ LostHead' = LostHead /\ Written' = Written
      /\ Astray' = Astray
  BY <1>1, <1>2, <1>4 DEF Base, LostHead, Written, Astray
<1>6. level > 0 /\ out = Pos(0)
  <2>1. Pos(0) = out /\ 0 \in 0 .. Count - 1 /\ slot[out] \in Full
    BY Positions DEF TypeInv, Taken, Full
  <2>2. QED
    BY <2>1 DEF Queue
<1>7. \A p \in 1 .. Size : mem[out][p] = LostHead + Base + p
  <2> SUFFICES ASSUME NEW p \in 1 .. Size PROVE mem[out][p] = LostHead + Base + p
    OBVIOUS
  <2>1. 0 \in 0 .. level - 1 /\ 0 * Size = 0
    BY <1>2, <1>6
  <2>2. mem[Pos(0)][p] = LostHead + Base + 0 * Size + p
    BY <2>1 DEF Content, SampleInv
  <2>3. QED
    BY <1>2, <1>5, <1>6, <2>1, <2>2
<1>8. \A n \in 1 .. Len(heard') : heard'[n] = LostHead' + n
  <2> SUFFICES ASSUME NEW n \in 1 .. Len(heard) + Size PROVE heard'[n] = LostHead + n
    BY <1>4, <1>5
  <2>1. CASE n \in 1 .. Len(heard)
    BY <1>4, <2>1 DEF Content, SampleInv
  <2>2. CASE n \notin 1 .. Len(heard)
    <3>1. PICK p \in 1 .. Size : n = Len(heard) + p
      <4>1. n - Len(heard) \in 1 .. Size /\ n = Len(heard) + (n - Len(heard))
        BY <1>2, <2>2
      <4>2. QED
        BY <4>1
    <3>2. heard'[n] = mem[out][p]
      BY <1>4, <3>1
    <3>3. mem[out][p] = LostHead + Len(heard) + p
      BY <1>5, <1>7, <3>1
    <3>4. LostHead + Len(heard) + p = LostHead + n
      BY <1>2, <3>1
    <3>5. QED
      BY <3>2, <3>3, <3>4
  <2>3. QED
    BY <2>1, <2>2
<1>9. ~Astray
  BY <1>6 DEF Content, LostInv
<1>10. LostInv'
  BY <1>1, <1>5, <1>9 DEF Content, LostInv
<1>11. SampleInv'
  BY <1>1, <1>5, <1>8 DEF Content, SampleInv, Pos
<1>12. QED
  BY <1>10, <1>11 DEF Content

\* The samples of the scatter that is popped are those of the last Size heard.
LEMMA PopSamples ==
  ASSUME TypeInv, Content, Queue, Taken, Pop, torn' = torn
  PROVE  Content'
<1> USE PipelineAssumption
<1>1. /\ pcE = "pop" /\ pcE' # "pop" /\ out' = Pos(1) /\ level' = level - 1
      /\ slot' = [slot EXCEPT ![out] = "FREE"]
      /\ UNCHANGED <<outbuffer, outbufferlen, mem, heard, stale, given, nsamples>>
  BY DEF Pop, Popped, Ends, Taken, Pos, decoder, filter
<1>2. /\ Size \in Nat \ {0} /\ level \in Nat /\ LostHead \in Nat /\ Len(heard) \in Nat
      /\ Written \in Nat /\ Base \in Int /\ outbufferlen \in Nat
  BY SampleTypes
<1>3. level > 0 /\ level <= Count
  <2>1. Pos(0) = out /\ 0 \in 0 .. Count - 1 /\ slot[out] \in Full
    BY Positions DEF TypeInv, Taken, Full
  <2>2. QED
    BY <2>1 DEF Queue
<1>4. Base' = Base + Size /\ LostHead' = LostHead /\ Written' = Written
  BY <1>1, <1>2 DEF Base, LostHead, Written
<1>5. ~Astray /\ ~Astray'
  <2>1. ~Astray
    BY <1>3 DEF Content, LostInv
  <2>2. outbuffer # -1 => slot[outbuffer] = "PULL" /\ outbuffer # out
    BY <2>1 DEF Astray, Taken
  <2>3. QED
    BY <1>1, <2>1, <2>2 DEF Astray, TypeInv, TypeOK
<1>6. PICK ls, ks \in Int : ls = level * Size /\ ks = (level - 1) * Size /\ ks + Size = ls
  BY <1>2, OneMore
<1>7. level' * Size = ks
  BY <1>1, <1>6
<1>8. Written' - LostHead' = Base' + level' * Size + outbufferlen'
  <2>1. Written - LostHead = Base + ls + outbufferlen
    BY <1>5, <1>6 DEF Content, SampleInv
  <2>2. QED
    BY <1>1, <1>2, <1>4, <1>6, <1>7, <2>1
<1>9. \A i \in 0 .. level' - 1 : \A p \in 1 .. Size :
         mem'[Pos(i)'][p] = LostHead' + Base' + i * Size + p
  <2> SUFFICES ASSUME NEW i \in 0 .. level - 2, NEW p \in 1 .. Size
               PROVE  mem[Pos(i)'][p] = LostHead + (Base + Size) + i * Size + p
    BY <1>1, <1>2, <1>4
  <2>1. Pos(i)' = Pos(i + 1) /\ i + 1 \in 0 .. level - 1
    BY <1>1, <1>2, <1>3, NextPositions DEF TypeInv
  <2>2. mem[Pos(i + 1)][p] = LostHead + Base + (i + 1) * Size + p
    BY <2>1 DEF Content, SampleInv
  <2>3. PICK is \in Int : is = i * Size /\ (i + 1) * Size = is + Size
    BY <1>2, OneMore
  <2>4. QED
    BY <1>2, <2>1, <2>2, <2>3
<1>10. outbuffer' # -1 =>
         \A p \in 1 .. outbufferlen' : mem'[outbuffer'][p] = LostHead' + Base' + level' * Size + p
  <2> SUFFICES ASSUME outbuffer # -1, NEW p \in 1 .. outbufferlen
               PROVE  mem[outbuffer][p] = LostHead + (Base + Size) + ks + p
    BY <1>1, <1>4, <1>7
  <2>1. mem[outbuffer][p] = LostHead + Base + level * Size + p
    BY <1>5 DEF Content, SampleInv
  <2>2. QED
    BY <1>2, <1>6, <2>1
<1>11. LostInv'
  BY <1>1, <1>4, <1>5 DEF Content, LostInv
<1>12. \A n \in 1 .. Len(heard') : heard'[n] = LostHead' + n
  BY <1>1, <1>4 DEF Content, SampleInv
<1>13. SampleInv'
  BY <1>5, <1>8, <1>9, <1>10, <1>12 DEF SampleInv
<1>14. QED
  BY <1>11, <1>13 DEF Content

\* After a reset nothing was heard, and the filter may still have a buffer.
LEMMA StopSamples ==
  ASSUME TypeInv, JoinToStop, ~torn'
  PROVE  Content'
<1> USE PipelineAssumption
<1>1. /\ pcD \in {"off", "over"} /\ slot' = Cleared /\ level' = 0 /\ heard' = <<>> /\ given' = 0
      /\ stale' = outbufferlen /\ UNCHANGED <<nsamples, outbuffer, outbufferlen, pcE, hold>>
      /\ hold = -1
  BY DEF JoinToStop, Joined
<1>2. nsamples = 0 /\ (outbuffer # -1 => outbufferlen > 0) /\ (outbuffer = -1 => outbufferlen = 0)
  BY <1>1 DEF TypeInv, TypeOK, DecoderInv
<1>3. pcE # "pop"
  BY <1>1 DEF TypeInv, Owners, PopInv, HoldInv
<1>4. /\ Size \in Nat \ {0} /\ outbufferlen \in Nat /\ outbufferlen < Size
  BY SampleTypes
<1>5. Written' = 0 /\ LostHead' = 0 /\ Len(heard') = 0 /\ Base' = 0
  BY <1>1, <1>2, <1>3, <1>4 DEF Written, LostHead, Base
<1>6. Astray' <=> outbuffer # -1
  BY <1>1 DEF Astray, Cleared, TypeInv, TypeOK
<1>7. level' * Size = 0 /\ 0 .. level' - 1 = {} /\ 1 .. Len(heard') = {}
  BY <1>1, <1>4, <1>5
<1>8. LostInv'
  BY <1>1, <1>2, <1>3, <1>4, <1>5, <1>6 DEF LostInv
<1>9. SampleInv'
  <2>1. (Written - LostHead = Base + level * Size + IF Astray THEN 0 ELSE outbufferlen)'
    <3>1. (IF Astray THEN 0 ELSE outbufferlen)' = 0
      BY <1>1, <1>2, <1>6
    <3>2. QED
      BY <1>5, <1>7, <3>1
  <2>2. (\A n \in 1 .. Len(heard) : heard[n] = LostHead + n)'
    BY <1>7
  <2>3. (\A i \in 0 .. level - 1 : \A p \in 1 .. Size :
           mem[Pos(i)][p] = LostHead + Base + i * Size + p)'
    BY <1>7
  <2>4. (outbuffer # -1 => Astray)'
    BY <1>1, <1>6
  <2>5. QED
    BY <2>1, <2>2, <2>3, <2>4 DEF SampleInv
<1>10. QED
  BY <1>8, <1>9 DEF Content

\* Every step keeps the samples, as long as the resets find the encoder outside.
LEMMA StepSamples ==
  ASSUME TypeInv, ~torn => Content, [Next]_vars, ~torn'
  PROVE  Content'
<1> ~Refuse /\ ~EarlyPop
  BY DEF Refuse, EarlyPop, TypeInv, Owners, PopInv, HoldInv
<1>1. CASE JoinToStop
  BY <1>1, StopSamples
<1> DEFINE Apart ==
             /\ Written' = Written
             /\ UNCHANGED <<slot, out, level, outbuffer, outbufferlen, mem, heard, stale, torn>>
             /\ pcE' = "pop" <=> pcE = "pop"
<1>2. CASE Apart
  BY <1>2, KeepsSamples
<1>3. CASE Decode
  <2>1. PICK n \in FrameLens : given' = given + n /\ nsamples' = n /\ n \in Nat
    BY <1>3, PipelineAssumption DEF Decode
  <2>2. nsamples = 0 /\ given \in Nat
    BY <1>3 DEF Decode, TypeInv, DecoderInv, TypeOK, Numbers
  <2>3. Written' = Written
    BY <2>1, <2>2 DEF Written
  <2>4. Apart
    BY <1>3, <2>3 DEF Decode, ring, encoder
  <2>5. QED
    BY <1>2, <2>4
<1>4. CASE PullNull
  <2>1. given \in Nat /\ nsamples \in Nat
    BY DEF TypeInv, TypeOK, Numbers
  <2>2. Written' = Written
    BY <1>4, <2>1 DEF PullNull, Written
  <2>3. Apart
    BY <1>4, <2>2 DEF PullNull, ring, encoder
  <2>4. QED
    BY <1>2, <2>3
<1>5. CASE Change
  <2>1. nsamples = 0 /\ nsamples' = 0 /\ given' = given
    BY <1>5 DEF Change, TypeInv, TypeOK, DecoderInv, decoder, filter
  <2>2. Apart
    BY <1>5, <2>1 DEF Change, Written, encoder, filter
  <2>3. QED
    BY <1>2, <2>2
<1>6. ASSUME DecodeEnd \/ Length \/ AskPlay \/ Leave \/ Halt \/ JoinToChange \/ UNCHANGED vars
      PROVE  Apart
  BY <1>6 DEF DecodeEnd, Length, AskPlay, Leave, Halt, JoinToChange, vars, Written,
              decoder, filter, ring, encoder
<1>7. ASSUME ~torn PROVE Queue /\ Content /\ ~Strayed
  BY <1>7 DEF TypeInv, Owners, RingInv, Strayed
<1>8. CASE Pull
  BY <1>7, <1>8, PullSamples DEF Pull
<1>9. CASE Fill
  BY <1>7, <1>9, FillLost, FillKept DEF Fill
<1>10. CASE Peer
  <2>1. /\ slot[out] = "READY" /\ slot' = [slot EXCEPT ![out] = "POP"] /\ out \in Scatters
        /\ UNCHANGED <<out, level, outbuffer, outbufferlen, mem, heard, stale, torn, given, nsamples>>
        /\ pcE # "pop" /\ pcE' # "pop"
    BY <1>10 DEF Peer, decoder, filter, TypeInv, TypeOK
  <2>2. outbuffer # -1 => (slot'[outbuffer] = "PULL" <=> slot[outbuffer] = "PULL")
    BY <2>1 DEF TypeInv, TypeOK
  <2>3. Written' = Written
    BY <2>1 DEF Written
  <2>4. QED
    BY <1>7, <2>1, <2>2, <2>3, KeepsSamples
<1>11. CASE Encode
  BY <1>7, <1>11, EncodeSamples DEF Encode, TypeInv, Owners, RingInv
<1>12. CASE Pop
  BY <1>7, <1>12, PopSamples DEF Pop, TypeInv, Owners, RingInv
<1>13. QED
  BY <1>1, <1>2, <1>3, <1>4, <1>5, <1>6, <1>8, <1>9, <1>10, <1>11, <1>12 DEF Next

-----------------------------------------------------------------------------
(* The sequence of what was heard and what waits *)

\* The numbers of n samples after the c-th
Run(c, n) == [q \in 1 .. n |-> c + q]

\* A function on the first numbers is a sequence.
LEMMA IsSeq ==
  ASSUME NEW S, NEW n \in Nat, NEW f,
         f = [i \in 1 .. n |-> f[i]], \A i \in 1 .. n : f[i] \in S
  PROVE  f \in Seq(S)
  OBVIOUS

\* A run is a sequence of numbers.
LEMMA RunType ==
  ASSUME NEW c \in Int, NEW n \in Nat
  PROVE  Run(c, n) \in Seq(Int) /\ Len(Run(c, n)) = n /\ \A q \in 1 .. n : Run(c, n)[q] = c + q
<1>1. Run(c, n) \in Seq(Int)
  <2>1. \A q \in 1 .. n : Run(c, n)[q] \in Int
    BY DEF Run
  <2>2. Run(c, n) = [i \in 1 .. n |-> Run(c, n)[i]]
    BY DEF Run
  <2>3. QED
    BY <2>1, <2>2, IsSeq
<1>2. QED
  BY <1>1 DEF Run

\* Two sequences are as long together as one and the other.
LEMMA Concatenated == ASSUME NEW S, NEW r \in Seq(S), NEW t \in Seq(S) PROVE Len(r \o t) = Len(r) + Len(t)
  OBVIOUS

\* What follows a run makes it longer.
LEMMA RunJoin ==
  ASSUME NEW c \in Int, NEW a \in Nat, NEW b \in Nat, NEW t \in Seq(Int), Len(t) = b,
         \A p \in 1 .. b : t[p] = c + a + p
  PROVE  Run(c, a) \o t = Run(c, a + b)
<1>1. Run(c, a) \in Seq(Int) /\ Len(Run(c, a)) = a /\ \A q \in 1 .. a : Run(c, a)[q] = c + q
  BY RunType
<1>2. PICK r \in Seq(Int) : r = Run(c, a)
  BY <1>1
<1>3. PICK x \in Seq(Int) : x = r \o t
  <2>1. r \o t \in Seq(Int)
    OBVIOUS
  <2>2. QED
    BY <2>1
<1>4. Len(x) = a + b
  <2>1. Len(r \o t) = Len(r) + Len(t)
    BY Concatenated
  <2>2. QED
    BY <1>1, <1>2, <1>3, <2>1
<1>5. ASSUME NEW q \in 1 .. a + b PROVE x[q] = c + q
  <2>1. CASE q \in 1 .. a
    BY <1>1, <1>2, <1>3, <2>1
  <2>2. CASE q \notin 1 .. a
    <3>1. q - a \in 1 .. b /\ x[q] = t[q - a]
      BY <1>1, <1>2, <1>3, <2>2
    <3>2. QED
      BY <3>1
  <2>3. QED
    BY <2>1, <2>2
<1>6. x = [q \in 1 .. a + b |-> x[q]]
  BY <1>4
<1>7. QED
  BY <1>2, <1>3, <1>5, <1>6 DEF Run

\* Two runs, the second of which goes on from the first, are one.
LEMMA RunsJoin ==
  ASSUME NEW c \in Int, NEW a \in Nat, NEW b \in Nat
  PROVE  Run(c, a) \o Run(c + a, b) = Run(c, a + b)
<1>1. c + a \in Int
  OBVIOUS
<1>2. PICK t \in Seq(Int) : t = Run(c + a, b) /\ Len(t) = b /\ \A p \in 1 .. b : t[p] = c + a + p
  BY <1>1, RunType
<1>3. Run(c, a) \o t = Run(c, a + b)
  BY <1>2, RunJoin
<1>4. QED
  BY <1>2, <1>3

\* A set of numbers that is not empty has a least one.
LEMMA Least ==
  ASSUME NEW S \in SUBSET Nat, S # {}
  PROVE  \E n \in S : \A m \in S : n <= m
<1>1. IsWellFoundedOn(OpToRel(<, Nat), Nat)
  BY NatLessThanWellFounded, Zenon
<1>2. PICK n \in S : \A m \in S : <<m, n>> \notin OpToRel(<, Nat)
  BY <1>1, WFMin, Zenon
<1>3. ASSUME NEW m \in S PROVE n <= m
  <2>1. <<m, n>> \notin {ss \in Nat \X Nat : ss[1] < ss[2]}
    BY <1>2, Zenon DEF OpToRel
  <2>2. QED
    BY <2>1
<1>4. QED
  BY <1>3

\* A set that holds 0, and the number after each one that it holds, holds all.
LEMMA Induct ==
  ASSUME NEW S, 0 \in S, \A n \in Nat : n \in S => n + 1 \in S
  PROVE  Nat \subseteq S
<1> SUFFICES ASSUME Nat \ S # {} PROVE FALSE
  OBVIOUS
<1>1. PICK n \in Nat \ S : \A m \in Nat \ S : n <= m
  BY Least, Nat \ S \in SUBSET Nat
<1>2. n - 1 \in Nat /\ n - 1 \in S
  BY <1>1
<1>3. QED
  BY <1>2

\* Pieces of l numbers that go on one from the other are, put together, a run.
LEMMA FlattenRun ==
  ASSUME NEW c \in Int, NEW l \in Nat, NEW n \in Nat,
         NEW s \in Seq(Seq(Int)), Len(s) = n,
         \A i \in 1 .. n : Len(s[i]) = l /\ \A p \in 1 .. l : s[i][p] = c + (i - 1) * l + p
  PROVE  FlattenSeq(s) = Run(c, n * l)
<1>1. CASE n = 0
  <2>1. s = [q \in 1 .. 0 |-> c + q]
    BY <1>1
  <2>2. FlattenSeq(s) = s /\ n * l = 0
    BY <1>1 DEF FlattenSeq
  <2>3. QED
    BY <2>1, <2>2 DEF Run
<1>2. CASE n # 0
  <2> DEFINE Equation(f) == f = [i \in 1 .. Len(s) |-> IF i = 1 THEN s[i] ELSE f[i - 1] \o s[i]]
             flatten == CHOOSE f : Equation(f)
             runs == [i \in 1 .. Len(s) |-> Run(c, i * l)]
  <2>1. FlattenSeq(s) = flatten[n]
    BY <1>2 DEF FlattenSeq
  <2>2. ASSUME NEW i \in 1 .. n
        PROVE  Run(c, i * l) = IF i = 1 THEN s[i] ELSE Run(c, (i - 1) * l) \o s[i]
    <3>1. PICK a \in Nat : a = (i - 1) * l /\ a + l = i * l
      BY Grows, OneMore, i - 1 \in Nat
    <3>2. PICK t \in Seq(Int) : t = s[i] /\ Len(t) = l /\ \A p \in 1 .. l : t[p] = c + a + p
      BY <3>1
    <3>3. Run(c, a) \o t = Run(c, a + l)
      BY <3>2, RunJoin
    <3>4. CASE i = 1
      <4>1. a = 0
        BY <3>1, <3>4
      <4>2. t = [q \in 1 .. l |-> c + q]
        BY <3>2, <4>1
      <4>3. i * l = l
        BY <3>4
      <4>4. QED
        BY <3>2, <3>4, <4>2, <4>3 DEF Run
    <3>5. QED
      BY <3>1, <3>2, <3>3, <3>4
  <2>3. Equation(runs)
    <3>1. \A i \in 1 .. Len(s) : i # 1 => i - 1 \in 1 .. Len(s)
      OBVIOUS
    <3>2. \A i \in 1 .. Len(s) : i # 1 => runs[i - 1] = Run(c, (i - 1) * l)
      BY <3>1
    <3>3. \A i \in 1 .. Len(s) : Run(c, i * l) = IF i = 1 THEN s[i] ELSE runs[i - 1] \o s[i]
      BY <2>2, <3>2
    <3>4. QED
      BY <3>3
  <2>4. Equation(flatten)
    <3>1. \E f : Equation(f)
      BY <2>3
    <3> HIDE DEF Equation
    <3>2. QED
      BY <3>1
  <2> HIDE DEF flatten
  <2> DEFINE S == {m \in Nat : m + 1 <= n => flatten[m + 1] = Run(c, (m + 1) * l)}
  <2>5. 0 \in S
    <3>1. 1 \in 1 .. n /\ 0 + 1 = 1
      BY <1>2
    <3>2. flatten[1] = s[1]
      BY <2>4, <3>1
    <3>3. Run(c, 1 * l) = s[1]
      BY <2>2, <3>1
    <3>4. QED
      BY <3>1, <3>2, <3>3
  <2>6. ASSUME NEW m \in Nat, m \in S PROVE m + 1 \in S
    <3> SUFFICES ASSUME m + 2 <= n PROVE flatten[m + 2] = Run(c, (m + 2) * l)
      <4>1. m + 1 + 1 = m + 2 /\ m + 1 \in Nat
        OBVIOUS
      <4>2. QED
        BY <4>1, Zenon
    <3>1. m + 2 \in 1 .. n /\ m + 2 # 1 /\ m + 2 - 1 = m + 1 /\ m + 1 <= n
      OBVIOUS
    <3>2. PICK k \in 1 .. n : k = m + 2 /\ k # 1 /\ k - 1 = m + 1
      BY <3>1
    <3>3. flatten[k] = flatten[k - 1] \o s[k]
      BY <2>4, <3>2
    <3>4. flatten[m + 1] = Run(c, (m + 1) * l)
      BY <2>6, <3>1
    <3>5. Run(c, k * l) = Run(c, (k - 1) * l) \o s[k]
      BY <2>2, <3>2
    <3>6. QED
      BY <3>2, <3>3, <3>4, <3>5, Zenon
  <2>7. n - 1 \in S
    <3> HIDE DEF S
    <3>1. Nat \subseteq S
      BY <2>5, <2>6, Induct
    <3>2. QED
      BY <1>2, <3>1, n - 1 \in Nat
  <2>8. flatten[n] = Run(c, n * l)
    BY <1>2, <2>7, n - 1 + 1 = n
  <2>9. QED
    BY <2>1, <2>8
<1>3. QED
  BY <1>1, <1>2

\* What the encoder was given is a run of samples.
LEMMA HeardRun ==
  ASSUME TypeInv, Content
  PROVE  heard = Run(LostHead, Len(heard))
<1>1. heard \in Seq(Numbers) /\ \A n \in 1 .. Len(heard) : heard[n] = LostHead + n
  BY DEF TypeInv, TypeOK, Content, SampleInv
<1>2. heard = [n \in 1 .. Len(heard) |-> heard[n]]
  BY <1>1
<1>3. QED
  BY <1>1, <1>2 DEF Run

\* The samples in one scatter are a sequence.
LEMMA ScatterType ==
  ASSUME TypeOK, NEW s \in Scatters
  PROVE  mem[s] \in Seq(Int) /\ Len(mem[s]) = Size
<1>1. mem[s] \in [1 .. Size -> Numbers] /\ Size \in Nat
  BY PipelineAssumption DEF TypeOK
<1>2. PICK t \in [1 .. Size -> Numbers] : t = mem[s]
  BY <1>1
<1>3. \A i \in 1 .. Size : t[i] \in Int
  BY DEF Numbers
<1>4. t = [i \in 1 .. Size |-> t[i]]
  OBVIOUS
<1>5. t \in Seq(Int)
  BY <1>1, <1>3, <1>4, IsSeq
<1>6. Len(t) = Size
  BY <1>1, <1>4, <1>5
<1>7. QED
  BY <1>2, <1>5, <1>6

Skip == IF pcE = "pop" THEN 1 ELSE 0

\* The scatters that wait hold the run that goes on from what was heard.
LEMMA WaitingRun ==
  ASSUME TypeInv, Content, ~torn
  PROVE  /\ Skip \in {0, 1} /\ Skip <= level
         /\ Waiting = Run(LostHead + Len(heard), (level - Skip) * Size)
<1> USE PipelineAssumption
<1>1. /\ Size \in Nat \ {0} /\ level \in Nat /\ LostHead \in Nat /\ Len(heard) \in Nat
  BY SampleTypes
<1>2. Queue /\ Count \in Nat \ {0}
  BY DEF TypeInv, Owners, RingInv
<1>3. Skip \in {0, 1} /\ Skip <= level
  <2>1. CASE pcE = "pop"
    <3>1. Taken
      BY <2>1 DEF TypeInv, Owners, RingInv, Strayed
    <3>2. Pos(0) = out /\ 0 \in 0 .. Count - 1 /\ slot[out] \in Full
      BY <3>1, Positions DEF TypeInv, Taken, Full
    <3>3. level > 0
      BY <1>2, <3>2 DEF Queue
    <3>4. QED
      BY <1>1, <2>1, <3>3 DEF Skip
  <2>2. QED
    BY <1>1, <2>1 DEF Skip
<1>4. PICK k \in {0, 1}, m \in Nat : k = Skip /\ m = level - Skip
  BY <1>1, <1>3
<1>5. PICK c \in Int : c = LostHead + Len(heard)
  BY <1>1
<1>6. Base = Len(heard) - k * Size
  BY <1>1, <1>4 DEF Base, Skip
<1> DEFINE s == [n \in 1 .. m |-> mem[(out + k + n - 1) % Count]]
<1>7. ASSUME NEW n \in 1 .. m
      PROVE  /\ s[n] \in Seq(Int) /\ Len(s[n]) = Size
             /\ \A p \in 1 .. Size : s[n][p] = c + (n - 1) * Size + p
  <2>1. PICK i \in 0 .. level - 1 : i = k + n - 1
    BY <1>1, <1>4
  <2>2. s[n] = mem[Pos(i)]
    <3>1. out + k + n - 1 = out + i
      BY <2>1 DEF TypeInv, TypeOK, Scatters
    <3>2. QED
      BY <3>1 DEF Pos
  <2>3. Pos(i) \in Scatters
    <3>1. i \in 0 .. Count - 1
      BY <1>1, <1>2 DEF Queue
    <3>2. QED
      BY <3>1, Positions DEF TypeInv
  <2>4. ASSUME NEW p \in 1 .. Size PROVE s[n][p] = c + (n - 1) * Size + p
    <3>1. mem[Pos(i)][p] = LostHead + Base + i * Size + p
      BY DEF Content, SampleInv
    <3>2. PICK before \in Int : before = (n - 1) * Size /\ i * Size = before + k * Size
      BY <1>1, <1>4, <2>1, OneMore
    <3>3. k * Size \in Int
      BY <1>1
    <3>4. QED
      BY <1>1, <1>5, <1>6, <2>2, <3>1, <3>2, <3>3
  <2>5. QED
    BY <2>2, <2>3, <2>4, ScatterType DEF TypeInv
<1>8. s \in Seq(Seq(Int)) /\ Len(s) = m
  <2>1. s = [n \in 1 .. m |-> s[n]]
    OBVIOUS
  <2> HIDE DEF s
  <2>2. s \in Seq(Seq(Int))
    BY <1>7, <2>1, IsSeq
  <2>3. QED
    BY <2>1, <2>2
<1>9. Waiting = FlattenSeq(s)
  BY <1>4 DEF Waiting, Skip
<1> HIDE DEF s
<1>10. FlattenSeq(s) = Run(c, m * Size)
  <2>1. PICK t \in Seq(Seq(Int)) : t = s
    BY <1>8
  <2>2. Len(t) = m
    BY <1>8, <2>1
  <2>3. \A i \in 1 .. m :
          Len(t[i]) = Size /\ \A p \in 1 .. Size : t[i][p] = c + (i - 1) * Size + p
    BY <1>7, <2>1
  <2>4. FlattenSeq(t) = Run(c, m * Size)
    <3>1. Size \in Nat
      BY <1>1
    <3>2. QED
      BY ZenonT(30), <2>2, <2>3, <3>1, FlattenRun
  <2>5. QED
    BY <2>1, <2>4
<1>11. QED
  BY <1>3, <1>4, <1>5, <1>9, <1>10

\* The samples in the buffer that is filled
InFilter == IF Astray THEN 0 ELSE outbufferlen

\* ... go on from what waits.
LEMMA FillingRun ==
  ASSUME TypeInv, Content
  PROVE  InFilter \in Nat /\ Filling = Run(LostHead + Base + level * Size, InFilter)
<1>1. outbufferlen \in Nat /\ outbufferlen < Size /\ Size \in Nat
  BY SampleTypes
<1>2. outbuffer = -1 => outbufferlen = 0
  BY DEF TypeInv, TypeOK
<1>3. CASE outbuffer # -1 /\ slot[outbuffer] = "PULL"
  <2>1. ~Astray /\ InFilter = outbufferlen /\ outbuffer \in Scatters
    BY <1>3 DEF Astray, InFilter, TypeInv, TypeOK
  <2>2. \A p \in 1 .. outbufferlen : mem[outbuffer][p] = LostHead + Base + level * Size + p
    BY <1>3, <2>1 DEF Content, SampleInv
  <2>3. mem[outbuffer] \in Seq(Int) /\ Len(mem[outbuffer]) = Size
    BY <2>1, ScatterType DEF TypeInv
  <2>4. PICK t \in Seq(Int), n \in Nat : t = mem[outbuffer] /\ n = outbufferlen
    BY <1>1, <2>3
  <2>5. SubSeq(t, 1, n) = [p \in 1 .. n |-> t[p]]
    BY <2>4
  <2>6. Filling = SubSeq(t, 1, n)
    BY <1>3, <2>4 DEF Filling
  <2>7. QED
    BY <1>1, <2>1, <2>2, <2>4, <2>5, <2>6 DEF Run
<1>4. CASE ~(outbuffer # -1 /\ slot[outbuffer] = "PULL")
  <2>1. InFilter = 0
    BY <1>2, <1>4 DEF Astray, InFilter
  <2>2. Filling = <<>>
    BY <1>4 DEF Filling
  <2>3. QED
    BY <2>1, <2>2 DEF Run
<1>5. QED
  BY <1>3, <1>4

\* Everything is one run after the samples that are lost.
LEMMA WholeRun ==
  ASSUME IInv
  PROVE  OnlyTheHeadIsLost
<1> SUFFICES ASSUME ~torn, ~Refuses
             PROVE  heard \o Waiting \o Filling = Run(LostHead, Written - LostHead)
  BY DEF OnlyTheHeadIsLost, Run
<1> USE DEF IInv
<1>1. /\ Size \in Nat \ {0} /\ level \in Nat /\ LostHead \in Nat /\ Len(heard) \in Nat
      /\ Written \in Nat /\ Base \in Int
  BY SampleTypes
<1>2. PICK l, h, f \in Nat : l = LostHead /\ h = Len(heard) /\ f = InFilter
  BY <1>1, FillingRun
<1>3. PICK w \in Nat : w = (level - Skip) * Size
  <2>1. level - Skip \in Nat
    BY <1>1, WaitingRun
  <2>2. QED
    BY <1>1, <2>1, Grows
<1>4. Base + level * Size = h + w
  <2>1. level * Size = w + Skip * Size
    <3>1. CASE Skip = 0
      BY <1>1, <1>3, <3>1
    <3>2. CASE Skip = 1
      <4>1. (level - 1) * Size + Size = level * Size
        BY <1>1, OneMore
      <4>2. QED
        BY <1>1, <1>3, <3>2, <4>1
    <3>3. QED
      BY <3>1, <3>2, WaitingRun
  <2>2. Base = h - Skip * Size
    BY <1>1, <1>2 DEF Base, Skip
  <2>3. Skip * Size \in Int
    BY <1>1 DEF Skip
  <2>4. QED
    BY <1>1, <2>1, <2>2, <2>3
<1>5. /\ heard = Run(l, h) /\ Waiting = Run(l + h, w)
      /\ Filling = Run(l + (h + w), f)
  <2>1. LostHead + Base + level * Size = l + (h + w)
    <3>1. PICK all \in Int : all = level * Size
      BY <1>1
    <3>2. QED
      BY <1>1, <1>2, <1>4, <3>1
  <2>2. QED
    BY <1>2, <1>3, <2>1, HeardRun, WaitingRun, FillingRun
<1>6. Run(l, h) \o Run(l + h, w) = Run(l, h + w)
  BY RunsJoin, l \in Int, Zenon
<1>7. Run(l, h + w) \o Run(l + (h + w), f) = Run(l, h + w + f)
  BY RunsJoin, l \in Int, h + w \in Nat, Zenon
<1>8. Written - LostHead = h + w + f
  <2>1. Written - LostHead = Base + level * Size + InFilter
    BY DEF Content, SampleInv, InFilter
  <2>2. QED
    BY <1>2, <1>4, <2>1
<1>9. QED
  BY <1>2, <1>5, <1>6, <1>7, <1>8, Zenon

\* The samples keep what the steps rely on, until a reset tears the buffer from the
\* encoder; of an encoder that refuses, only the types are kept.
LEMMA Invariance == Spec => []IInv
<1>1. Init => IInv
  <2> SUFFICES ASSUME Init PROVE IInv
    OBVIOUS
  <2>1. HoldInv
    BY DEF Init, HoldInv
  <2>2. QED
    BY <2>1, InitType, InitOwners, InitSamples DEF IInv, Plain, TypeInv
<1>2. ASSUME IInv, [Next]_vars PROVE IInv'
  <2>1. Refuses \/ (Owners' /\ LevelOK')
    BY <1>2, StepOwners DEF IInv, Plain, TypeInv
  <2>2. Plain'
    BY <1>2, <2>1, StepHold, StepLevel, StepType, StepDecoder DEF IInv, Plain
  <2>3. Refuses' <=> Refuses
    BY <1>2, StepHold DEF IInv, Plain
  <2>4. Refuses \/ torn' \/ Content'
    BY <1>2, StepSamples DEF IInv
  <2>5. QED
    BY <1>2, <2>1, <2>2, <2>3, <2>4 DEF IInv, Plain, TypeInv
<1>3. QED
  BY <1>1, <1>2, PTL DEF Spec

\* The variables of the pipeline have their types; above all, the level of the
\* buffer is bounded although a pop after a reset may free a scatter that level
\* counts.
THEOREM TypeCorrectness == Spec => []TypeOK
<1>1. IInv => TypeOK
  BY DEF IInv, Plain
<1>2. QED
  BY Invariance, <1>1, PTL

\* From entry to entry, through frames of any length, flushes and encoders that are
\* late, what the encoder was given and what waits for it is what the decoders gave,
\* in order; after a stop the next entry loses what it writes in the buffer that the
\* one before had begun, and nothing else, as long as no reset found the encoder
\* between its peer and its pop.
THEOREM OnlyTheHead == Spec => []OnlyTheHeadIsLost
<1>1. IInv => OnlyTheHeadIsLost
  BY WholeRun
<1>2. QED
  BY Invariance, <1>1, PTL

=============================================================================
