------------------------------ MODULE Pipeline ------------------------------
(***************************************************************************)
(* The samples on their way from a decoder (src/src/decoder_mad.c,         *)
(* decoder_flac.c, decoder_faad2.c) through its filter (filter_pcm.c) and  *)
(* the buffer in front of the encoder to the encoder (encoder_lame.c,      *)
(* encoder_flac.c, encoder_faac.c), while the player goes from one entry   *)
(* to the next, stops and plays again.                                     *)
(*                                                                         *)
(* A call of the buffer is one step here: what its threads do inside of it *)
(* is the module JitterSG.  The output buffer that the filter fills is a   *)
(* static variable, which a decoder leaves to the next one.  A sample is   *)
(* its number since the last reset of the buffer, 0 if it is older.        *)
(*                                                                         *)
(* Left out: the input of the decoders, which is JitterRing and may end at *)
(* any moment; what the filters do to a sample; the pause; the positions.  *)
(* The sample rate is the first stream's for ever.  lame and faac adopt it;*)
(* flac, when it is another one than its own, refuses each buffer.         *)
(***************************************************************************)
EXTENDS Integers, Sequences, SequencesExt

CONSTANTS
  Count, Thredhold,   \* of the buffer
  Size,               \* the samples of a buffer
  FrameLens,          \* the samples that a decoder may give at once
  Encoders,           \* the encoders, one of which the program is built with, and
                      \* flac on a stream of another rate than its own
  Entries, Samples,   \* how many entries, of how many samples (bounds)
  MaxCalls            \* how many times somebody asks for the next entry or
                      \* to stop (a bound)

ASSUME PipelineAssumption ==
  /\ Count \in Nat /\ Thredhold \in 1 .. Count - 1
  /\ Size \in Nat \ {0}
  /\ FrameLens \subseteq Nat \ {0}
  /\ Encoders \subseteq {"lame", "flac", "faac", "flacRefuses"}
  /\ Entries \in Nat /\ Samples \in Nat /\ MaxCalls \in Nat

VARIABLES
  coder, calls,
  asked,        \* the encoder has asked for the next entry
  phase,        \* what the main loop does
  entry,        \* how many entries were played
  pcD,          \* where the decoder's thread is
  decoded,      \* the samples it has decoded
  nsamples,     \* those of its frame that are not written yet
  outbuffer,    \* the scatter that the filter fills, -1 for a null pointer
  outbufferlen,
  slot, in, out, level, state,   \* of the buffer, as in JitterSG
  mem,          \* the samples in each scatter
  pcE,          \* where the encoder's thread is
  hold,         \* the scatter whose memory it reads, -1 for none
  \* history, since the last reset
  given,        \* how many samples the decoders gave, less what a flush lost
  heard,        \* the samples the encoder was given
  stale,        \* the samples that were in outbuffer at the reset
  torn          \* the reset cleared a scatter that the encoder held

player == <<coder, calls, asked, phase, entry>>
decoder == <<pcD, decoded, nsamples>>
filter == <<outbuffer, outbufferlen, given>>
ring == <<slot, in, out, level, state>>
encoder == <<pcE, hold, heard>>
vars == <<player, decoder, filter, ring, mem, encoder, stale, torn>>

Scatters == 0 .. Count - 1
Cleared == [s \in Scatters |-> "FREE"]
Old == [s \in Scatters |-> [n \in 1 .. Size |-> 0]]

Init ==
  /\ coder \in Encoders /\ calls = MaxCalls /\ asked = FALSE
  /\ phase = "stop" /\ entry = 0
  /\ pcD = "off" /\ decoded = 0 /\ nsamples = 0
  /\ outbuffer = -1 /\ outbufferlen = 0 /\ given = 0
  /\ slot = Cleared /\ in = 0 /\ out = 0 /\ level = 0 /\ state = "FILLING"
  /\ mem = Old
  /\ pcE = "peer" /\ hold = -1 /\ heard = <<>>
  /\ stale = 0 /\ torn = FALSE

-----------------------------------------------------------------------------
(* The decoder's thread and its filter                                     *)

\* A frame of the input, for which the library calls back.  A frame that gives
\* no samples (an error that the library recovers from, a frame of faad that is
\* not ADTS) changes nothing.
Decode ==
  /\ pcD = "frame"
  /\ \E n \in FrameLens :
       /\ decoded + n <= Samples
       /\ decoded' = decoded + n /\ nsamples' = n
       /\ given' = given + n
  /\ pcD' = "fill"
  /\ UNCHANGED <<player, outbuffer, outbufferlen, ring, mem, encoder, stale, torn>>

\* The input is over or the decoder gives up, at any moment.  The last buffer, which
\* is not full, stays in the filter: outbufferlen of the decoder is always 0.
DecodeEnd ==
  /\ pcD = "frame" /\ pcD' = "over"
  /\ UNCHANGED <<player, decoded, nsamples, filter, ring, mem, encoder, stale, torn>>

\* filter_filloutput needs a buffer to fill ...
Pull ==
  /\ pcD = "fill" /\ outbuffer = -1
  /\ slot[in] = "FREE" /\ state # "FLUSH"
  /\ slot' = [slot EXCEPT ![in] = "PULL"]
  /\ outbuffer' = in
  /\ UNCHANGED <<player, decoder, outbufferlen, given, in, out, level, state, mem,
                 encoder, stale, torn>>

\* ... and gets none: the rest of the frame is lost, the thread ends.
PullNull ==
  /\ pcD = "fill" /\ outbuffer = -1
  /\ state = "FLUSH"
  /\ nsamples' = 0 /\ given' = given - nsamples
  /\ pcD' = "over"
  /\ UNCHANGED <<player, decoded, outbuffer, outbufferlen, ring, mem, encoder, stale, torn>>

\* A full buffer is pushed, unless it was freed by a reset.
Push ==
  IF slot[in] # "PULL" THEN UNCHANGED ring
  ELSE /\ slot' = [slot EXCEPT ![in] = "READY"]
       /\ in' = (in + 1) % Count /\ level' = level + 1
       /\ state' = IF state = "FILLING" /\ level' = Thredhold THEN "RUNNING" ELSE state
       /\ UNCHANGED out

\* filter_run: what goes in the buffer
RoomLeft == Size - outbufferlen  \* mutant: the end of the frame is not tested
Room == IF nsamples < Size - outbufferlen THEN nsamples ELSE Size - outbufferlen

Poured(n) ==
  [mem EXCEPT ![outbuffer] =
    [i \in 1 .. Size |->
      IF i - outbufferlen \in 1 .. n THEN given - nsamples + i - outbufferlen ELSE @[i]]]

FillOnce ==  \* mutant: the rest of the frame is not tried again
  LET n == Room IN
  /\ pcD = "fill" /\ outbuffer # -1
  /\ mem' = Poured(n)
  /\ nsamples' = 0
  /\ IF outbufferlen + n < Size
     THEN outbufferlen' = outbufferlen + n /\ UNCHANGED <<outbuffer, ring>>
     ELSE Push /\ outbuffer' = -1 /\ outbufferlen' = 0
  /\ pcD' = "frame"
  /\ UNCHANGED <<player, decoded, given, encoder, stale, torn>>

\* filter_filloutput, called by the decoder until its frame is written.
Fill ==
  LET n == Room IN
  /\ pcD = "fill" /\ outbuffer # -1
  /\ mem' = Poured(n)
  /\ nsamples' = nsamples - n
  /\ IF outbufferlen + n < Size
     THEN outbufferlen' = outbufferlen + n /\ UNCHANGED <<outbuffer, ring>>
     ELSE Push /\ outbuffer' = -1 /\ outbufferlen' = 0
  /\ pcD' = IF nsamples' > 0 THEN "fill" ELSE "frame"
  /\ UNCHANGED <<player, decoded, given, encoder, stale, torn>>

Decoder == Decode \/ DecodeEnd \/ Pull \/ PullNull \/ Fill

-----------------------------------------------------------------------------
(* The encoder's thread                                                    *)

Peer ==
  /\ pcE = "peer"
  /\ state # "FILLING" /\ slot[out] = "READY"
  /\ slot' = [slot EXCEPT ![out] = "POP"]
  /\ hold' = out
  /\ pcE' = "length"
  /\ UNCHANGED <<player, decoder, filter, in, out, level, state, mem, heard, stale, torn>>

\* flac does not change its rate (ENCODER_CHANGE_FRAMERATE is defined nowhere).
Refuses == coder = "flacRefuses"

\* A scatter that a reset has freed has the length -1, and what the encoder then
\* does with its memory is not defined.
Length ==
  /\ pcE = "length"
  /\ pcE' = IF slot[out] # "POP" THEN "astray" ELSE IF Refuses THEN "refuse" ELSE "encode"
  /\ UNCHANGED <<player, decoder, filter, ring, mem, hold, heard, stale, torn>>

\* With each buffer flac then asks for the next entry, which is lost if another
\* thread holds the player's mutex, ...
Refuse ==
  /\ pcE = "refuse" /\ pcE' = "early"
  /\ asked' \in {asked, TRUE}
  /\ UNCHANGED <<coder, calls, phase, entry, decoder, filter, ring, mem, hold, heard,
                 stale, torn>>

\* The encoder waits for a buffer of the sink, and encodes.
Encode ==
  /\ pcE = "encode" /\ pcE' = "pop"
  /\ heard' = heard \o mem[hold]
  /\ UNCHANGED <<player, decoder, filter, ring, mem, hold, stale, torn>>

Popped ==
  IF slot[out] # "POP"
  THEN slot' = [slot EXCEPT ![out] = "FREE"] /\ UNCHANGED <<in, out, level, state>>
  ELSE /\ slot' = [slot EXCEPT ![out] = "FREE"]
       /\ out' = (out + 1) % Count /\ level' = level - 1
       /\ state' = IF level' = 0 THEN "FILLING" ELSE state
       /\ UNCHANGED in

\* ... pops the buffer, and goes on to encode it and to pop once more: a scatter
\* that it was not given, and which out still points to.
EarlyPop ==
  /\ pcE = "early" /\ pcE' = "encode"
  /\ Popped
  /\ UNCHANGED <<player, decoder, filter, mem, hold, heard, stale, torn>>

\* An error of lame or faac ends the thread.  flac returns a boolean, which is
\* never less than 0.
Ends == IF coder = "flac" \/ Refuses THEN {} ELSE {"gone"}

Pop ==
  /\ pcE = "pop"
  /\ Popped
  /\ hold' = -1
  /\ pcE' \in {"peer"} \cup Ends
  /\ UNCHANGED <<player, decoder, filter, mem, heard, stale, torn>>

Encoder == Peer \/ Length \/ Refuse \/ EarlyPop \/ Encode \/ Pop

-----------------------------------------------------------------------------
(* The main loop                                                           *)

FlushRunning ==  \* mutant: only a buffer that runs is flushed
  state' = IF state = "RUNNING" THEN "FLUSH" ELSE state
Flush == state' = "FLUSH"

\* Somebody asks to play: the first entry is prepared.  When the encoder asks for the
\* next one, there is none.
AskPlay ==
  /\ phase = "stop" /\ asked' = FALSE
  /\ \/ entry < Entries /\ phase' = "change"
     \/ asked /\ phase' = "noEntry"
  /\ UNCHANGED <<coder, calls, entry, decoder, filter, ring, mem, encoder, stale, torn>>

\* CHANGE: the source is over, or somebody or the encoder asks for the next one.  It is
\* destroyed: its decoder flushes the buffer and is joined.
Leave ==
  /\ phase = "playing" /\ phase' = "joinChange" /\ asked' = FALSE
  /\ \/ (pcD = "over" \/ asked) /\ UNCHANGED calls
     \/ calls > 0 /\ calls' = calls - 1
  /\ Flush
  /\ UNCHANGED <<coder, entry, decoder, filter, slot, in, out, level, mem, encoder,
                 stale, torn>>

\* STOP, asked or for want of an entry: the buffer is flushed first.
Halt ==
  /\ phase' = "joinStop" /\ asked' = FALSE
  /\ \/ phase = "noEntry" /\ UNCHANGED calls
     \/ phase = "playing" /\ calls > 0 /\ calls' = calls - 1
  /\ Flush
  /\ UNCHANGED <<coder, entry, decoder, filter, slot, in, out, level, mem, encoder,
                 stale, torn>>

Joined == pcD \in {"off", "over"}

\* CHANGE goes on: the pause is set, which ends the flush, and the next source is
\* run if there is one.
JoinToChange ==
  /\ phase = "joinChange" /\ Joined
  /\ phase' = "change" /\ pcD' = "off"
  /\ UNCHANGED <<coder, calls, asked, entry, decoded, nsamples, filter, ring, mem, encoder,
                 stale, torn>>

Unpaused ==
  IF state # "FLUSH" THEN state ELSE IF level > Thredhold THEN "RUNNING" ELSE "FILLING"

Change ==
  /\ phase = "change" /\ asked' = FALSE
  /\ state' = Unpaused
  /\ \/ /\ entry < Entries /\ entry' = entry + 1
        /\ phase' = "playing"
        /\ pcD' = "frame" /\ decoded' = 0 /\ nsamples' = 0
     \/ /\ phase' = "noEntry"
        /\ UNCHANGED <<entry, decoder>>
  /\ UNCHANGED <<coder, calls, filter, slot, in, out, level, mem, encoder, stale, torn>>

\* STOP goes on: the buffer is reset.  The filter keeps its pointer.
JoinToStop ==
  /\ phase = "joinStop" /\ Joined
  /\ phase' = "stop" /\ pcD' = "off"
  /\ slot' = Cleared /\ in' = 0 /\ out' = 0 /\ level' = 0 /\ state' = "FILLING"
  /\ mem' = Old /\ heard' = <<>> /\ given' = 0
  /\ stale' = outbufferlen /\ torn' = (hold # -1)
  /\ UNCHANGED <<coder, calls, asked, entry, decoded, nsamples, outbuffer, outbufferlen,
                 pcE, hold>>

-----------------------------------------------------------------------------
Next ==
  \/ Decode \/ DecodeEnd \/ Pull \/ PullNull \/ Fill
  \/ Peer \/ Length \/ Refuse \/ EarlyPop \/ Encode \/ Pop
  \/ AskPlay \/ Leave \/ Halt \/ JoinToChange \/ Change \/ JoinToStop

\* The threads run, and the sink takes what the encoder gives; nobody has to ask.
Spec ==
  /\ Init /\ [][Next]_vars
  /\ WF_vars(Decoder) /\ WF_vars(Encoder)
  /\ WF_vars(JoinToChange \/ JoinToStop)

-----------------------------------------------------------------------------
(* Properties                                                              *)

Numbers == 0 .. Entries * Samples

\* The level is bounded, also after a reset that tore a pop, but not for an encoder
\* that pops twice.
Levels == IF Refuses THEN Int ELSE 0 .. IF torn THEN Count + 1 ELSE Count

\* The variables have their types.
TypeOK ==
  /\ coder \in Encoders /\ calls \in 0 .. MaxCalls /\ asked \in BOOLEAN
  /\ phase \in {"stop", "change", "playing", "joinChange", "noEntry", "joinStop"}
  /\ entry \in 0 .. Entries
  /\ pcD \in {"off", "frame", "fill", "over"}
  /\ decoded \in 0 .. Samples /\ nsamples \in 0 .. Samples
  /\ outbuffer \in Scatters \cup {-1} /\ outbufferlen \in 0 .. Size - 1
  /\ outbuffer = -1 => outbufferlen = 0
  /\ slot \in [Scatters -> {"FREE", "PULL", "READY", "POP"}]
  /\ in \in Scatters /\ out \in Scatters
  /\ level \in Levels
  /\ state \in {"FILLING", "RUNNING", "FLUSH"}
  /\ mem \in [Scatters -> [1 .. Size -> Numbers]]
  /\ pcE \in {"peer", "length", "refuse", "early", "encode", "pop", "astray", "gone"}
  /\ hold \in Scatters \cup {-1}
  /\ given \in Numbers /\ heard \in Seq(Numbers)
  /\ stale \in 0 .. Size - 1 /\ torn \in BOOLEAN

\* The samples in the buffer which the encoder was not given yet, and those in the
\* buffer that is filled
Waiting ==
  LET skip == IF pcE = "pop" THEN 1 ELSE 0 IN
  FlattenSeq([n \in 1 .. level - skip |-> mem[(out + skip + n - 1) % Count]])
Filling ==
  IF outbuffer # -1 /\ slot[outbuffer] = "PULL" THEN SubSeq(mem[outbuffer], 1, outbufferlen)
  ELSE <<>>

\* The samples that went through the filter, and those of them that are lost: what
\* fills up the buffer that was begun at the last reset
Written == given - nsamples
LostHead ==
  LET room == IF stale = 0 THEN 0 ELSE Size - stale IN
  IF Written < room THEN Written ELSE room

\* From entry to entry, through frames of any length, flushes and encoders that
\* are late, what the encoder was given and what waits for it is what the decoders
\* gave, in order.  After a stop, the next entry fills first the buffer that the
\* one before it had begun, and loses what it writes there; nothing else is lost.
\* Nothing is said of an encoder that refuses, nor from a reset that found the encoder
\* between its peer and its pop to the next one that did not.
OnlyTheHeadIsLost ==
  ~torn /\ ~Refuses =>
    heard \o Waiting \o Filling = [n \in 1 .. Written - LostHead |-> LostHead + n]

\* The last buffer of a decoder is pushed to the encoder, "otherwise the next decoder
\* will begins with a pull buffer": what the decoders say of their end.
LastBufferIsPushed == phase = "playing" /\ pcD = "frame" /\ decoded = 0 => outbuffer = -1

\* The main loop does not join a decoder for ever, although the last pop of the
\* encoder overwrites the flush that sends the decoder away, and the end of a flush
\* may leave the buffer waiting for data it is full of.
JoinReturns ==
  phase \in {"joinChange", "joinStop"}
    ~> phase \notin {"joinChange", "joinStop"} \/ pcE \in {"astray", "gone"}
=============================================================================
