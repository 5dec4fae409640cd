-------------------------------- MODULE Rtp --------------------------------
(***************************************************************************)
(* An RTP stream of putv from its multiplexer (src/src/mux_rtp.c) to the   *)
(* demultiplexer of another putv (src/src/demux_rtp.c).  The network is    *)
(* the sender's UDP sink, the datagrams and the receiver's UDP source: all *)
(* three are queues, and the datagrams may be lost, and on a bad network   *)
(* come twice or overtake each other.                                      *)
(*                                                                         *)
(* A sender numbers its packets on 16 bits from a random one and may send  *)
(* each twice (dupsrc), under its even ssrc and under the next odd one, so *)
(* that the second makes up for a lost first.  The receiver plays one      *)
(* session, that of the first packet it can identify.                      *)
(*                                                                         *)
(* Left out: the payload, the csrc and extension fields, time stamps and   *)
(* heartbeats, the count of missing packets (only logged), and the table   *)
(* of DEMUX_RTP_REORDER, which the default configuration does not build.   *)
(***************************************************************************)
EXTENDS Integers, Sequences, FiniteSets, SequencesExt

CONSTANTS
  Senders,   \* their ssrc, even ones
  Setups,    \* who sends, how much, over which network
  Modulus,    \* 2^16: the numbers of the packets
  OutSize,   \* the bytes of a packet, in some unit
  Header,    \* the bytes of its header
  Lens,      \* the lengths of the blocks that the encoder pushes
  MaxNet,    \* how many packets are on their way (a bound of the model)
  Profiles   \* the payload types that the receiver can decode

Faults == {"lose", "duplicate", "reorder"}

ASSUME RtpAssumption ==
  /\ \A m \in Senders : m \in Nat /\ m > 0 /\ m % 2 = 0
  /\ \A s \in Setups :
       /\ s.talkers \subseteq Senders   \* the senders that are heard
       /\ s.double \subseteq Senders    \* those that send each packet twice
       /\ s.faults \subseteq Faults     \* what the network may do,
       /\ s.bad \in Nat                 \* and how many times
       /\ s.stops \in Nat               \* how many times a player stops
       /\ s.blocks \in Nat              \* how many blocks each sender gets (a bound)
       /\ s.asked \in BOOLEAN           \* the receiver's url asks for a session
       /\ DOMAIN s.pt = Senders         \* the payload types
  /\ Modulus \in Nat /\ Modulus > 2
  /\ OutSize \in Nat /\ Header \in Nat
  /\ Lens \subseteq Nat \ {0}
  /\ MaxNet \in Nat

VARIABLES
  setup,      \* the setup, which does not change
  stops,      \* how many times the players may still stop
  \* each sender (mux_ctx_t)
  seqnum,     \* the number of its next packet
  putvctrl,   \* the command it has to send, if any
  front,      \* the length of the first block in its buffer
  len,        \* the length of the packet it is making
  taken,      \* how many blocks it has taken
  numbers,    \* the numbers of the packets it has sent
  \* the network
  net,        \* the packets on their way
  bad,        \* how many faults the network may still make
  lost,       \* the packets it has lost
  \* the receiver (demux_ctx_t)
  sessionid, sessionid2,
  last,       \* ctx->seqnum
  outs,       \* the payload types that have a demux_out_t
  sessionlist,  \* the other sessions, which it proposes to the media list
  open,       \* the decoder takes data
  got         \* the packets given to the decoder, of each sender

sender == <<seqnum, putvctrl, front, len, taken, numbers>>
wire == <<net, bad, lost>>
receiver == <<sessionid, sessionid2, last, outs, sessionlist, open, got>>
vars == <<setup, stops, sender, wire, receiver>>

Packet(m, ssrc, kind, number, k) ==
  [from |-> m, ssrc |-> ssrc, pt |-> setup.pt[m], kind |-> kind, seq |-> number, k |-> k]

SenderInit ==
  /\ \E n \in 0 .. Modulus - 1 : seqnum = [m \in Senders |-> n]
  /\ putvctrl = [m \in Senders |-> "volume"]
  /\ front \in [Senders -> Lens]
  /\ len = [m \in Senders |-> Header]
  /\ taken = [m \in Senders |-> 0]
  /\ numbers = [m \in Senders |-> <<>>]

ReceiverInit ==
  /\ IF setup.asked THEN sessionid \in setup.talkers ELSE sessionid = 0
  /\ sessionid2 = 0
  /\ last = 0
  /\ outs = {} /\ sessionlist = {}
  /\ open = TRUE
  /\ got = [m \in Senders |-> <<>>]

Init ==
  /\ setup \in Setups /\ stops = setup.stops
  /\ SenderInit
  /\ net = <<>> /\ bad = setup.bad /\ lost = {}
  /\ ReceiverInit

-----------------------------------------------------------------------------
(* The sender                                                              *)

\* The number after n: the largest one is left out.
NextNumberFull(n) == (n + 1) % (2 * Modulus)  \* mutant: kept on more than 16 bits
NextNumber(n) == IF n + 1 >= Modulus - 1 THEN 0 ELSE n + 1

Fits(m) == len[m] + front[m] < OutSize

\* _mux_run: the block goes in the packet, and the next one is waited for.  It comes:
\* peer returns nothing (271) only after an end of the stream, and no encoder
\* pushes one.
Pack(m) ==
  /\ m \in setup.talkers /\ taken[m] < setup.blocks
  /\ Fits(m)
  /\ len' = [len EXCEPT ![m] = @ + front[m]]
  /\ \E l \in Lens : front' = [front EXCEPT ![m] = l]
  /\ taken' = [taken EXCEPT ![m] = @ + 1]
  /\ UNCHANGED <<setup, stops, seqnum, putvctrl, numbers, wire, receiver>>

\* What _mux_run pushes: the packet, once or twice, and the command if there is one.
Pushed(m) ==
  LET k == Len(numbers[m]) + 1
      first == Packet(m, m, "data", seqnum[m], k)
      second == Packet(m, m + 1, "data", seqnum[m], k)
      command == Packet(m, m, putvctrl[m], NextNumber(seqnum[m]), 0)
  IN <<first>> \o (IF m \in setup.double THEN <<second>> ELSE <<>>)
               \o (IF putvctrl[m] # "none" THEN <<command>> ELSE <<>>)

\* _mux_run: the next block does not fit, the packet goes out.  A header is
\* counted as a packet too, so that what is sent is bounded by the blocks.
Push(m) ==
  /\ m \in setup.talkers
  /\ ~Fits(m)
  /\ Len(numbers[m]) <= setup.blocks
  /\ Len(net \o Pushed(m)) <= MaxNet
  /\ net' = net \o Pushed(m)
  /\ numbers' = [numbers EXCEPT ![m] = Append(@, seqnum[m])]
  /\ seqnum' = [seqnum EXCEPT ![m] = NextNumber(@)]
  /\ putvctrl' = [putvctrl EXCEPT ![m] = "none"]
  /\ len' = [len EXCEPT ![m] = Header]
  /\ UNCHANGED <<setup, stops, front, taken, bad, lost, receiver>>

\* _mux_player_cb: the player of the sender stops.
SenderStops(m) ==
  /\ m \in setup.talkers
  /\ stops > 0 /\ stops' = stops - 1
  /\ putvctrl' = [putvctrl EXCEPT ![m] = "stop"]
  /\ UNCHANGED <<setup, seqnum, front, len, taken, numbers, wire, receiver>>

-----------------------------------------------------------------------------
(* The network                                                             *)

Fault(kind) ==
  /\ kind \in setup.faults
  /\ bad > 0 /\ bad' = bad - 1
  /\ UNCHANGED <<setup, stops, sender, receiver>>

Lose ==
  /\ Fault("lose")
  /\ \E i \in DOMAIN net : net' = RemoveAt(net, i) /\ lost' = lost \cup {net[i]}

Duplicate ==
  /\ Fault("duplicate")
  /\ Len(net) < MaxNet
  /\ \E i \in DOMAIN net : net' = Append(net, net[i])
  /\ UNCHANGED lost

Reorder ==
  /\ Fault("reorder")
  /\ \E i \in 1 .. Len(net) - 1 : net' = Append(RemoveAt(net, i), net[i])
  /\ UNCHANGED lost

-----------------------------------------------------------------------------
(* The receiver                                                            *)

Even(ssrc) == ssrc - (ssrc % 2)

\* demux_parseheader: the packet is of another session than the one played.
ForeignNever(p) == p.ssrc = 0  \* mutant: every session is played
Foreign(p) == sessionid # 0 /\ sessionid # p.ssrc /\ sessionid2 # p.ssrc

\* demux_parseheader: the second copy of a packet that came.
CopySame(p) == sessionid2 = p.ssrc /\ last > p.seq  \* mutant: the last one is not
Copy(p) == sessionid2 = p.ssrc /\ last >= p.seq

\* demux_thread takes the next packet of the input buffer.
Take ==
  /\ net # <<>>
  /\ net' = Tail(net)
  /\ UNCHANGED <<setup, stops, sender, bad, lost>>

\* A packet of another session, which is proposed to the media list.
DemuxForeign ==
  /\ Take
  /\ Foreign(Head(net))
  /\ sessionlist' = sessionlist \cup {Head(net).ssrc}
  /\ UNCHANGED <<sessionid, sessionid2, last, outs, open, got>>

\* A command of the sender.  It leaves sessionid2, as the stop of the player does.
DemuxControl ==
  /\ Take
  /\ ~Foreign(Head(net)) /\ Head(net).kind # "data"
  /\ sessionid' = IF Head(net).kind = "stop" THEN 0 ELSE sessionid
  /\ UNCHANGED <<sessionid2, last, outs, sessionlist, open, got>>

DemuxCopy ==
  /\ Take
  /\ ~Foreign(Head(net)) /\ Head(net).kind = "data"
  /\ Copy(Head(net))
  /\ UNCHANGED receiver

\* _demux_getout: the session becomes that of a packet for which there is no out.
\* An out is found by its type only, its two ssrc have their bytes swapped.
TakeSessionHalf(p) ==  \* mutant: the second copies are not of the session
  IF p.pt \in outs THEN UNCHANGED <<sessionid, sessionid2>>
  ELSE sessionid' = Even(p.ssrc) /\ UNCHANGED sessionid2
TakeSession(p) ==
  IF p.pt \in outs THEN UNCHANGED <<sessionid, sessionid2>>
  ELSE sessionid' = Even(p.ssrc) /\ sessionid2' = Even(p.ssrc) + 1

\* The packet goes to the decoder, if it can be decoded and the decoder takes it.
DemuxData ==
  LET p == Head(net)
      known == p.pt \in outs \cup Profiles
  IN
  /\ Take
  /\ ~Foreign(p) /\ p.kind = "data" /\ ~Copy(p)
  /\ TakeSession(p)
  /\ outs' = outs \cup ({p.pt} \cap Profiles)
  /\ last' = IF known THEN p.seq ELSE last
  /\ got' = IF known /\ open THEN [got EXCEPT ![p.from] = Append(@, p.k)] ELSE got
  /\ UNCHANGED <<sessionlist, open>>

\* The decoder's buffer is flushed: from now on pull returns nothing.
DecoderBreaks ==
  /\ open /\ stops > 0
  /\ open' = FALSE
  /\ UNCHANGED <<setup, stops, sender, wire, sessionid, sessionid2, last, outs,
                 sessionlist, got>>

\* _demux_player_cb: the receiver's player stops.
ReceiverStops ==
  /\ stops > 0 /\ stops' = stops - 1
  /\ sessionid' = 0
  /\ UNCHANGED <<setup, sender, wire, sessionid2, last, outs, sessionlist, open, got>>

-----------------------------------------------------------------------------
Demux == DemuxForeign \/ DemuxControl \/ DemuxCopy \/ DemuxData

Next ==
  \/ \E m \in Senders : Pack(m) \/ Push(m) \/ SenderStops(m)
  \/ Lose \/ Duplicate \/ Reorder
  \/ DemuxForeign \/ DemuxControl \/ DemuxCopy \/ DemuxData
  \/ DecoderBreaks \/ ReceiverStops

Spec == Init /\ [][Next]_vars

-----------------------------------------------------------------------------
(* Properties                                                              *)

Numbers == 0 .. Modulus - 1
Packets ==
  [from : Senders, ssrc : Nat, pt : {setup.pt[m] : m \in Senders},
   kind : {"data", "volume", "stop"}, seq : Numbers, k : Nat]

\* The variables have their types.
TypeOK ==
  /\ setup \in Setups /\ stops \in Nat
  /\ seqnum \in [Senders -> Numbers]
  /\ putvctrl \in [Senders -> {"volume", "stop", "none"}]
  /\ front \in [Senders -> Lens]
  /\ len \in [Senders -> Nat]
  /\ taken \in [Senders -> Nat]
  /\ numbers \in [Senders -> Seq(Numbers)]
  /\ net \in Seq(Packets) /\ bad \in Nat /\ lost \subseteq Packets
  /\ sessionid \in Nat /\ sessionid2 \in Nat
  /\ last \in Numbers
  /\ outs \subseteq Profiles
  /\ sessionlist \subseteq Nat
  /\ open \in BOOLEAN
  /\ got \in [Senders -> Seq(Nat)]

\* "player currently support only one session": as long as no player stops,
\* what the decoder gets comes from one sender, whatever the network does.
SingleSession ==
  setup.stops = 0 =>
    \A m1, m2 \in Senders : got[m1] # <<>> /\ got[m2] # <<>> => m1 = m2

Lost(m, ssrc, k) == \E p \in lost : p.from = m /\ p.ssrc = ssrc /\ p.k = k

\* A sender that sends each packet twice (dupsrc) loses none of those before
\* one that is delivered, unless the network loses both copies, or loses the
\* first of a packet whose number has gone back to 0: the second is then taken
\* for a copy of what came before.
OneCopySuffices ==
  setup.faults \subseteq {"lose"} =>
    \A m \in setup.double : \A i \in 1 .. Len(got[m]) - 1 :
      \A k \in got[m][i] + 1 .. got[m][i + 1] - 1 :
        /\ Lost(m, m, k)
        /\ Lost(m, m + 1, k) \/ numbers[m][k] <= numbers[m][got[m][i]]

Stream == INSTANCE LossyStream WITH
  Sources <- Senders,
  sent <- [m \in Senders |-> Len(numbers[m])],
  got <- [m \in Senders |-> IF setup.faults \subseteq {"lose"} THEN got[m] ELSE <<>>]

\* Over a network that keeps the order each sender's packets reach the decoder
\* at most once and in order, duplicated or not, across the wrap of the numbers
\* and the stops of both players.  (A receiver that was stopped keeps the second
\* ssrc of its session, and takes that of another sender for no copy: no setup
\* here has two senders, second copies and stops.)
ImplementsStream == Stream!StreamSpec
=============================================================================
