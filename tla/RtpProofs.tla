----------------------------- MODULE RtpProofs -----------------------------
(***************************************************************************)
(* Proofs about the RTP stream, for any number of senders, any network and *)
(* any width of the packets' numbers.                                      *)
(*                                                                         *)
(* SingleSession rests on the parity of the ssrc: a sender uses an even    *)
(* one and the next, and the receiver takes both for the same session.     *)
(* What has to be known besides is that nothing was decoded before there   *)
(* is a session, and that without a stop nobody takes the session back.    *)
(*                                                                         *)
(* That packets come in order over a network that only loses them rests on *)
(* their line (Lined): what is on its way is in the order of the packets   *)
(* and their copies, behind all that was received, but for one copy of the *)
(* last packet, which will be taken for a copy (Ahead).  That both copies  *)
(* must be lost rests on what a packet on its way says of those after it   *)
(* (Behind) and what the last one received says of the next (Awaited).     *)
(***************************************************************************)
EXTENDS Rtp, SequenceTheorems, TLAPS

\* The packets on their way carry one of the two ssrc of their sender, and are no
\* command to stop if nobody stops.
Sent ==
  {p \in Packets : p.ssrc \in {p.from, p.from + 1} /\ (setup.stops = 0 => p.kind # "stop")}

\* Nobody stops.
NoStop ==
  /\ stops = 0
  /\ \A m \in Senders : putvctrl[m] # "stop"

\* The session is that of what was decoded.
Session ==
  /\ sessionid = 0 => outs = {} /\ \A m \in Senders : got[m] = <<>>
  /\ sessionid # 0 => sessionid \in Senders /\ sessionid2 \in {0, sessionid + 1}
  /\ \A m \in Senders : got[m] # <<>> => m = sessionid

IInv == TypeOK /\ net \in Seq(Sent) /\ (setup.stops = 0 => NoStop /\ Session)

-----------------------------------------------------------------------------
(* Data *)

\* A sender's ssrc and the next one have the same even part.
LEMMA EvenPart ==
  ASSUME NEW m \in Senders, NEW ssrc \in {m, m + 1}
  PROVE  m \in Nat /\ m > 0 /\ ssrc \in Nat /\ Even(ssrc) = m
<1>1. m \in Nat /\ m > 0 /\ m % 2 = 0
  BY RtpAssumption
<1>2. (m + 1) % 2 = 1
  BY <1>1
<1>3. QED
  BY <1>1, <1>2 DEF Even

\* Two senders do not share a ssrc.
LEMMA OwnSsrc ==
  ASSUME NEW m1 \in Senders, NEW m2 \in Senders,
         NEW ssrc \in {m1, m1 + 1}, ssrc \in {m2, m2 + 1}
  PROVE  m1 = m2
  BY EvenPart

\* What is left of a sequence has its elements.
LEMMA RemoveAtType ==
  ASSUME NEW S, NEW s \in Seq(S), NEW i \in DOMAIN s
  PROVE  RemoveAt(s, i) \in Seq(S)
<1>1. i \in 1 .. Len(s) /\ Len(s) \in Nat
  OBVIOUS
<1>2. SubSeq(s, 1, i - 1) \in Seq(S) /\ SubSeq(s, i + 1, Len(s)) \in Seq(S)
  BY <1>1
<1>3. QED
  BY <1>2 DEF RemoveAt

\* The packets have their type.
LEMMA PacketType ==
  ASSUME NEW m \in Senders, NEW ssrc \in Nat, NEW kind \in {"data", "volume", "stop"},
         NEW number \in Numbers, NEW k \in Nat
  PROVE  Packet(m, ssrc, kind, number, k) \in Packets
  BY DEF Packet, Packets

\* The numbers stay below the modulus.
LEMMA NextNumberType ==
  ASSUME NEW n \in Numbers
  PROVE  NextNumber(n) \in Numbers
  BY RtpAssumption DEF Numbers, NextNumber

\* What a sender pushes: packets of its own, and a stop only if it has one to send.
LEMMA PushedType ==
  ASSUME TypeOK, NEW m \in Senders, setup.stops = 0 => putvctrl[m] # "stop"
  PROVE  Pushed(m) \in Seq(Sent)
<1> DEFINE k == Len(numbers[m]) + 1
           first == Packet(m, m, "data", seqnum[m], k)
           second == Packet(m, m + 1, "data", seqnum[m], k)
           command == Packet(m, m, putvctrl[m], NextNumber(seqnum[m]), 0)
           seconds == IF m \in setup.double THEN <<second>> ELSE <<>>
           commands == IF putvctrl[m] # "none" THEN <<command>> ELSE <<>>
<1>1. m \in Nat /\ m + 1 \in Nat /\ seqnum[m] \in Numbers /\ k \in Nat
  BY RtpAssumption DEF TypeOK
<1>2. first \in Packets /\ second \in Packets
  BY <1>1, PacketType
<1>3. putvctrl[m] # "none" => command \in Packets
  BY <1>1, PacketType, NextNumberType DEF TypeOK
<1>4. first \in Sent /\ second \in Sent
  BY <1>1, <1>2 DEF Sent, Packet
<1>5. putvctrl[m] # "none" => command \in Sent
  BY <1>1, <1>3 DEF Sent, Packet
<1>6. Pushed(m) = (<<first>> \o seconds) \o commands
  BY DEF Pushed
<1> HIDE DEF k, first, second, command
<1>7. <<first>> \in Seq(Sent) /\ seconds \in Seq(Sent) /\ commands \in Seq(Sent)
  BY <1>4, <1>5
<1> HIDE DEF seconds, commands
<1>8. QED
  BY <1>6, <1>7

-----------------------------------------------------------------------------
(* The steps *)

\* Initially nothing was sent.
LEMMA InitIInv == Init => IInv
<1> SUFFICES ASSUME Init PROVE IInv
  OBVIOUS
<1>1. setup \in Setups /\ setup.stops \in Nat /\ setup.bad \in Nat
      /\ setup.talkers \subseteq Senders /\ Modulus \in Nat /\ Modulus > 2 /\ Header \in Nat
      /\ \A m \in Senders : m \in Nat /\ m > 0
  BY RtpAssumption DEF Init
<1>2. sessionid \in Senders \cup {0}
  BY <1>1 DEF Init, ReceiverInit
<1>3. seqnum \in [Senders -> Numbers] /\ last \in Numbers
  BY <1>1 DEF Init, SenderInit, ReceiverInit, Numbers
<1>4. net \in Seq(Packets) /\ net \in Seq(Sent)
  BY DEF Init
<1>5. open \in BOOLEAN
  BY DEF Init, SenderInit, ReceiverInit
<1>6. TypeOK
  BY <1>1, <1>2, <1>3, <1>4, <1>5 DEF Init, SenderInit, ReceiverInit, TypeOK
<1>7. setup.stops = 0 => NoStop /\ Session
  BY <1>1, <1>2 DEF Init, SenderInit, ReceiverInit, NoStop, Session
<1>8. QED
  BY <1>4, <1>6, <1>7 DEF IInv

\* The steps that change neither the setup nor the receiver keep the session.
LEMMA SenderKeeps ==
  ASSUME IInv, UNCHANGED <<setup, receiver>>, stops' = stops, net' \in Seq(Sent),
         TypeOK', \A m \in Senders : putvctrl'[m] \in {putvctrl[m], "none"}
  PROVE  IInv'
<1>1. Sent' = Sent /\ net' \in Seq(Sent')
  BY DEF Sent, Packets
<1>2. setup.stops = 0 => NoStop' /\ Session'
  BY DEF IInv, NoStop, Session, receiver
<1>3. QED
  BY <1>1, <1>2 DEF IInv

\* The receiver's steps: the packet is taken, the setup and the senders stay.
LEMMA ReceiverKeeps ==
  ASSUME IInv, UNCHANGED <<setup, stops, sender>>, net' \in Seq(Sent), TypeOK',
         setup.stops = 0 => Session'
  PROVE  IInv'
<1>1. Sent' = Sent /\ net' \in Seq(Sent')
  BY DEF Sent, Packets
<1>2. setup.stops = 0 => NoStop'
  BY DEF IInv, NoStop, sender
<1>3. QED
  BY <1>1, <1>2 DEF IInv

\* A block that goes into the packet sends nothing.
LEMMA PackStep ==
  ASSUME IInv, NEW m \in Senders, Pack(m)
  PROVE  IInv'
<1>1. front[m] \in Nat /\ len[m] \in Nat
  BY RtpAssumption DEF IInv, TypeOK
<1>2. len' \in [Senders -> Nat] /\ taken' \in [Senders -> Nat] /\ front' \in [Senders -> Lens]
  BY <1>1 DEF Pack, IInv, TypeOK
<1>3. TypeOK'
  BY <1>2 DEF Pack, IInv, TypeOK, wire, receiver, Packets
<1>4. QED
  BY <1>3, SenderKeeps DEF Pack, IInv, TypeOK, wire

\* A sender's packets keep the invariant.
LEMMA PushStep ==
  ASSUME IInv, NEW m \in Senders, Push(m)
  PROVE  IInv'
<1>1. Pushed(m) \in Seq(Sent)
  BY PushedType DEF IInv, NoStop
<1>2. net' \in Seq(Sent)
  BY <1>1 DEF Push, IInv
<1>3. net' \in Seq(Packets)
  BY <1>2 DEF Sent
<1>4. seqnum[m] \in Numbers /\ NextNumber(seqnum[m]) \in Numbers
  BY NextNumberType DEF IInv, TypeOK
<1>5. /\ seqnum' \in [Senders -> Numbers]
      /\ putvctrl' \in [Senders -> {"volume", "stop", "none"}]
      /\ len' \in [Senders -> Nat]
  BY <1>4, RtpAssumption DEF Push, IInv, TypeOK
<1>6. numbers' \in [Senders -> Seq(Numbers)]
  BY <1>4 DEF Push, IInv, TypeOK
<1>7. TypeOK'
  BY <1>3, <1>5, <1>6 DEF Push, IInv, TypeOK, receiver, Packets
<1>8. \A n \in Senders : putvctrl'[n] \in {putvctrl[n], "none"}
  BY DEF Push, IInv, TypeOK
<1>9. QED
  BY <1>2, <1>7, <1>8, SenderKeeps DEF Push

\* The network makes no packet of its own.
LEMMA FaultStep ==
  ASSUME IInv, Lose \/ Duplicate \/ Reorder
  PROVE  IInv'
<1>1. net \in Seq(Sent) /\ setup \in Setups /\ bad \in Nat /\ lost \subseteq Packets
  BY DEF IInv, TypeOK
<1>2. \A i \in DOMAIN net : net[i] \in Sent /\ RemoveAt(net, i) \in Seq(Sent)
  BY <1>1, RemoveAtType
<1>3. net' \in Seq(Sent) /\ lost' \subseteq Packets
  <2>1. CASE Lose
    <3>1. PICK i \in DOMAIN net : net' = RemoveAt(net, i) /\ lost' = lost \cup {net[i]}
      BY <2>1 DEF Lose
    <3>2. QED
      BY <1>1, <1>2, <3>1 DEF Sent
  <2>2. CASE Duplicate
    <3>1. PICK i \in DOMAIN net : net' = Append(net, net[i])
      BY <2>2 DEF Duplicate
    <3>2. QED
      BY <1>1, <1>2, <2>2, <3>1 DEF Duplicate
  <2>3. CASE Reorder
    <3>1. PICK i \in 1 .. Len(net) - 1 : net' = Append(RemoveAt(net, i), net[i])
      BY <2>3 DEF Reorder
    <3>2. i \in DOMAIN net
      BY <1>1
    <3>3. QED
      BY <1>1, <1>2, <2>3, <3>1, <3>2 DEF Reorder
  <2>4. QED
    BY <2>1, <2>2, <2>3
<1>4. bad' \in Nat /\ UNCHANGED <<setup, stops, sender, receiver>>
  BY <1>1 DEF Lose, Duplicate, Reorder, Fault
<1>5. net' \in Seq(Packets)
  BY <1>3 DEF Sent
<1>6. TypeOK'
  BY <1>3, <1>4, <1>5 DEF IInv, TypeOK, sender, receiver, Packets
<1>7. QED
  BY <1>3, <1>4, <1>6, SenderKeeps DEF sender

\* What the receiver takes was sent.
LEMMA TakeFacts ==
  ASSUME IInv, Take
  PROVE  /\ UNCHANGED <<setup, stops, sender, bad, lost>>
         /\ net' \in Seq(Sent) /\ net' \in Seq(Packets) /\ Packets' = Packets
         /\ Head(net) \in Sent /\ Head(net) \in Packets
<1>1. net \in Seq(Sent) /\ net # <<>>
  BY DEF IInv, Take
<1>2. Head(net) \in Sent /\ Tail(net) \in Seq(Sent)
  BY <1>1
<1>3. Tail(net) \in Seq(Packets)
  BY <1>2 DEF Sent
<1>4. QED
  BY <1>2, <1>3 DEF Take, Sent, Packets

\* Packets that are not decoded.
LEMMA AsideStep ==
  ASSUME IInv, DemuxForeign \/ DemuxControl \/ DemuxCopy
  PROVE  IInv'
<1>1. Take
  BY DEF DemuxForeign, DemuxControl, DemuxCopy
<1> DEFINE p == Head(net)
<1>2. p \in Sent /\ p.ssrc \in Nat
  BY <1>1, TakeFacts DEF Packets
<1>3. /\ sessionid' \in {sessionid, 0}
      /\ setup.stops = 0 => sessionid' = sessionid
      /\ UNCHANGED <<sessionid2, last, outs, open, got>>
      /\ sessionlist' \in {sessionlist, sessionlist \cup {p.ssrc}}
  BY <1>2 DEF DemuxForeign, DemuxControl, DemuxCopy, Sent, receiver
<1>4. TypeOK'
  BY <1>1, <1>2, <1>3, TakeFacts DEF IInv, TypeOK, sender
<1>5. setup.stops = 0 => Session'
  BY <1>3 DEF IInv, Session
<1>6. QED
  BY <1>1, <1>4, <1>5, TakeFacts, ReceiverKeeps

\* A decoded packet is of the session, or makes it.
LEMMA DataStep ==
  ASSUME IInv, DemuxData
  PROVE  IInv'
<1> DEFINE p == Head(net)
<1>1. Take /\ ~Foreign(p) /\ TakeSession(p)
  BY DEF DemuxData
<1>2. /\ p \in Sent /\ p.from \in Senders /\ p.ssrc \in {p.from, p.from + 1}
      /\ p.seq \in Numbers /\ p.k \in Nat
  BY <1>1, TakeFacts DEF Sent, Packets
<1>3. p.from \in Nat /\ p.from > 0 /\ p.ssrc \in Nat /\ Even(p.ssrc) = p.from
  BY <1>2, EvenPart
<1>4. /\ outs' \subseteq Profiles /\ last' \in Numbers
      /\ UNCHANGED <<sessionlist, open>>
      /\ got' = got \/ got' = [got EXCEPT ![p.from] = Append(@, p.k)]
  BY <1>2 DEF DemuxData, IInv, TypeOK
<1>5. got' \in [Senders -> Seq(Nat)]
  <2>1. got \in [Senders -> Seq(Nat)] /\ got[p.from] \in Seq(Nat)
    BY <1>2 DEF IInv, TypeOK
  <2>2. Append(got[p.from], p.k) \in Seq(Nat)
    BY <1>2, <2>1
  <2>3. QED
    BY <1>4, <2>1, <2>2
<1>6. \/ p.pt \in outs /\ UNCHANGED <<sessionid, sessionid2>>
      \/ p.pt \notin outs /\ sessionid' = p.from /\ sessionid2' = p.from + 1
  BY <1>1, <1>3 DEF TakeSession
<1>7. sessionid' \in Nat /\ sessionid2' \in Nat
  BY <1>3, <1>6 DEF IInv, TypeOK
<1>8. TypeOK'
  BY <1>1, <1>4, <1>5, <1>7, TakeFacts DEF IInv, TypeOK, sender
<1>9. ASSUME setup.stops = 0 PROVE Session'
  <2>1. Session
    BY <1>9 DEF IInv
  <2>2. CASE sessionid = 0
    <3>1. sessionid' = p.from /\ sessionid2' = p.from + 1
      BY <1>6, <2>1, <2>2 DEF Session
    <3>2. \A m \in Senders : got'[m] # <<>> => m = p.from
      BY <1>2, <1>4, <2>1, <2>2 DEF Session, IInv, TypeOK
    <3>3. QED
      BY <1>2, <1>3, <3>1, <3>2 DEF Session
  <2>3. CASE sessionid # 0
    <3>1. sessionid \in Senders /\ sessionid2 \in {0, sessionid + 1}
      BY <2>1, <2>3 DEF Session
    <3>2. p.ssrc \in {sessionid, sessionid + 1}
      BY <1>1, <1>2, <1>3, <2>3, <3>1 DEF Foreign
    <3>3. p.from = sessionid
      BY <1>2, <3>1, <3>2, OwnSsrc
    <3>4. sessionid' = sessionid /\ sessionid2' \in {0, sessionid + 1}
      BY <1>6, <3>1, <3>3
    <3>5. \A m \in Senders : got'[m] # <<>> => m = sessionid
      BY <1>2, <1>4, <2>1, <3>3 DEF Session, IInv, TypeOK
    <3>6. QED
      BY <2>3, <3>1, <3>4, <3>5 DEF Session
  <2>4. QED
    BY <2>2, <2>3
<1>10. QED
  BY <1>1, <1>8, <1>9, TakeFacts, ReceiverKeeps

\* Stops are only asked where some are left, so they are no question of one session.
LEMMA StopStep ==
  ASSUME IInv, DecoderBreaks \/ ReceiverStops \/ \E m \in Senders : SenderStops(m)
  PROVE  IInv'
<1>1. stops \in Nat /\ stops > 0 /\ setup.stops # 0 /\ UNCHANGED <<setup, wire>>
  BY DEF IInv, TypeOK, NoStop, DecoderBreaks, ReceiverStops, SenderStops
<1>2. stops' \in Nat
  BY <1>1 DEF DecoderBreaks, ReceiverStops, SenderStops
<1>3. Sent' = Sent /\ Packets' = Packets
  BY <1>1 DEF Sent, Packets
<1>4. putvctrl' \in [Senders -> {"volume", "stop", "none"}]
  BY DEF DecoderBreaks, ReceiverStops, SenderStops, sender, IInv, TypeOK
<1>5. UNCHANGED <<seqnum, front, len, taken, numbers>>
  BY DEF DecoderBreaks, ReceiverStops, SenderStops, sender
<1>6. /\ sessionid' \in Nat
      /\ UNCHANGED <<sessionid2, last, outs, sessionlist, got>>
  BY DEF DecoderBreaks, ReceiverStops, SenderStops, receiver, IInv, TypeOK
<1>7. open' = open \/ open' = FALSE
  BY DEF DecoderBreaks, ReceiverStops, SenderStops, receiver
<1>8. open' \in BOOLEAN
  BY <1>7, Zenon DEF IInv, TypeOK
<1>9. TypeOK'
  BY <1>1, <1>2, <1>3, <1>4, <1>5, <1>6, <1>8 DEF IInv, TypeOK, wire
<1>10. QED
  BY <1>1, <1>3, <1>9 DEF IInv, wire

\* Every step keeps the invariant.
LEMMA StepIInv == IInv /\ [Next]_vars => IInv'
<1> SUFFICES ASSUME IInv, [Next]_vars PROVE IInv'
  OBVIOUS
<1>1. CASE UNCHANGED vars
  BY <1>1 DEF vars, sender, wire, receiver, IInv, TypeOK, NoStop, Session, Sent, Packets
<1>2. ASSUME NEW m \in Senders, Pack(m) PROVE IInv'
  BY <1>2, PackStep
<1>3. ASSUME NEW m \in Senders, Push(m) PROVE IInv'
  BY <1>3, PushStep
<1>4. CASE DecoderBreaks \/ ReceiverStops \/ \E m \in Senders : SenderStops(m)
  BY <1>4, StopStep
<1>5. CASE Lose \/ Duplicate \/ Reorder
  BY <1>5, FaultStep
<1>6. CASE DemuxForeign \/ DemuxControl \/ DemuxCopy
  BY <1>6, AsideStep
<1>7. CASE DemuxData
  BY <1>7, DataStep
<1>8. QED
  BY <1>1, <1>2, <1>3, <1>4, <1>5, <1>6, <1>7 DEF Next

-----------------------------------------------------------------------------
(* The theorems *)

\* The inductive invariant holds for any senders, networks and numbers.
THEOREM Invariance == Spec => []IInv
<1>1. Init => IInv
  BY InitIInv
<1>2. IInv /\ [Next]_vars => IInv'
  BY StepIInv
<1>3. QED
  BY <1>1, <1>2, PTL DEF Spec

\* The variables of the stream have their types: the numbers never leave their
\* width, and only types that can be decoded get an out.
THEOREM TypeCorrect == Spec => []TypeOK
<1>1. IInv => TypeOK
  BY DEF IInv
<1>2. QED
  BY <1>1, Invariance, PTL

\* As long as no player stops, the decoder gets the packets of one sender only,
\* through losses, duplicates and packets that overtake each other.
THEOREM OneSession == Spec => []SingleSession
<1>1. IInv => SingleSession
  BY DEF IInv, Session, SingleSession
<1>2. QED
  BY <1>1, Invariance, PTL

-----------------------------------------------------------------------------
(* A network that only loses packets                                       *)

\* A receiver that hears one sender, or is never stopped, or senders that send nothing
\* twice.  After a stop, the receiver would play another sender with the second ssrc of
\* the one before, and take none of its packets for a copy.
Settled(s) == s.stops = 0 \/ s.double = {} \/ \A t, u \in s.talkers : t = u

\* The packets of a sender are in the order of their numbers, the first copy first.
Place(p) == 2 * p.k + (p.ssrc - p.from)
Datas(s) == {s[i] : i \in {j \in DOMAIN s : s[j].kind = "data"}}
Lined(s) ==
  \A i, j \in DOMAIN s :
    i < j /\ s[i].kind = "data" /\ s[j].kind = "data" /\ s[i].from = s[j].from =>
      Place(s[i]) < Place(s[j])

\* What is on its way was written by its sender.
Written ==
  \A p \in Datas(net) :
    /\ p.from \in setup.talkers /\ p.pt = setup.pt[p.from]
    /\ p.ssrc = p.from \/ (p.ssrc = p.from + 1 /\ p.from \in setup.double)
    /\ p.k \in 1 .. Len(numbers[p.from]) /\ p.seq = numbers[p.from][p.k]

\* It comes after what was received, or is a copy and will be taken for one.
Ahead ==
  \A p \in Datas(net) : \A e \in DOMAIN got[p.from] :
    \/ got[p.from][e] < p.k
    \/ got[p.from][e] = p.k /\ p.ssrc = p.from + 1 /\ Copy(p)

\* What was received was sent, and has an out.
Received ==
  \A m \in Senders :
    /\ got[m] # <<>> => setup.pt[m] \in outs /\ m \in setup.talkers
    /\ \A e \in DOMAIN got[m] : got[m][e] \in 1 .. Len(numbers[m])

\* The session's second ssrc is known as long as there is an out.
Listening ==
  setup.double # {} =>
    /\ outs # {} /\ setup.stops = 0 => sessionid2 = sessionid + 1
    /\ setup.stops # 0 =>
         \A t \in setup.talkers : sessionid \in {0, t} /\ (outs # {} => sessionid2 = t + 1)
    /\ \A m \in Senders : got[m] # <<>> => sessionid2 = m + 1

\* The last number is that of the last packet received,
Latest ==
  \A m \in setup.double :
    open /\ got[m] # <<>> => last = numbers[m][Last(got[m])]

\* and those after it are lost, on their way, or too small to be told from a copy.
Pending(m, ssrc, k) ==
  \E p \in Datas(net) : p.from = m /\ p.ssrc = ssrc /\ p.k = k
Awaited ==
  \A m \in setup.double : open /\ got[m] # <<>> =>
    \A k \in Last(got[m]) + 1 .. Len(numbers[m]) :
      /\ Lost(m, m, k) \/ Pending(m, m, k)
      /\ \/ Lost(m, m + 1, k) \/ Pending(m, m + 1, k)
         \/ numbers[m][k] <= numbers[m][Last(got[m])]

\* Those after one on its way are on their way too, or lost.
Behind ==
  \A p \in Datas(net) : p.from \in setup.double =>
    \A k \in p.k + 1 .. Len(numbers[p.from]), ssrc \in {p.from, p.from + 1} :
      Lost(p.from, ssrc, k) \/ Pending(p.from, ssrc, k)

LossInv ==
  /\ Lined(net) /\ Written /\ Ahead
  /\ Received /\ Listening
  /\ Latest /\ Awaited /\ Behind /\ OneCopySuffices

StreamInv == setup.faults \subseteq {"lose"} => LossInv

\* Packets behind others are behind them in the whole.
LEMMA JoinLine ==
  ASSUME NEW S, \A p \in S : p.k \in Nat /\ p.ssrc \in Nat /\ p.from \in Nat,
         NEW s \in Seq(S), NEW t \in Seq(S), Lined(s), Lined(t),
         \A p \in Datas(s), q \in Datas(t) : p.from = q.from => Place(p) < Place(q)
  PROVE  Lined(s \o t) /\ Datas(s \o t) = Datas(s) \cup Datas(t)
<1>1. /\ DOMAIN s = 1 .. Len(s) /\ DOMAIN t = 1 .. Len(t) /\ Len(s) \in Nat /\ Len(t) \in Nat
      /\ DOMAIN (s \o t) = 1 .. Len(s) + Len(t)
      /\ \A i \in 1 .. Len(s) + Len(t) : (s \o t)[i] = IF i <= Len(s) THEN s[i] ELSE t[i - Len(s)]
  OBVIOUS
<1> DEFINE u == s \o t
<1>2. PICK r : r = u
  OBVIOUS
<1>3. /\ \A i \in DOMAIN s : i \in DOMAIN r /\ r[i] = s[i]
      /\ \A i \in DOMAIN t : i + Len(s) \in DOMAIN r /\ r[i + Len(s)] = t[i]
      /\ \A i \in DOMAIN r : i \in Int /\ (i \in DOMAIN s \/ (i > Len(s) /\ i - Len(s) \in DOMAIN t /\ r[i] = t[i - Len(s)]))
  BY <1>1, <1>2
<1>4. Datas(r) = Datas(s) \cup Datas(t)
  <2>1. ASSUME NEW q \in Datas(r) PROVE q \in Datas(s) \cup Datas(t)
    <3>1. PICK i \in DOMAIN r : q = r[i] /\ r[i].kind = "data"
      BY DEF Datas
    <3>2. CASE i \in DOMAIN s
      BY <1>3, <3>1, <3>2 DEF Datas
    <3>3. CASE i \notin DOMAIN s
      BY <1>3, <3>1, <3>3 DEF Datas
    <3>4. QED
      BY <3>2, <3>3
  <2>2. ASSUME NEW q \in Datas(s) PROVE q \in Datas(r)
    BY <1>3 DEF Datas
  <2>3. ASSUME NEW q \in Datas(t) PROVE q \in Datas(r)
    <3>1. PICK i \in DOMAIN t : q = t[i] /\ t[i].kind = "data"
      BY DEF Datas
    <3>2. i + Len(s) \in DOMAIN r /\ r[i + Len(s)] = t[i]
      BY <1>3
    <3>3. QED
      BY <3>1, <3>2 DEF Datas
  <2>4. QED
    BY <2>1, <2>2, <2>3
<1>5. ASSUME NEW i \in DOMAIN r, NEW j \in DOMAIN r, i < j,
             r[i].kind = "data", r[j].kind = "data", r[i].from = r[j].from
      PROVE  Place(r[i]) < Place(r[j])
  <2>1. CASE j \in DOMAIN s
    <3>1. i \in DOMAIN s
      BY <1>1, <1>3, <1>5, <2>1
    <3>2. QED
      BY <1>3, <1>5, <2>1, <3>1 DEF Lined
  <2>2. CASE i \in DOMAIN s /\ j \notin DOMAIN s
    <3>1. r[i] \in Datas(s) /\ r[j] \in Datas(t)
      BY <1>3, <1>5, <2>2 DEF Datas
    <3>2. QED
      BY <1>5, <3>1
  <2>3. CASE i \notin DOMAIN s /\ j \notin DOMAIN s
    <3>1. PICK a \in DOMAIN t : a = i - Len(s) /\ r[i] = t[a]
      BY <1>3, <2>3
    <3>2. PICK b \in DOMAIN t : b = j - Len(s) /\ r[j] = t[b]
      BY <1>3, <2>3
    <3>3. a < b
      BY <1>1, <1>3, <1>5, <3>1, <3>2
    <3>4. QED
      BY <1>5, <3>1, <3>2, <3>3 DEF Lined
  <2>4. QED
    BY <1>1, <1>3, <1>5, <2>1, <2>2, <2>3
<1>6. QED
  BY <1>2, <1>4, <1>5 DEF Lined

\* Without one of them, the others stay in line.
LEMMA LeaveLine ==
  ASSUME NEW S, \A p \in S : p.k \in Nat /\ p.ssrc \in Nat /\ p.from \in Nat,
         NEW s \in Seq(S), Lined(s), NEW x \in DOMAIN s, NEW r,
         DOMAIN r = 1 .. Len(s) - 1,
         \A i \in 1 .. Len(s) - 1 : r[i] = IF i < x THEN s[i] ELSE s[i + 1]
  PROVE  /\ Lined(r) /\ Datas(r) = Datas(s) \ {s[x]}
         /\ x = 1 /\ s[x].kind = "data" =>
              \A q \in Datas(r) : q.from = s[x].from => Place(s[x]) < Place(q)
<1>1. DOMAIN s = 1 .. Len(s) /\ Len(s) \in Nat /\ x \in 1 .. Len(s)
  OBVIOUS
<1>2. \A i \in DOMAIN s : s[i] \in S
  OBVIOUS
<1>3. ASSUME NEW i \in DOMAIN r
      PROVE  \E a \in DOMAIN s : r[i] = s[a] /\ a = IF i < x THEN i ELSE i + 1
  BY <1>1
<1>4. ASSUME NEW i \in DOMAIN s, i # x
      PROVE  \E a \in DOMAIN r : r[a] = s[i]
  <2>1. CASE i < x
    BY <1>1, <2>1
  <2>2. CASE i > x
    <3>1. i - 1 \in DOMAIN r /\ ~(i - 1 < x) /\ (i - 1) + 1 = i
      BY <1>1, <2>2
    <3>2. QED
      BY <3>1
  <2>3. QED
    BY <1>1, <1>4, <2>1, <2>2
<1>5. Lined(r)
  <2> SUFFICES ASSUME NEW i \in DOMAIN r, NEW j \in DOMAIN r, i < j,
                      r[i].kind = "data", r[j].kind = "data", r[i].from = r[j].from
               PROVE  Place(r[i]) < Place(r[j])
    BY DEF Lined
  <2>1. PICK a \in DOMAIN s : r[i] = s[a] /\ a = IF i < x THEN i ELSE i + 1
    BY <1>3
  <2>2. PICK b \in DOMAIN s : r[j] = s[b] /\ b = IF j < x THEN j ELSE j + 1
    BY <1>3
  <2>3. a < b
    BY <1>1, <2>1, <2>2
  <2>4. QED
    BY <2>1, <2>2, <2>3 DEF Lined
<1>6. ASSUME NEW i \in DOMAIN s, i # x, s[i].kind = "data" PROVE s[i] # s[x]
  <2> SUFFICES ASSUME s[i] = s[x] PROVE FALSE
    OBVIOUS
  <2>1. Place(s[i]) < Place(s[x]) \/ Place(s[x]) < Place(s[i])
    BY <1>1, <1>6 DEF Lined
  <2>2. Place(s[x]) \in Int
    BY <1>2 DEF Place
  <2>3. QED
    BY <2>1, <2>2
<1>7. Datas(r) \subseteq Datas(s) \ {s[x]}
  <2> SUFFICES ASSUME NEW q \in Datas(r) PROVE q \in Datas(s) /\ q # s[x]
    OBVIOUS
  <2>1. PICK i \in DOMAIN r : q = r[i] /\ r[i].kind = "data"
    BY DEF Datas
  <2>2. PICK a \in DOMAIN s : r[i] = s[a] /\ a = IF i < x THEN i ELSE i + 1
    BY <1>3
  <2>3. a # x
    BY <1>1, <2>1, <2>2
  <2>4. QED
    BY <1>6, <2>1, <2>2, <2>3 DEF Datas
<1>8. Datas(s) \ {s[x]} \subseteq Datas(r)
  <2> SUFFICES ASSUME NEW q \in Datas(s), q # s[x] PROVE q \in Datas(r)
    OBVIOUS
  <2>1. PICK i \in DOMAIN s : q = s[i] /\ s[i].kind = "data"
    BY DEF Datas
  <2>2. PICK a \in DOMAIN r : r[a] = s[i]
    BY <1>4, <2>1
  <2>3. QED
    BY <2>1, <2>2 DEF Datas
<1>9. ASSUME x = 1, s[x].kind = "data", NEW q \in Datas(r), q.from = s[x].from
      PROVE  Place(s[x]) < Place(q)
  <2>1. PICK i \in DOMAIN r : q = r[i] /\ r[i].kind = "data"
    BY DEF Datas
  <2>2. PICK a \in DOMAIN s : r[i] = s[a] /\ a = i + 1
    BY <1>1, <1>3, <1>9
  <2>3. x < a
    BY <1>1, <1>9, <2>2
  <2>4. QED
    BY <1>9, <2>1, <2>2, <2>3 DEF Lined
<1>10. QED
  BY <1>5, <1>7, <1>8, <1>9

\* What is known of the packets on their way.
LEMMA OnWay ==
  ASSUME IInv, NEW p \in Datas(net)
  PROVE  p \in Packets /\ p.from \in Senders /\ p.ssrc \in Nat /\ p.k \in Nat /\ p.from \in Nat
         /\ p.ssrc \in {p.from, p.from + 1} /\ p.seq \in Numbers /\ p.kind = "data"
<1>1. net \in Seq(Sent)
  BY DEF IInv
<1>2. p \in Sent /\ p.kind = "data"
  BY <1>1 DEF Datas
<1>3. QED
  BY <1>2, RtpAssumption DEF Sent, Packets

\* The steps that touch neither the packets nor what is received
LEMMA QuietLoss ==
  ASSUME LossInv, UNCHANGED <<setup, net, numbers, lost, sessionid2, last, outs, got>>,
         open' => open, sessionid' \in {0, sessionid}, setup.stops = 0 => sessionid' = sessionid
  PROVE  LossInv'
<1>1. (Lined(net) /\ Written /\ Received)'
  BY DEF LossInv, Written, Received
<1>2. Ahead'
  BY DEF LossInv, Ahead, Copy
<1>3. Listening'
  BY DEF LossInv, Listening
<1>4. (Latest /\ Awaited /\ Behind)'
  BY DEF LossInv, Latest, Awaited, Behind, Pending, Lost
<1>5. OneCopySuffices'
  BY DEF LossInv, OneCopySuffices, Lost
<1>6. QED
  BY <1>1, <1>2, <1>3, <1>4, <1>5 DEF LossInv

\* A packet leaves the network without being received: it is lost, or a copy.
LEMMA AsideLoss ==
  ASSUME IInv, LossInv, NEW x \in DOMAIN net, DOMAIN net' = 1 .. Len(net) - 1,
         \A i \in 1 .. Len(net) - 1 : net'[i] = IF i < x THEN net[i] ELSE net[i + 1],
         UNCHANGED <<setup, numbers, sessionid2, last, outs, got, open>>,
         sessionid' \in {0, sessionid}, setup.stops = 0 => sessionid' = sessionid,
         lost \subseteq lost',
         \/ net[x].kind # "data"
         \/ net[x] \in lost'
         \/ x = 1 /\ \A m \in setup.double :
                       net[1].kind = "data" /\ open /\ got[m] # <<>> /\ net[1].from = m =>
                         net[1].ssrc = m + 1 /\ net[1].seq <= last
  PROVE  LossInv'
<1> DEFINE p == net[x]
<1>1. /\ Lined(net') /\ Datas(net') = Datas(net) \ {p}
      /\ x = 1 /\ p.kind = "data" => \A q \in Datas(net') : q.from = p.from => Place(p) < Place(q)
  <2>1. net \in Seq(Packets) /\ \A q \in Packets : q.k \in Nat /\ q.ssrc \in Nat /\ q.from \in Nat
    BY RtpAssumption DEF IInv, TypeOK, Packets
  <2>2. QED
    BY <2>1, LeaveLine DEF LossInv
<1>2. (Written /\ Received)'
  BY <1>1 DEF LossInv, Written, Received
<1>3. Ahead'
  BY <1>1 DEF LossInv, Ahead, Copy
<1>4. Listening' /\ Latest'
  BY DEF LossInv, Listening, Latest
<1>5. OneCopySuffices'
  BY DEF LossInv, OneCopySuffices, Lost
<1>6. ASSUME NEW m, NEW ssrc, NEW k, Lost(m, ssrc, k) \/ Pending(m, ssrc, k)
      PROVE  \/ Lost(m, ssrc, k)' \/ Pending(m, ssrc, k)'
             \/ p \in Datas(net) /\ p.from = m /\ p.ssrc = ssrc /\ p.k = k /\ p \notin lost'
  BY <1>1, <1>6 DEF Lost, Pending
<1>7. ASSUME NEW m \in setup.double, open, got[m] # <<>>,
             NEW k \in Last(got[m]) + 1 .. Len(numbers[m])
      PROVE  /\ Lost(m, m, k)' \/ Pending(m, m, k)'
             /\ \/ Lost(m, m + 1, k)' \/ Pending(m, m + 1, k)'
                \/ numbers[m][k] <= numbers[m][Last(got[m])]
  <2>1. /\ Lost(m, m, k) \/ Pending(m, m, k)
        /\ \/ Lost(m, m + 1, k) \/ Pending(m, m + 1, k)
           \/ numbers[m][k] <= numbers[m][Last(got[m])]
    BY <1>7 DEF LossInv, Awaited
  <2>2. ASSUME p \in Datas(net), p.from = m, p.k = k, p \notin lost'
        PROVE  p.ssrc = m + 1 /\ numbers[m][k] <= numbers[m][Last(got[m])]
    <3>1. p.kind = "data" /\ p.ssrc = m + 1 /\ p.seq <= last
      BY <1>7, <2>2, OnWay
    <3>2. p.seq = numbers[m][k] /\ last = numbers[m][Last(got[m])]
      BY <1>7, <2>2 DEF LossInv, Written, Latest
    <3>3. QED
      BY <3>1, <3>2
  <2>3. m # m + 1
    BY RtpAssumption DEF IInv, TypeOK
  <2>4. QED
    BY <1>6, <2>1, <2>2, <2>3
<1>8. Awaited'
  BY <1>7 DEF Awaited
<1>9. ASSUME NEW q \in Datas(net'), q.from \in setup.double,
             NEW k \in q.k + 1 .. Len(numbers[q.from]), NEW ssrc \in {q.from, q.from + 1}
      PROVE  Lost(q.from, ssrc, k)' \/ Pending(q.from, ssrc, k)'
  <2>1. q \in Datas(net)
    BY <1>1
  <2>2. Lost(q.from, ssrc, k) \/ Pending(q.from, ssrc, k)
    BY <1>9, <2>1 DEF LossInv, Behind
  <2>3. ASSUME p \in Datas(net), p.from = q.from, p.k = k, p \notin lost' PROVE FALSE
    <3>1. x = 1 /\ p.kind = "data"
      BY <1>9, <2>3, OnWay
    <3>2. Place(p) < Place(q)
      BY <1>1, <2>3, <3>1
    <3>3. /\ q.k \in Nat /\ q.from \in Nat /\ q.ssrc \in {q.from, q.from + 1}
          /\ p.k \in Nat /\ p.ssrc \in {q.from, q.from + 1} /\ k > q.k
      BY <1>9, <2>1, <2>3, OnWay
    <3>4. QED
      BY SMTT(30), <2>3, <3>2, <3>3 DEF Place
  <2>4. QED
    BY <1>6, <2>2, <2>3
<1>10. Behind'
  BY <1>9 DEF Behind
<1>11. QED
  BY <1>1, <1>2, <1>3, <1>4, <1>5, <1>8, <1>10 DEF LossInv

\* The elements after the one removed move up.
LEMMA RemoveAtElements ==
  ASSUME NEW S, NEW s \in Seq(S), NEW x \in DOMAIN s
  PROVE  /\ DOMAIN RemoveAt(s, x) = 1 .. Len(s) - 1
         /\ \A i \in 1 .. Len(s) - 1 : RemoveAt(s, x)[i] = IF i < x THEN s[i] ELSE s[i + 1]
<1>1. x \in 1 .. Len(s) /\ Len(s) \in Nat
  OBVIOUS
<1>2. PICK y \in 1 .. Len(s) + 1 : y = x + 1
  BY <1>1
<1>3. PICK z \in 0 .. Len(s) : z = x - 1
  BY <1>1
<1>4. PICK a \in Seq(S) : /\ a = SubSeq(s, 1, x - 1) /\ Len(a) = x - 1
                         /\ \A i \in 1 .. x - 1 : a[i] = s[i]
  <2>1. /\ SubSeq(s, 1, z) \in Seq(S) /\ Len(SubSeq(s, 1, z)) = (IF 1 <= z THEN z - 1 + 1 ELSE 0)
        /\ \A i \in 1 .. z - 1 + 1 : SubSeq(s, 1, z)[i] = s[1 + i - 1]
    BY <1>1, SubSeqProperties
  <2>2. PICK c \in Seq(S) : c = SubSeq(s, 1, z)
    BY <2>1, Zenon
  <2>3. Len(c) = z /\ \A i \in 1 .. z : c[i] = s[i]
    BY <1>1, <2>1, <2>2
  <2>4. QED
    BY <1>3, <2>2, <2>3
<1>5. PICK b \in Seq(S) : /\ b = SubSeq(s, x + 1, Len(s)) /\ Len(b) = Len(s) - x
                         /\ \A i \in 1 .. Len(s) - x : b[i] = s[x + i]
  <2>1. /\ SubSeq(s, y, Len(s)) \in Seq(S)
        /\ Len(SubSeq(s, y, Len(s))) = (IF y <= Len(s) THEN Len(s) - y + 1 ELSE 0)
        /\ \A i \in 1 .. Len(s) - y + 1 : SubSeq(s, y, Len(s))[i] = s[y + i - 1]
    BY <1>1, SubSeqProperties
  <2>2. PICK c \in Seq(S) : c = SubSeq(s, y, Len(s))
    BY <2>1, Zenon
  <2>3. Len(c) = Len(s) - x /\ \A i \in 1 .. Len(s) - x : c[i] = s[x + i]
    BY <1>1, <1>2, <2>1, <2>2
  <2>4. QED
    BY <1>2, <2>2, <2>3
<1>6. RemoveAt(s, x) = a \o b
  BY <1>4, <1>5, Zenon DEF RemoveAt
<1>7. /\ DOMAIN (a \o b) = 1 .. Len(a) + Len(b)
      /\ \A i \in 1 .. Len(a) + Len(b) : (a \o b)[i] = IF i <= Len(a) THEN a[i] ELSE b[i - Len(a)]
  OBVIOUS
<1>8. Len(a) + Len(b) = Len(s) - 1 /\ Len(a) = x - 1
  <2>1. Len(a) = x - 1 /\ Len(b) = Len(s) - x
    BY <1>4, <1>5, Zenon
  <2>2. QED
    BY <1>1, <2>1
<1>9. ASSUME NEW i \in 1 .. Len(s) - 1
      PROVE  (a \o b)[i] = IF i < x THEN s[i] ELSE s[i + 1]
  <2>1. CASE i < x
    <3>1. i \in 1 .. Len(a) + Len(b) /\ i <= Len(a) /\ i \in 1 .. x - 1
      BY <1>1, <1>8, <2>1
    <3>2. (a \o b)[i] = a[i] /\ a[i] = s[i]
      BY <1>4, <1>7, <3>1, Zenon
    <3>3. QED
      BY <2>1, <3>2
  <2>2. CASE i >= x
    <3>1. i - Len(a) \in 1 .. Len(s) - x /\ x + (i - Len(a)) = i + 1 /\ ~(i <= Len(a))
      BY SMTT(30), <1>1, <1>8, <2>2
    <3>2. b[i - Len(a)] = s[i + 1]
      <4>1. PICK j \in 1 .. Len(s) - x : j = i - Len(a)
        BY <3>1
      <4>2. b[j] = s[x + j] /\ x + j = i + 1
        BY <1>5, <3>1, <4>1
      <4>3. QED
        BY <4>1, <4>2
    <3>3. (a \o b)[i] = b[i - Len(a)]
      BY <1>7, <1>8, <3>1
    <3>4. QED
      BY <1>1, <2>2, <3>2, <3>3
  <2>3. i < x \/ i >= x
    BY <1>1
  <2>4. QED
    BY <2>1, <2>2, <2>3, Zenon
<1>10. QED
  BY <1>6, <1>7, <1>8, <1>9

\* The network loses a packet.
LEMMA LoseLoss ==
  ASSUME IInv, LossInv, Lose
  PROVE  LossInv'
<1>1. PICK x \in DOMAIN net : net' = RemoveAt(net, x) /\ lost' = lost \cup {net[x]}
  BY DEF Lose
<1>2. net \in Seq(Packets)
  BY DEF IInv, TypeOK
<1>3. /\ DOMAIN net' = 1 .. Len(net) - 1
      /\ \A i \in 1 .. Len(net) - 1 : net'[i] = IF i < x THEN net[i] ELSE net[i + 1]
  BY <1>1, <1>2, RemoveAtElements
<1>4. UNCHANGED <<setup, numbers, sessionid, sessionid2, last, outs, got, open>>
  BY DEF Lose, Fault, sender, receiver
<1>5. QED
  BY <1>1, <1>3, <1>4, AsideLoss

\* The first packet is taken.
LEMMA TakeFirst ==
  ASSUME IInv, Take
  PROVE  /\ 1 \in DOMAIN net /\ Head(net) = net[1] /\ DOMAIN net' = 1 .. Len(net) - 1
         /\ \A i \in 1 .. Len(net) - 1 : net'[i] = IF i < 1 THEN net[i] ELSE net[i + 1]
         /\ net[1].kind = "data" => net[1] \in Datas(net)
         /\ UNCHANGED <<setup, stops, numbers, lost>>
<1>1. net \in Seq(Packets) /\ net # <<>> /\ net' = Tail(net)
  BY DEF IInv, TypeOK, Take
<1>2. QED
  BY <1>1 DEF Datas, Take, sender

\* The packets that the receiver leaves
LEMMA DemuxAside ==
  ASSUME IInv, LossInv, DemuxForeign \/ DemuxControl \/ DemuxCopy
  PROVE  LossInv'
<1>1. Take
  BY DEF DemuxForeign, DemuxControl, DemuxCopy
<1> DEFINE p == net[1]
<1>2. /\ 1 \in DOMAIN net /\ Head(net) = p
      /\ p.kind = "data" => p \in Datas(net)
      /\ UNCHANGED <<setup, numbers, lost>>
  BY <1>1, TakeFirst
<1>3. /\ sessionid' \in {sessionid, 0}
      /\ setup.stops = 0 => sessionid' = sessionid
      /\ UNCHANGED <<sessionid2, last, outs, open, got>>
  <2>1. Head(net) \in Sent
    BY <1>1, TakeFacts
  <2>2. QED
    BY <2>1 DEF DemuxForeign, DemuxControl, DemuxCopy, Sent, receiver
<1>4. ASSUME p.kind = "data", NEW m \in setup.double, open, got[m] # <<>>, p.from = m
      PROVE  p.ssrc = m + 1 /\ p.seq <= last
  <2>1. m \in Senders /\ m \in setup.talkers /\ m \in Nat /\ p.ssrc \in {m, m + 1}
        /\ p.seq \in Numbers /\ last \in Numbers
    BY <1>2, <1>4, OnWay DEF LossInv, Received, Written, IInv, TypeOK
  <2>2. sessionid2 = m + 1
    BY <1>4, <2>1 DEF LossInv, Listening
  <2>3. sessionid \in {0, m}
    BY <1>4, <2>1 DEF LossInv, Listening, IInv, Session
  <2>4. ~Foreign(p)
    BY <2>1, <2>2, <2>3 DEF Foreign
  <2>5. DemuxCopy
    BY <1>2, <1>4, <2>4 DEF DemuxForeign, DemuxControl
  <2>6. QED
    BY <1>2, <2>1, <2>2, <2>5 DEF DemuxCopy, Copy, Numbers
<1>5. QED
  BY <1>1, <1>2, <1>3, <1>4, TakeFirst, AsideLoss

\* A packet that goes to the decoder is of the one sender that is received.
LEMMA Heard ==
  ASSUME IInv, LossInv, Settled(setup), setup.double # {}, DemuxData
  PROVE  /\ sessionid2' = net[1].from + 1
         /\ setup.stops = 0 => sessionid' = net[1].from
         /\ setup.stops # 0 =>
              /\ sessionid' \in {0, net[1].from}
              /\ \A t \in setup.talkers : t = net[1].from
         /\ \A m \in Senders : got[m] # <<>> => m = net[1].from
<1> DEFINE p == net[1]
<1>1. /\ Take /\ ~Foreign(p) /\ p.kind = "data" /\ TakeSession(p)
      /\ p \in Datas(net)
  BY TakeFirst DEF DemuxData
<1>2. /\ p.from \in Senders /\ p.ssrc \in {p.from, p.from + 1} /\ p.from \in Nat /\ p.from > 0
      /\ Even(p.ssrc) = p.from /\ p.from \in setup.talkers
  BY <1>1, OnWay, EvenPart DEF LossInv, Written
<1>3. \/ p.pt \in outs /\ UNCHANGED <<sessionid, sessionid2>>
      \/ p.pt \notin outs /\ sessionid' = p.from /\ sessionid2' = p.from + 1
  BY <1>1, <1>2 DEF TakeSession
<1>4. CASE setup.stops = 0
  <2>1. Session
    BY <1>4 DEF IInv
  <2>2. CASE sessionid = 0
    BY <1>3, <1>4, <2>1, <2>2 DEF Session
  <2>3. CASE sessionid # 0
    <3>1. sessionid \in Senders /\ sessionid2 \in {0, sessionid + 1}
      BY <2>1, <2>3 DEF Session
    <3>2. p.ssrc \in {sessionid, sessionid + 1}
      BY <1>1, <1>2, <2>3, <3>1 DEF Foreign
    <3>3. p.from = sessionid
      BY <1>2, <3>1, <3>2, OwnSsrc
    <3>4. outs # {} => sessionid2 = sessionid + 1
      BY <1>4 DEF LossInv, Listening
    <3>5. QED
      BY <1>3, <1>4, <2>1, <3>3, <3>4 DEF Session
  <2>4. QED
    BY <2>2, <2>3
<1>5. CASE setup.stops # 0
  <2>1. \A t \in setup.talkers : t = p.from
    BY <1>2, <1>5 DEF Settled
  <2>2. sessionid \in {0, p.from} /\ (outs # {} => sessionid2 = p.from + 1)
    BY <1>2, <1>5 DEF LossInv, Listening
  <2>3. \A m \in Senders : got[m] # <<>> => m = p.from
    BY <2>1 DEF LossInv, Received
  <2>4. QED
    BY <1>3, <1>5, <2>1, <2>2, <2>3
<1>6. QED
  BY <1>4, <1>5

\* What the decoder gets of a sender is later than all it got before.
LEMMA Later ==
  ASSUME IInv, LossInv, DemuxData
  PROVE  /\ 1 \in DOMAIN net /\ net[1] \in Datas(net)
         /\ \A e \in DOMAIN got[net[1].from] : got[net[1].from][e] < net[1].k
         /\ \/ got' = got /\ (open => last' = last /\ setup.pt[net[1].from] \notin outs)
            \/ /\ open /\ last' = net[1].seq /\ setup.pt[net[1].from] \in outs'
               /\ got' = [got EXCEPT ![net[1].from] = Append(@, net[1].k)]
         /\ outs \subseteq outs' /\ open' = open
         /\ outs' # {} => outs # {} \/ TakeSession(net[1])
         /\ UNCHANGED <<setup, numbers, lost>>
<1> DEFINE p == net[1]
<1>1. Take /\ 1 \in DOMAIN net /\ Head(net) = p
  BY TakeFirst DEF DemuxData
<1>2. p.kind = "data" /\ p \in Datas(net) /\ ~Copy(p) /\ UNCHANGED <<setup, numbers, lost>>
  BY <1>1, TakeFirst DEF DemuxData
<1>3. \A e \in DOMAIN got[p.from] : got[p.from][e] < p.k
  BY <1>2 DEF LossInv, Ahead
<1>4. p.pt = setup.pt[p.from]
  BY <1>2 DEF LossInv, Written
<1>5. QED
  BY <1>1, <1>2, <1>3, <1>4 DEF DemuxData

\* The packet that goes to the decoder is the next that was not lost.
LEMMA DataLoss ==
  ASSUME IInv, IInv', LossInv, setup.faults \subseteq {"lose"}, Settled(setup), DemuxData
  PROVE  LossInv'
<1> DEFINE p == net[1]
           m == p.from
<1>1. /\ p \in Datas(net) /\ p.kind = "data" /\ m \in Senders /\ m \in Nat /\ p.k \in Nat
      /\ p.ssrc \in {m, m + 1} /\ p.seq \in Numbers /\ m \in setup.talkers
      /\ p.k \in 1 .. Len(numbers[m]) /\ p.seq = numbers[m][p.k]
      /\ m \in setup.double => setup.double # {}
  BY Later, OnWay DEF LossInv, Written
<1>2. /\ Lined(net') /\ Datas(net') = Datas(net) \ {p}
      /\ \A q \in Datas(net') : q.from = m => Place(p) < Place(q)
  <2>1. net \in Seq(Packets) /\ \A q \in Packets : q.k \in Nat /\ q.ssrc \in Nat /\ q.from \in Nat
    BY RtpAssumption DEF IInv, TypeOK, Packets
  <2>2. PICK x \in DOMAIN net : x = 1
    BY Later
  <2>3. /\ DOMAIN net' = 1 .. Len(net) - 1
        /\ \A i \in 1 .. Len(net) - 1 : net'[i] = IF i < x THEN net[i] ELSE net[i + 1]
    BY <2>2, TakeFirst DEF DemuxData
  <2>4. /\ Lined(net') /\ Datas(net') = Datas(net) \ {net[x]}
        /\ x = 1 /\ net[x].kind = "data" =>
             \A q \in Datas(net') : q.from = net[x].from => Place(net[x]) < Place(q)
    BY <2>1, <2>3, LeaveLine DEF LossInv
  <2>5. QED
    BY <1>1, <2>2, <2>4
<1>3. ASSUME NEW q \in Datas(net'), q.from = m
      PROVE  /\ q \in Datas(net)
             /\ p.k < q.k \/ (p.k = q.k /\ p.ssrc = m /\ q.ssrc = m + 1)
  <2>1. q \in Datas(net) /\ Place(p) < Place(q)
    BY <1>2, <1>3
  <2>2. q.k \in Nat /\ q.ssrc \in {m, m + 1}
    BY <1>3, <2>1, OnWay
  <2>3. 2 * p.k + (p.ssrc - m) < 2 * q.k + (q.ssrc - m)
    BY <1>3, <2>1 DEF Place
  <2>4. PICK z \in Nat : z = m
    BY <1>1
  <2>5. PICK a \in Nat, b \in Nat, c \in {z, z + 1}, d \in {z, z + 1} :
          a = p.k /\ b = q.k /\ c = p.ssrc /\ d = q.ssrc
    BY <1>1, <2>2, <2>4
  <2>6. 2 * a + (c - z) < 2 * b + (d - z) => a < b \/ (a = b /\ c = z /\ d = z + 1)
    OBVIOUS
  <2>7. QED
    BY <2>1, <2>3, <2>4, <2>5, <2>6
<1>4. /\ got \in [Senders -> Seq(Nat)]
      /\ \A n \in Senders : n # m => got'[n] = got[n]
      /\ \/ got' = got /\ (open => last' = last /\ setup.pt[m] \notin outs)
         \/ /\ open /\ last' = p.seq
            /\ got'[m] # <<>> /\ Last(got'[m]) = p.k
            /\ Len(got'[m]) = Len(got[m]) + 1
            /\ \A e \in DOMAIN got'[m] : IF e \in DOMAIN got[m] THEN got'[m][e] = got[m][e]
                                         ELSE e = Len(got[m]) + 1 /\ got'[m][e] = p.k
  <2>1. got \in [Senders -> Seq(Nat)]
    BY DEF IInv, TypeOK
  <2>2. \/ got' = got /\ (open => last' = last /\ setup.pt[m] \notin outs)
        \/ open /\ last' = p.seq /\ got' = [got EXCEPT ![m] = Append(@, p.k)]
    BY Later
  <2>3. PICK g \in Seq(Nat) : g = got[m]
    BY <1>1, <2>1
  <2>4. PICK h : h = Append(g, p.k)
    OBVIOUS
  <2>5. /\ Len(h) = Len(g) + 1 /\ h # <<>> /\ h[Len(h)] = p.k /\ Last(h) = p.k
        /\ \A e \in DOMAIN h : IF e \in DOMAIN g THEN h[e] = g[e]
                               ELSE e = Len(g) + 1 /\ h[e] = p.k
    BY <1>1, <2>3, <2>4 DEF Last
  <2>6. QED
    BY <1>1, <2>1, <2>2, <2>3, <2>4, <2>5
<1>5. ASSUME setup.double # {}
      PROVE  \A n \in Senders : got'[n] # <<>> => n = m
  BY <1>4, <1>5, Heard
<1>6. Written'
  BY <1>2, Later DEF LossInv, Written
<1>7. Received'
  <2>1. ASSUME NEW n \in Senders, got'[n] # <<>>
        PROVE  setup.pt[n] \in outs' /\ n \in setup.talkers
    BY <1>1, <1>4, <2>1, Later DEF LossInv, Received
  <2>2. ASSUME NEW n \in Senders, NEW e \in DOMAIN got'[n]
        PROVE  got'[n][e] \in 1 .. Len(numbers[n])
    BY <1>1, <1>4, <2>2 DEF LossInv, Received
  <2>3. UNCHANGED <<setup, numbers>>
    BY Later
  <2>4. QED
    BY <2>1, <2>2, <2>3 DEF Received
<1>8. Listening'
  BY <1>5, Heard, Later DEF Listening
<1>9. Ahead'
  <2> SUFFICES ASSUME NEW q \in Datas(net'), NEW e \in DOMAIN got'[q.from]
               PROVE  \/ got'[q.from][e] < q.k
                      \/ got'[q.from][e] = q.k /\ q.ssrc = q.from + 1 /\ Copy(q)'
    BY DEF Ahead, Copy
  <2>1. /\ q \in Datas(net) /\ q.from \in Senders /\ q.k \in Nat /\ q.seq = numbers[q.from][q.k]
        /\ q.ssrc = q.from \/ (q.ssrc = q.from + 1 /\ q.from \in setup.double)
        /\ q.from \in Nat
    BY <1>2, OnWay DEF LossInv, Written
  <2>2. CASE q.from # m
    <3>1. got'[q.from] = got[q.from]
      BY <1>4, <2>1, <2>2
    <3>2. got[q.from] # <<>>
      BY <1>4, <2>1, <3>1
    <3>3. setup.double = {}
      BY <1>5, <2>1, <2>2, <3>1, <3>2
    <3>4. QED
      BY <2>1, <3>1, <3>3 DEF LossInv, Ahead
  <2>3. CASE q.from = m
    <3>1. p.k < q.k \/ (p.k = q.k /\ p.ssrc = m /\ q.ssrc = m + 1)
      BY <1>3, <2>3
    <3>2. CASE e \in DOMAIN got[m] /\ got'[m][e] = got[m][e]
      <4>1. got[m][e] < p.k /\ got[m][e] \in Nat
        BY <1>1, <1>4, <3>2, Later
      <4>2. QED
        BY <1>1, <2>1, <2>3, <3>1, <3>2, <4>1
    <3>3. CASE got'[m][e] = p.k /\ got' # got
      <4>1. CASE p.k < q.k
        BY <2>3, <3>3, <4>1
      <4>2. CASE p.k = q.k /\ p.ssrc = m /\ q.ssrc = m + 1
        <5>1. setup.double # {}
          BY <2>1, <2>3, <4>2
        <5>2. sessionid2' = q.ssrc
          BY <4>2, <5>1, Heard
        <5>3. last' = q.seq /\ q.seq \in Int
          BY <1>1, <2>1, <2>3, <3>3, <4>2, Later DEF Numbers
        <5>4. QED
          BY <2>3, <3>3, <4>2, <5>2, <5>3 DEF Copy
      <4>3. QED
        BY <3>1, <4>1, <4>2
    <3>4. QED
      BY <1>4, <2>3, <3>2, <3>3
  <2>4. QED
    BY <2>2, <2>3
<1>10. Latest'
  <2> SUFFICES ASSUME NEW n \in setup.double, open, got'[n] # <<>>
               PROVE  last' = numbers[n][Last(got'[n])]
    BY Later DEF Latest
  <2>1. n \in Senders
    BY RtpAssumption DEF IInv, TypeOK
  <2>2. n = m
    BY <1>5, <2>1
  <2>3. got[m] # <<>> => setup.pt[m] \in outs
    BY <1>1 DEF LossInv, Received
  <2>4. last' = p.seq /\ Last(got'[m]) = p.k
    BY <1>4, <2>2, <2>3
  <2>5. QED
    BY <1>1, <2>2, <2>4
<1>11. ASSUME NEW n, NEW ssrc, NEW k, Lost(n, ssrc, k) \/ Pending(n, ssrc, k),
              n = m => p.k # k
       PROVE  Lost(n, ssrc, k)' \/ Pending(n, ssrc, k)'
  BY <1>2, <1>11, Later DEF Lost, Pending
<1>12. Behind'
  <2> SUFFICES ASSUME NEW q \in Datas(net'), q.from \in setup.double,
                      NEW k \in q.k + 1 .. Len(numbers[q.from]),
                      NEW ssrc \in {q.from, q.from + 1}
               PROVE  Lost(q.from, ssrc, k)' \/ Pending(q.from, ssrc, k)'
    BY Later DEF Behind
  <2>1. q \in Datas(net) /\ q.k \in Nat
    BY <1>2, OnWay
  <2>2. Lost(q.from, ssrc, k) \/ Pending(q.from, ssrc, k)
    BY <2>1 DEF LossInv, Behind
  <2>3. q.from = m => p.k # k
    BY <1>1, <1>3, <2>1
  <2>4. QED
    BY <1>11, <2>2, <2>3
<1>13. Awaited'
  <2> SUFFICES ASSUME NEW n \in setup.double, open, got'[n] # <<>>,
                      NEW k \in Last(got'[n]) + 1 .. Len(numbers[n])
               PROVE  /\ Lost(n, n, k)' \/ Pending(n, n, k)'
                      /\ \/ Lost(n, n + 1, k)' \/ Pending(n, n + 1, k)'
                         \/ numbers[n][k] <= numbers[n][Last(got'[n])]
    BY Later DEF Awaited
  <2>1. n \in Senders /\ n = m
    BY <1>5, RtpAssumption DEF IInv, TypeOK
  <2>2. got[m] # <<>> => setup.pt[m] \in outs
    BY <1>1 DEF LossInv, Received
  <2>3. Last(got'[m]) = p.k
    BY <1>4, <2>1, <2>2
  <2>4. k \in p.k + 1 .. Len(numbers[m]) /\ p.k # k
    BY <1>1, <2>1, <2>3
  <2>5. \A ssrc \in {m, m + 1} : Lost(m, ssrc, k) \/ Pending(m, ssrc, k)
    BY <1>1, <2>1, <2>4 DEF LossInv, Behind
  <2>6. QED
    BY <1>11, <2>1, <2>4, <2>5
<1>14. ASSUME NEW n \in setup.double, NEW i \in 1 .. Len(got'[n]) - 1,
              NEW k \in got'[n][i] + 1 .. got'[n][i + 1] - 1
       PROVE  /\ Lost(n, n, k)
              /\ Lost(n, n + 1, k) \/ numbers[n][k] <= numbers[n][got'[n][i]]
  <2>1. n \in Senders /\ n \in Nat
    BY RtpAssumption DEF IInv, TypeOK
  <2>2. CASE got'[n] = got[n]
    BY <1>14, <2>1, <2>2 DEF LossInv, OneCopySuffices
  <2>3. CASE got'[n] # got[n]
    <3>1. /\ n = m /\ open /\ Len(got'[m]) = Len(got[m]) + 1 /\ Len(got[m]) \in Nat
          /\ \A e \in DOMAIN got'[m] : IF e \in DOMAIN got[m] THEN got'[m][e] = got[m][e]
                                       ELSE e = Len(got[m]) + 1 /\ got'[m][e] = p.k
          /\ DOMAIN got[m] = 1 .. Len(got[m]) /\ DOMAIN got'[m] = 1 .. Len(got'[m])
      <4>1. n = m
        BY <1>4, <2>1, <2>3
      <4>2. got' # got
        BY <2>3
      <4>3. got[m] \in Seq(Nat) /\ got'[m] \in Seq(Nat)
        BY <1>1, <1>4, Zenon DEF IInv, TypeOK
      <4>4. QED
        BY SMTT(30), <1>4, <4>1, <4>2, <4>3
    <3>2. i \in DOMAIN got[m] /\ got'[m][i] = got[m][i]
      BY <1>14, <3>1
    <3>3. CASE i < Len(got[m])
      <4>1. got'[m][i + 1] = got[m][i + 1]
        BY <3>1, <3>2, <3>3
      <4>2. /\ m \in setup.double /\ i \in 1 .. Len(got[m]) - 1
            /\ k \in got[m][i] + 1 .. got[m][i + 1] - 1
        BY <1>14, <3>1, <3>2, <3>3, <4>1
      <4>3. /\ Lost(m, m, k)
            /\ Lost(m, m + 1, k) \/ numbers[m][k] <= numbers[m][got[m][i]]
        BY <4>2 DEF LossInv, OneCopySuffices
      <4>4. QED
        BY <3>1, <3>2, <4>3
    <3>4. CASE i = Len(got[m])
      <4>1. got'[m][i + 1] = p.k /\ got[m][i] = Last(got[m]) /\ got[m] # <<>>
        BY <3>1, <3>2, <3>4 DEF Last
      <4>2. k \in Last(got[m]) + 1 .. p.k - 1
        BY <1>14, <3>1, <3>2, <4>1
      <4>3. k \in Last(got[m]) + 1 .. Len(numbers[m]) /\ k < p.k
        BY <1>1, <4>2
      <4>4. ~Pending(m, m, k) /\ ~Pending(m, m + 1, k)
        <5> SUFFICES ASSUME NEW q \in Datas(net), q.from = m, q.k = k PROVE FALSE
          BY DEF Pending
        <5>1. q # p
          BY <1>1, <4>3
        <5>2. q \in Datas(net')
          BY <1>2, <5>1
        <5>3. q.k \in Nat /\ (p.k < q.k \/ p.k = q.k)
          BY <1>3, <5>2, OnWay
        <5>4. QED
          BY <1>1, <4>3, <5>3
      <4>5. QED
        BY <3>1, <3>2, <4>1, <4>3, <4>4, <1>14 DEF LossInv, Awaited
    <3>5. QED
      BY <3>1, <3>2, <3>3, <3>4
  <2>4. QED
    BY <2>2, <2>3
<1>15. OneCopySuffices'
  <2>1. ASSUME NEW n, NEW ssrc, NEW k, Lost(n, ssrc, k) PROVE Lost(n, ssrc, k)'
    BY <2>1, Later DEF Lost
  <2>2. QED
    BY <1>14, <2>1, Later DEF OneCopySuffices
<1>16. QED
  BY <1>2, <1>6, <1>7, <1>8, <1>9, <1>10, <1>12, <1>13, <1>15 DEF LossInv

\* A sender pushes a packet, its copy if it doubles them, and maybe a command.
LEMMA PushedLine ==
  ASSUME IInv, NEW m \in Senders
  PROVE  LET n == Len(numbers[m]) + 1
             first == Packet(m, m, "data", seqnum[m], n)
             second == Packet(m, m + 1, "data", seqnum[m], n)
         IN  /\ Lined(Pushed(m)) /\ Pushed(m) \in Seq(Packets)
             /\ Datas(Pushed(m)) = {first} \cup (IF m \in setup.double THEN {second} ELSE {})
<1> DEFINE k == Len(numbers[m]) + 1
           first == Packet(m, m, "data", seqnum[m], k)
           second == Packet(m, m + 1, "data", seqnum[m], k)
           command == Packet(m, m, putvctrl[m], NextNumber(seqnum[m]), 0)
           seconds == IF m \in setup.double THEN <<second>> ELSE <<>>
           commands == IF putvctrl[m] # "none" THEN <<command>> ELSE <<>>
<1>1. /\ m \in Nat /\ numbers[m] \in Seq(Numbers) /\ seqnum[m] \in Numbers
      /\ putvctrl[m] \in {"volume", "stop", "none"}
  BY RtpAssumption DEF IInv, TypeOK
<1>2. k \in Nat
  BY <1>1
<1>3. first \in Packets /\ second \in Packets
  BY <1>1, <1>2, PacketType
<1>4. putvctrl[m] # "none" => command \in Packets
  BY <1>1, PacketType, NextNumberType
<1>5. /\ first.kind = "data" /\ second.kind = "data" /\ command.kind = putvctrl[m]
      /\ first.from = m /\ second.from = m /\ first.k = k /\ second.k = k
      /\ first.ssrc = m /\ second.ssrc = m + 1
  BY DEF Packet
<1>6. Pushed(m) = (<<first>> \o seconds) \o commands
  BY DEF Pushed
<1> HIDE DEF k, first, second, command
<1>7. Place(first) < Place(second)
  BY <1>1, <1>2, <1>5 DEF Place
<1>8. /\ <<first>> \in Seq(Packets) /\ Lined(<<first>>) /\ Datas(<<first>>) = {first}
  BY <1>3, <1>5 DEF Lined, Datas
<1>9. /\ seconds \in Seq(Packets) /\ Lined(seconds)
      /\ Datas(seconds) = IF m \in setup.double THEN {second} ELSE {}
  BY <1>3, <1>5 DEF Lined, Datas
<1>10. commands \in Seq(Packets) /\ Lined(commands) /\ Datas(commands) = {}
  BY <1>1, <1>4, <1>5 DEF Lined, Datas
<1>11. \A p \in Packets : p.k \in Nat /\ p.ssrc \in Nat /\ p.from \in Nat
  BY RtpAssumption DEF Packets
<1> HIDE DEF seconds, commands
<1>12. PICK a \in Seq(Packets) : a = <<first>> /\ Lined(a) /\ Datas(a) = {first}
  BY <1>8, Zenon
<1>13. PICK b \in Seq(Packets) :
         b = seconds /\ Lined(b) /\ Datas(b) = IF m \in setup.double THEN {second} ELSE {}
  BY <1>9, Zenon
<1>14. PICK c \in Seq(Packets) : c = commands /\ Lined(c) /\ Datas(c) = {}
  BY <1>10, Zenon
<1>15. Lined(a \o b) /\ Datas(a \o b) = Datas(a) \cup Datas(b)
  <2>1. \A p \in Datas(a), q \in Datas(b) : p.from = q.from => Place(p) < Place(q)
    BY <1>7, <1>12, <1>13
  <2>2. Lined(a) /\ Lined(b)
    BY <1>12, <1>13, Zenon
  <2>3. QED
    BY <1>11, <2>1, <2>2, JoinLine, Zenon
<1>16. PICK d \in Seq(Packets) : d = a \o b /\ Lined(d) /\ Datas(d) = Datas(a) \cup Datas(b)
  <2>1. a \o b \in Seq(Packets)
    OBVIOUS
  <2>2. QED
    BY <1>15, <2>1, Zenon
<1>17. /\ Lined(Pushed(m)) /\ Pushed(m) \in Seq(Packets)
       /\ Datas(Pushed(m)) = {first} \cup (IF m \in setup.double THEN {second} ELSE {})
  <2>1. \A p \in Datas(d), q \in Datas(c) : p.from = q.from => Place(p) < Place(q)
    BY <1>14
  <2>2. Lined(d) /\ Lined(c)
    BY <1>14, <1>16, Zenon
  <2>3. Lined(d \o c) /\ Datas(d \o c) = Datas(d) \cup Datas(c)
    BY <1>11, <2>1, <2>2, JoinLine, Zenon
  <2>4. Pushed(m) = d \o c
    BY <1>6, <1>12, <1>13, <1>14, <1>16, Zenon
  <2>5. d \o c \in Seq(Packets)
    OBVIOUS
  <2>6. Datas(d \o c) = {first} \cup (IF m \in setup.double THEN {second} ELSE {})
    BY <1>12, <1>13, <1>14, <1>16, <2>3
  <2>7. QED
    BY <2>3, <2>4, <2>5, <2>6, Zenon
<1>18. QED
  BY <1>17 DEF k, first, second

\* What a sender pushes comes after all that it has sent.
LEMMA PushLoss ==
  ASSUME IInv, LossInv, setup.faults \subseteq {"lose"}, NEW m \in Senders, Push(m)
  PROVE  LossInv'
<1>0. PICK n \in Nat : n = Len(numbers[m]) + 1
  <2>1. Len(numbers[m]) \in Nat
    BY DEF IInv, TypeOK
  <2>2. QED
    BY <2>1
<1> DEFINE first == Packet(m, m, "data", seqnum[m], n)
           second == Packet(m, m + 1, "data", seqnum[m], n)
<1>1. /\ m \in Nat /\ numbers[m] \in Seq(Numbers) /\ seqnum[m] \in Numbers /\ n \in Nat
      /\ m \in setup.talkers
  BY RtpAssumption DEF IInv, TypeOK, Push
<1>2. UNCHANGED <<setup, lost, sessionid, sessionid2, last, outs, got, open>>
  BY DEF Push, receiver
<1>3. /\ first.from = m /\ second.from = m /\ first.k = n /\ second.k = n
      /\ first.ssrc = m /\ second.ssrc = m + 1 /\ first.seq = seqnum[m] /\ second.seq = seqnum[m]
      /\ first.pt = setup.pt[m] /\ second.pt = setup.pt[m]
  BY DEF Packet
<1>4. /\ Lined(Pushed(m)) /\ Pushed(m) \in Seq(Packets)
      /\ Datas(Pushed(m)) = {first} \cup (IF m \in setup.double THEN {second} ELSE {})
  BY <1>0, PushedLine
<1> HIDE DEF first, second
<1>5. /\ Lined(net') 
      /\ Datas(net') = Datas(net) \cup {first} \cup (IF m \in setup.double THEN {second} ELSE {})
  <2>1. net \in Seq(Packets) /\ \A p \in Packets : p.k \in Nat /\ p.ssrc \in Nat /\ p.from \in Nat
    BY RtpAssumption DEF IInv, TypeOK, Packets
  <2>2. ASSUME NEW p \in Datas(net), NEW q \in Datas(Pushed(m)), p.from = q.from
        PROVE  Place(p) < Place(q)
    <3>1. q.from = m /\ q.k = n /\ q.ssrc \in {m, m + 1}
      BY <1>3, <1>4
    <3>2. p.from = m /\ p.ssrc \in {m, m + 1} /\ p.k \in 1 .. n - 1
      BY <1>0, <2>2, <3>1, OnWay DEF LossInv, Written
    <3>3. PICK z \in Nat, y \in Nat : z = m /\ y = n
      BY <1>1
    <3>4. PICK a \in 1 .. y - 1, c \in {z, z + 1}, d \in {z, z + 1} :
            a = p.k /\ c = p.ssrc /\ d = q.ssrc
      BY <3>1, <3>2, <3>3
    <3>5. 2 * a + (c - z) < 2 * y + (d - z)
      OBVIOUS
    <3>6. QED
      BY <3>1, <3>2, <3>3, <3>4, <3>5 DEF Place
  <2>3. Lined(net \o Pushed(m)) /\ Datas(net \o Pushed(m)) = Datas(net) \cup Datas(Pushed(m))
    BY <1>4, <2>1, <2>2, JoinLine DEF LossInv
  <2>4. net' = net \o Pushed(m)
    BY DEF Push
  <2>5. QED
    BY <1>4, <2>3, <2>4
<1>6. /\ numbers'[m] = Append(numbers[m], seqnum[m])
      /\ \A x \in Senders : x # m => numbers'[x] = numbers[x]
      /\ Len(numbers'[m]) = n /\ numbers'[m][n] = seqnum[m]
      /\ \A x \in Senders :
           /\ Len(numbers[x]) \in Nat /\ Len(numbers'[x]) \in Nat
           /\ Len(numbers[x]) <= Len(numbers'[x])
           /\ \A k \in 1 .. Len(numbers[x]) : numbers'[x][k] = numbers[x][k]
  <2>1. numbers \in [Senders -> Seq(Numbers)] /\ numbers' = [numbers EXCEPT ![m] = Append(@, seqnum[m])]
    BY DEF IInv, TypeOK, Push
  <2>2. QED
    BY <1>0, <1>1, <2>1
<1>7. \A p \in Datas(net') : p \in Datas(net) \/ p = first \/ (p = second /\ m \in setup.double)
  BY <1>5
<1>8. \A p \in Datas(net) : p.from \in Senders /\ p.k \in 1 .. Len(numbers[p.from])
  BY OnWay DEF LossInv, Written
<1>9. Written'
  <2> SUFFICES ASSUME NEW p \in Datas(net')
               PROVE  /\ p.from \in setup.talkers /\ p.pt = setup.pt[p.from]
                      /\ p.ssrc = p.from \/ (p.ssrc = p.from + 1 /\ p.from \in setup.double)
                      /\ p.k \in 1 .. Len(numbers'[p.from]) /\ p.seq = numbers'[p.from][p.k]
    BY <1>2 DEF Written
  <2>1. CASE p \in Datas(net)
    <3>1. p.from \in Senders /\ p.k \in 1 .. Len(numbers[p.from])
      BY <1>8, <2>1
    <3>2. p.k \in 1 .. Len(numbers'[p.from]) /\ numbers'[p.from][p.k] = numbers[p.from][p.k]
      BY <1>6, <3>1
    <3>3. QED
      BY <2>1, <3>2 DEF LossInv, Written
  <2>2. CASE p = first
    BY <1>0, <1>1, <1>3, <1>6, <2>2
  <2>3. CASE p = second /\ m \in setup.double
    BY <1>0, <1>1, <1>3, <1>6, <2>3
  <2>4. QED
    BY <1>7, <2>1, <2>2, <2>3
<1>10. Received' /\ Listening'
  BY <1>2, <1>6 DEF LossInv, Received, Listening
<1>11. Ahead'
  <2> SUFFICES ASSUME NEW p \in Datas(net'), NEW e \in DOMAIN got[p.from]
               PROVE  \/ got[p.from][e] < p.k
                      \/ got[p.from][e] = p.k /\ p.ssrc = p.from + 1 /\ Copy(p)
    BY <1>2 DEF Ahead, Copy
  <2>1. CASE p \in Datas(net)
    BY <2>1 DEF LossInv, Ahead
  <2>2. CASE p = first \/ p = second
    <3>1. p.from = m /\ p.k = n /\ got[m][e] \in 1 .. Len(numbers[m])
      BY <1>3, <2>2 DEF LossInv, Received
    <3>2. QED
      BY <1>0, <1>1, <3>1
  <2>3. QED
    BY <1>7, <2>1, <2>2
<1>12. ASSUME NEW x \in Senders, got[x] # <<>>
       PROVE  Last(got[x]) \in 1 .. Len(numbers[x])
  <2>1. got[x] \in Seq(Nat)
    BY DEF IInv, TypeOK
  <2>2. Len(got[x]) \in DOMAIN got[x]
    BY <1>12, <2>1
  <2>3. QED
    BY <2>2 DEF Last, LossInv, Received
<1>13. setup.double \subseteq Senders
  BY RtpAssumption DEF IInv, TypeOK
<1>14. Latest'
  BY <1>2, <1>6, <1>12, <1>13 DEF LossInv, Latest
<1>15. ASSUME NEW x, NEW ssrc, NEW k, Lost(x, ssrc, k) \/ Pending(x, ssrc, k)
       PROVE  Lost(x, ssrc, k)' \/ Pending(x, ssrc, k)'
  BY <1>2, <1>5, <1>15 DEF Lost, Pending
<1>16. m \in setup.double => Pending(m, m, n)' /\ Pending(m, m + 1, n)'
  <2> SUFFICES ASSUME m \in setup.double PROVE Pending(m, m, n)' /\ Pending(m, m + 1, n)'
    OBVIOUS
  <2>1. first \in Datas(net') /\ second \in Datas(net')
    BY <1>5
  <2>2. QED
    BY <1>3, <2>1 DEF Pending
<1>17. ASSUME NEW x \in setup.double, NEW l \in Nat, NEW k \in l + 1 .. Len(numbers'[x]),
              NEW ssrc \in {x, x + 1}
       PROVE  k \in l + 1 .. Len(numbers[x]) \/ Pending(x, ssrc, k)'
  <2>1. CASE x = m /\ k = n
    <3>1. Pending(m, m, n)' /\ Pending(m, m + 1, n)'
      BY <1>16, <1>17, <2>1
    <3>2. ssrc = m \/ ssrc = m + 1
      BY <1>17, <2>1
    <3>3. QED
      BY <2>1, <3>1, <3>2
  <2>2. CASE x # m
    BY <1>6, <1>13, <1>17, <2>2
  <2>3. CASE x = m /\ k # n
    <3>1. k \in l + 1 .. n /\ n - 1 = Len(numbers[m])
      BY <1>0, <1>6, <1>17, <2>3
    <3>2. QED
      BY <1>0, <2>3, <3>1
  <2>4. QED
    BY <2>1, <2>2, <2>3
<1>18. Awaited'
  <2> SUFFICES ASSUME NEW x \in setup.double, open, got[x] # <<>>,
                      NEW k \in Last(got[x]) + 1 .. Len(numbers'[x])
               PROVE  /\ Lost(x, x, k)' \/ Pending(x, x, k)'
                      /\ \/ Lost(x, x + 1, k)' \/ Pending(x, x + 1, k)'
                         \/ numbers'[x][k] <= numbers'[x][Last(got[x])]
    BY <1>2 DEF Awaited
  <2>1. PICK l \in 1 .. Len(numbers[x]) : l = Last(got[x])
    BY <1>12, <1>13
  <2>2. CASE k \in l + 1 .. Len(numbers[x])
    <3>1. /\ Lost(x, x, k) \/ Pending(x, x, k)
          /\ \/ Lost(x, x + 1, k) \/ Pending(x, x + 1, k)
             \/ numbers[x][k] <= numbers[x][l]
      BY <2>1, <2>2 DEF LossInv, Awaited
    <3>2. numbers'[x][k] = numbers[x][k] /\ numbers'[x][l] = numbers[x][l]
      BY <1>6, <1>13, <2>1, <2>2
    <3>3. QED
      BY <1>15, <2>1, <3>1, <3>2
  <2>3. QED
    BY <1>17, <2>1, <2>2
<1>19. Behind'
  <2> SUFFICES ASSUME NEW p \in Datas(net'), p.from \in setup.double,
                      NEW k \in p.k + 1 .. Len(numbers'[p.from]),
                      NEW ssrc \in {p.from, p.from + 1}
               PROVE  Lost(p.from, ssrc, k)' \/ Pending(p.from, ssrc, k)'
    BY <1>2 DEF Behind
  <2>1. CASE p \in Datas(net)
    <3>1. CASE k \in p.k + 1 .. Len(numbers[p.from])
      BY <1>15, <2>1, <3>1 DEF LossInv, Behind
    <3>2. p.k \in Nat
      BY <2>1, OnWay
    <3>3. QED
      BY <1>17, <3>1, <3>2
  <2>2. CASE p = first \/ p = second
    BY <1>0, <1>1, <1>3, <1>6, <2>2
  <2>3. QED
    BY <1>7, <2>1, <2>2
<1>20. OneCopySuffices'
  <2> SUFFICES ASSUME NEW x \in setup.double, NEW i \in 1 .. Len(got[x]) - 1,
                      NEW k \in got[x][i] + 1 .. got[x][i + 1] - 1
               PROVE  /\ Lost(x, x, k)
                      /\ Lost(x, x + 1, k) \/ numbers'[x][k] <= numbers'[x][got[x][i]]
    BY <1>2 DEF OneCopySuffices, Lost
  <2>1. /\ Lost(x, x, k)
        /\ Lost(x, x + 1, k) \/ numbers[x][k] <= numbers[x][got[x][i]]
    BY DEF LossInv, OneCopySuffices
  <2>2. got[x][i] \in 1 .. Len(numbers[x]) /\ got[x][i + 1] \in 1 .. Len(numbers[x])
    <3>1. got[x] \in Seq(Nat)
      BY <1>13 DEF IInv, TypeOK
    <3>2. i \in DOMAIN got[x] /\ i + 1 \in DOMAIN got[x]
      BY <3>1
    <3>3. QED
      BY <1>13, <3>2 DEF LossInv, Received
  <2>3. k \in 1 .. Len(numbers[x])
    BY <1>6, <1>13, <2>2
  <2>4. QED
    BY <1>6, <1>13, <2>1, <2>2, <2>3
<1>21. QED
  BY <1>5, <1>9, <1>10, <1>11, <1>14, <1>18, <1>19, <1>20 DEF LossInv

\* Nothing is on its way, or received, of what is not sent.
LEMMA InitLoss ==
  ASSUME Init, Settled(setup)
  PROVE  LossInv
<1>1. /\ net = <<>> /\ outs = {} /\ \A m \in Senders : got[m] = <<>>
      /\ setup.talkers \subseteq Senders /\ setup.double \subseteq Senders
  BY RtpAssumption DEF Init, ReceiverInit
<1>2. Datas(net) = {} /\ Lined(net)
  BY <1>1 DEF Datas, Lined
<1>3. Written /\ Ahead /\ Behind
  BY <1>2 DEF Written, Ahead, Behind
<1>4. Received /\ Latest /\ Awaited
  BY <1>1 DEF Received, Latest, Awaited
<1>5. Listening
  <2>1. sessionid \in setup.talkers \cup {0}
    BY DEF Init, ReceiverInit
  <2>2. setup.stops # 0 /\ setup.double # {} => \A t, u \in setup.talkers : t = u
    BY DEF Settled
  <2>3. QED
    BY <1>1, <2>1, <2>2 DEF Listening
<1>6. OneCopySuffices
  BY <1>1 DEF OneCopySuffices
<1>7. QED
  BY <1>2, <1>3, <1>4, <1>5, <1>6 DEF LossInv

\* Over a network that only loses packets every step keeps what is known of them.
LEMMA StepLoss ==
  ASSUME \A s \in Setups : Settled(s), IInv, IInv', StreamInv, [Next]_vars
  PROVE  StreamInv'
<1>1. Settled(setup)
  BY DEF IInv, TypeOK
<1>2. setup' = setup
  BY DEF Next, vars, Pack, Push, SenderStops, Lose, Duplicate, Reorder, Fault, DemuxForeign,
     DemuxControl, DemuxCopy, DemuxData, Take, DecoderBreaks, ReceiverStops
<1> SUFFICES ASSUME setup.faults \subseteq {"lose"}, LossInv PROVE LossInv'
  BY <1>2 DEF StreamInv
<1>3. ASSUME UNCHANGED vars \/ DecoderBreaks \/ ReceiverStops
             \/ \E m \in Senders : Pack(m) \/ SenderStops(m)
      PROVE  LossInv'
  <2>1. UNCHANGED <<setup, net, numbers, lost, sessionid2, last, outs, got>>
    BY <1>3 DEF vars, sender, wire, receiver, DecoderBreaks, ReceiverStops, Pack, SenderStops
  <2>2. open' => open
    BY <1>3 DEF vars, sender, wire, receiver, DecoderBreaks, ReceiverStops, Pack, SenderStops
  <2>3. sessionid' \in {0, sessionid} /\ (setup.stops = 0 => sessionid' = sessionid)
    BY <1>3 DEF vars, sender, wire, receiver, DecoderBreaks, ReceiverStops, Pack, SenderStops,
       IInv, NoStop
  <2>4. QED
    BY <2>1, <2>2, <2>3, QuietLoss
<1>4. ASSUME NEW m \in Senders, Push(m) PROVE LossInv'
  BY <1>4, PushLoss
<1>5. ~Duplicate /\ ~Reorder
  BY DEF Duplicate, Reorder, Fault
<1>6. CASE Lose
  BY <1>6, LoseLoss
<1>7. CASE DemuxForeign \/ DemuxControl \/ DemuxCopy
  BY <1>7, DemuxAside
<1>8. CASE DemuxData
  BY <1>1, <1>8, DataLoss
<1>9. QED
  BY <1>3, <1>4, <1>5, <1>6, <1>7, <1>8 DEF Next

\* What is known of the packets on their way holds for any setups that are settled.
LEMMA StreamInvariance ==
  ASSUME \A s \in Setups : Settled(s)
  PROVE  Spec => []StreamInv
<1>1. Init => StreamInv
  BY InitLoss DEF StreamInv, Init
<1>2. IInv /\ IInv' /\ StreamInv /\ [Next]_vars => StreamInv'
  BY StepLoss
<1>3. QED
  BY <1>1, <1>2, Invariance, PTL DEF Spec

\* A sender that sends each packet twice loses one before another that is delivered only
\* if the network loses both copies, or the first of one whose number is not larger.
THEOREM TwiceIsSafer ==
  ASSUME \A s \in Setups : Settled(s)
  PROVE  Spec => []OneCopySuffices
<1>1. StreamInv => OneCopySuffices
  BY DEF StreamInv, LossInv, OneCopySuffices
<1>2. QED
  BY <1>1, StreamInvariance, PTL

-----------------------------------------------------------------------------
(* The stream is one of packets that come in order, or never *)

\* Each step is one of the abstract stream or none.
LEMMA StepStream ==
  ASSUME IInv, StreamInv, [Next]_vars
  PROVE  [Stream!StreamNext]_(<<[m \in Senders |-> Len(numbers[m])],
            [m \in Senders |-> IF setup.faults \subseteq {"lose"} THEN got[m] ELSE <<>>]>>)
<1> DEFINE sent == [m \in Senders |-> Len(numbers[m])]
           come == [m \in Senders |-> IF setup.faults \subseteq {"lose"} THEN got[m] ELSE <<>>]
<1>1. setup' = setup
  BY DEF Next, vars, Pack, Push, SenderStops, Lose, Duplicate, Reorder, Fault, DemuxForeign,
     DemuxControl, DemuxCopy, DemuxData, Take, DecoderBreaks, ReceiverStops
<1>2. /\ numbers \in [Senders -> Seq(Numbers)] /\ got \in [Senders -> Seq(Nat)]
  BY DEF IInv, TypeOK
<1>3. ASSUME numbers' = numbers, got' = got PROVE sent' = sent /\ come' = come
  BY <1>1, <1>3
<1>4. ASSUME NEW m \in Senders, Push(m) PROVE Stream!Send(m)
  <2>1. got' = got /\ numbers' = [numbers EXCEPT ![m] = Append(@, seqnum[m])]
    BY <1>4 DEF Push, receiver
  <2>2. seqnum[m] \in Numbers
    BY DEF IInv, TypeOK
  <2>3. come' = come
    BY <1>1, <2>1
  <2>4. sent' = [sent EXCEPT ![m] = @ + 1]
    <3>1. \A x \in Senders : Len(numbers'[x]) = IF x = m THEN Len(numbers[m]) + 1 ELSE Len(numbers[x])
      BY <1>2, <2>1, <2>2
    <3>2. QED
      BY <3>1
  <2>5. QED
    BY <2>3, <2>4 DEF Stream!Send
<1>5. ASSUME DemuxData
      PROVE  sent' = sent /\ (come' = come \/ \E m \in Senders : Stream!Receive(m))
  <2>1. numbers' = numbers
    BY <1>5 DEF DemuxData, Take, sender
  <2>2. sent' = sent
    BY <2>1
  <2>3. CASE ~(setup.faults \subseteq {"lose"})
    BY <1>1, <2>2, <2>3
  <2>4. CASE setup.faults \subseteq {"lose"} /\ got' = got
    BY <1>1, <2>2, <2>4
  <2>5. CASE setup.faults \subseteq {"lose"} /\ got' # got
    <3>1. LossInv
      BY <2>5 DEF StreamInv
    <3>2. PICK p : p = net[1]
      OBVIOUS
    <3>3. /\ p \in Datas(net) /\ \A e \in DOMAIN got[p.from] : got[p.from][e] < p.k
          /\ got' = [got EXCEPT ![p.from] = Append(@, p.k)]
      BY <1>5, <2>5, <3>1, <3>2, Later
    <3>4. p.from \in Senders /\ p.k \in 1 .. Len(numbers[p.from])
      BY <3>1, <3>3, OnWay DEF LossInv, Written
    <3>5. PICK m \in Senders, k \in 1 .. Len(numbers[p.from]) : m = p.from /\ k = p.k
      BY <3>4
    <3>6. sent[m] = Len(numbers[m]) /\ come[m] = got[m] /\ come = got
      BY <1>2, <2>5
    <3>7. come' = got'
      BY <1>1, <1>2, <2>5, <3>3
    <3>8. Stream!Receive(m)
      BY <2>2, <3>3, <3>5, <3>6, <3>7 DEF Stream!Receive
    <3>9. QED
      BY <2>2, <3>8
  <2>6. QED
    BY <2>3, <2>4, <2>5
<1>6. ASSUME UNCHANGED vars \/ DecoderBreaks \/ ReceiverStops \/ Lose \/ Duplicate \/ Reorder
             \/ DemuxForeign \/ DemuxControl \/ DemuxCopy
             \/ \E m \in Senders : Pack(m) \/ SenderStops(m)
      PROVE  numbers' = numbers /\ got' = got
  BY <1>6 DEF vars, sender, wire, receiver, DecoderBreaks, ReceiverStops, Pack, SenderStops,
     Lose, Duplicate, Reorder, Fault, DemuxForeign, DemuxControl, DemuxCopy, Take
<1> HIDE DEF sent, come
<1>7. (\E m \in Senders : Stream!Send(m) \/ Stream!Receive(m)) \/ (sent' = sent /\ come' = come)
  BY <1>3, <1>4, <1>5, <1>6 DEF Next
<1>8. QED
  BY <1>7 DEF Stream!StreamNext, sent, come

\* Over a network that keeps the order, each sender's packets reach the decoder at most once
\* and in order, each packet doubled or not, and their numbers wrapped around or not.
THEOREM StreamRefinement ==
  ASSUME \A s \in Setups : Settled(s)
  PROVE  Spec => ImplementsStream
<1>1. Init => Stream!StreamInit
  BY DEF Init, SenderInit, ReceiverInit, Stream!StreamInit
<1>2. IInv /\ StreamInv /\ [Next]_vars =>
        [Stream!StreamNext]_(<<[m \in Senders |-> Len(numbers[m])],
            [m \in Senders |-> IF setup.faults \subseteq {"lose"} THEN got[m] ELSE <<>>]>>)
  BY StepStream
<1>3. QED
  BY <1>1, <1>2, Invariance, StreamInvariance, PTL DEF Spec, ImplementsStream, Stream!StreamSpec

=============================================================================
