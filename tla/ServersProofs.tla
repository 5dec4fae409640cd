--------------------------- MODULE ServersProofs ---------------------------
(***************************************************************************)
(* Proofs about the two servers of unix sockets: the sink that sends the   *)
(* stream, for any number of clients and of buffers and any limit of the   *)
(* clients, and the commands, for any number of connections, of clients,   *)
(* of requests and of changes of the player.  Each has its own variables   *)
(* and its own specification, and no proof uses both.                      *)
(*                                                                         *)
(* The sink.  What a client sends is either the buffer of its count or the *)
(* one before it, because the counter runs ahead of the publication by one *)
(* at most.  NeverBack is not inductive: what has to be known is where the *)
(* last two buffers a client sent stand beside the count it has seen.      *)
(* NeverTwoMissed is about a client that was always alone.  Then its own   *)
(* acknowledgements are all there are, and AloneInv says how far the count *)
(* may run ahead of the last buffer it sent: by Slack, which depends on    *)
(* where the sink is and on whether an acknowledgement is pending.         *)
(*                                                                         *)
(* The commands.  That the list of the clients is whole rests on a         *)
(* sequence behind it (Chain): the clients that are alive, each linked to  *)
(* the next, the last to none.  A walk from the head then finds the n-th   *)
(* client after n steps, which is an induction over n (Least, Induct); an  *)
(* insertion or a removal gives a new sequence.  That the requests are     *)
(* answered in their order rests on the order of their numbers along their *)
(* way (Line): those answered, the one in the sender's hands, those        *)
(* queued, those read.                                                     *)
(***************************************************************************)
EXTENDS SinkUnix, CmdsJson, FiniteSetTheorems, TLAPS

-----------------------------------------------------------------------------
(* The sink: sink_unix.c                                                   *)

\* The counter is one ahead between the take and the publication.
Ahead == out = IF pcSink = "publish" THEN counter - 1 ELSE counter

\* The last buffer of a client is not ahead of the count it has seen, and the one
\* before is behind it.
Behind(c) ==
  /\ seen[c] <= counter
  /\ Len(got[c]) > 0 => got[c][Len(got[c])] <= seen[c]
  /\ Len(got[c]) > 1 => got[c][Len(got[c]) - 1] < seen[c]

Ordered(s) ==
  \A i \in 1 .. Len(s) - 1 :
    /\ s[i] <= s[i + 1]
    /\ i > 1 => s[i - 1] < s[i + 1]

\* A client sends for a count it has not seen, whatever the sink takes meanwhile.
Newer == \A c \in Clients : pcClient[c] = "sending" => seen[c] < counter

SinkInv ==
  UnixTypeOK /\ Ahead /\ Newer /\ \A c \in Clients : Behind(c) /\ Ordered(got[c])

\* A sequence stays ordered by one more buffer that is not behind the last one and
\* ahead of the one before.
LEMMA AppendOrdered ==
  ASSUME NEW s \in Seq(Nat), Ordered(s), NEW x \in Nat,
         Len(s) > 0 => s[Len(s)] <= x,
         Len(s) > 1 => s[Len(s) - 1] < x
  PROVE  Ordered(Append(s, x))
<1> DEFINE t == Append(s, x)
<1>1. Len(t) = Len(s) + 1 /\ t[Len(s) + 1] = x
  OBVIOUS
<1>2. \A i \in 1 .. Len(s) : t[i] = s[i]
  OBVIOUS
<1>3. SUFFICES ASSUME NEW i \in 1 .. Len(s)
               PROVE  t[i] <= t[i + 1] /\ (i > 1 => t[i - 1] < t[i + 1])
  BY <1>1 DEF Ordered
<1>4. CASE i = Len(s)
  BY <1>1, <1>2, <1>4
<1>5. CASE i < Len(s)
  <2>1. t[i] = s[i] /\ t[i + 1] = s[i + 1] /\ (i > 1 => t[i - 1] = s[i - 1])
    BY <1>2, <1>5
  <2>2. i \in 1 .. Len(s) - 1
    BY <1>5
  <2>3. QED
    BY <2>1, <2>2 DEF Ordered
<1>6. QED
  BY <1>4, <1>5

\* Initially nothing was taken.
LEMMA InitSinkInv == UnixInit => SinkInv
<1> SUFFICES ASSUME UnixInit PROVE SinkInv
  OBVIOUS
<1>1. UnixTypeOK
  BY SinkUnixAssumption DEF UnixInit, UnixTypeOK
<1>2. Ahead
  BY DEF UnixInit, Ahead
<1>3. ASSUME NEW c \in Clients PROVE Behind(c) /\ Ordered(got[c])
  BY SinkUnixAssumption DEF UnixInit, Behind, Ordered
<1>4. Newer
  BY DEF UnixInit, Newer
<1>5. QED
  BY <1>1, <1>2, <1>3, <1>4 DEF SinkInv

-----------------------------------------------------------------------------
(* The steps *)

\* The sink's thread keeps the types, and nothing that it does is seen in what the
\* clients have sent.
LEMMA SinkStep ==
  ASSUME SinkInv, Sink
  PROVE  SinkInv'
<1> USE SinkUnixAssumption DEF clientVars, sinkVars
<1>1. UnixTypeOK'
  BY DEF SinkInv, UnixTypeOK, Ahead, Sink, SinkTake, SinkEnd, SinkPublish, SinkTell,
         SinkSleep, SinkGoesOn
<1>2. Ahead'
  BY DEF SinkInv, UnixTypeOK, Ahead, Sink, SinkTake, SinkEnd, SinkPublish, SinkTell,
         SinkSleep, SinkGoesOn
<1>3. counter \in Nat /\ counter <= counter' /\ counter' \in Nat /\ seen' = seen /\ got' = got
  BY DEF SinkInv, UnixTypeOK, Sink, SinkTake, SinkEnd, SinkPublish, SinkTell, SinkSleep, SinkGoesOn
<1>4. ASSUME NEW c \in Clients PROVE Behind(c)' /\ Ordered(got[c])'
  <2>1. Behind(c) /\ Ordered(got[c]) /\ seen[c] \in Nat
    BY DEF SinkInv, UnixTypeOK
  <2>2. Behind(c)'
    BY <1>3, <2>1 DEF Behind
  <2>3. QED
    BY <1>3, <2>1, <2>2
<1>5. Newer'
  <2>1. pcClient' = pcClient
    BY DEF Sink, SinkTake, SinkEnd, SinkPublish, SinkTell, SinkSleep, SinkGoesOn
  <2>2. seen \in [Clients -> Nat] /\ Newer
    BY DEF SinkInv, UnixTypeOK
  <2>3. QED
    BY <1>3, <2>1, <2>2 DEF Newer
<1>6. QED
  BY <1>1, <1>2, <1>4, <1>5 DEF SinkInv

\* So do the steps of a connection that send nothing.
LEMMA SilentStep ==
  ASSUME SinkInv, NEW c \in Clients,
         \/ AcceptClient(c) \/ ClientRefused(c) \/ ClientEnters(c) \/ ClientCounts(c)
         \/ ClientCounted(c) \/ ClientSleep(c) \/ ClientSends(c) \/ ClientAck(c)
         \/ ClientLeaves(c) \/ ClientUncounted(c)
  PROVE  SinkInv'
<1> USE SinkUnixAssumption DEF clientVars, sinkVars
<1>1. UnixTypeOK'
  <2> USE DEF SinkInv, UnixTypeOK
  <2>1. CASE AcceptClient(c)
    BY <2>1 DEF AcceptClient
  <2>2. CASE ClientRefused(c)
    BY <2>2 DEF ClientRefused
  <2>3. CASE ClientEnters(c)
    BY <2>3 DEF ClientEnters
  <2>4. CASE ClientCounted(c)
    BY <2>4 DEF ClientCounted, Store
  <2>5. CASE ClientSleep(c)
    BY <2>5 DEF ClientSleep
  <2>6. CASE ClientAck(c)
    BY <2>6 DEF ClientAck
  <2>7. CASE ClientLeaves(c)
    BY <2>7 DEF ClientLeaves, Load
  <2>8. CASE ClientUncounted(c)
    BY <2>8 DEF ClientUncounted, Store
  <2>9. CASE ClientCounts(c)
    BY <2>9 DEF ClientCounts, Load
  <2>10. CASE ClientSends(c)
    BY <2>10 DEF ClientSends
  <2>11. QED
    BY <2>1, <2>2, <2>3, <2>4, <2>5, <2>6, <2>7, <2>8, <2>9, <2>10
<1>2. counter' = counter /\ out' = out /\ seen' = seen /\ got' = got
  BY DEF AcceptClient, ClientRefused, ClientEnters, ClientCounts, ClientCounted, ClientSleep,
         ClientSends, ClientAck, ClientLeaves, ClientUncounted, Load, Store
<1>3. (pcSink = "publish") = (pcSink' = "publish")
  BY DEF AcceptClient, ClientRefused, ClientEnters, ClientCounts, ClientCounted, ClientSleep,
         ClientSends, ClientAck, ClientLeaves, ClientUncounted, Load, Store
<1>4. Ahead'
  BY <1>2, <1>3 DEF SinkInv, Ahead
<1>5. ASSUME NEW d \in Clients PROVE Behind(d)' /\ Ordered(got[d])'
  BY <1>2 DEF SinkInv, Behind
<1>6. Newer'
  <2>1. \A d \in Clients : pcClient'[d] = "sending" =>
          pcClient[d] = "sending" \/ seen[d] < counter
    BY DEF SinkInv, UnixTypeOK, AcceptClient, ClientRefused, ClientEnters, ClientCounts,
           ClientCounted, ClientSleep, ClientSends, ClientAck, ClientLeaves, ClientUncounted,
           Load, Store
  <2>2. QED
    BY <1>2, <2>1 DEF SinkInv, Newer
<1>7. QED
  BY <1>1, <1>4, <1>5, <1>6 DEF SinkInv

\* A client that starts has seen the count.
LEMMA StartStep ==
  ASSUME SinkInv, NEW c \in Clients, ClientStart(c)
  PROVE  SinkInv'
<1> USE SinkUnixAssumption DEF sinkVars
<1>1. UnixTypeOK'
  BY DEF SinkInv, UnixTypeOK, ClientStart
<1>2. Ahead'
  BY DEF SinkInv, Ahead, ClientStart
<1>3. ASSUME NEW d \in Clients PROVE Behind(d)' /\ Ordered(got[d])'
  <2>1. Behind(d) /\ Ordered(got[d]) /\ seen[d] \in Nat /\ counter \in Nat
        /\ got[d] \in Seq(Nat)
    BY DEF SinkInv, UnixTypeOK
  <2>2. counter' = counter /\ got' = got /\ seen'[d] \in {seen[d], counter}
    BY DEF ClientStart, SinkInv, UnixTypeOK
  <2>3. Behind(d)'
    <3>1. CASE seen'[d] = seen[d]
      BY <2>1, <2>2, <3>1 DEF Behind
    <3>2. CASE seen'[d] = counter
      <4>1. Len(got[d]) > 0 => got[d][Len(got[d])] \in Nat /\ got[d][Len(got[d])] <= counter
        BY <2>1 DEF Behind
      <4>2. Len(got[d]) > 1 => /\ got[d][Len(got[d]) - 1] \in Nat
                              /\ got[d][Len(got[d]) - 1] < counter
        BY <2>1 DEF Behind
      <4>3. QED
        BY <2>1, <2>2, <3>2, <4>1, <4>2 DEF Behind
    <3>3. QED
      BY <2>2, <3>1, <3>2
  <2>4. QED
    BY <2>1, <2>2, <2>3
<1>4. Newer'
  <2>1. \A d \in Clients : pcClient'[d] = "sending" =>
          pcClient[d] = "sending" /\ seen'[d] = seen[d]
    BY DEF SinkInv, UnixTypeOK, ClientStart
  <2>2. QED
    BY <2>1 DEF SinkInv, Newer, ClientStart
<1>5. QED
  BY <1>1, <1>2, <1>3, <1>4 DEF SinkInv

\* A client sends what is published, or fails to send it.
LEMMA ClientSendStep ==
  ASSUME SinkInv, NEW c \in Clients, ClientSend(c)
  PROVE  SinkInv'
<1> USE SinkUnixAssumption DEF sinkVars
<1>1. counter \in Nat /\ out \in 0 .. Buffers /\ counter \in 0 .. Buffers /\ out >= counter - 1
      /\ counter > seen[c] /\ counter' = counter /\ out' = out /\ pcSink' = pcSink
      /\ seen' = [seen EXCEPT ![c] = counter]
  BY DEF SinkInv, UnixTypeOK, Ahead, Newer, ClientSend
<1>2. got' = got \/ (out > 0 /\ got' = [got EXCEPT ![c] = Append(@, out)])
  BY DEF ClientSend, Sent
<1>3. UnixTypeOK'
  <2>1. got' \in [Clients -> Seq(1 .. Buffers)]
    <3>1. got \in [Clients -> Seq(1 .. Buffers)] /\ got[c] \in Seq(1 .. Buffers)
      BY DEF SinkInv, UnixTypeOK
    <3>2. out > 0 => Append(got[c], out) \in Seq(1 .. Buffers)
      <4>1. out > 0 => out \in 1 .. Buffers
        BY <1>1
      <4>2. QED
        BY <3>1, <4>1
    <3>3. QED
      BY <1>2, <3>1, <3>2
  <2>2. QED
    BY <1>1, <2>1 DEF SinkInv, UnixTypeOK, ClientSend
<1>4. Ahead'
  BY <1>1 DEF SinkInv, Ahead
<1>5. ASSUME NEW d \in Clients PROVE Behind(d)' /\ Ordered(got[d])'
  <2>1. Behind(d) /\ Ordered(got[d]) /\ seen[d] \in Nat /\ got[d] \in Seq(Nat)
        /\ seen \in [Clients -> 0 .. Buffers] /\ got \in [Clients -> Seq(1 .. Buffers)]
    BY DEF SinkInv, UnixTypeOK
  <2>2. CASE d # c \/ got' = got
    <3>1. got'[d] = got[d] /\ seen'[d] \in {seen[d], counter}
      BY <1>1, <1>2, <2>1, <2>2
    <3>2. Behind(d)'
      BY <1>1, <2>1, <3>1 DEF Behind
    <3>3. QED
      BY <2>1, <3>1, <3>2
  <2>3. CASE d = c /\ got' # got
    <3>1. got'[c] = Append(got[c], out) /\ seen'[c] = counter
      BY <1>1, <1>2, <2>1, <2>3
    <3>2. seen[c] < counter /\ out <= counter
      BY <1>1 DEF SinkInv, Ahead
    <3>3. /\ Len(got[c]) > 0 => got[c][Len(got[c])] <= out
          /\ Len(got[c]) > 1 => got[c][Len(got[c]) - 1] < out
      BY <1>1, <2>1, <2>3, <3>2 DEF Behind
    <3>4. Ordered(Append(got[c], out))
      BY <1>1, <2>1, <2>3, <3>3, AppendOrdered
    <3>5. Behind(c)'
      <4>1. Len(got'[c]) = Len(got[c]) + 1 /\ got'[c][Len(got[c]) + 1] = out
        BY <1>1, <2>1, <2>3, <3>1
      <4>2. Len(got[c]) > 0 => got'[c][Len(got[c])] = got[c][Len(got[c])]
        BY <1>1, <2>1, <2>3, <3>1
      <4>3. Len(got[c]) > 0 => got[c][Len(got[c])] < counter
        BY <1>1, <2>1, <2>3, <3>2 DEF Behind
      <4>4. Len(got[c]) \in Nat
        BY <2>1, <2>3
      <4>5. QED
        BY <1>1, <3>1, <3>2, <4>1, <4>2, <4>3, <4>4 DEF Behind
    <3>6. QED
      BY <2>3, <3>1, <3>4, <3>5
  <2>4. QED
    BY <2>2, <2>3
<1>6. Newer'
  <2>1. \A d \in Clients : pcClient'[d] = "sending" =>
          pcClient[d] = "sending" /\ seen'[d] = seen[d]
    BY DEF SinkInv, UnixTypeOK, ClientSend
  <2>2. QED
    BY <1>1, <2>1 DEF SinkInv, Newer
<1>7. QED
  BY <1>3, <1>4, <1>5, <1>6 DEF SinkInv

\* Every step keeps the invariant.
LEMMA StepSinkInv ==
  ASSUME SinkInv, [UnixNext]_unixVars
  PROVE  SinkInv'
<1>1. CASE UNCHANGED unixVars
  BY <1>1 DEF unixVars, SinkInv, UnixTypeOK, Ahead, Newer, Behind, Ordered
<1>2. CASE Sink
  BY <1>2, SinkStep
<1>3. ASSUME NEW c \in Clients,
             \/ AcceptClient(c) \/ ClientRefused(c) \/ ClientEnters(c) \/ ClientCounts(c)
             \/ ClientCounted(c) \/ ClientSleep(c) \/ ClientSends(c) \/ ClientAck(c)
             \/ ClientLeaves(c) \/ ClientUncounted(c)
      PROVE  SinkInv'
  BY <1>3, SilentStep
<1>4. ASSUME NEW c \in Clients, ClientStart(c) PROVE SinkInv'
  BY <1>4, StartStep
<1>5. ASSUME NEW c \in Clients, ClientSend(c) PROVE SinkInv'
  BY <1>5, ClientSendStep
<1>6. QED
  BY <1>1, <1>2, <1>3, <1>4, <1>5 DEF UnixNext, Sink

-----------------------------------------------------------------------------
(* Theorems *)

\* The inductive invariant holds in every state.
THEOREM SinkInvariance == UnixSpec => []SinkInv
<1>1. SinkInv /\ [UnixNext]_unixVars => SinkInv'
  BY StepSinkInv
<1>2. QED
  BY InitSinkInv, <1>1, PTL DEF UnixSpec

\* The variables of the sink and of its clients have their types in every state.
THEOREM SinkTypeCorrect == UnixSpec => []UnixTypeOK
<1>1. SinkInv => UnixTypeOK
  BY DEF SinkInv
<1>2. QED
  BY <1>1, SinkInvariance, PTL

\* No client goes back in the stream or sends a buffer three times, although the
\* threads read the counter and the buffer without a lock.
THEOREM NeverGoesBack == UnixSpec => []NeverBack
<1>1. SinkInv => NeverBack
  BY DEF SinkInv, NeverBack, Ordered
<1>2. QED
  BY <1>1, SinkInvariance, PTL

-----------------------------------------------------------------------------
(* The only client there ever was *)

\* How far the counter may be ahead of the last buffer the only client sent: an
\* acknowledgement it gave lets the sink take one buffer more without it.
Slack ==
  IF pcSink = "end" THEN 2
  ELSE (IF pcSink = "peer" THEN 0 ELSE 1) + (1 - ackstate)

Near(c) == Len(got[c]) > 0 => counter <= got[c][Len(got[c])] + Slack

Spaced(s) == \A i \in 1 .. Len(s) - 1 : s[i + 1] <= s[i] + 2

\* The clients that connected are in the list, and one that is not yet in its loop
\* has sent nothing.
Connected ==
  \A c \in Clients :
    /\ pcClient[c] # "off" => \E i \in 1 .. Len(infos) : infos[i] = c
    /\ pcClient[c] \in {"off", "test", "enter", "count", "start"} => got[c] = <<>>

\* While a client is the only one there ever was, nobody else acknowledges.
Alone(c) ==
  infos = <<c>> => Spaced(got[c]) /\ (c \in InLoop => Near(c))

AloneInv == Connected /\ \A c \in Clients : Alone(c)

\* A sequence stays spaced by one more buffer that is at most two after the last.
LEMMA AppendSpaced ==
  ASSUME NEW s \in Seq(Nat), Spaced(s), NEW x \in Nat,
         Len(s) > 0 => x <= s[Len(s)] + 2
  PROVE  Spaced(Append(s, x))
<1> DEFINE t == Append(s, x)
<1>1. Len(t) = Len(s) + 1 /\ t[Len(s) + 1] = x /\ \A i \in 1 .. Len(s) : t[i] = s[i]
  OBVIOUS
<1>2. SUFFICES ASSUME NEW i \in 1 .. Len(s) PROVE t[i + 1] <= t[i] + 2
  BY <1>1 DEF Spaced
<1>3. CASE i = Len(s)
  BY <1>1, <1>3
<1>4. CASE i < Len(s)
  <2>1. i \in 1 .. Len(s) - 1 /\ t[i] = s[i] /\ t[i + 1] = s[i + 1]
    BY <1>1, <1>4
  <2>2. QED
    BY <2>1 DEF Spaced
<1>5. QED
  BY <1>3, <1>4

\* The sink's thread takes a buffer without a new acknowledgement once at most.
LEMMA SinkAlone ==
  ASSUME SinkInv, AloneInv, Sink
  PROVE  AloneInv'
<1> USE DEF clientVars, sinkVars
<1>1. UNCHANGED <<infos, pcClient, got>>
  BY DEF Sink, SinkTake, SinkEnd, SinkPublish, SinkTell, SinkSleep, SinkGoesOn
<1>2. Connected'
  BY <1>1 DEF AloneInv, Connected
<1>3. counter' - Slack' <= counter - Slack
  BY DEF SinkInv, UnixTypeOK, Slack, Sink, SinkTake, SinkEnd, SinkPublish, SinkTell, SinkSleep,
         SinkGoesOn
<1>4. ASSUME NEW c \in Clients, infos = <<c>> PROVE Spaced(got[c])' /\ (c \in InLoop => Near(c))'
  <2>1. UnixTypeOK /\ UnixTypeOK'
    BY SinkStep DEF SinkInv
  <2>2. Slack \in Int /\ Slack' \in Int
    BY <2>1 DEF UnixTypeOK, Slack
  <2>3. Len(got[c]) > 0 => got[c][Len(got[c])] \in Nat
    <3>1. got[c] \in Seq(1 .. Buffers)
      BY <2>1 DEF UnixTypeOK
    <3>2. QED
      BY <3>1, SinkUnixAssumption
  <2>4. Near(c) => Near(c)'
    <3>1. SUFFICES ASSUME Len(got[c]) > 0, counter <= got[c][Len(got[c])] + Slack
                   PROVE  counter' <= got[c][Len(got[c])] + Slack'
      BY <1>1 DEF Near
    <3>2. counter \in Int /\ counter' \in Int
      BY <2>1 DEF UnixTypeOK
    <3>3. PICK n \in Int, m \in Int, s \in Int, t \in Int, x \in Int :
                 /\ n = counter /\ m = counter' /\ s = Slack /\ t = Slack'
                 /\ x = got[c][Len(got[c])]
      BY <2>2, <2>3, <3>1, <3>2
    <3>4. m - t <= n - s /\ n <= x + s
      BY <1>3, <3>1, <3>3
    <3>5. m <= x + t
      BY <3>4
    <3>6. QED
      BY <3>3, <3>5
  <2>5. QED
    BY <1>1, <1>4, <2>4 DEF AloneInv, Alone, Spaced, InLoop
<1>5. QED
  BY <1>1, <1>2, <1>4 DEF AloneInv, Alone

\* A second connection ends the loneliness; a first one has sent nothing.
LEMMA AcceptAlone ==
  ASSUME SinkInv, AloneInv, NEW c \in Clients, AcceptClient(c)
  PROVE  AloneInv'
<1>1. /\ infos \in Seq(Clients) /\ pcClient[c] = "off" /\ infos' = Append(infos, c) /\ got' = got
      /\ \A d \in Clients : pcClient'[d] = IF d = c THEN "test" ELSE pcClient[d]
  BY DEF SinkInv, UnixTypeOK, AcceptClient
<1>2. ASSUME NEW d \in Clients, pcClient'[d] # "off"
      PROVE  \E i \in 1 .. Len(infos') : infos'[i] = d
  <2>1. CASE d = c
    BY <1>1, <2>1
  <2>2. CASE d # c
    <3>1. PICK i \in 1 .. Len(infos) : infos[i] = d
      BY <1>1, <1>2, <2>2 DEF AloneInv, Connected
    <3>2. i \in 1 .. Len(infos') /\ infos'[i] = d
      BY <1>1, <3>1
    <3>3. QED
      BY <3>2
  <2>3. QED
    BY <2>1, <2>2
<1>3. Connected'
  BY <1>1, <1>2 DEF AloneInv, Connected
<1>4. ASSUME NEW d \in Clients, infos' = <<d>> PROVE Spaced(got[d])' /\ d \notin InLoop'
  <2>1. d = c
    <3>1. Len(infos') = Len(infos) + 1 /\ infos'[Len(infos) + 1] = c /\ Len(infos) \in Nat
      BY <1>1
    <3>2. Len(infos') = 1 /\ infos'[1] = d
      BY <1>4
    <3>3. QED
      BY <3>1, <3>2
  <2>2. got'[d] = <<>> /\ pcClient'[d] = "test"
    BY <1>1, <2>1 DEF AloneInv, Connected
  <2>3. QED
    BY <2>2 DEF Spaced, InLoop
<1>5. QED
  BY <1>3, <1>4 DEF AloneInv, Alone

\* The other steps that send nothing leave the distance as it is, and bring only a
\* client that has sent nothing into the loop.
LEMMA QuietAlone ==
  ASSUME SinkInv, AloneInv, NEW c \in Clients,
         \/ ClientRefused(c) \/ ClientEnters(c) \/ ClientCounts(c) \/ ClientCounted(c)
         \/ ClientStart(c) \/ ClientSleep(c) \/ ClientSends(c) \/ ClientAck(c)
         \/ ClientLeaves(c) \/ ClientUncounted(c)
  PROVE  AloneInv'
<1> USE DEF clientVars, sinkVars
<1>1. UNCHANGED <<infos, got, counter, ackstate>> /\ Slack' = Slack
  BY DEF Slack, ClientRefused, ClientEnters, ClientCounts, ClientCounted, ClientStart, ClientSleep,
         ClientSends, ClientAck, ClientLeaves, ClientUncounted, Load, Store
<1>2. ASSUME NEW d \in Clients
      PROVE  /\ pcClient'[d] # "off" => pcClient[d] # "off"
             /\ pcClient'[d] \in {"off", "test", "enter", "count", "start"}
                  => pcClient[d] \in {"off", "test", "enter", "count", "start"}
             /\ pcClient'[d] \in {"loop", "sending", "acked"}
                  => pcClient[d] \in {"start", "loop", "sending", "acked"}
  BY DEF SinkInv, UnixTypeOK, ClientRefused, ClientEnters, ClientCounts, ClientCounted,
         ClientStart, ClientSleep, ClientSends, ClientAck, ClientLeaves, ClientUncounted,
         Load, Store
<1>3. Connected'
  BY <1>1, <1>2 DEF AloneInv, Connected
<1>4. ASSUME NEW d \in Clients, infos = <<d>> PROVE Spaced(got[d])' /\ (d \in InLoop => Near(d))'
  <2>1. Near(d) => Near(d)'
    BY <1>1 DEF Near
  <2>2. pcClient[d] = "start" => Near(d)
    BY DEF AloneInv, Connected, Near
  <2>3. d \in InLoop' => Near(d)
    BY <1>2, <1>4, <2>2 DEF AloneInv, Alone, InLoop
  <2>4. QED
    BY <1>1, <1>4, <2>1, <2>3 DEF AloneInv, Alone, Spaced
<1>5. QED
  BY <1>1, <1>3, <1>4 DEF AloneInv, Alone

\* The only client sends a buffer that is at most two after the last one.
LEMMA SendAlone ==
  ASSUME SinkInv, AloneInv, NEW c \in Clients, ClientSend(c)
  PROVE  AloneInv'
<1> USE SinkUnixAssumption DEF sinkVars
<1>1. /\ pcClient[c] = "sending" /\ counter > seen[c] /\ ackstate' = 1
      /\ UNCHANGED <<counter, out, pcSink, infos>>
      /\ got \in [Clients -> Seq(1 .. Buffers)]
      /\ counter \in Nat /\ out \in 0 .. Buffers /\ seen[c] \in Nat
  BY DEF SinkInv, UnixTypeOK, Newer, ClientSend
<1>2. /\ \/ pcClient'[c] = "acked" /\ out > 0 /\ got' = [got EXCEPT ![c] = Append(@, out)]
         \/ pcClient'[c] = "acked" /\ ~(out > 0) /\ got' = got
         \/ pcClient'[c] = "failed" /\ got' = got
      /\ \A d \in Clients \ {c} : pcClient'[d] = pcClient[d]
  BY DEF ClientSend, Sent, SinkInv, UnixTypeOK
<1>3. Connected'
  <2>1. \A d \in Clients \ {c} : got'[d] = got[d]
    BY <1>1, <1>2
  <2>2. QED
    BY <1>1, <1>2, <2>1 DEF AloneInv, Connected
<1>4. ASSUME NEW d \in Clients, infos = <<d>> PROVE Spaced(got[d])' /\ (d \in InLoop => Near(d))'
  <2>1. d = c
    <3>1. PICK i \in 1 .. Len(infos) : infos[i] = c
      BY <1>1 DEF AloneInv, Connected
    <3>2. QED
      BY <1>4, <3>1
  <2>2. Spaced(got[c]) /\ Near(c) /\ Behind(c) /\ Ahead
    BY <1>1, <1>4, <2>1 DEF AloneInv, Alone, InLoop, SinkInv
  <2>3. got[c] \in Seq(Nat) /\ Len(got[c]) \in Nat
        /\ (Len(got[c]) > 0 => got[c][Len(got[c])] \in Nat /\ got[c][Len(got[c])] > 0)
    BY <1>1
  <2>4. CASE got' = got
    <3>1. c \in InLoop' => ~(out > 0) \/ Len(got[c]) = 0
      BY <1>1, <1>2, <2>4 DEF InLoop
    <3>2. ~(out > 0) => Len(got[c]) = 0
      BY <1>1, <2>2, <2>3 DEF Ahead, Behind
    <3>3. QED
      BY <2>1, <2>2, <2>4, <3>1, <3>2 DEF Near, Spaced
  <2>5. CASE got' = [got EXCEPT ![c] = Append(@, out)]
    <3>1. got'[c] = Append(got[c], out)
      BY <1>1, <2>5
    <3>2. Len(got[c]) > 0 => out <= got[c][Len(got[c])] + 2
      <4>1. pcSink # "publish" => out = counter
        BY <2>2 DEF Ahead
      <4>2. pcSink = "publish" => out = counter - 1
        BY <2>2 DEF Ahead
      <4>3. Slack <= 2 /\ Slack \in Int
        BY DEF Slack, SinkInv, UnixTypeOK
      <4>4. QED
        BY <1>1, <2>2, <2>3, <4>1, <4>2, <4>3 DEF Near
    <3>3. Spaced(got'[c])
      BY <1>1, <2>2, <2>3, <3>1, <3>2, AppendSpaced
    <3>4. counter <= out + Slack'
      BY <1>1, <2>2 DEF Slack, Ahead
    <3>5. Near(c)'
      <4>1. got'[c][Len(got'[c])] = out
        BY <1>1, <3>1
      <4>2. QED
        BY <1>1, <3>4, <4>1 DEF Near
    <3>6. QED
      BY <2>1, <3>3, <3>5 DEF Spaced
  <2>6. QED
    BY <1>2, <2>4, <2>5
<1>5. QED
  BY <1>1, <1>3, <1>4 DEF AloneInv, Alone

\* The distance of the only client is kept by every step.
LEMMA AloneInvariance == UnixSpec => []AloneInv
<1>1. UnixInit => AloneInv
  BY DEF UnixInit, AloneInv, Connected, Alone
<1>2. ASSUME SinkInv, AloneInv, [UnixNext]_unixVars PROVE AloneInv'
  <2>1. CASE UNCHANGED unixVars
    <3>1. UNCHANGED <<infos, pcClient, got, counter>> /\ Slack' = Slack /\ InLoop' = InLoop
      BY <2>1 DEF unixVars, Slack, InLoop
    <3>2. QED
      BY <1>2, <3>1 DEF AloneInv, Connected, Alone, Spaced, Near
  <2>2. CASE Sink
    BY <1>2, <2>2, SinkAlone
  <2>3. ASSUME NEW c \in Clients, AcceptClient(c) PROVE AloneInv'
    BY <1>2, <2>3, AcceptAlone
  <2>4. ASSUME NEW c \in Clients,
               \/ ClientRefused(c) \/ ClientEnters(c) \/ ClientCounts(c) \/ ClientCounted(c)
               \/ ClientStart(c) \/ ClientSleep(c) \/ ClientSends(c) \/ ClientAck(c)
               \/ ClientLeaves(c) \/ ClientUncounted(c)
        PROVE  AloneInv'
    BY <1>2, <2>4, QuietAlone
  <2>5. ASSUME NEW c \in Clients, ClientSend(c) PROVE AloneInv'
    BY <1>2, <2>5, SendAlone
  <2>6. QED
    BY <1>2, <2>1, <2>2, <2>3, <2>4, <2>5 DEF UnixNext, Sink
<1>3. QED
  BY <1>1, <1>2, SinkInvariance, PTL DEF UnixSpec

\* The only client there ever was never misses two buffers in a row, although it
\* may acknowledge a buffer before it is published.
THEOREM MissesOneAtMost == UnixSpec => []NeverTwoMissed
<1>1. AloneInv => NeverTwoMissed
  BY DEF AloneInv, Alone, Spaced, NeverTwoMissed
<1>2. QED
  BY <1>1, AloneInvariance, PTL

-----------------------------------------------------------------------------
(* The commands: cmds_json.c                                               *)

\* A client has a connection, and a request that was read has one too.
Socketed == \A a \in alive : sock[a] \in Conns
Reading == \A t \in Conns : pc[t] = "push" => read[t] \in Entries
Answering == pcS \in {"answer", "failed"} => request \in Entries /\ request.client # Null

TypeInv == TypeOK /\ Socketed /\ Reading /\ Answering

-----------------------------------------------------------------------------
(* Types *)

\* A function on the first numbers is a sequence.
LEMMA IsSeq ==
  ASSUME NEW S, NEW n \in Nat, NEW f,
         f = [i \in 1 .. n |-> f[i]], \A i \in 1 .. n : f[i] \in S
  PROVE  f \in Seq(S)
  OBVIOUS

\* The requests that lose a client are requests.
LEMMA RemoveType ==
  ASSUME TypeOK, Socketed, NEW a, RemoveClient(a)
  PROVE  /\ clients' \in Pointers /\ alive' \subseteq Structs
         /\ next' \in [Structs -> Pointers] /\ sock' \in [Structs -> Conns \cup {Null}]
         /\ requests' \in Seq(Entries)
         /\ Socketed'
<1> USE CmdsJsonAssumption DEF TypeOK, Socketed, list
<1>1. CASE a \notin Listed
  BY <1>1 DEF RemoveClient
<1>2. CASE a \in Listed
  <2>1. a # Null
    BY <1>2 DEF Listed
  <2>2. /\ Unlink(a)
        /\ alive' = alive \ {a} /\ sock' = [sock EXCEPT ![a] = Null]
        /\ requests' = [i \in DOMAIN requests |->
             IF requests[i].client = a THEN [requests[i] EXCEPT !.client = Null] ELSE requests[i]]
    BY <1>2 DEF RemoveClient
  <2>3. requests' \in Seq(Entries)
    <3>1. \A i \in DOMAIN requests : requests[i] \in Entries
      OBVIOUS
    <3>2. \A e \in Entries : [e EXCEPT !.client = Null] \in Entries
      BY DEF Entries, Pointers
    <3>3. \A i \in DOMAIN requests : requests'[i] \in Entries
      BY <2>2, <3>1, <3>2
    <3>4. requests' = [i \in 1 .. Len(requests) |-> requests'[i]]
      BY <2>2
    <3>5. Len(requests) \in Nat /\ DOMAIN requests = 1 .. Len(requests)
      OBVIOUS
    <3>6. QED
      BY <3>3, <3>4, <3>5, IsSeq
  <2>4. sock' \in [Structs -> Conns \cup {Null}] /\ Socketed'
    BY <2>2
  <2>5. clients' \in Pointers /\ next' \in [Structs -> Pointers]
    <3> HIDE DEF Socketed
    <3>1. CASE a = clients
      BY <2>1, <2>2, <3>1 DEF Unlink, Pointers
    <3>2. CASE a # clients
      <4>1. next[a] \in Pointers \/ \A b \in Structs : next[b] # a
        BY <2>1 DEF Pointers
      <4>2. QED
        BY <2>1, <2>2, <3>2, <4>1 DEF Unlink
    <3>3. QED
      BY <3>1, <3>2
  <2>6. QED
    BY <2>2, <2>3, <2>4, <2>5
<1>3. QED
  BY <1>1, <1>2

\* The initial state is well typed.
LEMMA InitType == Init => TypeInv
<1> SUFFICES ASSUME Init PROVE TypeInv
  OBVIOUS
<1>1. requests \in Seq(Entries) /\ last \in [Conns -> 0 .. Asked]
  BY CmdsJsonAssumption DEF Init
<1>2. eventsmask \in BOOLEAN /\ mixed \in BOOLEAN /\ changing \in BOOLEAN
  BY Zenon DEF Init
<1>3. QED
  BY <1>1, <1>2, CmdsJsonAssumption
     DEF Init, TypeInv, TypeOK, Pointers, Socketed, Reading, Answering

\* Every step of the thread that sends keeps the types.
LEMMA SendType ==
  ASSUME TypeInv, SendStep
  PROVE  TypeInv'
<1> USE CmdsJsonAssumption DEF TypeInv, Reading, Answering
<1> USE DEF list, sending, world
<1>1. CASE SendSleep
  BY <1>1 DEF SendSleep, TypeOK, Socketed
<1>2. CASE SendTake
  <2>1. Head(requests) \in Entries /\ Tail(requests) \in Seq(Entries)
    BY <1>2 DEF SendTake, TypeOK
  <2>2. QED
    BY <1>2, <2>1 DEF SendTake, TypeOK, Socketed
<1>3. CASE SendAnswer
  <2>1. request \in Entries
    BY <1>3 DEF SendAnswer
  <2>2. request.k \in 0 .. Asked
    BY <2>1 DEF Entries
  <2>3. last' \in [Conns -> 0 .. Asked]
    BY <1>3, <2>2 DEF SendAnswer, TypeOK
  <2>4. QED
    BY <1>3, <2>1, <2>3 DEF SendAnswer, TypeOK, Socketed
<1>4. CASE SendRemove
  BY <1>4, RemoveType DEF SendRemove, TypeOK
<1>5. CASE SendEvents
  BY <1>5 DEF SendEvents, TypeOK, Socketed
<1>6. CASE WalkStart
  <2>1. clients \in Pointers /\ next' = next
    BY <1>6 DEF WalkStart, TypeOK
  <2>2. client' \in Pointers /\ after' \in Pointers /\ pcS' \in {"loop", "tell"}
    BY <1>6, <2>1 DEF WalkStart, WalkAt, TypeOK, Pointers
  <2>3. eventsmask' \in BOOLEAN
    BY <1>6, Zenon DEF WalkStart, WalkAt, TypeOK
  <2>4. QED
    BY <1>6, <2>2, <2>3 DEF WalkStart, TypeOK, Socketed
<1>7. CASE Tell
  <2>1. told' \subseteq Conns
    BY <1>7 DEF Tell, TypeOK, Socketed
  <2>2. QED
    BY <1>7, <2>1 DEF Tell, TypeOK, Socketed
<1>8. CASE WalkNext
  <2>1. /\ clients' \in Pointers /\ alive' \subseteq Structs
        /\ next' \in [Structs -> Pointers] /\ sock' \in [Structs -> Conns \cup {Null}]
        /\ requests' \in Seq(Entries)
        /\ Socketed'
    BY <1>8, RemoveType DEF WalkNext, TypeOK, Socketed
  <2>2. after \in Pointers
    BY DEF TypeOK
  <2>3. client' \in Pointers /\ after' \in Pointers /\ pcS' \in {"loop", "tell"}
    BY <1>8, <2>1, <2>2 DEF WalkNext, WalkAt, Pointers
  <2>4. eventsmask' \in BOOLEAN
    BY <1>8, Zenon DEF WalkNext, WalkAt, TypeOK
  <2>5. QED
    BY <1>8, <2>1, <2>3, <2>4 DEF WalkNext, TypeOK
<1>9. QED
  BY <1>1, <1>2, <1>3, <1>4, <1>5, <1>6, <1>7, <1>8 DEF SendStep

\* Every step of the thread of a connection keeps the types.
LEMMA ClientType ==
  ASSUME TypeInv, NEW t \in Conns, Recv(t) \/ Push(t) \/ RecvFails(t) \/ Hangup(t) \/ Leave(t)
  PROVE  TypeInv'
<1> USE CmdsJsonAssumption DEF TypeInv, Reading, Answering
<1> USE DEF list, sending, world
<1>1. CASE Recv(t)
  <2>1. asked + 1 \in 1 .. Asked
    BY <1>1 DEF Recv, TypeOK
  <2>2. mine[t] \in Pointers /\ sock[mine[t]] \in Conns
    BY <1>1 DEF Recv, Socketed, TypeOK
  <2>3. read'[t] \in Entries
    BY <1>1, <2>1, <2>2 DEF Recv, Entry, Entries, TypeOK
  <2>4. read' \in [Conns -> Entries \cup {NoRequest}]
    BY <1>1, <2>3 DEF Recv, TypeOK
  <2>5. QED
    BY <1>1, <2>1, <2>3, <2>4 DEF Recv, TypeOK, Socketed
<1>2. CASE Push(t)
  <2>1. requests' \in Seq(Entries)
    BY <1>2 DEF Push, TypeOK
  <2>2. QED
    BY <1>2, <2>1 DEF Push, Wake, TypeOK, Socketed
<1>3. CASE RecvFails(t)
  BY <1>3, RemoveType DEF RecvFails, TypeOK
<1>4. CASE Hangup(t)
  BY <1>4 DEF Hangup, TypeOK, Socketed
<1>5. CASE Leave(t)
  <2>1. mine' \in [Conns -> Pointers]
    BY <1>5 DEF Leave, TypeOK, Pointers
  <2>2. QED
    BY <1>5, <2>1, RemoveType DEF Leave, TypeOK
<1>6. QED
  BY <1>1, <1>2, <1>3, <1>4, <1>5

\* Every step of the thread that accepts and of the player keeps the types.
LEMMA OtherType ==
  ASSUME TypeInv,
         ChangeForNew \/ PlayerPrepares \/ PlayerChanges \/ \E t \in Conns : Accept(t)
  PROVE  TypeInv'
<1> USE CmdsJsonAssumption DEF TypeInv, Reading, Answering
<1> USE DEF list, sending, world
<1>1. CASE ChangeForNew
  BY <1>1 DEF ChangeForNew, Wake, TypeOK, Socketed
<1>2. CASE PlayerPrepares
  BY <1>2 DEF PlayerPrepares, TypeOK, Socketed
<1>3. CASE PlayerChanges
  BY <1>3 DEF PlayerChanges, Wake, TypeOK, Socketed
<1>4. ASSUME NEW t \in Conns, Accept(t) PROVE TypeInv'
  <2>1. PICK a \in Structs \ alive :
          /\ alive' = alive \cup {a}
          /\ sock' = [sock EXCEPT ![a] = t]
          /\ next' = [next EXCEPT ![a] = clients]
          /\ clients' = a
          /\ mine' = [mine EXCEPT ![t] = a]
    BY <1>4 DEF Accept
  <2>2. mixed' \in BOOLEAN
    BY <1>4, Zenon DEF Accept, TypeOK
  <2>3. Socketed'
    BY <2>1 DEF Socketed, TypeOK
  <2>4. UNCHANGED <<requests, eventsmask, pcS, sending, read, asked, last, told, full, changing, changes>>
        /\ pc' = [pc EXCEPT ![t] = "poll"] /\ pcR' = "change"
    BY <1>4 DEF Accept
  <2>5. QED
    BY <2>1, <2>2, <2>3, <2>4 DEF TypeOK, Pointers
<1>5. QED
  BY <1>1, <1>2, <1>3, <1>4

\* Every step keeps the types.
LEMMA StepType ==
  ASSUME TypeInv, [Next]_vars
  PROVE  TypeInv'
<1>1. CASE UNCHANGED vars
  BY <1>1 DEF vars, list, sending, world, TypeInv, TypeOK, Socketed, Reading, Answering
<1>2. CASE Next
  BY <1>2, SendType, ClientType, OtherType DEF Next, SendStep
<1>3. QED
  BY <1>1, <1>2

\* The variables of the server have their types.
THEOREM CmdsTypeCorrect == Spec => []TypeOK
<1>1. TypeInv => TypeOK
  BY DEF TypeInv
<1>2. QED
  BY InitType, StepType, <1>1, PTL DEF Spec

-----------------------------------------------------------------------------
(* The wake-ups *)

\* A removal leaves an empty queue empty.
LEMMA RemoveIdle ==
  ASSUME NEW a, RemoveClient(a), requests = <<>>
  PROVE  requests' = <<>>
<1>1. CASE a \notin Listed
  BY <1>1 DEF RemoveClient
<1>2. CASE a \in Listed
  <2>1. requests' = [i \in DOMAIN requests |->
          IF requests[i].client = a THEN [requests[i] EXCEPT !.client = Null] ELSE requests[i]]
    BY <1>2 DEF RemoveClient
  <2>2. DOMAIN requests = 1 .. 0
    OBVIOUS
  <2>3. QED
    BY <2>1, <2>2
<1>3. QED
  BY <1>1, <1>2

\* Whoever puts something in the queue or the mask wakes the thread that sends.
LEMMA StepIdle ==
  ASSUME SleepsWhenIdle, [Next]_vars
  PROVE  SleepsWhenIdle'
<1> SUFFICES ASSUME pcS' = "asleep" PROVE requests' = <<>> /\ ~eventsmask'
  BY DEF SleepsWhenIdle
<1>1. CASE SendSleep
  BY <1>1 DEF SendSleep, list
<1>2. ASSUME pcS = "asleep", UNCHANGED <<requests, eventsmask>>
      PROVE  requests' = <<>> /\ ~eventsmask'
  BY <1>2 DEF SleepsWhenIdle
<1>3. ASSUME NEW t \in Conns, RecvFails(t) \/ Leave(t)
      PROVE  requests' = <<>> /\ ~eventsmask'
  <2>1. UNCHANGED <<eventsmask, pcS>> /\ RemoveClient(mine[t])
    BY <1>3 DEF RecvFails, Leave
  <2>2. QED
    BY <2>1, RemoveIdle DEF SleepsWhenIdle
<1>4. CASE \E t \in Conns : Accept(t) \/ Recv(t) \/ Hangup(t)
  <2>1. UNCHANGED <<requests, eventsmask, pcS>>
    BY <1>4 DEF Accept, Recv, Hangup, list
  <2>2. QED
    BY <1>2, <2>1
<1>5. CASE \E t \in Conns : Push(t)
  BY <1>5 DEF Push, Wake
<1>6. CASE ChangeForNew \/ PlayerPrepares \/ PlayerChanges
  <2>1. UNCHANGED <<requests, eventsmask, pcS>>
    BY <1>6 DEF ChangeForNew, PlayerPrepares, PlayerChanges, Wake
  <2>2. QED
    BY <1>2, <2>1
<1>7. CASE SendTake \/ SendAnswer \/ SendRemove \/ SendEvents \/ WalkStart \/ Tell \/ WalkNext
  BY <1>7 DEF SendTake, SendAnswer, SendRemove, SendEvents, WalkStart, Tell, WalkNext, WalkAt
<1>8. CASE UNCHANGED vars
  BY <1>2, <1>8 DEF vars
<1>9. QED
  BY <1>1, <1>3, <1>4, <1>5, <1>6, <1>7, <1>8 DEF Next

\* The thread that sends never sleeps with a request in the queue or an event in
\* the mask.
THEOREM WakesForWork == Spec => []SleepsWhenIdle
<1>1. Init => SleepsWhenIdle
  BY DEF Init, SleepsWhenIdle
<1>2. QED
  BY <1>1, StepIdle, PTL DEF Spec

-----------------------------------------------------------------------------
(* The list of the clients *)

\* The clients of the list, from the first to the last: each once, each the
\* next of the one before it, and all that is allocated.
Chain(s) ==
  /\ \A i, j \in 1 .. Len(s) : s[i] = s[j] => i = j
  /\ alive = {s[i] : i \in 1 .. Len(s)}
  /\ clients = IF Len(s) = 0 THEN Null ELSE s[1]
  /\ \A i \in 1 .. Len(s) : next[s[i]] = IF i = Len(s) THEN Null ELSE s[i + 1]

Chained == \E s \in Seq(Structs) : Chain(s)

\* A set of numbers that is not empty has a least one.
LEMMA Least ==
  ASSUME NEW S \in SUBSET Nat, S # {}
  PROVE  \E n \in S : \A m \in S : n <= m
<1>1. IsWellFoundedOn(OpToRel(<, Nat), Nat)
  BY NatLessThanWellFounded, Zenon
<1>2. PICK n \in S : \A m \in S : <<m, n>> \notin OpToRel(<, Nat)
  BY <1>1, WFMin, Zenon
<1>3. ASSUME NEW m \in S PROVE n <= m
  <2>1. <<m, n>> \notin {ss \in Nat \X Nat : ss[1] < ss[2]}
    BY <1>2, Zenon DEF OpToRel
  <2>2. QED
    BY <2>1
<1>4. QED
  BY <1>3

\* A set that holds 0, and the number after each one that it holds, holds all.
LEMMA Induct ==
  ASSUME NEW S, 0 \in S, \A n \in Nat : n \in S => n + 1 \in S
  PROVE  Nat \subseteq S
<1> SUFFICES ASSUME Nat \ S # {} PROVE FALSE
  OBVIOUS
<1>1. PICK n \in Nat \ S : \A m \in Nat \ S : n <= m
  BY Least, Nat \ S \in SUBSET Nat
<1>2. n - 1 \in Nat /\ n - 1 \in S
  BY <1>1
<1>3. QED
  BY <1>2

\* What can be reached in so many steps is defined.
LEMMA Reached ==
  ASSUME NEW N \in Nat
  PROVE  \E f : f = [n \in 0 .. N |-> IF n = 0 THEN {clients}
                       ELSE f[n - 1] \cup {next[a] : a \in f[n - 1] \ {Null}}]
<1> DEFINE Is(f, m) == f = [n \in 0 .. m |-> IF n = 0 THEN {clients}
                             ELSE f[n - 1] \cup {next[a] : a \in f[n - 1] \ {Null}}]
           S == {m \in Nat : \E f : Is(f, m)}
<1>1. 0 \in S
  <2> DEFINE f == [n \in 0 .. 0 |-> {clients}]
  <2>1. Is(f, 0)
    OBVIOUS
  <2> HIDE DEF f, Is
  <2>2. QED
    BY <2>1
<1>2. ASSUME NEW m \in Nat, m \in S PROVE m + 1 \in S
  <2>1. PICK f : Is(f, m)
    BY <1>2
  <2> DEFINE g == [n \in 0 .. m + 1 |-> IF n = m + 1
                    THEN f[m] \cup {next[a] : a \in f[m] \ {Null}} ELSE f[n]]
  <2>2. \A n \in 0 .. m : g[n] = f[n]
    OBVIOUS
  <2>3. \A n \in 0 .. m + 1 : g[n] = IF n = 0 THEN {clients}
                     ELSE g[n - 1] \cup {next[a] : a \in g[n - 1] \ {Null}}
    <3> SUFFICES ASSUME NEW n \in 0 .. m + 1
                 PROVE  g[n] = IF n = 0 THEN {clients}
                               ELSE g[n - 1] \cup {next[a] : a \in g[n - 1] \ {Null}}
      OBVIOUS
    <3>1. CASE n = m + 1
      BY <3>1, <2>2
    <3>2. CASE n \in 0 .. m
      <4>1. f[n] = IF n = 0 THEN {clients}
                   ELSE f[n - 1] \cup {next[a] : a \in f[n - 1] \ {Null}}
        BY <2>1, <3>2
      <4>2. n # 0 => g[n - 1] = f[n - 1]
        BY <2>2, <3>2
      <4>3. QED
        BY <2>2, <3>2, <4>1, <4>2
    <3>3. QED
      BY <3>1, <3>2
  <2> HIDE DEF Is
  <2>4. Is(g, m + 1)
    BY <2>3 DEF Is
  <2> HIDE DEF g
  <2>5. QED
    BY <2>4
<1> HIDE DEF Is
<1>3. Nat \subseteq S
  <2> HIDE DEF S
  <2>1. QED
    BY <1>1, <1>2, Induct
<1>4. PICK f : Is(f, N)
  BY <1>3
<1>5. QED
  BY <1>4 DEF Is

\* The walk of the list finds the clients of the chain and no others.
LEMMA ChainIsListed ==
  ASSUME TypeOK, NEW s \in Seq(Structs), Chain(s)
  PROVE  Listed = alive
<1> USE CmdsJsonAssumption
<1> DEFINE N == Cardinality(Structs)
<1>1. N \in Nat
  BY FS_CardinalityType
<1>2. Len(s) <= N
  <2>1. s \in Injection(1 .. Len(s), Structs)
    BY DEF Chain, Injection, IsInjective
  <2>2. Cardinality(1 .. Len(s)) <= N
    BY <2>1, FS_Injection
  <2>3. Len(s) \in Nat /\ 1 \in Int
    OBVIOUS
  <2>4. Cardinality(1 .. Len(s)) = IF 1 > Len(s) THEN 0 ELSE Len(s) - 1 + 1
    BY <2>3, FS_Interval, Len(s) \in Int
  <2>5. QED
    BY <2>2, <2>3, <2>4
<1> DEFINE Equation(f) == f = [n \in 0 .. N |-> IF n = 0 THEN {clients}
                     ELSE f[n - 1] \cup {next[a] : a \in f[n - 1] \ {Null}}]
           reach == CHOOSE f : Equation(f)
<1>3. Listed = reach[N] \ {Null}
  BY DEF Listed
<1>4. Equation(reach)
  <2>1. \E f : Equation(f)
    BY <1>1, Reached
  <2> HIDE DEF Equation
  <2>2. QED
    BY <2>1
<1> HIDE DEF reach
<1> DEFINE First(n) == {s[i] : i \in {j \in 1 .. Len(s) : j <= n + 1}}
           S == {n \in Nat : n <= N => reach[n] \ {Null} = First(n)}
<1>5. 0 \in S
  <2>1. reach[0] = {clients}
    BY <1>1, <1>4
  <2>2. QED
    BY <2>1 DEF Chain
<1>6. ASSUME NEW n \in Nat, n \in S PROVE n + 1 \in S
  <2> SUFFICES ASSUME n + 1 <= N PROVE reach[n + 1] \ {Null} = First(n + 1)
    OBVIOUS
  <2>1. reach[n + 1] = reach[n] \cup {next[a] : a \in reach[n] \ {Null}}
    <3>1. \A m \in 0 .. N : reach[m] = IF m = 0 THEN {clients}
                              ELSE reach[m - 1] \cup {next[a] : a \in reach[m - 1] \ {Null}}
      BY <1>4
    <3>2. PICK m \in 0 .. N : m = n + 1 /\ m # 0 /\ m - 1 = n
      BY <1>1
    <3>3. reach[m] = reach[m - 1] \cup {next[a] : a \in reach[m - 1] \ {Null}}
      BY <3>1, <3>2
    <3>4. QED
      BY <3>2, <3>3, Zenon
  <2>2. reach[n] \ {Null} = First(n)
    BY <1>1, <1>6
  <2>3. {next[a] : a \in First(n)} \ {Null} = {s[i] : i \in {j \in 2 .. Len(s) : j <= n + 2}}
    <3>1. \A i \in 1 .. Len(s) : next[s[i]] = IF i = Len(s) THEN Null ELSE s[i + 1]
      BY DEF Chain
    <3>2. ASSUME NEW a \in First(n), next[a] # Null
          PROVE  \E i \in 2 .. Len(s) : i <= n + 2 /\ next[a] = s[i]
      <4>1. PICK i \in 1 .. Len(s) : i <= n + 1 /\ a = s[i]
        OBVIOUS
      <4>2. i + 1 \in 2 .. Len(s) /\ i + 1 <= n + 2 /\ next[a] = s[i + 1]
        BY <3>1, <3>2, <4>1
      <4>3. QED
        BY <4>2
    <3>3. ASSUME NEW i \in 2 .. Len(s), i <= n + 2
          PROVE  s[i] # Null /\ \E a \in First(n) : next[a] = s[i]
      <4>1. s[i - 1] \in First(n) /\ next[s[i - 1]] = s[i]
        BY <3>1, <3>3
      <4>2. QED
        BY <4>1
    <3>4. QED
      BY <3>2, <3>3
  <2>4. First(n + 1) = First(n) \cup {s[i] : i \in {j \in 2 .. Len(s) : j <= n + 2}}
    OBVIOUS
  <2>5. QED
    BY <2>1, <2>2, <2>3, <2>4
<1>7. N \in S
  <2> HIDE DEF S
  <2>1. QED
    BY <1>1, <1>5, <1>6, Induct
<1>8. First(N) = alive
  BY <1>1, <1>2 DEF Chain
<1>9. QED
  BY <1>1, <1>3, <1>7, <1>8

\* Initially the list is empty.
LEMMA InitChain == Init => Chained
<1> SUFFICES ASSUME Init PROVE Chain(<<>>)
  BY <<>> \in Seq(Structs) DEF Chained
<1>1. <<>> \in Seq(Structs) /\ Len(<<>>) = 0 /\ 1 .. 0 = {}
  OBVIOUS
<1>2. clients = Null /\ alive = {}
  BY DEF Init
<1>3. QED
  BY <1>1, <1>2 DEF Chain

\* The list of the others is a list, wherever in it the client was.
LEMMA RemoveChain ==
  ASSUME TypeOK, Chained, NEW a, RemoveClient(a)
  PROVE  Chained'
<1> USE CmdsJsonAssumption
<1>1. PICK s \in Seq(Structs) : Chain(s)
  BY DEF Chained
<1>2. Listed = alive
  BY <1>1, ChainIsListed
<1>3. CASE a \notin Listed
  <2>1. clients' = clients /\ next' = next /\ alive' = alive
    BY <1>3 DEF RemoveClient, list
  <2>2. Chain(s)'
    BY <1>1, <2>1 DEF Chain
  <2>3. QED
    BY <2>2 DEF Chained
<1>4. CASE a \in Listed
  <2>1. PICK i \in 1 .. Len(s) : s[i] = a
    BY <1>1, <1>2, <1>4 DEF Chain
  <2> DEFINE t == [j \in 1 .. Len(s) - 1 |-> IF j < i THEN s[j] ELSE s[j + 1]]
  <2>2. t \in Seq(Structs) /\ Len(t) = Len(s) - 1
    OBVIOUS
  <2>3. \A j \in 1 .. Len(t) : t[j] = IF j < i THEN s[j] ELSE s[j + 1]
    BY <2>2
  <2> HIDE DEF t
  <2>4. \A j, k \in 1 .. Len(s) : s[j] = s[k] => j = k
    BY <1>1 DEF Chain
  <2>5. /\ Unlink(a)
        /\ alive' = alive \ {a}
    BY <1>4 DEF RemoveClient
  <2>6. \A j, k \in 1 .. Len(t) : t[j] = t[k] => j = k
    BY <2>2, <2>3, <2>4
  <2>7. alive' = {t[j] : j \in 1 .. Len(t)}
    <3>1. ASSUME NEW b \in alive' PROVE \E j \in 1 .. Len(t) : b = t[j]
      <4>1. PICK j \in 1 .. Len(s) : b = s[j]
        BY <1>1, <2>5, <3>1 DEF Chain
      <4>2. j # i
        BY <2>1, <2>5, <4>1, <3>1
      <4>3. CASE j < i
        BY <2>2, <2>3, <4>1, <4>3
      <4>4. CASE j > i
        <5>1. j - 1 \in 1 .. Len(t) /\ t[j - 1] = s[j]
          BY <2>2, <2>3, <4>4
        <5>2. QED
          BY <4>1, <5>1
      <4>5. QED
        BY <4>2, <4>3, <4>4
    <3>2. ASSUME NEW j \in 1 .. Len(t) PROVE t[j] \in alive'
      <4>1. PICK k \in 1 .. Len(s) : k # i /\ t[j] = s[k]
        BY <2>2, <2>3
      <4>2. QED
        BY <1>1, <2>1, <2>4, <2>5, <4>1 DEF Chain
    <3>3. QED
      BY <3>1, <3>2
  <2>8. \A j \in 1 .. Len(s) : next[s[j]] = IF j = Len(s) THEN Null ELSE s[j + 1]
    BY <1>1 DEF Chain
  <2>9. clients = s[1]
    BY <1>1, <2>1 DEF Chain
  <2>10. CASE i = 1
    <3>1. clients' = next[a] /\ next' = next
      BY <2>1, <2>5, <2>9, <2>10 DEF Unlink
    <3>2. clients' = IF Len(t) = 0 THEN Null ELSE t[1]
      BY <2>1, <2>2, <2>3, <2>8, <2>10, <3>1
    <3>3. \A j \in 1 .. Len(t) : next'[t[j]] = IF j = Len(t) THEN Null ELSE t[j + 1]
      BY <2>2, <2>3, <2>8, <2>10, <3>1
    <3>4. QED
      BY <2>2, <2>6, <2>7, <3>2, <3>3 DEF Chained, Chain
  <2>11. CASE i # 1
    <3>1. a # clients
      BY <2>1, <2>4, <2>9, <2>11
    <3>2. /\ clients' = clients
          /\ next' = [b \in Structs |-> IF b \in Listed /\ next[b] = a THEN next[a] ELSE next[b]]
      BY <2>5, <3>1 DEF Unlink
    <3>3. clients' = IF Len(t) = 0 THEN Null ELSE t[1]
      BY <2>2, <2>3, <2>9, <2>11, <3>2
    <3>4. ASSUME NEW j \in 1 .. Len(t)
          PROVE  next'[t[j]] = IF j = Len(t) THEN Null ELSE t[j + 1]
      <4>1. t[j] \in Structs /\ t[j] \in alive
        BY <2>2, <2>5, <2>7
      <4>2. next'[t[j]] = IF next[t[j]] = a THEN next[a] ELSE next[t[j]]
        BY <1>2, <3>2, <4>1
      <4>3. CASE j < i - 1
        <5>1. next[t[j]] = s[j + 1] /\ s[j + 1] # a
          <6>1. j \in 1 .. Len(s) /\ j # Len(s) /\ t[j] = s[j]
            BY <2>2, <2>3, <4>3
          <6>2. j + 1 \in 1 .. Len(s) /\ j + 1 # i
            BY <2>1, <2>2, <4>3
          <6>3. next[s[j]] = s[j + 1]
            BY <2>8, <6>1
          <6>4. s[j + 1] # a
            BY <2>1, <2>4, <6>2
          <6>5. QED
            BY <6>1, <6>3, <6>4
        <5>2. j # Len(t) /\ t[j + 1] = s[j + 1]
          BY <2>2, <2>3, <4>3
        <5>3. QED
          BY <4>2, <5>1, <5>2
      <4>4. CASE j = i - 1
        <5>1. next[t[j]] = a
          <6>1. j \in 1 .. Len(s) /\ j # Len(s) /\ t[j] = s[j] /\ j + 1 = i
            BY <2>1, <2>2, <2>3, <4>4
          <6>2. next[s[j]] = s[j + 1]
            BY <2>8, <6>1
          <6>3. QED
            BY <2>1, <6>1, <6>2
        <5>2. next[a] = IF j = Len(t) THEN Null ELSE t[j + 1]
          <6>1. next[a] = IF i = Len(s) THEN Null ELSE s[i + 1]
            BY <2>1, <2>8
          <6>2. i = Len(s) <=> j = Len(t)
            BY <2>1, <2>2, <4>4
          <6>3. j # Len(t) => t[j + 1] = s[i + 1]
            BY <2>1, <2>2, <2>3, <4>4
          <6>4. QED
            BY <6>1, <6>2, <6>3
        <5>3. QED
          BY <4>2, <5>1, <5>2
      <4>5. CASE j > i - 1
        <5>1. next[t[j]] = IF j = Len(t) THEN Null ELSE t[j + 1]
          <6>1. j + 1 \in 1 .. Len(s) /\ t[j] = s[j + 1]
            BY <2>2, <2>3, <4>5
          <6>2. next[t[j]] = IF j + 1 = Len(s) THEN Null ELSE s[j + 1 + 1]
            BY <2>8, <6>1
          <6>3. j # Len(t) => t[j + 1] = s[j + 1 + 1]
            BY <2>2, <2>3, <4>5
          <6>4. QED
            BY <2>2, <6>2, <6>3
        <5>2. next[t[j]] # a
          <6>1. CASE j = Len(t)
            BY <5>1, <6>1, <2>1
          <6>2. CASE j # Len(t)
            BY <5>1, <6>2, <2>1, <2>2, <2>3, <2>4, <4>5
          <6>3. QED
            BY <6>1, <6>2
        <5>3. QED
          BY <4>2, <5>1, <5>2
      <4>6. QED
        BY <4>3, <4>4, <4>5, <2>2
    <3>5. QED
      BY <2>2, <2>6, <2>7, <3>3, <3>4 DEF Chained, Chain
  <2>12. QED
    BY <2>10, <2>11
<1>5. QED
  BY <1>3, <1>4

\* A new client is put before the others.
LEMMA AcceptChain ==
  ASSUME TypeOK, Chained, NEW t \in Conns, Accept(t)
  PROVE  Chained'
<1> USE CmdsJsonAssumption
<1>1. PICK s \in Seq(Structs) : Chain(s)
  BY DEF Chained
<1>2. PICK a \in Structs \ alive :
        alive' = alive \cup {a} /\ next' = [next EXCEPT ![a] = clients] /\ clients' = a
  BY DEF Accept
<1> DEFINE u == <<a>> \o s
<1>3. u \in Seq(Structs) /\ Len(u) = Len(s) + 1
  OBVIOUS
<1>4. u[1] = a /\ \A i \in 2 .. Len(u) : u[i] = s[i - 1]
  OBVIOUS
<1> HIDE DEF u
<1>5. \A i \in 1 .. Len(s) : s[i] \in alive /\ s[i] # a /\ s[i] \in Structs
  BY <1>1, <1>2 DEF Chain
<1>6. \A i, j \in 1 .. Len(u) : u[i] = u[j] => i = j
  <2>1. \A i, j \in 1 .. Len(s) : s[i] = s[j] => i = j
    BY <1>1 DEF Chain
  <2>2. \A i \in 2 .. Len(u) : i - 1 \in 1 .. Len(s) /\ u[i] = s[i - 1] /\ u[i] # a
    BY <1>3, <1>4, <1>5
  <2>3. \A i, j \in 2 .. Len(u) : u[i] = u[j] => i = j
    <3> SUFFICES ASSUME NEW i \in 2 .. Len(u), NEW j \in 2 .. Len(u), u[i] = u[j] PROVE i = j
      OBVIOUS
    <3>1. i - 1 = j - 1
      BY <2>1, <2>2
    <3>2. QED
      BY <3>1
  <2>4. \A i \in 1 .. Len(u) : i = 1 \/ i \in 2 .. Len(u)
    OBVIOUS
  <2>5. QED
    BY <1>4, <2>2, <2>3, <2>4
<1>7. alive' = {u[i] : i \in 1 .. Len(u)}
  <2>1. ASSUME NEW b \in alive PROVE \E i \in 1 .. Len(u) : b = u[i]
    <3>1. PICK i \in 1 .. Len(s) : b = s[i]
      BY <1>1, <2>1 DEF Chain
    <3>2. i + 1 \in 2 .. Len(u) /\ u[i + 1] = s[i]
      BY <1>3, <1>4
    <3>3. QED
      BY <3>1, <3>2
  <2>2. ASSUME NEW i \in 1 .. Len(u) PROVE u[i] \in alive'
    BY <1>2, <1>3, <1>4, <1>5
  <2>3. 1 \in 1 .. Len(u)
    BY <1>3
  <2>4. QED
    BY <1>2, <1>4, <2>1, <2>2, <2>3
<1>8. ASSUME NEW i \in 1 .. Len(u) PROVE next'[u[i]] = IF i = Len(u) THEN Null ELSE u[i + 1]
  <2>1. CASE i = 1
    BY <1>1, <1>2, <1>3, <1>4, <2>1 DEF Chain, TypeOK
  <2>2. CASE i # 1
    <3>1. i - 1 \in 1 .. Len(s) /\ u[i] = s[i - 1]
      BY <1>3, <1>4, <2>2
    <3>2. next'[u[i]] = next[s[i - 1]]
      BY <1>2, <1>5, <3>1 DEF TypeOK
    <3>3. next[s[i - 1]] = IF i - 1 = Len(s) THEN Null ELSE s[i]
      <4>1. \A k \in 1 .. Len(s) : next[s[k]] = IF k = Len(s) THEN Null ELSE s[k + 1]
        BY <1>1 DEF Chain
      <4>2. i - 1 + 1 = i
        OBVIOUS
      <4>3. QED
        BY <3>1, <4>1, <4>2
    <3>4. i # Len(u) => i + 1 \in 2 .. Len(u) /\ u[i + 1] = s[i + 1 - 1] /\ i + 1 - 1 = i
      BY <1>3, <1>4
    <3>5. QED
      BY <1>3, <3>2, <3>3, <3>4
  <2>3. QED
    BY <2>1, <2>2
<1>9. Chain(u)'
  BY <1>2, <1>3, <1>4, <1>6, <1>7, <1>8 DEF Chain
<1>10. QED
  BY <1>3, <1>9 DEF Chained

\* Every step keeps the list whole.
LEMMA StepChain ==
  ASSUME TypeOK, Chained, [Next]_vars
  PROVE  Chained'
<1> DEFINE Same == UNCHANGED <<clients, next, alive>>
<1>1. CASE Same
  BY <1>1 DEF Chained, Chain
<1>2. ASSUME NEW t \in Conns, Accept(t) PROVE Chained'
  BY <1>2, AcceptChain
<1>3. ASSUME NEW t \in Conns, RecvFails(t) \/ Leave(t) PROVE Chained'
  BY <1>3, RemoveChain DEF RecvFails, Leave
<1>4. ASSUME NEW t \in Conns, Recv(t) \/ Push(t) \/ Hangup(t) PROVE Same
  BY <1>4 DEF Recv, Push, Hangup, list
<1>5. CASE SendRemove \/ WalkNext
  <2>1. Same \/ \E a \in {request.client, client} : RemoveClient(a)
    BY <1>5 DEF SendRemove, WalkNext, list
  <2>2. QED
    BY <1>1, <2>1, RemoveChain
<1>6. ASSUME \/ SendSleep \/ SendTake \/ SendAnswer \/ SendEvents \/ WalkStart \/ Tell
             \/ ChangeForNew \/ PlayerPrepares \/ PlayerChanges \/ UNCHANGED vars
      PROVE  Same
  BY <1>6 DEF SendSleep, SendTake, SendAnswer, SendEvents, WalkStart, Tell,
              ChangeForNew, PlayerPrepares, PlayerChanges, vars, list
<1>7. QED
  BY <1>1, <1>2, <1>3, <1>4, <1>5, <1>6 DEF Next

\* The list holds the clients that are allocated and no others.
THEOREM ListIsWhole == Spec => []ListIsAlive
<1>1. Init => TypeInv /\ Chained
  BY InitType, InitChain
<1>2. TypeInv /\ Chained /\ [Next]_vars => (TypeInv /\ Chained)'
  BY StepType, StepChain DEF TypeInv
<1>3. TypeInv /\ Chained => ListIsAlive
  BY ChainIsListed DEF TypeInv, Chained, ListIsAlive
<1>4. QED
  BY <1>1, <1>2, <1>3, PTL DEF Spec

-----------------------------------------------------------------------------
(* The requests *)

Asking(t) == pc[t] = "push"

\* No request has a number that was not given yet.
Numbered ==
  /\ \A t \in Conns : last[t] <= asked /\ (Asking(t) => read[t].k <= asked)
  /\ \A i \in 1 .. Len(requests) : requests[i].k <= asked
  /\ pcS = "answer" => request.k <= asked

\* A thread reads from its own connection, as long as its client is allocated.
OwnClient == \A t \in Conns : mine[t] \in alive => sock[mine[t]] = t

\* The requests of a connection are older than the one its thread has read ...
ReadIsLast ==
  \A t \in Conns : Asking(t) =>
    /\ read[t].conn = t /\ last[t] < read[t].k
    /\ \A i \in 1 .. Len(requests) : requests[i].conn = t => requests[i].k < read[t].k
    /\ pcS = "answer" /\ request.conn = t => request.k < read[t].k

\* ... are in their order in the queue, after the one that is being answered,
\* which is after those that were.
InOrder ==
  /\ \A i, j \in 1 .. Len(requests) :
       i < j /\ requests[i].conn = requests[j].conn => requests[i].k < requests[j].k
  /\ \A i \in 1 .. Len(requests) :
       /\ last[requests[i].conn] < requests[i].k
       /\ pcS = "answer" /\ request.conn = requests[i].conn => request.k < requests[i].k
  /\ pcS = "answer" => last[request.conn] < request.k

Line == Numbered /\ OwnClient /\ ReadIsLast /\ InOrder
LineInv == ~mixed => Line

\* Initially nothing is asked.
LEMMA InitLine == Init => Line
<1> SUFFICES ASSUME Init PROVE Line
  OBVIOUS
<1>1. requests = <<>> /\ Len(<<>>) = 0 /\ 1 .. 0 = {}
  BY DEF Init
<1>2. QED
  BY <1>1, CmdsJsonAssumption DEF Init, Line, Numbered, OwnClient, ReadIsLast, InOrder, Asking

\* The removal of a client keeps the connections and the numbers of the requests.
LEMMA RemoveKeeps ==
  ASSUME TypeOK, NEW a, RemoveClient(a)
  PROVE  /\ alive' \subseteq alive /\ \A b \in alive' : sock'[b] = sock[b]
         /\ Len(requests') = Len(requests)
         /\ \A i \in 1 .. Len(requests) :
              requests'[i].conn = requests[i].conn /\ requests'[i].k = requests[i].k
<1>1. CASE a \notin Listed
  BY <1>1 DEF RemoveClient, list
<1>2. CASE a \in Listed
  <2>1. requests' = [i \in 1 .. Len(requests) |->
             IF requests[i].client = a THEN [requests[i] EXCEPT !.client = Null] ELSE requests[i]]
    BY <1>2 DEF RemoveClient, TypeOK
  <2>2. \A i \in 1 .. Len(requests) : requests[i] \in Entries
    BY DEF TypeOK
  <2>3. \A e \in Entries : /\ [e EXCEPT !.client = Null].conn = e.conn
                           /\ [e EXCEPT !.client = Null].k = e.k
    BY DEF Entries
  <2>4. Len(requests) \in Nat
    BY DEF TypeOK
  <2>5. Len(requests') = Len(requests)
    BY <2>1, <2>4
  <2>6. alive' = alive \ {a} /\ sock' = [sock EXCEPT ![a] = Null]
    BY <1>2 DEF RemoveClient
  <2>7. QED
    BY <2>1, <2>2, <2>3, <2>5, <2>6 DEF TypeOK
<1>3. QED
  BY <1>1, <1>2

\* What neither reads, queues nor answers a request keeps the order.
LEMMA KeepsLine ==
  ASSUME TypeInv, Line,
         alive' \subseteq alive, \A b \in alive' : sock'[b] = sock[b],
         \A t \in Conns : mine'[t] = mine[t] \/ mine'[t] = Null,
         Len(requests') = Len(requests),
         \A i \in 1 .. Len(requests) :
           requests'[i].conn = requests[i].conn /\ requests'[i].k = requests[i].k,
         UNCHANGED <<read, asked, last>>,
         \A t \in Conns : Asking(t)' => Asking(t),
         pcS' = "answer" => pcS = "answer" /\ request' = request
  PROVE  Line'
<1>1. Numbered'
  BY DEF Line, Numbered
<1>2. OwnClient'
  BY CmdsJsonAssumption DEF Line, OwnClient, TypeInv, TypeOK
<1>3. ReadIsLast'
  BY DEF Line, ReadIsLast
<1>4. InOrder'
  BY DEF Line, InOrder
<1>5. QED
  BY <1>1, <1>2, <1>3, <1>4 DEF Line

\* A request that is read is the last one.
LEMMA RecvLine ==
  ASSUME TypeInv, Line, NEW t \in Conns, Recv(t)
  PROVE  Line'
<1> USE DEF TypeInv
<1>1. /\ asked \in Nat /\ asked' = asked + 1
      /\ read'[t].conn = t /\ read'[t].k = asked + 1
      /\ \A u \in Conns \ {t} : read'[u] = read[u] /\ (Asking(u)' <=> Asking(u))
      /\ UNCHANGED <<alive, sock, mine, requests, pcS, request, last>>
  BY DEF Recv, Line, OwnClient, Entry, Asking, TypeOK, list, sending
<1>2. /\ last \in [Conns -> Nat]
      /\ \A u \in Conns : Asking(u) => read[u].k \in Nat
      /\ \A i \in 1 .. Len(requests) : requests[i].k \in Nat
      /\ pcS = "answer" => request.k \in Nat
  <2>1. \A i \in 1 .. Len(requests) : requests[i] \in Entries
    BY DEF TypeOK
  <2>2. \A e \in Entries : e.k \in Nat
    BY CmdsJsonAssumption DEF Entries
  <2>3. QED
    BY <2>1, <2>2, CmdsJsonAssumption DEF TypeOK, Reading, Asking, Answering
<1>3. Numbered'
  BY <1>1, <1>2 DEF Line, Numbered
<1>4. OwnClient'
  BY <1>1 DEF Line, OwnClient
<1>5. ReadIsLast'
  BY <1>1, <1>2 DEF Line, Numbered, ReadIsLast
<1>6. InOrder'
  BY <1>1 DEF Line, InOrder
<1>7. QED
  BY <1>3, <1>4, <1>5, <1>6 DEF Line

\* The last request of a connection is put behind the others.
LEMMA PushLine ==
  ASSUME TypeInv, Line, NEW t \in Conns, Push(t)
  PROVE  Line'
<1> USE DEF TypeInv
<1> DEFINE n == Len(requests)
<1>1. /\ n \in Nat /\ Len(requests') = n + 1
      /\ requests'[n + 1] = read[t]
      /\ \A i \in 1 .. n : requests'[i] = requests[i]
      /\ \A i \in 1 .. n + 1 : i = n + 1 \/ i \in 1 .. n
  BY DEF Push, TypeOK
<1>2. /\ Asking(t) /\ ~Asking(t)'
      /\ \A u \in Conns \ {t} : read'[u] = read[u] /\ (Asking(u)' <=> Asking(u))
      /\ UNCHANGED <<alive, sock, mine, request, last, asked>>
      /\ pcS' = "answer" => pcS = "answer"
  BY DEF Push, Wake, Asking, TypeOK, list, sending, world
<1>3. /\ read[t].conn = t /\ last[t] < read[t].k /\ read[t].k <= asked
      /\ \A i \in 1 .. n : requests[i].conn = t => requests[i].k < read[t].k
      /\ pcS = "answer" /\ request.conn = t => request.k < read[t].k
  BY <1>2 DEF Line, Numbered, ReadIsLast
<1> HIDE DEF n
<1>4. Numbered'
  BY <1>1, <1>2, <1>3 DEF Line, Numbered, n
<1>5. OwnClient'
  BY <1>2 DEF Line, OwnClient
<1>6. ReadIsLast'
  <2> SUFFICES ASSUME NEW u \in Conns, Asking(u)'
               PROVE  /\ read'[u].conn = u /\ last'[u] < read'[u].k
                      /\ \A i \in 1 .. n + 1 : requests'[i].conn = u => requests'[i].k < read'[u].k
                      /\ pcS' = "answer" /\ request'.conn = u => request'.k < read'[u].k
    BY <1>1 DEF ReadIsLast, n
  <2>1. u # t /\ Asking(u)
    BY <1>2
  <2>2. QED
    BY <1>1, <1>2, <1>3, <2>1 DEF Line, ReadIsLast, n
<1>7. InOrder'
  <2>1. \A i, j \in 1 .. n + 1 :
          i < j /\ requests'[i].conn = requests'[j].conn => requests'[i].k < requests'[j].k
    <3> SUFFICES ASSUME NEW i \in 1 .. n + 1, NEW j \in 1 .. n + 1, i < j,
                        requests'[i].conn = requests'[j].conn
                 PROVE  requests'[i].k < requests'[j].k
      OBVIOUS
    <3>1. i \in 1 .. n
      BY <1>1
    <3>2. CASE j \in 1 .. n
      BY <1>1, <3>1, <3>2 DEF Line, InOrder, n
    <3>3. CASE j = n + 1
      BY <1>1, <1>3, <3>1, <3>3
    <3>4. QED
      BY <1>1, <3>2, <3>3
  <2>2. \A i \in 1 .. n + 1 :
          /\ last'[requests'[i].conn] < requests'[i].k
          /\ pcS' = "answer" /\ request'.conn = requests'[i].conn => request'.k < requests'[i].k
    <3> SUFFICES ASSUME NEW i \in 1 .. n + 1
                 PROVE  /\ last'[requests'[i].conn] < requests'[i].k
                        /\ pcS' = "answer" /\ request'.conn = requests'[i].conn
                             => request'.k < requests'[i].k
      OBVIOUS
    <3>1. CASE i \in 1 .. n
      BY <1>1, <1>2, <3>1 DEF Line, InOrder, n
    <3>2. CASE i = n + 1
      BY <1>1, <1>2, <1>3, <3>2
    <3>3. QED
      BY <1>1, <3>1, <3>2
  <2>3. pcS' = "answer" => last'[request'.conn] < request'.k
    BY <1>2 DEF Line, InOrder
  <2>4. QED
    BY <1>1, <2>1, <2>2, <2>3 DEF InOrder, n
<1>8. QED
  BY <1>4, <1>5, <1>6, <1>7 DEF Line

\* The first request of the queue is the next one of its connection.
LEMMA TakeLine ==
  ASSUME TypeInv, Line, SendTake
  PROVE  Line'
<1> USE DEF TypeInv
<1> DEFINE n == Len(requests)
<1>1. /\ n \in Nat \ {0} /\ Len(requests') = n - 1
      /\ \A i \in 1 .. n - 1 : i + 1 \in 1 .. n /\ requests'[i] = requests[i + 1]
      /\ 1 \in 1 .. n /\ Head(requests) = requests[1]
  BY DEF SendTake, TypeOK
<1>2. UNCHANGED <<alive, sock, mine, read, last, asked, pc>>
  BY DEF SendTake, list, world
<1>3. pcS' = "answer" => request' = requests[1]
  BY <1>1 DEF SendTake
<1> HIDE DEF n
<1>4. Numbered'
  BY <1>1, <1>2, <1>3 DEF Line, Numbered, Asking, n
<1>5. OwnClient'
  BY <1>2 DEF Line, OwnClient
<1>6. ReadIsLast'
  BY <1>1, <1>2, <1>3 DEF Line, ReadIsLast, Asking, n
<1>7. InOrder'
  <2>1. \A i, j \in 1 .. n - 1 :
          i < j /\ requests'[i].conn = requests'[j].conn => requests'[i].k < requests'[j].k
    <3> SUFFICES ASSUME NEW i \in 1 .. n - 1, NEW j \in 1 .. n - 1, i < j,
                        requests'[i].conn = requests'[j].conn
                 PROVE  requests'[i].k < requests'[j].k
      OBVIOUS
    <3>1. i + 1 < j + 1
      BY <1>1
    <3>2. QED
      BY <1>1, <3>1 DEF Line, InOrder, n
  <2>2. \A i \in 1 .. n - 1 : last'[requests'[i].conn] < requests'[i].k
    BY <1>1, <1>2 DEF Line, InOrder, n
  <2>3. ASSUME NEW i \in 1 .. n - 1, pcS' = "answer", request'.conn = requests'[i].conn
        PROVE  request'.k < requests'[i].k
    <3>1. i + 1 \in 1 .. n /\ 1 < i + 1 /\ requests'[i] = requests[i + 1]
      BY <1>1
    <3>2. QED
      BY <1>1, <1>3, <2>3, <3>1 DEF Line, InOrder, n
  <2>4. pcS' = "answer" => last'[request'.conn] < request'.k
    BY <1>1, <1>2, <1>3 DEF Line, InOrder, n
  <2>5. QED
    BY <1>1, <2>1, <2>2, <2>3, <2>4 DEF InOrder, n
<1>8. QED
  BY <1>4, <1>5, <1>6, <1>7 DEF Line

\* The answer is the last one of its connection.
LEMMA AnswerLine ==
  ASSUME TypeInv, Line, SendAnswer
  PROVE  Line'
<1> USE DEF TypeInv
<1>1. /\ pcS = "answer" /\ pcS' # "answer" /\ request.conn \in Conns
      /\ UNCHANGED <<alive, sock, mine, read, requests, asked, pc>>
  BY DEF SendAnswer, Answering, Entries, list
<1>2. \A t \in Conns : last'[t] = last[t] \/ (t = request.conn /\ last'[t] = request.k)
  BY <1>1 DEF SendAnswer, TypeOK
<1>3. Numbered'
  BY <1>1, <1>2 DEF Line, Numbered, Asking
<1>4. OwnClient'
  BY <1>1 DEF Line, OwnClient
<1>5. ReadIsLast'
  BY <1>1, <1>2 DEF Line, ReadIsLast, Asking
<1>6. InOrder'
  <2>1. \A i \in 1 .. Len(requests) : requests[i] \in Entries
    BY DEF TypeOK
  <2>2. QED
    BY <1>1, <1>2, <2>1 DEF Line, InOrder, Entries
<1>7. QED
  BY <1>3, <1>4, <1>5, <1>6 DEF Line

\* A new connection has its client for itself, unless it is mixed.
LEMMA AcceptLine ==
  ASSUME TypeInv, Line, NEW t \in Conns, Accept(t), ~mixed'
  PROVE  Line'
<1> USE DEF TypeInv
<1>1. PICK a \in Structs \ alive :
        /\ alive' = alive \cup {a}
        /\ sock' = [sock EXCEPT ![a] = t]
        /\ mine' = [mine EXCEPT ![t] = a]
        /\ mixed' = (mixed \/ \E u \in Conns : mine[u] = a)
  BY DEF Accept
<1>2. /\ UNCHANGED <<read, requests, pcS, request, asked, last>>
      /\ \A u \in Conns : Asking(u)' => Asking(u)
  BY DEF Accept, Asking, TypeOK, sending
<1>3. \A u \in Conns : mine[u] # a
  BY <1>1
<1>4. OwnClient'
  BY <1>1, <1>3 DEF Line, OwnClient, TypeOK
<1>5. Numbered' /\ ReadIsLast' /\ InOrder'
  BY <1>2 DEF Line, Numbered, ReadIsLast, InOrder
<1>6. QED
  BY <1>4, <1>5 DEF Line

\* Every step keeps the order, until a client is mixed.
LEMMA StepLine ==
  ASSUME TypeInv, Line, [Next]_vars, ~mixed'
  PROVE  Line'
<1> USE CmdsJsonAssumption DEF TypeInv
<1> DEFINE Removes(a) ==
             /\ RemoveClient(a) /\ UNCHANGED <<read, asked, last>>
             /\ \A t \in Conns : mine'[t] = mine[t] \/ mine'[t] = Null
             /\ \A t \in Conns : Asking(t)' => Asking(t)
             /\ pcS' = "answer" => pcS = "answer" /\ request' = request
           Keeps ==
             /\ UNCHANGED <<alive, sock, mine, requests, read, asked, last>>
             /\ \A t \in Conns : Asking(t)' => Asking(t)
             /\ pcS' = "answer" => pcS = "answer" /\ request' = request
<1>1. ASSUME NEW a, Removes(a) PROVE Line'
  BY <1>1, RemoveKeeps, KeepsLine
<1>2. CASE Keeps
  BY <1>2, KeepsLine
<1>3. ASSUME NEW t \in Conns, RecvFails(t) \/ Leave(t) PROVE Removes(mine[t])
  BY <1>3 DEF RecvFails, Leave, Asking, TypeOK, sending, world
<1>4. CASE SendRemove
  <2>1. Removes(request.client)
    BY <1>4 DEF SendRemove, Asking, world
  <2>2. QED
    BY <1>1, <2>1
<1>5. CASE WalkNext
  <2>1. Keeps \/ Removes(client)
    BY <1>5 DEF WalkNext, WalkAt, Asking, list, world
  <2>2. QED
    BY <1>1, <1>2, <2>1
<1>6. ASSUME \/ SendSleep \/ SendEvents \/ WalkStart \/ Tell
             \/ ChangeForNew \/ PlayerPrepares \/ PlayerChanges \/ UNCHANGED vars
             \/ \E t \in Conns : Hangup(t)
      PROVE  Keeps
  BY <1>6 DEF SendSleep, SendEvents, WalkStart, WalkAt, Tell, Wake, Asking, Hangup, TypeOK,
              ChangeForNew, PlayerPrepares, PlayerChanges, vars, list, sending, world
<1>7. ASSUME NEW t \in Conns, Recv(t) \/ Push(t) \/ Accept(t) PROVE Line'
  BY <1>7, RecvLine, PushLine, AcceptLine
<1>8. CASE SendTake \/ SendAnswer
  BY <1>8, TakeLine, AnswerLine
<1>9. QED
  BY <1>1, <1>2, <1>3, <1>4, <1>5, <1>6, <1>7, <1>8 DEF Next

\* Two threads that read from the same client do so for ever.
LEMMA StepMixed ==
  ASSUME TypeInv, mixed, [Next]_vars
  PROVE  mixed'
<1>1. ASSUME NEW t \in Conns, Accept(t) PROVE mixed'
  BY <1>1 DEF Accept
<1>2. ASSUME NEW t \in Conns, Recv(t) \/ Push(t) \/ RecvFails(t) \/ Hangup(t) \/ Leave(t)
      PROVE  mixed'
  BY <1>2 DEF Recv, Push, RecvFails, Hangup, Leave, world
<1>3. ASSUME SendStep PROVE mixed'
  BY <1>3 DEF SendStep, SendSleep, SendTake, SendAnswer, SendRemove, SendEvents,
              WalkStart, Tell, WalkNext, world
<1>4. ASSUME ChangeForNew \/ PlayerPrepares \/ PlayerChanges \/ UNCHANGED vars
      PROVE  mixed'
  BY <1>4 DEF ChangeForNew, PlayerPrepares, PlayerChanges, vars, world
<1>5. QED
  BY <1>1, <1>2, <1>3, <1>4 DEF Next, SendStep

\* The order is an invariant.
LEMMA LineInvariance == Spec => [](TypeInv /\ LineInv)
<1>1. Init => TypeInv /\ LineInv
  BY InitType, InitLine DEF LineInv
<1>2. TypeInv /\ LineInv /\ [Next]_vars => (TypeInv /\ LineInv)'
  BY StepType, StepLine, StepMixed DEF LineInv
<1>3. QED
  BY <1>1, <1>2, PTL DEF Spec

\* Only an answer counts as one, and it is the one of the request in hand.
LEMMA OnlyAnswers ==
  ASSUME TypeInv, [Next]_vars, NEW t \in Conns, last'[t] # last[t]
  PROVE  pcS = "answer" /\ request.conn = t /\ last'[t] = request.k
<1>1. last' # last
  OBVIOUS
<1>2. ASSUME NEW u \in Conns,
             Accept(u) \/ Recv(u) \/ Push(u) \/ RecvFails(u) \/ Hangup(u) \/ Leave(u)
      PROVE  last' = last
  BY <1>2 DEF Accept, Recv, Push, RecvFails, Hangup, Leave, world
<1>3. ASSUME \/ SendSleep \/ SendTake \/ SendRemove \/ SendEvents \/ WalkStart \/ Tell \/ WalkNext
             \/ ChangeForNew \/ PlayerPrepares \/ PlayerChanges \/ UNCHANGED vars
      PROVE  last' = last
  BY <1>3 DEF SendSleep, SendTake, SendRemove, SendEvents, WalkStart, Tell, WalkNext,
              ChangeForNew, PlayerPrepares, PlayerChanges, vars, world
<1>4. SendAnswer
  BY <1>1, <1>2, <1>3 DEF Next
<1>5. QED
  BY <1>4 DEF SendAnswer, TypeInv, TypeOK

\* The requests of a connection are answered in their order and none twice, as
\* long as two threads do not read from the same client.
THEOREM AnsweredInOrder == Spec => AnswersInOrder
<1>1. TypeInv /\ LineInv /\ [Next]_vars
        => [\A t \in Conns : last'[t] # last[t] => mixed \/ last'[t] > last[t]]_vars
  <2> SUFFICES ASSUME TypeInv, LineInv, [Next]_vars, ~mixed, NEW t \in Conns, last'[t] # last[t]
               PROVE  last'[t] > last[t]
    OBVIOUS
  <2>1. pcS = "answer" /\ request.conn = t /\ last'[t] = request.k
    BY OnlyAnswers
  <2>2. last[t] < request.k
    BY <2>1 DEF LineInv, Line, InOrder
  <2>3. last[t] \in Int /\ request.k \in Int
    BY <2>1, CmdsJsonAssumption DEF TypeInv, TypeOK, Answering, Entries
  <2>4. QED
    BY <2>1, <2>2, <2>3
<1>2. QED
  BY LineInvariance, <1>1, PTL DEF Spec, AnswersInOrder
=============================================================================
