------------------------------ MODULE SinkUnix ------------------------------
(***************************************************************************)
(* The sink that writes the stream to the clients of a unix socket         *)
(* (src/src/sink_unix.c, built with SINK_UNIX_ASYNC and                    *)
(* SINK_UNIX_WAITCLIENT), with the server that accepts the clients         *)
(* (src/src/unix_server.c).  The sink's thread publishes a buffer and      *)
(* waits until a client's thread acknowledges it; one flag stands for all  *)
(* the clients.                                                            *)
(*                                                                         *)
(* A buffer is its number: the one the sink's counter has when the buffer  *)
(* is taken.  Left out: the player, which is only asked to PLAY and to     *)
(* STOP (it may give buffers or not at any moment), partial sends.         *)
(***************************************************************************)
EXTENDS Integers, Sequences, FiniteSets

CONSTANTS
  Clients,      \* the connections
  MaxClients,   \* MAX_CLIENTS
  Buffers       \* how many buffers the encoder pushes (a bound of the model)

ASSUME SinkUnixAssumption == MaxClients \in Nat \ {0} /\ Buffers \in Nat

VARIABLES
  counter,    \* the buffers taken; read and written without the mutex
  out,        \* the buffer that is published, 0 for none yet
  ackstate,   \* the flag of acknowledgement
  nbclients,  \* read and written without any mutex
  pcSink,     \* where the sink's thread is
  asleep,     \* the clients in pthread_cond_wait on event
  infos,      \* the server's list, in the order of the connections
  pcClient,   \* where each client's thread is
  copy,       \* the nbclients it has loaded to change it
  seen,       \* its variable counter
  got         \* the buffers it has sent

unixVars == <<counter, out, ackstate, nbclients, pcSink, asleep, infos, pcClient, copy, seen, got>>
sinkVars == <<counter, out, pcSink>>
clientVars == <<nbclients, infos, copy, seen, got>>

UnixInit ==
  /\ counter = 0 /\ out = 0 /\ ackstate = 0 /\ nbclients = 0
  /\ pcSink = "peer"
  /\ asleep = {} /\ infos = <<>>
  /\ pcClient = [c \in Clients |-> "off"]
  /\ copy = [c \in Clients |-> 0]
  /\ seen = [c \in Clients |-> 0]
  /\ got = [c \in Clients |-> <<>>]

\* The mutex is held between two steps only by a client that sends.
MutexFree == \A c \in Clients : pcClient[c] # "sending"

-----------------------------------------------------------------------------
(* sink_thread                                                             *)

\* peer returns a buffer; the counter moves before the buffer is published.
SinkTake ==
  /\ pcSink = "peer" /\ counter < Buffers
  /\ counter' = counter + 1
  /\ pcSink' = "publish"
  /\ UNCHANGED <<out, ackstate, asleep, pcClient, clientVars>>

\* peer returns nothing, the buffer in front of the sink was flushed.
SinkEnd ==
  /\ pcSink = "peer"
  /\ pcSink' = "end"
  /\ UNCHANGED <<counter, out, ackstate, asleep, pcClient, clientVars>>

SinkPublish ==
  /\ pcSink = "publish" /\ MutexFree
  /\ out' = counter
  /\ pcSink' = "tell"
  /\ UNCHANGED <<counter, ackstate, asleep, pcClient, clientVars>>

\* pthread_cond_broadcast on event
SinkTellNobody ==  \* mutant: the clients are not told
  /\ pcSink = "tell"
  /\ pcSink' = "ack"
  /\ UNCHANGED <<counter, out, ackstate, asleep, pcClient, clientVars>>
SinkTell ==
  /\ pcSink = "tell"
  /\ asleep' = {}
  /\ pcSink' = "ack"
  /\ UNCHANGED <<counter, out, ackstate, pcClient, clientVars>>

\* No acknowledgement yet: the sink sleeps on ack.
SinkSleep ==
  /\ pcSink = "ack" /\ ackstate = 0 /\ MutexFree
  /\ pcSink' = "asleep"
  /\ UNCHANGED <<counter, out, ackstate, asleep, pcClient, clientVars>>

\* The acknowledgement is taken back and the buffer is popped.
SinkGoesOnKeep ==  \* mutant: the flag is not taken back
  /\ pcSink = "ack" /\ ackstate = 1 /\ MutexFree
  /\ pcSink' = "peer"
  /\ UNCHANGED <<counter, out, ackstate, asleep, pcClient, clientVars>>
SinkGoesOn ==
  /\ pcSink = "ack" /\ ackstate = 1 /\ MutexFree
  /\ ackstate' = 0
  /\ pcSink' = "peer"
  /\ UNCHANGED <<counter, out, asleep, pcClient, clientVars>>

Sink == SinkTake \/ SinkEnd \/ SinkPublish \/ SinkTell \/ SinkSleep \/ SinkGoesOn

-----------------------------------------------------------------------------
(* unixserver_run and sink_unxiclient                                      *)

\* A connection is put in the list, where it stays, and its thread starts.
AcceptClient(c) ==
  /\ pcClient[c] = "off"
  /\ infos' = Append(infos, c)
  /\ pcClient' = [pcClient EXCEPT ![c] = "test"]
  /\ UNCHANGED <<sinkVars, ackstate, asleep, nbclients, copy, seen, got>>

\* One client too many: the thread ends, its socket stays open.
ClientRefused(c) ==
  /\ pcClient[c] = "test" /\ nbclients = MaxClients
  /\ pcClient' = [pcClient EXCEPT ![c] = "gone"]
  /\ UNCHANGED <<sinkVars, ackstate, asleep, clientVars>>

\* The test and the increment are apart: more than MaxClients may come in.
ClientEnters(c) ==
  /\ pcClient[c] = "test" /\ nbclients # MaxClients
  /\ pcClient' = [pcClient EXCEPT ![c] = "enter"]
  /\ UNCHANGED <<sinkVars, ackstate, asleep, clientVars>>

\* nbclients++ and nbclients-- are a load and a store, and others come between.
Load(c, from, to) ==
  /\ pcClient[c] = from
  /\ copy' = [copy EXCEPT ![c] = nbclients]
  /\ pcClient' = [pcClient EXCEPT ![c] = to]
  /\ UNCHANGED <<sinkVars, ackstate, asleep, nbclients, infos, seen, got>>

Store(c, from, to, n) ==
  /\ pcClient[c] = from
  /\ nbclients' = copy[c] + n
  /\ pcClient' = [pcClient EXCEPT ![c] = to]
  /\ UNCHANGED <<sinkVars, ackstate, asleep, infos, copy, seen, got>>

ClientCounts(c) == Load(c, "enter", "count")
ClientCounted(c) == Store(c, "count", "start", 1)

\* The buffers to come are those after the one that is being published.
ClientStart(c) ==
  /\ pcClient[c] = "start"
  /\ seen' = [seen EXCEPT ![c] = counter]
  /\ pcClient' = [pcClient EXCEPT ![c] = "loop"]
  /\ UNCHANGED <<sinkVars, ackstate, asleep, nbclients, infos, copy, got>>

ClientSleep(c) ==
  /\ pcClient[c] = "loop" /\ c \notin asleep /\ MutexFree
  /\ counter <= seen[c]
  /\ asleep' = asleep \cup {c}
  /\ UNCHANGED <<sinkVars, ackstate, pcClient, clientVars>>

\* There is a newer buffer: the client goes on with the mutex in its hand.
ClientSends(c) ==
  /\ pcClient[c] = "loop" /\ c \notin asleep /\ MutexFree
  /\ counter > seen[c]
  /\ pcClient' = [pcClient EXCEPT ![c] = "sending"]
  /\ UNCHANGED <<sinkVars, ackstate, asleep, clientVars>>

SentAll(c) == [got EXCEPT ![c] = Append(@, out)]  \* mutant: a buffer of no bytes is sent
Sent(c) == IF out > 0 THEN [got EXCEPT ![c] = Append(@, out)] ELSE got

\* What is published is sent, or the send fails: the socket is closed or full.
\* Both acknowledge, and the counter is read again: the sink may have moved it.
ClientSendLate(c) ==  \* mutant: seen keeps one buffer behind
  /\ pcClient[c] = "sending"
  /\ got' = Sent(c) /\ pcClient' = [pcClient EXCEPT ![c] = "acked"]
  /\ seen' = [seen EXCEPT ![c] = counter - 1]
  /\ ackstate' = 1
  /\ UNCHANGED <<sinkVars, asleep, nbclients, infos, copy>>
ClientSend(c) ==
  /\ pcClient[c] = "sending"
  /\ \/ got' = Sent(c) /\ pcClient' = [pcClient EXCEPT ![c] = "acked"]
     \/ out > 0 /\ got' = got /\ pcClient' = [pcClient EXCEPT ![c] = "failed"]
  /\ seen' = [seen EXCEPT ![c] = counter]
  /\ ackstate' = 1
  /\ UNCHANGED <<sinkVars, asleep, nbclients, infos, copy>>

\* pthread_cond_broadcast on ack, outside of the mutex
ClientAck(c) ==
  /\ pcClient[c] \in {"acked", "failed"}
  /\ pcSink' = IF pcSink = "asleep" THEN "ack" ELSE pcSink
  /\ pcClient' = [pcClient EXCEPT ![c] = IF @ = "acked" THEN "loop" ELSE "leave"]
  /\ UNCHANGED <<counter, out, ackstate, asleep, clientVars>>

ClientLeaves(c) == Load(c, "leave", "uncount")
ClientUncounted(c) == Store(c, "uncount", "gone", -1)

Client(c) ==
  \/ ClientRefused(c) \/ ClientEnters(c) \/ ClientCounts(c) \/ ClientCounted(c)
  \/ ClientStart(c) \/ ClientSleep(c) \/ ClientSends(c) \/ ClientSend(c) \/ ClientAck(c)
  \/ ClientLeaves(c) \/ ClientUncounted(c)

-----------------------------------------------------------------------------
UnixNext ==
  \/ SinkTake \/ SinkEnd \/ SinkPublish \/ SinkTell \/ SinkSleep \/ SinkGoesOn
  \/ \E c \in Clients :
       \/ AcceptClient(c) \/ ClientRefused(c) \/ ClientEnters(c) \/ ClientCounts(c)
       \/ ClientCounted(c) \/ ClientStart(c) \/ ClientSleep(c) \/ ClientSends(c)
       \/ ClientSend(c) \/ ClientAck(c)
       \/ ClientLeaves(c) \/ ClientUncounted(c)

\* The threads run; the encoder need not give anything, nobody need connect.
UnixSpec ==
  /\ UnixInit /\ [][UnixNext]_unixVars
  /\ WF_unixVars(SinkPublish \/ SinkTell \/ SinkSleep \/ SinkGoesOn)
  /\ \A c \in Clients : WF_unixVars(Client(c))

-----------------------------------------------------------------------------
(* Properties                                                              *)

InLoop == {c \in Clients : pcClient[c] \in {"loop", "sending", "acked"}}

\* The variables have their types.
UnixTypeOK ==
  /\ counter \in 0 .. Buffers /\ out \in 0 .. Buffers
  /\ ackstate \in {0, 1} /\ nbclients \in Int
  /\ pcSink \in {"peer", "publish", "tell", "ack", "asleep", "end"}
  /\ asleep \subseteq Clients
  /\ infos \in Seq(Clients)
  /\ pcClient \in [Clients -> {"off", "test", "enter", "count", "start", "loop", "sending",
                         "acked", "failed", "leave", "uncount", "gone"}]
  /\ copy \in [Clients -> Int]
  /\ seen \in [Clients -> 0 .. Buffers]
  /\ got \in [Clients -> Seq(1 .. Buffers)]

\* The counter runs ahead of the buffer that is published: a client may then
\* send the old buffer for the new one.  It never goes back for that, and
\* sends no buffer three times.
NeverBack ==
  \A c \in Clients : \A i \in 1 .. Len(got[c]) - 1 :
    /\ got[c][i] <= got[c][i + 1]
    /\ i > 1 => got[c][i - 1] < got[c][i + 1]

\* An acknowledgement may come before the buffer it lets the sink pop; but
\* the only client there ever was never misses two buffers in a row.
NeverTwoMissed ==
  \A c \in Clients : infos = <<c>> =>
    \A i \in 1 .. Len(got[c]) - 1 : got[c][i + 1] <= got[c][i] + 2

\* A sink that waits for an acknowledgement gets it if a client that was in
\* its loop before the buffer was taken is there.
Acknowledged ==
  \A c \in Clients :
    (pcSink \in {"ack", "asleep"} /\ c \in InLoop /\ seen[c] < counter) ~> (pcSink = "peer")
=============================================================================
