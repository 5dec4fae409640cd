------------------------------ MODULE CmdsJson ------------------------------
(***************************************************************************)
(* The server of the JSON-RPC commands (src/src/cmds_json.c).  A thread    *)
(* accepts the connections, a thread per connection reads the requests and *)
(* puts them in a queue, and one thread answers them all and tells all the *)
(* clients when the player changes.  The latter releases the mutex while   *)
(* it sends, with pointers to the clients in its hands.                    *)
(*                                                                         *)
(* A connection is apart from the memory of its clientsocket_t, which is   *)
(* freed and allocated again.  What the code reads in freed memory is what *)
(* an allocator leaves there: the socket is overwritten, so that a send    *)
(* fails, the pointer to the next client is not.  The other side may close *)
(* a connection at any moment: every send and every recv may fail.         *)
(*                                                                         *)
(* Left out: the methods, which read and ask the player and the media, the *)
(* parts of a notification (onchangemask), and the end of the server,      *)
(* which never comes: its thread is in accept.                             *)
(***************************************************************************)
EXTENDS Integers, Sequences, FiniteSets

CONSTANTS
  Conns,     \* the connections, each with its thread
  Structs,   \* the memory of the clients
  Null,      \* the null pointer
  Asked,     \* how many requests are made (a bound of the model)
  Changes    \* how many times the player changes (a bound of the model)

ASSUME CmdsJsonAssumption ==
  /\ IsFiniteSet(Structs) /\ Null \notin Structs
  /\ Asked \in Nat /\ Changes \in Nat

VARIABLES
  clients,     \* the first client of the list
  next,        \* the next one of each
  alive,       \* the memory that is allocated
  sock,        \* the connection of each client
  requests,    \* the queue
  eventsmask,  \* the clients must be told
  pcS,         \* where the thread that sends is
  request,     \* the request it is answering
  client,      \* the client it is telling,
  after,       \*   and the one after it
  pcR,         \* where the thread that accepts is
  pc,          \* where the thread of each connection is
  mine,        \* its client
  read,        \* the request it has read
  asked,       \* how many requests were made, which numbers them
  last,        \* the last one of each connection that was answered
  mixed,       \* has a client the memory of another, whose thread still runs?
  told,        \* the connections told since the player last changed,
  full,        \*   and those whose socket took nothing, which are not told
  changing,    \* the player is in STATE_CHANGE
  changes      \* how many times the player may still change

list == <<clients, next, alive, sock>>
sending == <<request, client, after>>
world == <<asked, last, mixed, told, full, changing, changes>>
vars == <<list, requests, eventsmask, pcS, sending, pcR, pc, mine, read, world>>

Entry(a, t, k) == [client |-> a, conn |-> t, k |-> k]
NoRequest == Entry(Null, Null, 0)

Init ==
  /\ clients = Null /\ alive = {}
  /\ next = [a \in Structs |-> Null] /\ sock = [a \in Structs |-> Null]
  /\ requests = <<>> /\ eventsmask = FALSE
  /\ pcS = "loop" /\ request = NoRequest /\ client = Null /\ after = Null
  /\ pcR = "accept"
  /\ pc = [t \in Conns |-> "off"] /\ mine = [t \in Conns |-> Null]
  /\ read = [t \in Conns |-> NoRequest]
  /\ asked = 0 /\ last = [t \in Conns |-> 0]
  /\ mixed = FALSE
  /\ told = {} /\ full = {} /\ changing = FALSE /\ changes = Changes

-----------------------------------------------------------------------------
(* The list of the clients                                                 *)

\* The clients in the list
Listed ==
  LET reach[n \in 0 .. Cardinality(Structs)] ==
        IF n = 0 THEN {clients}
        ELSE reach[n - 1] \cup {next[a] : a \in reach[n - 1] \ {Null}}
  IN reach[Cardinality(Structs)] \ {Null}

\* _cmds_json_removeclient: a client that is not in the list is left alone,
\* one that is is unlinked, its requests lose it, its socket is closed.
UnlinkInner(a) ==  \* mutant: the first of the list is not looked at
  /\ next' = [b \in Structs |-> IF b \in Listed /\ next[b] = a THEN next[a] ELSE next[b]]
  /\ UNCHANGED clients
Unlink(a) ==
  IF a = clients THEN clients' = next[a] /\ UNCHANGED next
  ELSE /\ next' = [b \in Structs |-> IF b \in Listed /\ next[b] = a THEN next[a] ELSE next[b]]
       /\ UNCHANGED clients

RemoveClient(a) ==
  IF a \notin Listed THEN UNCHANGED <<list, requests>>
  ELSE /\ Unlink(a)
       /\ alive' = alive \ {a} /\ sock' = [sock EXCEPT ![a] = Null]
       /\ requests' = [i \in DOMAIN requests |->
            IF requests[i].client = a THEN [requests[i] EXCEPT !.client = Null] ELSE requests[i]]

-----------------------------------------------------------------------------
(* _cmds_json_pthreadrecv and the events of the player                     *)

\* A connection comes: its client is the first of the list, its thread starts.
Accept(t) ==
  /\ pcR = "accept" /\ pc[t] = "off"
  /\ \E a \in Structs \ alive :
       /\ alive' = alive \cup {a}
       /\ sock' = [sock EXCEPT ![a] = t]
       /\ next' = [next EXCEPT ![a] = clients]
       /\ clients' = a
       /\ mine' = [mine EXCEPT ![t] = a]
       /\ mixed' = (mixed \/ \E u \in Conns : mine[u] = a)
  /\ pc' = [pc EXCEPT ![t] = "poll"]
  /\ pcR' = "change"
  /\ UNCHANGED <<requests, eventsmask, pcS, sending, read, asked, last, told, full,
                 changing, changes>>

\* pthread_cond_broadcast on cond, which only the thread that sends waits on.
\* It follows a change of what that thread tests with the mutex, so that it is
\* part of the action that makes this change.
Wake == pcS' = IF pcS = "asleep" THEN "loop" ELSE pcS

\* jsonrpc_onchange by the thread that accepts, for the new client, with the
\* player's state, and a change in progress tells nobody ...
ChangeForNew ==
  /\ pcR = "change" /\ pcR' = "accept"
  /\ IF changing THEN UNCHANGED <<eventsmask, pcS>> ELSE eventsmask' = TRUE /\ Wake
  /\ UNCHANGED <<list, requests, sending, pc, mine, read, world>>

\* ... and by the player: its next entry is prepared, then it has changed.
PlayerPrepares ==
  /\ changes > 0 /\ changes' = changes - 1
  /\ ~changing /\ changing' = TRUE
  /\ UNCHANGED <<list, requests, eventsmask, pcS, sending, pcR, pc, mine, read,
                 asked, last, mixed, told, full>>

PlayerChanges ==
  /\ changing /\ changing' = FALSE
  /\ eventsmask' = TRUE
  /\ told' = {} /\ full' = {}
  /\ Wake
  /\ UNCHANGED <<list, requests, sending, pcR, pc, mine, read, asked, last,
                 mixed, changes>>

-----------------------------------------------------------------------------
(* _cmds_json_pthreadclient, the thread of a connection                    *)

\* _jsoncmd_request: a request is read from the socket of the client.  Once the
\* client was removed by another thread and its memory is used again, this is
\* another connection.
Recv(t) ==
  LET conn == sock[mine[t]] IN
  /\ pc[t] = "poll" /\ mine[t] \in alive
  /\ asked < Asked /\ asked' = asked + 1
  /\ read' = [read EXCEPT ![t] = Entry(mine[t], conn, asked + 1)]
  /\ pc' = [pc EXCEPT ![t] = "push"]
  /\ UNCHANGED <<list, requests, eventsmask, pcS, sending, pcR, mine, last, mixed,
                 told, full, changing, changes>>

\* put at the end of the queue, and the thread that sends is told.
PushFirst(t) ==  \* mutant: at its start
  /\ pc[t] = "push"
  /\ requests' = <<read[t]>> \o requests
  /\ Wake
  /\ read' = [read EXCEPT ![t] = NoRequest]
  /\ pc' = [pc EXCEPT ![t] = "poll"]
  /\ UNCHANGED <<list, eventsmask, sending, pcR, mine, world>>
PushEmpty(t) ==  \* mutant: the entry is cleared before
  /\ pc[t] = "push"
  /\ requests' = Append(requests, NoRequest)
  /\ Wake
  /\ read' = [read EXCEPT ![t] = NoRequest]
  /\ pc' = [pc EXCEPT ![t] = "poll"]
  /\ UNCHANGED <<list, eventsmask, sending, pcR, mine, world>>
Push(t) ==
  /\ pc[t] = "push"
  /\ requests' = Append(requests, read[t])
  /\ Wake
  /\ read' = [read EXCEPT ![t] = NoRequest]
  /\ pc' = [pc EXCEPT ![t] = "poll"]
  /\ UNCHANGED <<list, eventsmask, sending, pcR, mine, world>>

\* _cmds_recv: nothing can be read any more, the client is removed here ...
RecvFails(t) ==
  /\ pc[t] = "poll"
  /\ RemoveClient(mine[t])
  /\ pc' = [pc EXCEPT ![t] = "leave"]
  /\ UNCHANGED <<eventsmask, pcS, sending, pcR, mine, read, world>>

\* ... or, after a hang-up or a request that is not JSON, only at the end.
Hangup(t) ==
  /\ pc[t] = "poll"
  /\ pc' = [pc EXCEPT ![t] = "leave"]
  /\ UNCHANGED <<list, requests, eventsmask, pcS, sending, pcR, mine, read, world>>

\* The end of the thread removes its client, a second time after RecvFails.
Leave(t) ==
  /\ pc[t] = "leave"
  /\ RemoveClient(mine[t])
  /\ pc' = [pc EXCEPT ![t] = "gone"] /\ mine' = [mine EXCEPT ![t] = Null]
  /\ told' = told \ {t} /\ full' = full \ {t}
  /\ UNCHANGED <<eventsmask, pcS, sending, pcR, read, asked, last, mixed, changing, changes>>

-----------------------------------------------------------------------------
(* _cmds_json_pthreadsend                                                  *)

\* Nothing to do
SendSleep ==
  /\ pcS = "loop" /\ requests = <<>> /\ ~eventsmask
  /\ pcS' = "asleep"
  /\ UNCHANGED <<list, requests, eventsmask, sending, pcR, pc, mine, read, world>>

\* The first request leaves the queue; it is answered if it has its client.
SendTake ==
  /\ pcS = "loop" /\ requests # <<>>
  /\ requests' = Tail(requests)
  /\ IF Head(requests).client = Null THEN UNCHANGED <<pcS, request>>
     ELSE pcS' = "answer" /\ request' = Head(requests)
  /\ UNCHANGED <<list, eventsmask, client, after, pcR, pc, mine, read, world>>

\* _jsonrpc_sendresponse, without the mutex.  The send may also fail when the
\* socket is full.
SendAnswer ==
  /\ pcS = "answer"
  /\ \/ /\ request.client \in alive
        /\ last' = [last EXCEPT ![request.conn] = request.k]
        /\ pcS' = "loop" /\ request' = NoRequest
     \/ pcS' = "failed" /\ UNCHANGED <<last, request>>
  /\ UNCHANGED <<list, requests, eventsmask, client, after, pcR, pc, mine, read,
                 asked, mixed, told, full, changing, changes>>

SendRemove ==
  /\ pcS = "failed"
  /\ RemoveClient(request.client)
  /\ pcS' = "loop" /\ request' = NoRequest
  /\ UNCHANGED <<eventsmask, client, after, pcR, pc, mine, read, world>>

SendEvents ==
  /\ pcS = "loop" /\ requests = <<>> /\ eventsmask
  /\ pcS' = "events"
  /\ UNCHANGED <<list, requests, eventsmask, sending, pcR, pc, mine, read, world>>

\* The walk of the list is at a: the one after it is read, then the mutex is
\* released; at the end of the list, the mask is cleared.
WalkAt(a) ==
  /\ client' = a
  /\ after' = IF a = Null THEN Null ELSE next'[a]
  /\ pcS' = IF a = Null THEN "loop" ELSE "tell"
  /\ eventsmask' = (eventsmask /\ a # Null)

WalkStartSecond ==  \* mutant: the first client is left out
  /\ pcS = "events"
  /\ UNCHANGED <<list, requests>>
  /\ WalkAt(IF clients = Null THEN Null ELSE next[clients])
  /\ UNCHANGED <<request, pcR, pc, mine, read, world>>
WalkStart ==
  /\ pcS = "events"
  /\ UNCHANGED <<list, requests>>
  /\ WalkAt(clients)
  /\ UNCHANGED <<request, pcR, pc, mine, read, world>>

\* jsonrpc_sendevent, without the mutex: the client is told; or its socket is
\* full (EAGAIN), and it is passed over as if it had been told; or the send fails.
Tell ==
  /\ pcS = "tell"
  /\ \/ client \in alive /\ told' = told \cup {sock[client]} /\ pcS' = "told" /\ UNCHANGED full
     \/ client \in alive /\ full' = full \cup {sock[client]} /\ pcS' = "told" /\ UNCHANGED told
     \/ pcS' = "untold" /\ UNCHANGED <<told, full>>
  /\ UNCHANGED <<list, requests, eventsmask, sending, pcR, pc, mine, read,
                 asked, last, mixed, changing, changes>>

\* The client that could not be told is removed, and the walk goes on.
WalkNext ==
  /\ \/ pcS = "told" /\ UNCHANGED <<list, requests>>
     \/ pcS = "untold" /\ RemoveClient(client)
  /\ WalkAt(after)
  /\ UNCHANGED <<request, pcR, pc, mine, read, world>>

SendStep ==
  \/ SendSleep \/ SendTake \/ SendAnswer \/ SendRemove \/ SendEvents
  \/ WalkStart \/ Tell \/ WalkNext

-----------------------------------------------------------------------------
Next ==
  \/ ChangeForNew \/ PlayerPrepares \/ PlayerChanges
  \/ \E t \in Conns :
       \/ Accept(t) \/ Recv(t) \/ Push(t) \/ RecvFails(t)
       \/ Hangup(t) \/ Leave(t)
  \/ SendSleep \/ SendTake \/ SendAnswer \/ SendRemove \/ SendEvents
  \/ WalkStart \/ Tell \/ WalkNext

\* The thread that sends and the one that accepts run; nobody has to connect, to
\* ask or to hang up.
Spec == Init /\ [][Next]_vars /\ WF_vars(SendStep) /\ WF_vars(ChangeForNew)

-----------------------------------------------------------------------------
(* Properties                                                              *)

Pointers == Structs \cup {Null}
Entries == [client : Pointers, conn : Conns, k : 1 .. Asked]

\* The variables have their types.
TypeOK ==
  /\ clients \in Pointers /\ alive \subseteq Structs
  /\ next \in [Structs -> Pointers] /\ sock \in [Structs -> Conns \cup {Null}]
  /\ requests \in Seq(Entries) /\ eventsmask \in BOOLEAN
  /\ pcS \in {"loop", "asleep", "answer", "failed", "events", "tell",
              "told", "untold"}
  /\ request \in Entries \cup {NoRequest}
  /\ client \in Pointers /\ after \in Pointers
  /\ pcR \in {"accept", "change"}
  /\ pc \in [Conns -> {"off", "poll", "push", "leave", "gone"}]
  /\ mine \in [Conns -> Pointers]
  /\ asked \in 0 .. Asked /\ last \in [Conns -> 0 .. Asked]
  /\ read \in [Conns -> Entries \cup {NoRequest}] /\ mixed \in BOOLEAN
  /\ told \subseteq Conns /\ full \subseteq Conns
  /\ changing \in BOOLEAN /\ changes \in 0 .. Changes

\* The list holds the clients that are allocated and no others, although each
\* client is removed twice, by threads that may find its memory used again.
ListIsAlive == Listed = alive

\* The requests of a connection are answered in their order and none twice, as
\* long as two threads do not read from the same client.
AnswersInOrder ==
  [][\A t \in Conns : last'[t] # last[t] => mixed \/ last'[t] > last[t]]_vars

ListedConns == {sock[a] : a \in Listed}
Walking == pcS \in {"tell", "told", "untold"}

\* A change of the player which comes while no earlier one is being sent is told
\* to every client of the list, unless it leaves or its socket is full then
\* (cmds_json.c:1448).
ClientIsTold ==
  \A t \in Conns :
    (eventsmask /\ ~Walking /\ t \in ListedConns)
      ~> (t \in told \cup full \/ t \notin ListedConns)

\* The thread that sends sleeps only while there is nothing for it to do, although
\* one condition variable stands for the requests and the events and it tests
\* both without the mutex as well: no request, and no event, waits for another.
SleepsWhenIdle == pcS = "asleep" => requests = <<>> /\ ~eventsmask
=============================================================================
