# Verification of putv

putv plays media: a *player* takes the entries of a media list one after the
other, opens a *source* for each, decodes it, filters the samples, encodes them
again and sends them to a *sink* (a sound card, a file, clients of a socket, an
RTP stream). Every stage is a thread of its own; two stages are joined by a
*jitter buffer*. This directory holds TLA+ models of that machinery, the
configurations TLC checks them with and the proofs TLAPS checks.

Paths below are relative to the repository, without the leading `src/` that
`PROJECT.json` puts before them.

## 1. Inventory

| Component | State | Operations | Hard part | What makes it correct |
|---|---|---|---|---|
| Scatter-gather buffer `src/jitter_sg.c` | ring of scatters (FREE, PULL, POP, READY), `in`, `out`, `level`, state, `pause` | `pull`/`push` (producer), `peer`/`pop` (consumer), `flush`, `reset`, `pause` (controller) | tests outside of the lock, two condition variables, reset against pop | a bounded FIFO; memory never shared; nobody sleeps for ever |
| Ring buffer `src/jitter_ring.c` | bytes, `in`, `out`, `level`, state | the same | wrap by copying on both sides, pushes and pops of part of a block, callbacks run inside of `push` and `peer`, unlocked RUNNING against a flush | the bytes come out in order; the two threads' blocks are apart; nobody sleeps for ever |
| Table of buffers `src/jitter_common.c` | ten slots, a lock | `jitter_init`, `jitter_destroy` | full table, slots freed without the lock | a slot per live buffer; the lock is released |
| Player `src/player.c` | `state`, `src`, `nextsrc`, `media`, mutex, two conditions | `player_run` (state engine), `player_state`, `player_next`, `player_waiton`, `player_play`, `player_change` | one register written by all the threads, `trylock`, joins inside of the engine | requests are obeyed; one decoder at a time; no freed source is used |
| Media lists `src/media_file.c`, `media_dir.c`, `media_sqlite.c` | list or directory walk, `current`, options | `next`, `play`, `end`, `loop`, `random`, `insert`, `append`, `remove`, `find` | end of list with and without loop; inotify thread | every entry is played, in order, once per turn |
| Sources `src/src_*.c` | thread, `out` buffer, listeners, decoder | `prepare`, `run`, `attach`, `destroy` | order of joins, end of stream | the end of the input reaches the decoder |
| Demultiplexers, multiplexers `src/demux_*.c`, `mux_*.c` | sequence numbers, sessions, reorder table | per packet | duplicates, reordering, 16-bit wrap | each packet is delivered once, in order |
| Decoders, filters, encoders | `in` and `out` buffers, a partly filled output | thread, `destroy` | flush while blocked, static output buffer | all that was decoded goes out before the end |
| Sinks `src/sink_*.c` | `in` buffer, clients | thread, register, unregister | acknowledgement by many clients, lists shared by threads | each client gets each buffer; the sink never blocks for ever |
| Heartbeats `src/heartbeat_*.c` | tick thread, condition | `wait`, `start` | a wait without predicate | a tick per beat |
| Unix server `src/unix_server.c` | list of clients, lock | `run`, `remove`, `kill` | client threads against the end of the server | a node is freed once |
| Commands `src/cmds_*.c` | client threads | JSON-RPC, line, keys, mDNS | what they ask of the player, and when | the answer tells what happened |

How they interact:

* stage to stage: `pull`, fill, `push` by the producer's thread; `peer`, read,
  `pop` by the consumer's. The player calls `flush`, `reset` and `pause` on the
  sink's buffer, a decoder's `destroy` flushes its output and joins its thread;
* everybody to the player: `player_state(request)`, from the commands (a thread
  per client), from the sinks (`PLAY` on the first client, `STOP` on the last,
  `CHANGE` on a bad rate), from a timer, from the inotify thread, and from each
  decoder's thread when its stream ends (`CHANGE`);
* player to media: `next`, then `play(id, _player_play)`, which calls back and
  builds `nextsrc`;
* source to player: events NEW_ES (build the decoder) and DECODE_ES (start it).

`PROJECT.json` lists every component with its status, and under `hazards`
everything in this code that a test would hardly reach.

## 2. The modules

| Module | Models | Lines |
|---|---|---|
| `BoundedFifo` | what a buffer promises: `Put`, `Take` of up to a batch, `Clear` | abstract |
| `JitterSG` | `jitter_sg.c`: every call of the three threads | 100-594 |
| `JitterSGProofs` | theorems of `JitterSG` | |
| `JitterRing` | `jitter_ring.c`: `pull`, `push`, `peer`, `length`, `pop`, `flush`, and how the sources' threads and the decoders call them | 83-392 |
| `MCJitterRing` | the kinds of source, for TLC | |
| `JitterRingProofs` | theorems of `JitterRing` | |
| `Player` | `player.c`: main loop, state engine, `player_state`, `player_next`, `player_waiton`, ends of streams | 58-87, 141-165, 230-271, 335-373, 399-550 |
| `MCPlayer` | the symmetry of `Player`'s sets, for TLC | |
| `PlayerProofs` | theorems of `Player` | |
| `LossyStream` | what a receiver is promised over a network that loses: in order, at most once | abstract |
| `Rtp` | `mux_rtp.c` and `demux_rtp.c` with the network between them | `mux_rtp.c` 91-310; `demux_rtp.c` 141-546; `rtp.h` 11-28 |
| `MCRtp` | the senders and the networks, for TLC | |
| `RtpProofs` | theorems of `Rtp` | |
| `SinkUnix` | `sink_unix.c`'s thread and its clients' threads, with `unixserver_run` | `sink_unix.c` 95-319; `unix_server.c` 165-209 |
| `CmdsJson` | `cmds_json.c`: the list of clients, the queue of requests, the thread that sends | 46-66, 1322-1700 |
| `ServersProofs` | theorems of `SinkUnix` and of `CmdsJson` | |
| `MediaUser` | what `player.c` does with the entries a media gives | `player.c` 78-87, 221-248, 335-385, 404-496 |
| `MediaSqlite` | `media_sqlite.c`: the tables, the playlist, `next`, `filter` | 155-211, 689-2050 |
| `MCMediaSqlite` | the libraries and the calls on them, for TLC | |
| `MediaSqliteProofs` | theorems of `MediaSqlite` | |
| `MediaFile` | `media_file.c`: the list of urls | 105-351 |
| `MediaDir` | `media_dir.c`: the walk of the directories | 161-559 |
| `MediaLists` | the player and its client with a list or a directory, which they exchange | `player.c` 58-174, 230-248, 404-496; `cmds_json.c` 473-945; `media_dir.c` 456-508 |
| `MCMediaLists` | the trees and the calls, for TLC | |
| `MediaListsProofs` | theorems of `MediaLists` | |
| `Pipeline` | a decoder's thread, its filter, the buffer in front of the encoder, the encoder's thread and the main loop that joins the decoder | `decoder_mad.c` 134-403; `filter_pcm.c` 223-428; `encoder_lame.c` 245-316; `encoder_flac.c` 278-337; `player.c` 404-496; calls of `jitter_sg.c` |
| `MCPipeline` | the encoders, for TLC | |
| `PipelineProofs` | theorems of `Pipeline` | |

`MediaLists` composes `MediaUser`, `MediaFile` and `MediaDir`; `MediaSqlite` extends
`MediaUser`. `Rtp` composes the two ends of a stream and the network, `SinkUnix` the
sink with its server and clients, `Pipeline` the stages from the decoder to the
encoder with the main loop. The line
ranges are the files' parts that the definitions come from; `PROJECT.json` has
the lines of each definition.

### JitterSG

The state is that of `jitter_private_t`: `slot` is the `state` of each
scatter, `data` the tag its memory holds, `in`, `out`, `level`, `state`,
`pause` have the code's names. `asleep` is the set of threads in
`pthread_cond_wait`. Each of the three threads has a program counter (`pcP`,
`pcC`, `ctl`); `mine` and `hold` are the scatters whose memory the producer and
the consumer have.

An action is a critical section of `private->mutex`, or a read, write or
broadcast done outside of it. Where the code tests without the lock and acts
with it, these are two actions and another thread may come between:

* `pull`: `PullBlock` (the loop), `PullGrant`, `PullNull`;
* `push`: `PushCheck` or `PushIgnored` (unlocked test), `PushReady` or
  `PushEnd` (locked), `PushTail` (unlocked test of the state, broadcast),
  `PushRun` (unlocked FILLING to RUNNING);
* `peer`: `PeerStart` (locked), `PeerCheck` (unlocked), `PeerBlock` or
  `PeerTake` (locked), `PeerReturn` (after the heartbeat);
* `pop`: `PopBack` (length 0), `PopCheck` (unlocked test), then `PopStray`
  (unlocked) or `PopFree` (locked), `PopSignal`;
* `pause`: `Pause`, `PauseSignal`; `flush`: `Flush`, `FlushSignal`; `reset`:
  `Reset`, `ResetClear`, `FlushSignal`, `ResetRewind`.

Two facts about the callers are in the guards. The producer's thread is outside
of the buffer during a reset, because the engine joins the decoder before it
resets the output (`player.c:413-431`); it may own a scatter, since the filter
keeps a half-filled one. And `ResetWhileHeld` says whether a reset may come
while the consumer, which nobody joins, holds a scatter: in the program it may.

Left out: channels (every caller uses 0), the synchronous `produce` and
`consume` callbacks, the value of the beat (its wait is the delay before
`PeerReturn`), memory ordering below a plain interleaving.

### JitterRing

The buffer in front of a decoder. `mem` is the memory, a tag per byte, with the
block before the ring and the block behind it; `in`, `out`, `level`, `state` are
the code's, positions counted from `bufferstart`, and `Null` is the null pointer
that a push of nothing or a stopped peer leaves. `asleep`, `pcP`, `pcC`, `ctl` are
as in `JitterSG`. `view` is what `length` answered, then what is popped; `put` and
`got` are the tags of the next byte to write and of the last one popped. `copied` is
where the last copy that `peer` made in front of the ring ends, and `Home` the place in
the ring where a byte was written, wherever it is read.

* source's thread (`src_curl.c`, `src_unix.c`): `PullBlock`, `PullGrant` or
  `PullNull`; `Fill`, the write of what was received, from a byte to a block, into the
  granted memory; `Push` (locked, with the copy of what was written behind the end),
  `PushTail` (unlocked test and broadcast), `PushRun` (unlocked FILLING to RUNNING);
  `EndOfStream`; `SourceFails`, the return of `src_curl`'s thread after an error, which
  neither pushes nor flushes;
* with a produce callback (`src_file.c`), `PeerProduce` writes and pushes in the
  decoder's thread until the buffer runs, `PeerFull`, `PeerProduceNull`;
* decoder: `PeerBlock`, `PeerTake`, `PeerNull`, each with the variatic move of
  `peer` (`Move`), which is made once on entry and before the wait; `Length`;
  `PopCheck` (unlocked), `Pop` (locked), `PopSignal`;
* `flush` by the source at its end, by the decoder whose output is broken, by the
  thread that destroys the source: a locked write, then the broadcasts.

`pop` leaves the bytes in the memory; the model forgets them, so that reading
them again would be seen.

Left out: the consume callback, with `pause` and `reset`, which only concern a
ring in front of a sink (`sink_file.c`); `empty`, which nobody calls on a ring.

`RingAssumption` asks that the thredhold be two blocks or more below the count:
the decoders that read from a ring make it of 4 blocks or more and set it to half
of them.

### Player

`state`, `src`, `nextsrc`, `mutex` are the fields of `player_ctx_t`; `sleepers`
holds the main loop when it waits on `cond_int` and the clients that wait on
`cond`. `live` is the set of sources that are built, `pc[s]` where the decoder's
thread of source `s` is ("off" when it has none). `pcM` walks through
`player_run`: `MainLock`, `MainSleep`, `MainWake`, `MainTake` in the wait loop,
`MainRead` and `MainCall` for the two unlocked reads of `ctx->state` that are the
engine's arguments, one `Engine...` action per branch of the engine,
`MainWrite` and `MainTell` for the result. A caller of `player_state` goes
through `AskSame` or `AskNew`, `TryLock` or `TryFail`, `SetState`, `Signal`; a
client may go on to `WaitLock`, `WaitSleep`, `WaitWake`. `DecoderEnd` is the end of
a stream, or of a flushed decoder. `TryFail` is the dropped request: the model
holds the mutex wherever the code does, so that it happens when it can.

Left out: `player_play` and `player_change` from a command's thread, listeners,
volume, a missing media. The media is external: it gives a source, fails to, or
is at its end, at each `play`. `DecoderFlushed`'s flush of the output is a
fairness assumption here and is the subject of `JitterSG`.

### Rtp and LossyStream

A sender is known by its even `ssrc` (random and doubled, `mux_rtp.c:130-131`; the url may
set another, and an odd one is only warned of). `Pack`
puts a block in the packet while `Fits`, `Push` is the rest of `_mux_run`: the
header, the number (`NextNumber`, which skips the largest), the second copy under
`ssrc + 1` when the url asks for `dupsrc`, the command that the player's listener
left in `putvctrl` (`SenderStops`). `net` is the queue of the packets on their way;
`Lose`, `Duplicate` and `Reorder` are the network. `Take` is a packet at the
receiver, then one of the branches of `demux_parseheader`: `DemuxForeign` (not of
the session), `DemuxControl` (a command), `DemuxCopy` (the number of the last one
again), `DemuxData` (with `_demux_getout`, which takes the session: `TakeSession`).
`DecoderBreaks` and `ReceiverStops` give the session up.

`LossyStream` is what a receiver is promised over a network that keeps the order:
what comes was sent, nothing comes twice and nothing comes late.

Left out: the return 0 of `_mux_run` (`mux_rtp.c:271-272`), which needs the end of a
stream in a buffer behind an encoder, and no encoder pushes one; payload, csrc and
extensions, time stamps, heartbeats, the count of missing packets (logged only), several
encoders on one stream, and the table of `DEMUX_RTP_REORDER`, which the default
configuration does not build.

### SinkUnix

`counter`, `ackstate` and `nbclients` are the fields of `sink_ctx_t`; a buffer is the
value the counter has when it is taken. The sink: `SinkTake` (peer, and the counter,
without the mutex), `SinkPublish`, `SinkTell` (broadcast), `SinkSleep` until
acknowledged, `SinkGoesOn` (pop). A client: `ClientEnters` or `ClientRefused`, the test
of `nbclients`; then `ClientCounts` and `ClientCounted`, the `Load` and the `Store` of
`nbclients++`, which no lock protects; `ClientStart` (it asks the player to play),
`ClientSleep`; `ClientSends`, which keeps the mutex (`MutexFree`) until `ClientSend` has
sent the buffer that is published at that moment, which may be the one before the
counter's, and read the counter again; `ClientAck`; `ClientLeaves`, `ClientUncounted`.
`AcceptClient` is the thread of the server with its list (`infos`, its `thread_info_t`).
Its specification is `UnixSpec`, and its type invariant `UnixTypeOK`.

Left out: the player (buffers come or not at any moment), partial sends.

### CmdsJson

The list of `clientsocket_t` (`clients`, `next`), the queue `requests`, the mask
`eventsmask`. Memory is apart from connections: `alive` is what is allocated, and a
structure that was freed may be allocated again for another connection. The thread
that accepts: `Accept`, `ChangeForNew`. A connection's thread: `Recv`, `Push`,
`RecvFails`, `Hangup`, `Leave`. The thread that sends: `SendSleep`, `SendTake`,
`SendAnswer`, `SendRemove`, then the walk of the events, `WalkStart`, `Tell`,
`WalkNext`, in which it has `client` and `after` in its hands without the mutex. A send
that finds the socket full leaves the client in the list, untold (`full`). The
player's listener: `PlayerPrepares`, `PlayerChanges`. What the code reads in freed
memory is what an allocator leaves there.

Left out: what the methods answer, the parts of a notification, the end of the
server, which its thread in `accept` never lets come.

### MediaUser, MediaSqlite

`MediaUser` is the player as its media sees it: a pass of the main loop (`EnginePlay`,
`EngineChange`, `EngineStop`) is a step, since what its threads do meanwhile is the
module `Player`. `src` and `nextsrc` are entries: a number and the url really opened.

`MediaSqlite` has the tables as functions and sequences of rows in the order of
their rowids: `media`, `opuses`, `playlist` with its likes, and of the words only
whether "filter" is one. `MediaNext` is `media_next` with its recursion cut after
the second call (`down` tells that it does not end), `Filter` and `Unfilter` are
`media_filter`, `InsertNew` and `InsertAgain` are `media_insert`, `RemoveEntry` and
`Unlink` the two removals, `Open` the reopening of the program. `Written` is the value
of the likes, uninitialized if the media has none: `Garbage` is what it may hold.
`due` and `given` are history: the likes of each entry when the list was filled, and
how many times it was given since.

Left out: an entry no source can be built for (`player.c:367-371`), which leaves nothing
prepared; artists, genres, covers and speed, which are words as the titles are;
`modify`, which dereferences a null pointer; the searches for an album or an artist,
whose statements SQLite refuses; calls of two threads that overlap.

### MediaFile, MediaDir, MediaLists

`MediaFile` has the operations of the list of urls as functions of its context.
`MediaDir` has those of the directory browser: a walk is the chain of `media_dirlist_t`
(`path`), the number of the next media (`n`), the answer of the last level (`ret`) and
`count`; `Find` is `_find`, a recursive function on walks, from the root or from where
the last walk was left. `Order` is the reference: the media of a tree in their order,
defined on the tree alone, level by level (`FilesBelow`, `FilesAmong`), and `Before`
counts those before the item of a walk. `Attempts` are the calls that `media_next` makes
of itself, three at most, after which a further one finds what the third did
(`Outcomes`), and `Sought` is what `media_find` makes of the count. `MediaLists` is the
player that plays one or the other, with the client that inserts, sets the options and
changes the media, and the inotify thread (`Survey`) that recounts and drops the walk.
`Touch` is the file system, which is external.

Left out: `remove` on a list, the tags of the files (`media_common.c`), calls of two
threads that overlap.

### Pipeline

The way of the samples. A decoder's thread: `Decode` (a frame, for which the library
calls back `output`), `Pull` or `PullNull` and `Fill` in `filter_filloutput`, called
until the frame is written; `DecodeEnd`. `outbuffer` and `outbufferlen` are the static
variables of `filter_filloutput`, which a decoder leaves to the next one. The calls of
the buffer are one step each, with the fields of `JitterSG`. The encoder: `Peer`,
`Length`, `Encode`, `Pop`. A flac encoder on a stream of another rate than its own
("flacRefuses") goes through `Refuse` (it asks for the next entry: `asked`) and
`EarlyPop` before it encodes and pops the buffer all the same (`encoder_flac.c:287-327`):
the second pop frees a scatter it was not given. The main loop: `AskPlay`; `Leave`,
`JoinToChange`, `Change` for a
change; `Halt`, `JoinToStop` (with the reset) for a stop. A sample is its number since
the last reset; `given` counts what the decoders gave, `heard` is what the encoder
was given, `stale` and `torn` are what the reset found. An encoder to which the
reset left the length -1 is "astray": what the library then reads is not defined.

The three decoders differ in when they end, and each may end at any moment; the
encoders differ in that the errors of lame and faac end their thread.

Left out: the input (`JitterRing`), the change of the sample rate within a stream or
from one to the next (the buffer keeps the first one's: the filter only logs another
one, `filter_pcm.c:377-385`; lame and faac adopt it), the arithmetic on a sample, the
positions, the pause, the encoder's output.

## 3. What the runs show

| Run | Bounds | Shows |
|---|---|---|
| `jitter_sg` | 3 scatters, thredhold 1, 4 tags, level in 0..7; resets at any moment, inside of a pop too | `TypeOK`; `NoSharedBuffer`, `LevelExact`, `ImplementsFifo` (each step is a step of `BoundedFifo` or none) outside a torn reset: from a reset that tore a pop to the next one that finds the consumer outside nothing is promised, and that one mends all |
| `jitter_sg_live` | 3 scatters, thredhold 2, flush | `EveryBufferIsConsumed`, `PullReturns` |
| `jitter_ring` | 4 blocks of 2 bytes, thredhold 2, 16 tags; any length from a thread or a callback; everybody may flush | `TypeOK`, `BlocksAreApart`, `ReadsTheStream`, `ImplementsFifo` (a queue of bytes, by their places), `PullReturns`, `PeerReturns` |
| `player` | 2 clients with any one request each, 3 sources | `TypeOK`, `OneProducer`, `RestIsConsistent`, `MainRests` |
| `player_next` | 2 clients, PLAY and NEXT | `ChangeIsObeyed` is violated: finding 1 |
| `rtp` | 2 senders, 2 or 4 blocks each of 1 or 2 units in packets of 4, numbers of 2 bits, 4 packets on their way; seven setups | `TypeOK`, `SingleSession`, `OneCopySuffices`, `ImplementsStream` (each step is a step of `LossyStream` or none) |
| `sink_unix` | 2 connections where 1 is allowed, 4 buffers | `UnixTypeOK`, `NeverBack`, `NeverTwoMissed`, `Acknowledged` |
| `cmds_json` | 2 connections, 2 structures, 2 requests, 1 change | `TypeOK`, `ListIsAlive`, `AnswersInOrder`, `ClientIsTold` |
| `media_sqlite` | 4 libraries of 1 to 3 urls, 1 to 3 calls of a client | `TypeOK`, `GivenAsLiked`, `NextReturns`, `EveryMediaComesBack` |
| `media_lists` | 3 urls, six trees with one subdirectory, 3 calls | `TypeOK`, `WalksAgree`, `NextReturns`, `PlaysInOrder`, `EveryEntryComesBack` |
| `pipeline` | 3 scatters of 2 samples, thredhold 1, frames of 1 or 3, 3 entries of 5 samples, 2 calls; lame, flac or faac, flac on a stream of another rate | `TypeOK`, `OnlyTheHeadIsLost`, `JoinReturns` |
| `pipeline_last` | the same, entries of 6 samples, lame | `LastBufferIsPushed` is violated: finding 2 |

Why the bounds are enough. Three scatters with thredhold 1 or 2 are the least
ring in which one scatter is pulled, one popped and one between them, in which
the level passes the thredhold before the ring is full, and in which `in` and
`out` wrap apart from each other. One tag more than scatters makes any two
buffers in the ring differ. The level's span only has to exceed the ring, so
that a wrapped level is none of its values. In the byte ring, four blocks with
a thredhold of two are the decoders' smallest, and a block of two bytes is the least of
which a part can be pushed and popped, so that both ends cross the end of the ring at
every offset; twice as many tags as bytes in the ring make a byte differ from the one
it overwrote. The safety properties of the ring are theorems for blocks of any size.
Three sources are the playing one,
the prepared one and the one that replaces it. Two requests at once, with the
decoders' own, are more than the main loop's window (one write, one test) can
tell apart.

In `rtp` four packets make the numbers of two bits wrap (the largest is skipped), a
packet has the room for one block or for two, and two losses are both copies of a packet
or the first of two. Two connections in `sink_unix` are one that is in and one that is
refused, or that comes while the other leaves; four buffers are two in a row that are
missed, and one on each side. In `cmds_json` two structures are the client in the hand
of the thread that sends and the one after it, and both connections may be removed,
twice, and one of them given the other's memory. The libraries of `media_sqlite` are one
that is played in order with filters, one at random whose data base may be found
read-only, one where two urls share an opus and the likes are not initialized, and one
whose filter is left before and after a restart. The trees of `media_lists` have their
subdirectory in the middle, at the end, empty, linked to its parent (with a maximum of
one level it is entered once and refused once), or none at all, and files that are no
media at each place. `PlaysInOrder` is about the setups with a directory that stays as
it is (`Quiet`): each of the six trees, with the options (random never set), the media
given again and the option loop at any moment if the last file is a media, with the
option loop alone if it is none. In `pipeline` a frame is shorter than a buffer or spans
two, an entry fills the ring and one sample more waits, and the two calls are a stop and
a change, or two of one kind.

Fairness. The producer and the consumer are threads that loop: weak fairness of each. A
sink may give a buffer back (`pop(0)`) while its device takes nothing, not for ever:
strong fairness of `PopCheck`. A controller that has begun a call ends it. In
`JitterRing` the source's thread and the decoder's loop as well: weak fairness of each,
none of abandoning or of destroying, and of the broadcasts of a flush once it is set. No
controller has to call anything. In `Player` the main loop and the callers run, a mutex
that is free again and again is taken at last (strong fairness of `MainLock` and
`MainWake`), and a decoder whose output has been flushed ends; no stream has to end by
itself, no client has to ask. `MainRests` therefore excludes only that streams end again
and again for ever, as a looped list of unplayable files does.

The other modules state no more than that their threads run. `SinkUnix`: the sink,
once it has taken a buffer, and each client's thread; the encoder need not give
anything, nobody need connect. `CmdsJson`: the thread that sends and the end of an
accepted connection's turn; nobody need ask. `MediaSqlite` and `MediaLists`: the main
loop, and every stream ends; what comes back is claimed for a player that is not
stopped any more and a library that is left alone (`EveryMediaComesBack` and
`EveryEntryComesBack` have this on their left). `Pipeline`: the decoder's thread, the
encoder's, whose sink takes what it gives, and the return of a join; entries have an
end, so that a join lasts as long as an entry at most. `Rtp` states none: all of
its properties are about what arrives.

Deadlock is checked in the runs of `JitterSG`. Elsewhere the system may be at rest: a
ring whose source and decoder have ended, a player or a server whose clients have
asked all they will, a sink without encoder, a network that is empty. These runs do
not check it.

### Findings

1. The main loop recognises a request by comparing with its own last state
   (`player.c:508`). A CHANGE that comes between its write of PLAY (544) and the next
   comparison looks like the CHANGE just done: it is never obeyed, and later ones are
   no-ops, while `player.c:157-158` says that next "just request the main loop to
   complete the current entry to jump to the next one" (`ChangeIsObeyed`).
2. "push the last buffer to the encoder, otherwise the next decoder will begins with a
   pull buffer" (`decoder_mad.c:322-325`, `decoder_flac.c:222-225`,
   `decoder_faad2.c:303-306`). The three test an `outbufferlen` of their own, which is
   always 0 since the filter keeps the buffer: the last samples of an entry go out with
   the next one, or are lost with the first of it after a stop (`LastBufferIsPushed`;
   `OnlyTheHeadIsLost` says how much is lost).

### What else the models show

Behaviours that the models have because the code has them, and that the properties
therefore except in their statements. Of the first three a comment of the repository
says the contrary, of the others no text does.

* `jitter_reset` "may be called by any thread to empty the stream and leave the producer
  and the consumer to start from the beginning" (`jitter_sg.c:535-538`). It does not
  look whether the consumer is between its peer and its pop: the scatter that this one
  reads is then given to the producer. `pop` tests before it locks (468), and the same
  reset leaves `out` one scatter ahead of `in`, and `level` at 2^32-1; the encoder that
  was given a buffer before is told it has the length -1 (531). `torn` marks this time.
* "The variatic configuration allows to push and to pop a quantity of data different of
  the configurated block size" (`jitter_ring.c:299-301`). `peer` copies what is left
  before the end to the front and waits only then: what a source's thread pushes at the
  end of the ring during the wait, less than a block (`src_unix.c:178`,
  `src_curl.c:115`), is not copied, and the decoder reads what the front held.
  `ReadsTheStream` excepts these bytes (`copied`) and no others.
* `cmds_json.c:1692-1694` is to 'create "unchange" event to send to the new client'. A
  client that connects during the walk of the events is not in it, and the walk clears
  the mask at its end (1568): it is not told. Nor are, of a change that comes during the
  walk, the clients already walked. `ClientIsTold` is about changes outside of a walk
  and the clients that are in the list then.
* The end of a flush compares `level > thredhold` (`jitter_sg.c:581`), push `level ==
  thredhold` (340): a flush that ends exactly there leaves the buffer FILLING, and both
  threads asleep until the next flush.
* The last pop overwrites a flush (`jitter_sg.c:499`), and so does the unlocked step to
  RUNNING of the ring (`jitter_ring.c:244`): the decoder, or the source, that was to be
  sent away goes on. `JoinReturns` holds because entries end; a source on a ring whose
  decoder has left sleeps in `pull`, and is joined for ever.
* The same step to RUNNING overwrites the flush of `destroy`, and a transfer of
  `src_curl` that fails ends its thread without a push or a flush
  (`src_curl.c:171-175`): the decoder sleeps in `peer` until somebody flushes, for ever
  if nobody does (`PeerReturns` has this as its exception).
* A flac encoder that refuses the rate of its stream pops each buffer twice
  (`encoder_flac.c:304`, 327): it frees a scatter that it was not given, the level
  counts down twice, and samples are lost or come out of order. The joins return even
  so.
* A second PLAY in the window of finding 1 leaves a source prepared and never played;
  requests are dropped by the trylock, a stop is overwritten by the engine's result, a
  pause reaches the state but not the output, a waiter is not woken by PLAY to STOP, a
  prepared source is lost when the next one cannot be built.
* An undecodable payload takes the RTP session all the same; after the numbers went back
  to 0 a second copy is taken for a copy of what came before.
* After a stop the receiver keeps the second ssrc of its session (`demux_rtp.c:383`):
  the second copies of another sender that is heard then are no copies to it, and its
  packets come twice. No setup has two senders, second copies and stops.
* `nbclients` of the unix sink loses updates (`sink_unix.c:182`), and more clients than
  `MAX_CLIENTS` may come in between its test and its increment (180).
* A client whose socket is full is kept and never told (`cmds_json.c:1448-1449`).
* Once a client has the memory of another whose thread still runs, two threads read one
  connection (`cmds_json.c:1584`): `AnswersInOrder` is claimed until then.
* Options, or a media, that are given while an entry is prepared ask the directory for
  the next one once more, and the walk runs ahead. If it then ends on a file that is no
  media, `media_next` answers -1 (`media_dir.c:397-405`) and the player stops before the
  last media; that is why `Quiet` has its last conjunct. A directory whose last item is
  no media makes `media_next` call itself for ever with the option loop, as does an
  empty or read-only data base (`media_sqlite.c:1298`).
* A second filter empties the default list (`media_sqlite.c:1404`, 1759); filling the
  list again brings back removed entries; the playlist holds the media's number after an
  insert and the opus's after a filter.
* A filter that is left right after a restart, with the word of an earlier one still in
  the data base, empties the default list, and leaves the player with the list 0, of no
  name (`media_sqlite.c:1746-1756`).

## 4. What is proved

The proofs hold for every value of the constants that satisfies the assumptions of the
modules:

* `JitterAssumption`: at least one scatter, the thredhold below the count, as every
  caller sets it, more tags and more values of the level than scatters;
* `RingAssumption`: a block of at least one byte, the thredhold at least 1 and two
  blocks below the count, more tags than bytes;
* `PlayerAssumption`: the threads, the sources and the null pointer are different
  things;
* `RtpAssumption`: the senders' ssrc are even and positive, the numbers have at least
  three values;
* `SinkUnixAssumption`: room for one client at least;
* `CmdsJsonAssumption`: finitely many structures, none of them the null pointer;
* `PipelineAssumption`: the thredhold at least 1 and below the count, buffers and frames
  of one sample at least;
* `MediaSqliteAssumption`: finitely many urls, the likes of each a number, titles for
  all of them, options that are pairs of Booleans;
* `MediaDirAssumption`: the names of media, of other files and of directories are
  different things; `MediaListsAssumption`: the setups are of their types.

Three theorems have a hypothesis more, which the code does not always meet; each is
stated with its theorem below, with the behaviour that it excludes.

Inductions over a length (of a list of clients, of the runs in a scatter, of a set of
rows, of a path) are made with two lemmas, `Least` and `Induct`, which follow from the
well-foundedness of the naturals. Every invariant and action property of the runs is
proved; what is left to TLC is at the end of this section.

### JitterSGProofs

From the inductive invariant `IInv`:

* `TypeCorrect`: `Spec => []TypeOK`;
* `LevelCorrect`: `Spec => []LevelExact`;
* `NoSharing`: `Spec => []NoSharedBuffer`;
* `QueueRefinement`: `Spec => ImplementsFifo`, which excepts the steps of a torn buffer;
* `QueueRefinementQuiet`: `Spec => Fifo!FifoSpec`, without the exception, for callers that
  reset a buffer only while its consumer is outside of it (`ResetWhileHeld = FALSE`).

None of the first three is inductive. That `PullGrant` does not give the consumer's
scatter away needs that the consumer's scatter is under `out` and in POP
(`ConsumerOwns`), likewise for the producer (`ProducerOwns`), and this must
survive a reset, which frees everything: `Joined`, `Cleared` and `Stopped` say
where the threads can be while it runs. `Pointers` ties the memory in hand to the
program counters. All but the types and pointers hold only while no reset has
torn a pop (`~torn`), and `StepMended` proves they hold again after the next
reset that has not. `LevelExact` needs the cardinality of the filled scatters to
follow each step (`FilledFinite`, `StepLevel`).

The refinement needs that the scatters with data are the `level` ones that follow `out`,
and that `in` is the one after them (`Contiguous`), and that what the producer is about to
push is in its scatter (`Handed`). It holds as far as the code makes it hold: a pop
that a reset has torn frees a scatter that is not the first. The reset that mends the
buffer is a `Clear` of the queue, whatever was left of it (`MendClears`).

### JitterRingProofs

From `IInv == TypeOK /\ Positions /\ Granted /\ Peered`, for pushes and pops of any length
up to a block:

* `TypeCorrect`: `Spec => []TypeOK`, both ends inside the allocated memory;
* `BlocksApart`: `Spec => []BlocksAreApart`.

`Positions` is the heart: `out + level` is `in`, up to a whole number of turns
between -1 and 2, because `in` comes back by a turn in `push` and `out` in `peer`,
each at its own time. `Granted` keeps `pull`'s test true until the push, `Peered`
keeps a block of memory after `out` and what is popped within the level until the
pop. With these, the producer's block covers none of the bytes in view: the two
could only meet if the level exceeded the ring. `CapFacts` holds the only products
of the proof; the steps are linear in `Cap`.

From `StreamInv == Primed /\ Whole /\ Bytes` as well, for any lengths pushed and popped, by
threads and by callbacks:

* `StreamIsRead`: `Spec => []ReadsTheStream`;
* `QueueRefinement`: `Spec => ImplementsFifo`, a queue of bytes by their places.

`Bytes` is the content of every byte of the level, found by going around the ring from
`out` to where it was written (`Unread`), and that in front of the ring, up to where the
last copy of `peer` ends, stands the same (`CopiedIn`). `Primed` says that a callback is
asked until there is a block, and hence `Whole` that nothing is pushed behind the copy
then. What a thread pushes behind it is excepted in `ReadsTheStream`, byte for byte;
without the exception it is false (section 3).

### PlayerProofs

From `IInv == TypeOK /\ OneProducer /\ Left`:

* `TypeCorrect`: `Spec => []TypeOK`;
* `SingleProducer`: `Spec => []OneProducer`;
* `RestConsistency`: `Spec => []RestIsConsistent`, with `RestInv`.

`Left` (no source plays between the two steps of CHANGE) is what makes
`OneProducer` inductive: the new decoder starts only when no other is alive. `RestInv`
follows what the engine answered to where the main loop rests (`Answered`): whatever
the clients write over the state meanwhile, it does not rest on another answer.

### RtpProofs

From `IInv == TypeOK /\ net \in Seq(Sent) /\ (setup.stops = 0 => NoStop /\ Session)`, for
any senders, networks and width of the numbers:

* `TypeCorrect`: `Spec => []TypeOK`;
* `OneSession`: `Spec => []SingleSession`.

`SingleSession` is not inductive: that a packet of another sender is never decoded
needs that each packet on its way has one of the two ssrc of its sender (`Sent`,
kept by a network that loses, duplicates and reorders), that these two have one even
part (`EvenPart`) and no two senders share one (`OwnSsrc`), and that the session is
that of whatever was decoded (`Session`).

For setups in which nobody stops, or no packet has a second copy, or one sender alone
talks (`Settled`):

* `TwiceIsSafer`: `Spec => []OneCopySuffices`;
* `StreamRefinement`: `Spec => ImplementsStream`, to `LossyStream`.

Over a network that only loses, what is on its way is in the order of its sender
(`Lined`), and comes after what was received or is a copy that will be known for one
(`Ahead`). The packets that follow one on its way, and those that follow the last one
received, are on their way too or lost (`Behind`, `Awaited`), and when a packet comes
before them only the losses are left. Without the hypothesis the refinement is false: the
receiver keeps the second ssrc of a session that was stopped (section 3).

### ServersProofs

The two servers have nothing in common but the module. `SinkUnix`, from `SinkInv ==
UnixTypeOK /\ Ahead /\ Newer /\ \A c : Behind(c) /\ Ordered(got[c])`, for any number of
clients and buffers:

* `SinkTypeCorrect`: `UnixSpec => []UnixTypeOK`;
* `NeverGoesBack`: `UnixSpec => []NeverBack`;
* `MissesOneAtMost`: `UnixSpec => []NeverTwoMissed`, with `AloneInv`.

`Ahead` ties the counter, which is moved without the mutex, to the published buffer: one
ahead at most. `Behind` ties the last two buffers that a client sent to the count it has
seen, and `Newer` says that a client that has the mutex saw a newer count; with both,
the next one is not behind the last and is ahead of the one before (`AppendOrdered`).
`AloneInv` says of the only client there ever was how far the counter may be ahead of
the last buffer it sent: by `Slack`, which counts where the sink is and the
acknowledgement that waits for it.

`CmdsJson`, for any number of connections, structures, requests and changes:

* `CmdsTypeCorrect`: `Spec => []TypeOK`;
* `ListIsWhole`: `Spec => []ListIsAlive`;
* `WakesForWork`: `Spec => []SleepsWhenIdle`, which no run checks: that a request is not
  left in the queue by a lost wake-up;
* `AnsweredInOrder`: `Spec => AnswersInOrder`, an action property.

`TypeInv` adds to the types that whoever is read from or answered has a connection.
`ListIsAlive` is what a walk from the head reaches; its invariant is a sequence behind
the list (`Chain`), of which each insertion and each removal gives another. The
order of the answers is that of the numbers of the requests along their way (`Line`):
those answered, the one in the hands of the thread that sends, the queue, the one that
was read. It holds as long as no client has the memory of another whose thread still
runs (`mixed`), which is in the property.

### PipelineProofs

From `IInv == Plain /\ (Refuses \/ (TypeInv /\ (~torn => Content)))`, for any scatters,
frames and entries, and for stops and changes at any moment:

* `TypeCorrectness`: `Spec => []TypeOK`;
* `OnlyTheHead`: `Spec => []OnlyTheHeadIsLost`.

The types alone are not trivial: a pop that a reset has torn frees a scatter that was
pushed since, and the level counts it still. `RingInv` says what can come of it: the
buffer is in order (`Queue`), or has one hole that walks to `out` (`Hole`), or the hole
was filled and the level is one above the count (`Overfull`), and no more. For a flac
that refuses, of whose level nothing is known, only `Plain` is kept: the types, and what
the decoder and the encoder hold. `Content` holds until a reset tears a pop, for the
other encoders. `SampleInv` has the place of every sample in the encoder's hands, in the
scatters and in the filter; `LostInv` bounds what the filter writes into the scatter
that a reset took from it. Scatters hold their samples as runs, which `FlattenSeq` puts
end to end: its equations are inductions over the runs.

### MediaSqliteProofs

From `IInv == Scalars /\ Library /\ UserTypeOK(Entries) /\ List /\ NextReturns`, for any
library, any calls and restarts at any moment:

* `TypeCorrectness`: `Spec => []TypeOK`;
* `GivenWithinLikes`: `Spec => []GivenAsLiked`;
* `NextComesBack`: `Spec => []NextReturns`.

`GivenAsLiked` counts what was given beside the data base; it is inductive with what each
row of the list has left (`OwedIn`): its likes and what was given of its number are not
more than what was due. There may be several rows of one number, with likes of their own,
and a row that is given sets them all. `NextReturns` needs that a fill leaves a row with
likes for each media (`FillFacts`) and that such a row is selected (`EligibleFacts`). That
the numbers are bounded (`Library`) needs that removals alone leave numbers unused.

### MediaListsProofs

For any urls, any tree of any depth with links to any of its directories, any
`MAX_LEVEL` and any calls:

* `TypeCorrect`: `Spec => []TypeOK`;
* `WalksAgreeAlways`: `Spec => []WalksAgree`;
* `NextReturnsAlways`: `Spec => []NextReturns`;
* `PlaysInOrderAlways`: `Spec => PlaysInOrder`, an action property.

`_find` is a recursive function of a walk, and nothing is known of it before it is
shown to come to an end: by induction on the levels that may still be opened and, in a
level, on the items that are left (`WalkInduction`). Then it is what its equation says
(`FindIs`), and what one of its calls passes back to the one before holds of all of them
(`FindInduction`). A path of the walk has a beginning of the order before it
(`BeforeIn`), and a move makes this longer by the item that is left if it is a media, and
by nothing otherwise (`OnwardBefore`); entering and leaving a directory cancel out, to
`MAX_LEVEL`, beyond which neither the walk nor the order goes. So the media of a path
stands in the order at the number of those before it (`HereInOrder`): this is
`FindFresh`, what a walk finds from any path, and `FindThrough`, that it does not matter
from which. For these the directories are as they were when the walk opened them
(`IsFresh`); what a walk is worth in a tree that has changed is in no property.

`TypeInv` is `TypeOK` with a list that is not empty and paths that `_find` may leave
(`Placed`): none deeper than two above `MAX_LEVEL`, each directory of it opened by the
one before. `NextReturns` is nearly a fact about one call: `media_next` calls itself
only when the walk ended on a file that is no media, the second walk is from the root,
and such a file is then the last of the whole order (`FindRefuses`, `NoOutcome`). What
comes of it is what an attempt found but for the count, which `media_find` may have
raised (`OutcomesIs`, `Counting`).

`PlaysInOrder` needs to know where the walk was left (`QuietInv`): at a media of this
tree which is not before the last entry that was given, and is that entry as long as no
options and no media were given (`Left`); that the count reaches the end, so that the
number asked for never wraps (`Wrapped`); that `first` is not beyond what was given,
since the walk that meets it again is taken for a whole turn; and that where nothing is
prepared after the source it is the last. Every call then answers the number after that
of the source (`FollowsIs`, `OutcomeFollows`), and nothing is found only at the end
(`AskedIs`).

### Only model-checked

* the receiver of stopped, doubled senders: the properties are not theorems there, as
  said above;
* what must happen at last: `EveryBufferIsConsumed`, `PullReturns`, `PeerReturns`,
  `MainRests`, `Acknowledged`, `ClientIsTold`, `JoinReturns`,
  `EveryMediaComesBack`, `EveryEntryComesBack`. Liveness under fairness and ENABLED are
  beyond the proof system.

## 5. Plan, and what is not modelled

Done: both buffers with `BoundedFifo`, `Player`, `Rtp` with `LossyStream`, `SinkUnix`
with its server, `CmdsJson`, the data base and the lists with the player that plays
them, `Pipeline`. What is left, in the order of what it would add:

1. `Player` with `player_play` and `player_change` called by a command's thread while
   the engine runs, and a missing media; the media's calls of two threads at once;
2. `JitterRing` with its consume callback, pause and reset (`sink_file.c`); the
   synchronous callbacks of `JitterSG`;
3. `JitterTable` (`jitter_common.c`), the wait and tick of the heartbeats;
4. `sink_udp`'s list of addresses.

Not modelled, and why:

* the table of buffers and the heartbeats: small, and planned above;
* the other sinks (`sink_alsa`, `sink_pulse`, `sink_tinyalsa`, `sink_file`): loops around
  a device, which the encoder's side of `JitterSG` stands for;
* reading in the sources (files, sockets, libcurl, `src_alsa`) and their listeners;
  `src_udp`, whose thread reads its socket for ever, so that joining it (`src_udp.c:581`)
  does not return unless the socket fails;
* `demux_dvb` and the passthrough stages, which only hand buffers on;
* parsing and printing of the commands, keys and mDNS, tags of the files;
* `main.c`, `daemonize.c`: start-up, which is `Init`;
* the clients and test programs, and the vendored libraries.

## 6. Running

```
tlc -workers 2 -config JitterSG.cfg JitterSG.tla
tlc -workers 2 -config JitterRing.cfg MCJitterRing.tla
tlc -workers 2 -config Player.cfg MCPlayer.tla
tlc -workers 2 -config Rtp.cfg MCRtp.tla
tlc -workers 2 -config SinkUnix.cfg SinkUnix.tla
tlc -workers 2 -config CmdsJson.cfg CmdsJson.tla
tlc -workers 2 -config MediaSqlite.cfg MCMediaSqlite.tla
tlc -workers 2 -config MediaLists.cfg MCMediaLists.tla
tlc -workers 2 -config Pipeline.cfg MCPipeline.tla
tlapm JitterSGProofs.tla
tlapm JitterRingProofs.tla
tlapm PlayerProofs.tla
tlapm RtpProofs.tla
tlapm ServersProofs.tla
tlapm PipelineProofs.tla
tlapm MediaSqliteProofs.tla
tlapm MediaListsProofs.tla
```

`JitterSGLive.cfg` is for `JitterSG`, `PlayerNext.cfg` for `MCPlayer`, `PipelineLast.cfg`
for `MCPipeline`. Definitions marked "mutant" in the modules are plausible errors in the
code; each is the counterpart of the definition that follows it, and `PROJECT.json` says
which property it breaks.
