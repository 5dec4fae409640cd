---------------------------- MODULE MediaSqlite ----------------------------
(***************************************************************************)
(* The media database (src/src/media_sqlite.c) and the player that plays   *)
(* it.  A table is a function or a sequence of its rows, in the order of   *)
(* their rowids, in which SQLite reads a table that it scans.              *)
(*                                                                         *)
(* A media row has a number of its own and the one of its opus, a title    *)
(* that several rows may share.  The rows of the playlist hold the former  *)
(* when they come from an insert and the latter when they come from a      *)
(* filter.  The likes of a row count how many times it may still be given  *)
(* before the list is filled again.                                        *)
(*                                                                         *)
(* Left out: the artists, genres, covers and the speed, which are words as *)
(* the titles are; modify, which dereferences a null pointer; the searches *)
(* for an album or an artist, whose statements SQLite refuses.  The calls  *)
(* of the commands' thread and of the main loop do not overlap.            *)
(***************************************************************************)
EXTENDS MediaUser, SequencesExt

CONSTANTS
  Urls,     \* what may be inserted
  Titles,
  Setups,   \* what is inserted and which calls are made
  Garbage   \* the likes that an uninitialized variable may hold

Calls == {"insert", "remove", "unlink", "filter", "filters", "unfilter",
          "setnext", "options", "open"}

ASSUME MediaSqliteAssumption ==
  /\ IsFiniteSet(Urls) /\ Garbage \subseteq Int
  /\ \A s \in Setups :
       /\ ToSet(s.order) \subseteq Urls   \* what is inserted, in this order
       /\ s.title \in [Urls -> Titles]    \* of each url
       /\ s.album \subseteq Urls          \* whose information names an album
       /\ s.likes \in [Urls -> Nat]       \* 0: it has no likes
       /\ s.options \subseteq (BOOLEAN \X BOOLEAN)   \* loop and random
       /\ s.may \subseteq Calls /\ s.calls \in Nat  \* bounds on the calls

VARIABLES
  setup, calls,  \* the setup and the calls that are left
  \* the data base
  media,         \* the rows of media, by id
  opuses,        \* the titles of the rows of opus
  playlist,      \* the rows of playlist
  words,         \* is "filter" in the table of the words?
  \* media_ctx_t
  listid, oldlistid, mediaid, loop, random,
  readonly,      \* the data base is not open for writing
  down,          \* media_next calls itself for ever
  \* history
  due, given     \* the likes of the list since it was set, what was given of it

base == <<media, opuses, playlist, words>>
ctx == <<listid, oldlistid, mediaid, loop, random, readonly>>
history == <<due, given>>
vars == <<user, setup, calls, base, ctx, down, history>>

Default == 1    \* the list that listname holds
Filtered == 12  \* the number of the word "filter", after those of the data base

MediaRow(u, o, l) == [url |-> u, opus |-> o, album |-> u \in setup.album, likes |-> l]
Row(i, list, l) == [id |-> i, listid |-> list, likes |-> l]

\* Rows are read in the order of their numbers.
Ascending(S) ==
  [k \in 1 .. Cardinality(S) |-> CHOOSE n \in S : Cardinality({x \in S : x <= n}) = k]

\* The greatest id of a table is not kept: a free one is used again.
Top(S) == IF S = {} THEN 0 ELSE Max(S)

-----------------------------------------------------------------------------
(* The playlist                                                            *)

In(row, list, i) == row.listid = list /\ row.id = i

\* playlist_likes
SetLikes(rows, list, i, l) ==
  [n \in DOMAIN rows |->
    IF In(rows[n], list, i) THEN [rows[n] EXCEPT !.likes = l] ELSE rows[n]]

\* _media_filter: the media of some titles enter a list in their order, with the
\* numbers of their opuses.  _media_setlist gives a row that is there the likes of
\* the media, and appends it otherwise.
Entering(titles) == {m \in DOMAIN media : opuses[media[m].opus] \in titles}
LikesFrom(entering, i) == media[Max({m \in entering : media[m].opus = i})].likes
Newcomers(rows, list, entering) ==
  {m \in entering :
     /\ \A n \in DOMAIN rows : ~In(rows[n], list, media[m].opus)
     /\ \A x \in entering : media[x].opus = media[m].opus => m <= x}
FillOnce(rows, list, titles) ==  \* mutant: the rows that are there are left
  LET new == Ascending(Newcomers(rows, list, Entering(titles))) IN
  rows \o [k \in DOMAIN new |-> Row(media[new[k]].opus, list, LikesFrom(Entering(titles), media[new[k]].opus))]
Fill(rows, list, titles) ==
  LET entering == Entering(titles)
      liked(i) == Row(i, list, LikesFrom(entering, i))
      new == Ascending(Newcomers(rows, list, entering))
  IN [n \in DOMAIN rows |->
        IF \E m \in entering : In(rows[n], list, media[m].opus) THEN liked(rows[n].id) ELSE rows[n]]
     \o [k \in DOMAIN new |-> liked(media[new[k]].opus)]

\* playlist_remove and playlist_destroy
Only(rows, keep) == LET n == Ascending(keep) IN [k \in DOMAIN n |-> rows[n[k]]]
Without(rows, list, i) == Only(rows, {n \in DOMAIN rows : ~In(rows[n], list, i)})
Emptied(rows, list) == Only(rows, {n \in DOMAIN rows : rows[n].listid # list})

\* What a list has to give, and nothing given of it.
Due(rows, list) ==
  LET ids == {row.id : row \in {r \in ToSet(rows) : r.listid = list}}
  IN [i \in ids |-> Max({r.likes : r \in {x \in ToSet(rows) : In(x, list, i)}})]
NoneOf(counts) == [i \in DOMAIN counts |-> 0]

-----------------------------------------------------------------------------
(* The choice of an entry                                                  *)

\* The statements of media_next: any row, or the first after the current one.
EligibleSkip(rows, m, rand) ==  \* mutant: the one after it is left out
  LET fit == {n \in DOMAIN rows :
                /\ rows[n].listid = listid /\ rows[n].likes > 0
                /\ m = -1 \/ rand \/ rows[n].id > m + 1}
  IN IF rand \/ fit = {} THEN fit ELSE {Min(fit)}
Eligible(rows, m, rand) ==
  LET fit == {n \in DOMAIN rows :
                /\ rows[n].listid = listid /\ rows[n].likes > 0
                /\ m = -1 \/ rand \/ rows[n].id > m}
  IN IF rand \/ fit = {} THEN fit ELSE {Min(fit)}

\* media_next takes a row, whose likes decrease.
LikedNever(rows, row) == rows  \* mutant: they do not
Liked(rows, row) ==
  IF readonly THEN rows ELSE SetLikes(rows, listid, row.id, row.likes - 1)

\* The list is filled with all the media, whatever it was.
Refilled == IF readonly THEN playlist ELSE Fill(playlist, listid, Titles)

Give(rows, row) == playlist' = Liked(rows, row) /\ mediaid' = row.id

\* A data base that cannot be written gives the same entries again, uncounted.
Count(counts, i) ==
  [j \in DOMAIN counts |-> IF j = i /\ ~readonly THEN counts[j] + 1 ELSE counts[j]]

\* media_next: the next row ...
NextInList(rand) ==
  \E n \in Eligible(playlist, mediaid, rand) :
    /\ Give(playlist, playlist[n])
    /\ given' = Count(given, playlist[n].id)
    /\ UNCHANGED <<due, down>>

\* ... or, with the option loop, the first one of the list that is filled again,
\* of which there may be none: media_next calls itself for ever ...
NextTurn(rand) ==
  /\ Eligible(playlist, mediaid, rand) = {}
  /\ \E rows \in {Refilled} :
       \/ /\ \E n \in Eligible(rows, -1, rand) :
               /\ Give(rows, rows[n])
               /\ due' = Due(rows, listid)
               /\ given' = Count(NoneOf(due'), rows[n].id)
          /\ UNCHANGED down
       \/ /\ Eligible(rows, -1, rand) = {}
          /\ playlist' = rows /\ mediaid' = -1
          /\ down' = TRUE
          /\ UNCHANGED history

\* ... or, without it, nothing.
NextEnd(rand) ==
  /\ Eligible(playlist, mediaid, rand) = {}
  /\ playlist' = Refilled /\ mediaid' = -1
  /\ due' = Due(Refilled, listid) /\ given' = NoneOf(due')
  /\ UNCHANGED down

MediaNext(lp, rand) ==
  /\ \/ NextInList(rand)
     \/ lp /\ NextTurn(rand)
     \/ ~lp /\ NextEnd(rand)
  /\ UNCHANGED <<media, opuses, words, listid, oldlistid, readonly>>

\* media_find: the url of a row of this opus.  A row of no album is not found.
Found(i) ==
  LET with == {m \in DOMAIN media : media[m].opus = i /\ media[m].album}
  IN IF with = {} THEN {NoSource} ELSE {[id |-> i, url |-> media[m].url] : m \in with}

-----------------------------------------------------------------------------
(* What the player and its clients call                                    *)

Call(name) ==
  /\ ~down /\ name \in setup.may
  /\ calls > 0 /\ calls' = calls - 1
  /\ UNCHANGED setup

\* The main loop plays: the next entry is found and prepared.
Play ==
  /\ ~down
  /\ MediaNext(loop, random)
  /\ IF down' THEN phase = "play" /\ UNCHANGED user
     ELSE \E found \in Found(mediaid') : EnginePlay(found)
  /\ UNCHANGED <<setup, calls, loop, random>>

\* STOP calls media_end.
Stop ==
  /\ ~down /\ EngineStop
  /\ mediaid' = -1
  /\ UNCHANGED <<setup, calls, base, listid, oldlistid, loop, random, readonly, down, history>>

Ask ==
  /\ ~down
  /\ AskPlay \/ AskStop
  /\ UNCHANGED <<setup, calls, base, ctx, down, history>>

\* The source is over and the prepared one takes its place.
Change ==
  /\ ~down
  /\ Over \/ EngineChange
  /\ UNCHANGED <<setup, calls, base, ctx, down, history>>

\* player_change sets the options, and prepares another entry if the player is
\* not asked to stop.
Options ==
  /\ Call("options")
  /\ \E o \in setup.options : loop' = o[1] /\ random' = o[2]
  /\ IF phase \in {"stop", "stopping"}
     THEN UNCHANGED <<user, base, listid, oldlistid, mediaid, readonly, down, history>>
     ELSE /\ MediaNext(loop', random')
          /\ IF down' THEN UNCHANGED user ELSE \E found \in Found(mediaid') : Another(found)

\* player_play
SetNext ==
  /\ Call("setnext")
  /\ mediaid' \in 1 .. Len(opuses)
  /\ \E found \in Found(mediaid') : Another(found)
  /\ UNCHANGED <<base, listid, oldlistid, loop, random, readonly, down, history>>

\* opus_insert: the opus of a title, which is a new one if there is none
OpusOf(t) ==
  LET same == {o \in DOMAIN opuses : opuses[o] = t}
  IN IF same = {} THEN Len(opuses) + 1 ELSE Min(same)

IsThere(u) == \E m \in DOMAIN media : media[m].url = u

\* The likes of a url; without any, an uninitialized variable is read.
LikesOf(u) == IF setup.likes[u] > 0 THEN {setup.likes[u]} ELSE Garbage

\* The likes that are written in the media: one at least
WrittenRaw(l) == l  \* mutant: as they are
Written(l) == IF l > 0 THEN l ELSE 1

\* media_insert: a new url enters the media, and the playlist with its number.
InsertNew(u) ==
  LET o == OpusOf(setup.title[u])
      m == Top(DOMAIN media) + 1
  IN
  /\ ~down /\ ~readonly
  /\ ~IsThere(u)
  /\ \E n \in DOMAIN setup.order :
       setup.order[n] = u /\ \A before \in 1 .. n - 1 : IsThere(setup.order[before])
  /\ opuses' = IF o > Len(opuses) THEN Append(opuses, setup.title[u]) ELSE opuses
  /\ \E l \in LikesOf(u) :
       /\ media' = [x \in DOMAIN media \cup {m} |->
                      IF x = m THEN MediaRow(u, o, Written(l)) ELSE media[x]]
       /\ playlist' = Append(playlist, Row(m, listid, l))
  /\ due' = Due(playlist', listid) /\ given' = NoneOf(due')
  /\ UNCHANGED <<user, setup, calls, words, ctx, down>>

\* media_insert: a url that is there gets its likes.
InsertAgain(u) ==
  /\ Call("insert") /\ ~readonly
  /\ \E m \in DOMAIN media : media[m].url = u /\ \E l \in LikesOf(u) :
       media' = [media EXCEPT ![m].likes = IF l > 0 THEN l ELSE @]
  /\ UNCHANGED <<user, opuses, playlist, words, ctx, down, history>>

\* media_remove with a number: it leaves the playlist, and the media remains.
RemoveEntry ==
  /\ Call("remove") /\ ~readonly
  /\ \E i \in DOMAIN due : playlist' = Without(playlist, listid, i)
  /\ due' = Due(playlist', listid) /\ given' = NoneOf(due')
  /\ UNCHANGED <<user, media, opuses, words, ctx, down>>

\* media_remove with a url: the number of the media is taken for that of an opus.
Unlink ==
  /\ Call("unlink") /\ ~readonly
  /\ \E m \in DOMAIN media :
       /\ media' = [x \in {y \in DOMAIN media : media[y].opus # m} |-> media[x]]
       /\ playlist' = Without(playlist, listid, m)
  /\ due' = Due(playlist', listid) /\ given' = NoneOf(due')
  /\ UNCHANGED <<user, opuses, words, ctx, down>>

\* playlist_create: the new list is not written in listname, for want of a
\* data base of playlists.  The list is the number of the word, which cannot be
\* inserted again: the next time the list is the default one.
Created == IF words \/ readonly THEN Default ELSE Filtered

\* media_filter: the list becomes the one of the filter, and is filled by one
\* search or by several.
Filter ==
  /\ \E titles \in SUBSET Titles \ {{}} :
       \/ /\ Call("filter")
          /\ playlist' = IF readonly THEN playlist
                         ELSE Fill(Emptied(playlist, Created), Created, titles)
       \/ /\ Call("filters") /\ ~readonly
          /\ \E more \in SUBSET Titles \ {{}} :
               playlist' = Fill(Fill(Emptied(playlist, Created), Created, titles), Created, more)
  /\ listid' = Created /\ words' = (words \/ ~readonly)
  /\ oldlistid' = IF listid # Created THEN listid ELSE oldlistid
  /\ due' = Due(playlist', listid') /\ given' = NoneOf(due')
  /\ UNCHANGED <<user, media, opuses, mediaid, loop, random, readonly, down>>

\* media_filter of nothing: the list of the filter is emptied and left.
Unfilter ==
  /\ Call("unfilter") /\ ~readonly
  /\ playlist' = Emptied(playlist, Created)
  /\ words' = TRUE
  /\ oldlistid' = IF listid # Created THEN listid ELSE oldlistid
  /\ listid' = oldlistid'
  /\ due' = Due(playlist', listid') /\ given' = NoneOf(due')
  /\ UNCHANGED <<user, media, opuses, mediaid, loop, random, readonly, down>>

\* The program ends, at any moment, and starts again.
Open ==
  /\ Call("open")
  /\ readonly' \in BOOLEAN
  /\ playlist' = IF readonly' THEN playlist ELSE Fill(playlist, Default, Titles)
  /\ listid' = Default /\ oldlistid' = 0 /\ mediaid' = 0
  /\ \E o \in setup.options : loop' = o[1] /\ random' = o[2]
  /\ phase' = "stop" /\ src' = NoSource /\ nextsrc' = NoSource
  /\ due' = Due(playlist', listid') /\ given' = NoneOf(due')
  /\ UNCHANGED <<media, opuses, words, down>>

\* A new data base
Init ==
  /\ setup \in Setups /\ calls = setup.calls
  /\ UserInit
  /\ media = <<>> /\ opuses = <<>> /\ playlist = <<>> /\ words = FALSE
  /\ listid = Default /\ oldlistid = 0 /\ mediaid = 0
  /\ \E o \in setup.options : loop = o[1] /\ random = o[2]
  /\ readonly = FALSE /\ down = FALSE
  /\ due = <<>> /\ given = <<>>

Next ==
  \/ Play \/ Stop \/ Ask \/ Change \/ Options \/ SetNext
  \/ \E u \in Urls : InsertNew(u) \/ InsertAgain(u)
  \/ RemoveEntry \/ Unlink \/ Filter \/ Unfilter \/ Open

\* The main loop runs and the streams have an end.
Spec == Init /\ [][Next]_vars /\ WF_vars(Play \/ Stop \/ Change)

-----------------------------------------------------------------------------
(* Properties                                                              *)

\* A removed media may leave its number in the playlist, and the next one takes
\* the number of the one before it.
Ids == 1 .. Cardinality(Urls) * (1 + setup.calls)
Entries == [id : Ids, url : Urls]

\* A filter that is left right after the program has started again, with the word of an
\* earlier one in the data base, leaves the player with the list 0, of no name.
Lists == {0, Default, Filtered}

\* The variables have their types.
TypeOK ==
  /\ UserTypeOK(Entries)
  /\ setup \in Setups /\ calls \in 0 .. setup.calls
  /\ DOMAIN media \subseteq Ids
  /\ \A m \in DOMAIN media :
       /\ media[m].url \in Urls /\ media[m].opus \in DOMAIN opuses /\ media[m].likes > 0
  /\ opuses \in Seq(Titles)
  /\ \A n \in DOMAIN playlist :
       /\ playlist[n].listid \in Lists /\ playlist[n].likes \in Int
       /\ playlist[n].id \in Ids
  /\ words \in BOOLEAN /\ loop \in BOOLEAN /\ random \in BOOLEAN
  /\ listid \in Lists /\ oldlistid \in Lists
  /\ mediaid \in {-1, 0} \cup Ids
  /\ readonly \in BOOLEAN /\ down \in BOOLEAN
  /\ DOMAIN given = DOMAIN due

\* No entry is given more often than it is liked before the list is filled again,
\* in order or at random, through the stops and the jumps.
GivenAsLiked ==
  \A i \in DOMAIN due : due[i] > 0 /\ ~readonly => given[i] <= due[i]

\* media_next calls itself again only once: it always finds an entry after it has
\* filled the list, as long as there is a media and the data base can be written.
NextReturns == down => DOMAIN media = {} \/ readonly

\* Each media has its opus and its album, and none leaves the library.
Plain ==
  /\ setup.album = Urls
  /\ \A u, v \in Urls : setup.title[u] = setup.title[v] => u = v
  /\ setup.may \cap {"unlink"} = {}

\* The list is read by the numbers of its entries, in the order of its rows.
InOrder ==
  \A n, x \in DOMAIN playlist :
    playlist[n].listid = listid /\ playlist[x].listid = listid /\ n < x
      => playlist[n].id < playlist[x].id

\* With the option loop, every media of a plain library from which nothing was
\* removed is played again and again, at random or in order if the list is in
\* order, unless the player is stopped.
EveryMediaComesBack ==
  \A i \in 1 .. Cardinality(Urls) :
    (<>[](/\ Plain /\ loop /\ (random \/ InOrder) /\ ~readonly
          /\ phase # "stop" /\ ~down
          /\ i \in DOMAIN media /\ setup.may \cap {"remove", "filters"} = {}))
      => []<>(src.id = i)
=============================================================================
