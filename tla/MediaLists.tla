----------------------------- MODULE MediaLists -----------------------------
(***************************************************************************)
(* The player with a list of urls or a directory for media, and its client *)
(* who changes the one for the other while it plays (player_change of      *)
(* src/src/player.c).  The threads of the commands, of the directory and   *)
(* the main loop do not overlap here.                                      *)
(***************************************************************************)
EXTENDS MediaUser, MediaFile, MediaDir

CONSTANTS
  Urls,    \* what may be inserted in a list
  Setups   \* the media and the calls of a client

Calls == {"insert", "loop", "options", "change", "touch"}

ASSUME MediaListsAssumption ==
  \A s \in Setups :
    /\ s.kinds \subseteq {"list", "dir"} /\ s.kinds # {}
    /\ s.trees \subseteq [Dirs -> Seq(Items)]
    /\ s.random \subseteq BOOLEAN
    /\ s.may \subseteq Calls /\ s.calls \in Nat   \* bounds on the calls

VARIABLES
  setup, calls,  \* the setup and the calls that are left
  kind,          \* of the media
  file, dir,     \* its context
  loop, random,  \* its options
  news,          \* what inotify tells of the directories of the root
  down           \* media_next calls itself for ever

media == <<kind, file, dir, loop, random>>
vars == <<user, tree, setup, calls, media, news, down>>

OrNone(found) == IF found = {} THEN {NoSource} ELSE found

\* A media after media_next: its context, and what media_play finds.
Media(k, f, w) == [kind |-> k, file |-> f, dir |-> w, found |-> NoSource]
AfterNext(m, lp, rand) ==
  IF m.kind = "list"
  THEN LET f == FileNext(m.file, lp) IN
       {[m EXCEPT !.file = f, !.found = x] : x \in OrNone(FileFound(f, f.current))}
  ELSE UNION {{[m EXCEPT !.dir = a.w, !.found = x] :
                 x \in OrNone(DirFound(a.w, Returned(a, lp)))} :
                 a \in Outcomes(m.dir, lp, rand, src.id)}
Becomes(m) == kind' = m.kind /\ file' = m.file /\ dir' = m.dir

-----------------------------------------------------------------------------
(* The main loop                                                           *)

\* The state PLAY
Play ==
  /\ ~down /\ phase = "play"
  /\ LET next == AfterNext(Media(kind, file, dir), loop, random) IN
     \/ \E m \in next : Becomes(m) /\ EnginePlay(m.found) /\ UNCHANGED down
     \/ next = {} /\ down' = TRUE /\ UNCHANGED <<user, kind, file, dir>>
  /\ UNCHANGED <<tree, setup, calls, loop, random, news>>

\* The state STOP calls media_end.
Stop ==
  /\ ~down /\ EngineStop
  /\ IF kind = "list" THEN file' = FileEnd(file) /\ UNCHANGED dir
     ELSE dir' = DirEnd(dir) /\ UNCHANGED file
  /\ UNCHANGED <<tree, setup, calls, kind, loop, random, news, down>>

Ask == ~down /\ (AskPlay \/ AskStop) /\ UNCHANGED <<tree, setup, calls, media, news, down>>
Change == ~down /\ (Over \/ EngineChange) /\ UNCHANGED <<tree, setup, calls, media, news, down>>

-----------------------------------------------------------------------------
(* The client                                                              *)

Call(name) ==
  /\ ~down /\ name \in setup.may
  /\ calls > 0 /\ calls' = calls - 1
  /\ UNCHANGED setup

Insert ==
  /\ Call("insert") /\ kind = "list"
  /\ \E u \in Urls : file' \in Entered(file, u)
  /\ UNCHANGED <<user, tree, kind, dir, loop, random, news, down>>

\* media_loop alone
Loop ==
  /\ Call("loop") /\ loop' = ~loop
  /\ UNCHANGED <<user, tree, kind, file, dir, random, news, down>>

\* player_change gives the media its options.  If the player is not asked to stop,
\* another entry takes the place of the one that was prepared.
PlayerChange(m) ==
  LET ready == IF m.kind = "dir" THEN [m EXCEPT !.dir = DirRandom(@, random')] ELSE m IN
  \/ /\ phase \in {"stop", "stopping"}
     /\ Becomes(ready)
     /\ UNCHANGED <<user, down>>
  \/ /\ phase \notin {"stop", "stopping"}
     /\ LET next == AfterNext(ready, loop', random') IN
        \/ \E n \in next : Becomes(n) /\ Another(n.found) /\ UNCHANGED down
        \/ next = {} /\ down' = TRUE /\ Becomes(ready) /\ UNCHANGED user

\* The options of a directory.  A list has no option random, and the command
\* would call a null pointer.
Options ==
  /\ Call("options") /\ kind = "dir"
  /\ loop' \in BOOLEAN /\ random' \in setup.random
  /\ PlayerChange(Media(kind, file, dir))
  /\ UNCHANGED <<tree, news>>

\* Another media
NewMedia == {Media("list", FileOf(u), NoDir) : u \in Urls} \cup {Media("dir", NoFile, DirOf)}
ChangeMedia ==
  /\ Call("change")
  /\ loop' \in BOOLEAN /\ random' \in setup.random
  /\ \E m \in NewMedia :
       m.kind \in setup.kinds /\ PlayerChange(m)
  /\ news' = {}
  /\ UNCHANGED tree

-----------------------------------------------------------------------------
(* The directory                                                           *)

\* Files and directories come and go.
Subdirs(t) == ToSet(t[Root]) \cap Dirs
Touch ==
  /\ Call("touch")
  /\ tree' \in setup.trees \ {tree}
  /\ news' = news \cup {event \in {"create", "delete"} :
       /\ kind = "dir"
       /\ \/ event = "create" /\ Subdirs(tree') \ Subdirs(tree) # {}
          \/ event = "delete" /\ Subdirs(tree) \ Subdirs(tree') # {}}
  /\ UNCHANGED <<user, media, down>>

\* _check_dir counts again when a directory was made, and plays or stops.  The
\* status of one that was deleted is not read: it is what the stack holds.
Survey ==
  /\ ~down /\ kind = "dir"
  /\ \E event \in news :
       /\ news' = news \ {event}
       /\ \/ event = "delete" /\ UNCHANGED <<user, dir>>
          \/ Number > 0 /\ dir' = Recounted(dir)
             /\ IF phase = "stop" THEN AskPlay ELSE UNCHANGED user
          \/ Number = 0 /\ dir' = DirEnd(Recounted(dir))
             /\ IF phase \in {"stop", "stopping"} THEN UNCHANGED user ELSE AskStop
  /\ UNCHANGED <<tree, setup, calls, kind, file, loop, random, down>>

Init ==
  /\ setup \in Setups /\ calls = setup.calls
  /\ tree \in setup.trees
  /\ UserInit
  /\ \E m \in NewMedia :
       m.kind \in setup.kinds /\ kind = m.kind /\ file = m.file /\ dir = m.dir
  /\ loop \in BOOLEAN /\ random \in setup.random
  /\ news = {} /\ down = FALSE

Next ==
  \/ Play \/ Stop \/ Ask \/ Change
  \/ Insert \/ Loop \/ Options \/ ChangeMedia
  \/ Touch \/ Survey

\* The main loop runs and the streams have an end.
Spec == Init /\ [][Next]_vars /\ WF_vars(Play \/ Stop \/ Change)

-----------------------------------------------------------------------------
(* Properties                                                              *)

\* The media of a tree in their order, for reference
Order == FilesAmong(tree[Root], 0, Files)
EndsWithMedia == Last(FilesAmong(tree[Root], 0, Files \cup Others)) \in Files

Entries == [id : Nat, url : Urls \cup Files]

\* The variables have their types, and the numbers of a list are distinct.
TypeOK ==
  /\ UserTypeOK(Entries)
  /\ setup \in Setups /\ calls \in 0 .. setup.calls /\ tree \in setup.trees
  /\ kind \in setup.kinds
  /\ file.list \in Seq([id : 0 .. file.lastid, url : Urls])
  /\ IsInjective([n \in DOMAIN file.list |-> file.list[n].id])
  /\ file.current \in {-1} \cup {file.list[n].id : n \in DOMAIN file.list}
  /\ dir.path \in Paths /\ dir.count \in Nat /\ dir.first \in Nat \cup {-1}
  /\ loop \in BOOLEAN /\ random \in BOOLEAN
  /\ news \subseteq {"create", "delete"} /\ down \in BOOLEAN

\* The directories of a walk have not changed since it was left.
IsFresh(p) ==
  \A n \in DOMAIN p : p[n].items = IF n = 1 THEN tree[Root] ELSE tree[At(SubSeq(p, 1, n - 1))]

\* _find finds the media by their numbers in the order of the tree, and the same
\* ones when a walk that media_next left is taken up again with the number of the
\* media where it was left.
WalksAgree ==
  \A id \in 0 .. Len(Order) :
    LET s == Find(From(<<>>, 0, dir.count), id) IN
    /\ s.ret = 0 <=> id < Len(Order)
    /\ s.ret = 0 => s.n = id /\ At(s.path) = Order[id + 1]
    /\ dir.path # <<>> /\ IsFresh(dir.path) /\ Before(dir.path) <= id =>
         LET again == Find(From(dir.path, Before(dir.path), dir.count), id) IN
         again.n = s.n /\ again.path = s.path

\* media_next calls itself for ever only with the option loop, when the last file
\* of the directory is no media.
NextReturns == down => kind = "dir" /\ loop /\ ~EndsWithMedia

\* In a directory that does not change, and with any other options than random
\* set and the media given again at any moment, each source is the next of the
\* order, and the player stops after the last one; if that is followed by files
\* that are no media, as long as no option is set and no media is given.
Quiet ==
  /\ setup.kinds = {"dir"} /\ setup.random = {FALSE}
  /\ "touch" \notin setup.may
  /\ EndsWithMedia \/ setup.may \cap {"options", "change"} = {}
PlaysInOrder ==
  [][Quiet /\ src' # src /\ src # NoSource /\ phase = "change" =>
       IF src' = NoSource THEN src.id + 1 = Len(Order)
       ELSE src'.id = src.id + 1 /\ src'.url = Order[src'.id + 1]]_vars

\* With the option loop, every entry of a list is played again and again, unless
\* the player is stopped.
EveryEntryComesBack ==
  \A i \in 0 .. Cardinality(Urls) - 1 :
    (<>[](kind = "list" /\ loop /\ i <= file.lastid /\ phase # "stop")) => []<>(src.id = i)
=============================================================================
