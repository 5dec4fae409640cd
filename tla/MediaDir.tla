------------------------------ MODULE MediaDir ------------------------------
(***************************************************************************)
(* The directory browser of src/src/media_dir.c.  The media of a directory *)
(* and of its subdirectories are numbered in the order in which _find      *)
(* meets them.  _find may be left when it has found one, and taken up      *)
(* again from there for the next one.                                      *)
(*                                                                         *)
(* Its context is the record of ctx->current, the path of the walk that    *)
(* was left, of count and of firstmediaid.  The path is the chain of       *)
(* media_dirlist_t from the root to the item that is looked at, each with  *)
(* the items its directory had when it was opened.  Left out: mediaid,     *)
(* which nothing reads.                                                    *)
(***************************************************************************)
EXTENDS Integers, SequencesExt, FiniteSetsExt

CONSTANTS
  Files,    \* the names of media
  Others,   \* the names of files that are no media
  Dirs,     \* the directories, and the links to them
  Root,
  MaxLevel  \* MAX_LEVEL

ASSUME MediaDirAssumption ==
  /\ Root \in Dirs /\ MaxLevel \in Nat
  /\ Files \cap Others = {} /\ Files \cap Dirs = {} /\ Others \cap Dirs = {}

VARIABLE tree   \* the items of each directory, in their order

Items == Files \cup Others \cup Dirs
Frame(d) == [items |-> tree[d], index |-> 1]
Paths == Seq([items : Seq(Items), index : Nat \ {0}])
Walks == [path : Paths, n : Int, ret : -2 .. 1, count : Nat]

-----------------------------------------------------------------------------
(* _find                                                                   *)

\* One item further, and out of a directory that is exhausted
Skip(p) == [p EXCEPT ![Len(p)].index = @ + 1]
Leave(p) == IF Len(p) = 1 THEN <<>> ELSE Skip(Front(p))

\* The count follows the numbers that go beyond it.
Counted(s, n) == IF n > s.count THEN n + 1 ELSE s.count

\* The walk s goes on until the media of this number, where ret is 0, or until
\* its end.  Otherwise ret tells of the last item: 1, a media; -1, another file;
\* -2, an empty directory.
Met(s) == [s EXCEPT !.ret = 0, !.count = Counted(s, s.n)]
Passed(s) ==
  [s EXCEPT !.path = Skip(s.path), !.n = s.n + 1, !.ret = 1, !.count = Counted(s, s.n + 1)]
RefusedCounted(s) ==  \* mutant: the file takes a number
  [s EXCEPT !.path = Skip(s.path), !.n = s.n + 1, !.ret = -1, !.count = Counted(s, s.n + 1)]
Refused(s) == [s EXCEPT !.path = Skip(s.path), !.ret = -1, !.count = Counted(s, s.n)]
Inside(s, d) == [s EXCEPT !.path = Append(s.path, Frame(d)), !.ret = -2]
TooDeepOne(s) == Len(s.path) - 1 >= MaxLevel  \* mutant: one level less
TooDeep(s) == Len(s.path) - 1 > MaxLevel

Find(s, id) ==
  LET find[w \in Walks] ==
    IF w.path = <<>> THEN w
    ELSE LET top == Last(w.path) IN
      IF top.index > Len(top.items) THEN find[[w EXCEPT !.path = Leave(w.path)]]
      ELSE LET item == top.items[top.index] IN
        IF item \in Files THEN IF w.n = id THEN Met(w) ELSE find[Passed(w)]
        ELSE IF item \in Others THEN find[Refused(w)]
        ELSE IF TooDeep(w) THEN find[[w EXCEPT !.path = Skip(w.path)]]
        ELSE find[Inside(w, item)]
  IN find[s]

\* Without a walk, from the root and from 0; otherwise from its item and from n
From(p, n, c) ==
  IF p = <<>> THEN [path |-> <<Frame(Root)>>, n |-> 0, ret |-> -2, count |-> c]
  ELSE [path |-> p, n |-> n, ret |-> -2, count |-> c]

\* The media of this number, with media_find
At(p) == Last(p).items[Last(p).index]
DirFound(w, id) ==
  LET s == Find(From(<<>>, 0, w.count), id) IN
  IF id >= 0 /\ s.ret = 0 THEN {[id |-> id, url |-> At(s.path)]} ELSE {}

\* It counts too.
Sought(w, id) ==
  IF id >= 0 THEN [w EXCEPT !.count = Find(From(<<>>, 0, w.count), id).count] ELSE w

\* media_init, and _count_media, which counts in ctx->count itself
Number == Find(From(<<>>, 0, 0), -1).n
NoDir == [path |-> <<>>, count |-> 0, first |-> -1]
DirOf == [NoDir EXCEPT !.count = Number]
Recounted(w) == [w EXCEPT !.path = <<>>, !.count = Number]

-----------------------------------------------------------------------------
(* media_next                                                              *)

\* The numbers it may look for: the one after that of the source, or any.
Wrapped(w, id) == IF id > w.count THEN 0 ELSE id
Targets(w, random, playing) ==
  IF random THEN {Wrapped(w, IF id = playing THEN id + 1 ELSE id) : id \in 0 .. w.count}
  ELSE {Wrapped(w, playing + 1)}

\* One call of _find and what follows it.  A lower number needs a new walk.
Attempt(w, playing, id) ==
  LET s == Find(From(IF id < playing THEN <<>> ELSE w.path, playing, w.count), id)
      ret == IF w.first = s.n THEN -1 ELSE s.ret
  IN [w |-> [path |-> s.path, count |-> s.count,
             first |-> IF ret = 0 /\ w.first = -1 THEN s.n ELSE w.first],
      id |-> s.n, ret |-> ret]
Attempts(w, random, playing) == {Attempt(w, playing, id) : id \in Targets(w, random, playing)}

\* With the option loop, media_next calls itself when there is nothing more.
AgainAny(a, loop) == loop /\ a.ret # 0  \* mutant: also after a media
Again(a, loop) == loop /\ a.ret = -1 /\ a.w.first # a.id

\* The number it returns
Returned(a, loop) == IF a.ret = -1 /\ ~loop THEN -1 ELSE a.id

\* What comes of media_next, and of media_play with the number it returns.  A second
\* attempt, from the root, ends with a count that is not too small, so that a fourth
\* would find what the third does.  There may be nothing: it calls itself for ever.
Outcomes(w, loop, random, playing) ==
  LET Retried(tries) ==
        UNION {Attempts(a.w, random, playing) : a \in {x \in tries : Again(x, loop)}}
      first == Attempts(w, random, playing)
      second == Retried(first)
  IN {[a EXCEPT !.w = Sought(a.w, Returned(a, loop))] :
        a \in {x \in first \cup second \cup Retried(second) : ~Again(x, loop)}}

\* media_random
DirRandom(w, random) == IF random THEN w ELSE [w EXCEPT !.first = -1]

\* media_end
DirEnd(w) == [w EXCEPT !.path = <<>>, !.first = -1]

-----------------------------------------------------------------------------
(* The media in their order, for reference                                 *)

\* The files of a set that an item holds, given those below each directory
ItemFiles(item, set, below) ==
  IF item \in set THEN <<item>> ELSE IF item \in Dirs THEN below[item] ELSE <<>>

\* The files below each directory, when this many levels may be opened
FilesBelow(set) ==
  LET below[levels \in Nat] ==
    IF levels = 0 THEN [d \in Dirs |-> <<>>]
    ELSE [d \in Dirs |-> FlattenSeq([n \in DOMAIN tree[d] |->
                            ItemFiles(tree[d][n], set, below[levels - 1])])]
  IN below

\* The files among the items of a directory of this level
FilesAmong(items, level, set) ==
  FlattenSeq([n \in DOMAIN items |->
    ItemFiles(items[n], set, FilesBelow(set)[MaxLevel + 1 - level])])

\* How many media come before the item of a walk
Before(p) ==
  Len(FlattenSeq([n \in DOMAIN p |->
        FilesAmong(SubSeq(p[n].items, 1, p[n].index - 1), n - 1, Files)]))
=============================================================================
