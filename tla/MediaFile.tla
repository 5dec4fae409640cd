----------------------------- MODULE MediaFile -----------------------------
(***************************************************************************)
(* The list of urls of src/src/media_file.c, with MEDIA_FILE_LIST.  Its    *)
(* context is the record of the entries from ctx->media on, the number of  *)
(* the current entry (-1 for a null pointer) and the last number given.    *)
(* An entry never leaves the list.  Left out: remove, which frees the      *)
(* strings of an entry that stays in the list.                             *)
(***************************************************************************)
EXTENDS Integers, SequencesExt

NoFile == [list |-> <<>>, current |-> -1, lastid |-> 0]

\* media_init: the list of one url
FileOf(u) == [NoFile EXCEPT !.list = <<[id |-> 0, url |-> u]>>]

\* media_insert and media_append: a new url takes the next number.
NextIdLast(f) == f.lastid  \* mutant: the last one is given again
NextId(f) == f.lastid + 1
Entered(f, u) ==
  IF \E n \in DOMAIN f.list : f.list[n].url = u THEN {}
  ELSE LET entry == <<[id |-> NextId(f), url |-> u]>> IN
    {[f EXCEPT !.list = l, !.lastid = NextId(f)] : l \in {entry \o f.list, f.list \o entry}}

\* media_next: the entry after the current one, which is the first one when there
\* is no current one.  After the last one: the first one again, or none.
PositionOf(f) == SelectInSeq(f.list, LAMBDA entry : entry.id = f.current)   \* 0 for none
FollowingStay(f, loop) ==  \* mutant: the last one again
  LET n == PositionOf(f) + 1 IN
  IF n <= Len(f.list) THEN f.list[n].id ELSE IF loop THEN f.current ELSE -1
Following(f, loop) ==
  LET n == PositionOf(f) + 1 IN
  IF n <= Len(f.list) THEN f.list[n].id ELSE IF loop THEN f.list[1].id ELSE -1
FileNext(f, loop) == [f EXCEPT !.current = Following(f, loop)]

\* media_play and media_find: the entries of this number
FileFound(f, i) == {f.list[n] : n \in {x \in DOMAIN f.list : f.list[x].id = i}}

\* media_end
FileEnd(f) == [f EXCEPT !.current = -1]
=============================================================================
