----------------------------- MODULE MediaUser -----------------------------
(***************************************************************************)
(* The player as its media sees it: what the state engine of               *)
(* src/src/player.c does with the entries that the media gives it.  What   *)
(* its threads do at the same time is the module Player; here a pass of    *)
(* the main loop is one step.                                              *)
(*                                                                         *)
(* An entry is the number the media gave it and the url which is really    *)
(* opened.                                                                 *)
(* Left out: an url or a media that no source is built for.  _player_play  *)
(* then leaves nothing prepared, and the next CHANGE stops the player.     *)
(***************************************************************************)
EXTENDS Integers

CONSTANT NoUrl   \* no url

VARIABLES
  phase,    \* what the main loop does next, or "playing", "stop": it waits
  src,      \* the entry that is played
  nextsrc   \* the entry that is prepared

user == <<phase, src, nextsrc>>

NoSource == [id |-> -1, url |-> NoUrl]   \* player_mediaid returns -1

UserInit == phase = "stop" /\ src = NoSource /\ nextsrc = NoSource

\* Somebody asks to play.
AskPlay ==
  /\ phase = "stop" /\ phase' = "play"
  /\ UNCHANGED <<src, nextsrc>>

\* _player_play is called by the media with what it found, or is not called.
Prepare(found) == nextsrc' = IF found = NoSource THEN nextsrc ELSE found

\* The state PLAY: the media was asked for its next entry, and found it or not.
EnginePlay(found) ==
  /\ phase = "play"
  /\ Prepare(found)
  /\ phase' = IF src = NoSource THEN "change" ELSE "playing"
  /\ UNCHANGED src

\* The source is over, or somebody asks for the next one.
Over ==
  /\ phase = "playing" /\ phase' = "change"
  /\ UNCHANGED <<src, nextsrc>>

\* The state CHANGE
EngineChange ==
  /\ phase = "change"
  /\ src' = nextsrc /\ nextsrc' = NoSource
  /\ phase' = IF nextsrc = NoSource THEN "stopping" ELSE "play"

\* Somebody asks to stop.
AskStop ==
  /\ phase \in {"play", "playing", "change"} /\ phase' = "stopping"
  /\ UNCHANGED <<src, nextsrc>>

\* The state STOP, with the end of the media.
EngineStop ==
  /\ phase = "stopping" /\ phase' = "stop"
  /\ src' = NoSource /\ nextsrc' = NoSource

\* player_play by another thread: an entry is prepared in place of the one that was.
Another(found) ==
  /\ Prepare(found)
  /\ UNCHANGED <<phase, src>>

UserTypeOK(entries) ==
  /\ phase \in {"stop", "play", "playing", "change", "stopping"}
  /\ src \in entries \cup {NoSource}
  /\ nextsrc \in entries \cup {NoSource}
=============================================================================
