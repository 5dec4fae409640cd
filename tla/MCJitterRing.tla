---------------------------- MODULE MCJitterRing ----------------------------
(* JitterRing with threads and with callbacks.                             *)
EXTENDS JitterRing

BothSources == {TRUE, FALSE}
=============================================================================
