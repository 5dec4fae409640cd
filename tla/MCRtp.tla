------------------------------- MODULE MCRtp -------------------------------
(* Rtp on a few setups of two senders.                                     *)
EXTENDS Rtp

Setup(n, talkers, double, faults, b, s, asked, second) ==
  [blocks |-> n, talkers |-> talkers, double |-> double, faults |-> faults, bad |-> b,
   stops |-> s, asked |-> asked, pt |-> (2 :> "mp3" @@ 4 :> second)]

MCSetups == {
  \* one sender, each packet twice, a network that loses some; or any network
  Setup(4, {2}, {2}, {"lose"}, 2, 0, FALSE, "mp3"),
  Setup(4, {2}, {2}, {"lose"}, 1, 1, FALSE, "mp3"),
  Setup(4, {2}, {2}, Faults, 1, 0, TRUE, "mp3"),
  \* two senders, of the same type, or of one that the receiver does not know
  Setup(2, {2, 4}, {2}, {"lose"}, 1, 0, FALSE, "mp3"),
  Setup(2, {2, 4}, {}, {"lose"}, 1, 0, TRUE, "pcm"),
  Setup(2, {2, 4}, {}, {"lose"}, 0, 0, FALSE, "unknown"),
  \* ... or that the player of the receiver stops hearing in between
  Setup(2, {2, 4}, {}, {"lose"}, 0, 1, FALSE, "mp3") }
=============================================================================
