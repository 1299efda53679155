--------------------------- MODULE MCLiveChannels ---------------------------
(* Instances of LiveChannels for TLC. *)
EXTENDS LiveChannels

CONSTANTS c1, c2

MCChannels == {c1, c2}

\* A message and a later reply of one channel.
OneChannel == {c1}
MCEvents ==
  {[ch |-> c1, at |-> 1, row |-> 1, reply |-> FALSE],
   [ch |-> c1, at |-> 2, row |-> 2, reply |-> TRUE]}
MCReplies == {e \in MCEvents : e.reply}
=============================================================================
