------------------------- MODULE MCChannelTimeline -------------------------
EXTENDS ChannelTimeline

\* The user says the same thing in every send; msgIds rise with their numbers.
MCText == [m \in Msgs |-> "same"]
MCRank ==
  LET tag == [msg |-> 0, client |-> 100, opt |-> 200]
  IN [i \in Ids |-> tag[i[1]] + i[2]]
=============================================================================
