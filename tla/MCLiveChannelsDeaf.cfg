SPECIFICATION FairSpec
CONSTANTS
  c1 = c1 c2 = c2 None = None
  Channels <- MCChannels
  Events = {}
  Touched = {}
  Marked = {}
  MayDie = FALSE
  MaxTime = 2
  MaxRuns = 2
PROPERTY MemberHeard
