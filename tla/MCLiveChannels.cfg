SPECIFICATION FairSpec
CONSTANTS
  c1 = c1 c2 = c2 None = None
  Channels <- MCChannels
  Events <- MCEvents
  Touched <- OneChannel
  Marked <- MCReplies
  MayDie = TRUE
  MaxTime = 2
  MaxRuns = 2
INVARIANTS TypeOK NoStrayStream DotIsExact
PROPERTIES MarksSurvive MemberSubscribed
