SPECIFICATION FairSpec
CONSTANTS
  Sends = {10}
  Peers = {1}
  Text <- MCText
  Rank <- MCRank
  Kinds = {"group", "dm"}
  FrameIds = {"msg"}
  AnswerIds = {"msg"}
  Dense = FALSE
  PageSize = 1
  MaxSecond = 1
  MaxSkew = 1
  MaxOrphans = 1
PROPERTY FailedRowGone
