SPECIFICATION FairSpec
CONSTANTS
  Sends = {}
  Peers = {1, 2}
  Text <- MCText
  Rank <- MCRank
  Kinds = {"group"}
  FrameIds = {"msg"}
  AnswerIds = {"msg"}
  Dense = TRUE
  PageSize = 2
  MaxSecond = 0
  MaxSkew = 0
  MaxOrphans = 1
PROPERTY Converges
