SPECIFICATION FairSpec
CONSTANTS
  Sends = {10}
  Peers = {1}
  Text <- MCText
  Rank <- MCRank
  Kinds = {"group", "dm"}
  FrameIds = {"client"}
  AnswerIds = {"msg", "client"}
  Dense = FALSE
  PageSize = 1
  MaxSecond = 1
  MaxSkew = 1
  MaxOrphans = 1
INVARIANTS TypeOK ChainHasNoGap OneRowPerMessage
PROPERTIES Converges AckedSettles
