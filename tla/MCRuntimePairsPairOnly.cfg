SPECIFICATION FairSpec
CONSTANTS
  a1 = a1 g1 = g1 g2 = g2 s1 = s1 s2 = s2
  Agents <- MCAgents
  Groups <- OneGroup
  Starts <- MCStarts
  MaxPid = 2
  Kinds <- PairKind
INVARIANTS RegisteredOnce FindableWhileRunning QuietAfterShutdown
PROPERTY OrphanReaped
