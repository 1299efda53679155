SPECIFICATION Spec
CONSTANTS
  a1 = a1 g1 = g1 g2 = g2 s1 = s1 s2 = s2
  Agents <- MCAgents
  Groups <- OneGroup
  Starts <- OneStart
  MaxPid = 2
  Kinds <- BothKinds
INVARIANT RegisteredOnce
