SPECIFICATION Spec
CONSTANTS
  a1 = a1 g1 = g1 g2 = g2 s1 = s1 s2 = s2
  Agents <- MCAgents
  Groups <- MCGroups
  Starts <- MCStarts
  MaxPid = 2
  Kinds <- BothKinds
SYMMETRY MCSymmetry
INVARIANTS TypeOK TrackedIsReceipted TrackedRunsItsPair
PROPERTY SweepSparesCurrent
