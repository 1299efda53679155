--------------------------- MODULE MCRuntimePairs ---------------------------
EXTENDS RuntimePairs, TLC

CONSTANTS a1, g1, g2, s1, s2

MCAgents == {a1}
MCGroups == {g1, g2}
MCStarts == {s1, s2}
OneStart == {s1}
OneGroup == {g1}
BothKinds == {"pair", "local"}
PairKind == {"pair"}
MCSymmetry == Permutations(MCStarts) \cup Permutations(MCGroups)
=============================================================================
