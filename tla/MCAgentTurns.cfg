SPECIFICATION FairSpec

CONSTANTS
  t1 = t1
  t2 = t2
  c1 = c1
  None = None
  Turns <- MCTurns
  ChannelOf <- MCChannelOf
  Communities = {"A", "B"}
  Home = "A"
  MaxTurns = 2
  MaxTombstones = 2
  MaxEvents = 2
  FrameGap = 0
  RemoveAfter = 1
  PauseMax = 2
  MaxClock = 2
  MaxFrames = 3
  MaxSwitches = 2

INVARIANTS TypeOK NoDeadBadge ReplayIsIdle CleanSlate
PROPERTIES EndedBadgeGone SnapshotNotLost
