\* Two workers; layouts with gaps, negative positions or no screen at all; up to two
\* keys on their way when the input side closes.
SPECIFICATION LaunchFairSpec
CONSTANTS
  NbThreads = 2
  Layouts <- MCLayouts
  MaxLayouts = 1
  MaxKeys = 2
INVARIANTS
  LaunchTypeOK
  SocketsAreShared
  MouseFollowsScreens
PROPERTIES
  LaunchEnds
  AllEndTogether
CHECK_DEADLOCK FALSE
