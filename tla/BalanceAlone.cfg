CONSTANTS
  npes = 1
  nparts = 3
  RIP_SPLIT_FACTOR = 2
  Edge <- MCEdge
  VWgt <- MCVWgt
  Home <- MCHome
  MaxMoved = 1
  OpTypes = {"ametis"}
  Inputs = {3, 8}
  CoarserSizes <- MCCoarserSizes
  CoarsenTo = 3
  NCons = {1, 2, 3}
  OnDisk = {"rmetis", "ometis"}
  SpillSize = 4
  p_nseps = 2
SPECIFICATION FairSpec
PROPERTIES
  OneResultTaken
CHECK_DEADLOCK FALSE
