CONSTANTS
  NumJoints = 2
  ActiveJoint <- AllJoints
  HomeFlags <- IndexAndShared
  HomeSequence <- Gantry
  SearchVel <- OnlyFirst
  LatchVel <- OnlyFirst
  HomeDelay = 1
  KinType = "IDENTITY"
  Commands = {"ENABLE", "DISABLE", "HOME_ALL", "JOINT_HOME", "ABORT", "JOINT_ABORT"}
  Events = {"limit", "probe", "index"}
  VolatileHome = {1}
  NewSequences = {}
SPECIFICATION FairSpec
INVARIANTS FinalMovesTogether
PROPERTIES HomingEnds
