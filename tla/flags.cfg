CONSTANTS
  NumJoints = 2
  ActiveJoint <- AllJoints
  HomeFlags <- LockAndAbsolute
  HomeSequence <- Together
  SearchVel <- OnlyFirst
  LatchVel <- Opposite
  HomeDelay = 1
  KinType = "IDENTITY"
  Commands = {"ENABLE", "DISABLE", "HOME_ALL", "JOINT_HOME", "ABORT", "JOINT_ABORT", "JOG", "FREE",
              "UPDATE_HOMING_PARAMS"}
  Events = {"index", "probe", "wheel", "limit", "fault"}
  VolatileHome = {1}
  NewSequences = {0, 1}
SPECIFICATION Spec
INVARIANTS HomedMeansDone
PROPERTIES ArmedOnlyHoming
