CONSTANTS
  NumJoints = 2
  ActiveJoint <- AllJoints
  HomeFlags <- NoFlags
  HomeSequence <- OneByOne
  SearchVel <- OnlyFirst
  LatchVel <- OnlyFirst
  HomeDelay = 1
  KinType = "IDENTITY"
  Commands = {"ABORT", "JOINT_ABORT", "FREE", "COORD", "TELEOP", "JOG", "AXIS_JOG",
              "ENABLE", "DISABLE", "HOME_ALL", "JOINT_HOME", "UNHOME"}
  Events = {"limit", "fault", "probe", "wheel", "kins"}
  VolatileHome = {1}
  NewSequences = {}
SPECIFICATION Spec
INVARIANTS TypeOK  JogsLocked
PROPERTIES HomesOnlyAsked  FreeModeStartsStill
