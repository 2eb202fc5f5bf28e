---------------------------- MODULE MotionState ----------------------------
(***************************************************************************)
(* The state that the real-time motion module (motmod) keeps between servo *)
(* periods and that its parts share: the homing data H[] of homing.c, the  *)
(* joints, the requests in emcmotDebug, the mode flags in emcmotStatus.    *)
(* Positions, velocities and error messages are abstracted away.           *)
(***************************************************************************)
EXTENDS Integers, FiniteSets

CONSTANTS
    NumJoints,      \* ALL_JOINTS
    ActiveJoint,    \* joints with the ACTIVE flag set (EMCMOT_JOINT_ACTIVATE)
    HomeFlags,      \* [Joint -> SUBSET HomeFlag], the HOME_* bits of the ini file
    HomeSequence,   \* [Joint -> Int], [JOINT_n]HOME_SEQUENCE
    SearchVel,      \* [Joint -> {-1,0,1}], sign of HOME_SEARCH_VEL
    LatchVel,       \* [Joint -> {-1,0,1}], sign of HOME_LATCH_VEL
    HomeDelay,      \* HOME_DELAY * servo_freq, servo periods of pause
    KinType         \* emcmotConfig->kinType

Joint == 0 .. NumJoints - 1

HomeFlag == {"IGNORE_LIMITS", "USE_INDEX", "IS_SHARED", "UNLOCK_FIRST",
             "ABSOLUTE_ENCODER", "NO_REHOME", "NO_FINAL_MOVE"}

ASSUME NumJointsAssumption == NumJoints \in Nat \ {0}
ASSUME ConfigAssumption ==
    /\ ActiveJoint \subseteq Joint
    /\ HomeFlags \in [Joint -> SUBSET HomeFlag]
    /\ HomeSequence \in [Joint -> Int]
    /\ SearchVel \in [Joint -> {-1, 0, 1}]
    /\ LatchVel \in [Joint -> {-1, 0, 1}]
    /\ HomeDelay \in Nat
    /\ KinType \in {"IDENTITY", "BOTH", "INVERSE_ONLY"}

VARIABLES
    H,              \* homing.c: H[joint], the per-joint homing data
    sequence_state, \* homing.c: state of do_homing_sequence()
    home_sequence,  \* homing.c: sequence number being homed
    homing_active,  \* homing.c: what get_homing_is_active() returns
    sync_final_move,\* homing.c: the i with H[i].sync_final_move set
    joint,          \* the free-mode planner and enable flag of each joint
    request,        \* emcmotDebug: enabling, coordinating, teleoperating
    flag,           \* emcmotStatus->motionFlag: ENABLE, COORD, TELEOP, INPOS
    motion_state,   \* emcmotStatus->motion_state
    cycle,          \* where the servo thread is in its period
    asked           \* history: joints that a home command covers and whose home has not begun

sequence_vars == <<sequence_state, home_sequence, homing_active, sync_final_move>>
mode_vars == <<request, flag, motion_state>>
vars == <<H, sequence_vars, joint, mode_vars, cycle, asked>>

\* home_state_t
MoveStart == {"INITIAL_BACKOFF_START", "INITIAL_SEARCH_START", "FINAL_BACKOFF_START",
              "RISE_SEARCH_START", "FALL_SEARCH_START", "INDEX_ONLY_START",
              "FINAL_MOVE_START"}
SearchWait == {"INITIAL_BACKOFF_WAIT", "INITIAL_SEARCH_WAIT", "FINAL_BACKOFF_WAIT",
               "RISE_SEARCH_WAIT", "FALL_SEARCH_WAIT", "INDEX_SEARCH_WAIT"}
HomeState == MoveStart \cup SearchWait \cup
             {"IDLE", "START", "UNLOCK", "UNLOCK_WAIT", "SET_COARSE_POSITION",
              "SET_SWITCH_POSITION", "INDEX_SEARCH_START", "SET_INDEX_POSITION",
              "FINAL_MOVE_WAIT", "LOCK", "LOCK_WAIT", "FINISHED", "ABORT"}

SequenceState == {"IDLE", "START", "DO_ONE_JOINT", "DO_ONE_SEQUENCE",
                  "START_JOINTS", "WAIT_JOINTS"}

\* home_local_data
HomeData == [home_state : HomeState, homing : BOOLEAN, homed : BOOLEAN,
             at_home : BOOLEAN, joint_in_sequence : BOOLEAN,
             index_enable : BOOLEAN, pause_timer : 0 .. HomeDelay,
             home_sequence : Int, home_flags : SUBSET HomeFlag]

\* The part of emcmot_joint_t the properties tell apart: the free-mode planner
\* (free_tp.enable, free_tp.active), the ENABLE flag that drives the amplifier,
\* the limit switch inputs of this period and the unlock output of an indexer.
JointData == [tp_enable : BOOLEAN, tp_active : BOOLEAN, enable : BOOLEAN,
              on_limit : BOOLEAN, unlock : BOOLEAN]

Request == [enabling : BOOLEAN, coordinating : BOOLEAN, teleoperating : BOOLEAN]

MotionFlag == [enable : BOOLEAN, coord : BOOLEAN, teleop : BOOLEAN, inpos : BOOLEAN]

MotionStates == {"DISABLED", "FREE", "TELEOP", "COORD"}

\* One servo period is the command handler, then the parts of emcmotController
\* in the order it calls them.  "joint" and "homing" are do_homing(): at the head
\* of its loop, and inside it for joint cycle.jno with home switch cycle.home_sw.
Phase == {"command", "inputs", "mode", "wheels", "sequence", "joint", "homing", "plan"}
Cycle == [phase : Phase, jno : 0 .. NumJoints, home_sw : BOOLEAN, homing_flag : BOOLEAN]

At(p) == [phase |-> p, jno |-> 0, home_sw |-> FALSE, homing_flag |-> FALSE]

Abs(n) == IF n < 0 THEN -n ELSE n

\* checkAllHomed() over the homing data hd
AllHomed(hd) == \A j \in ActiveJoint : hd[j].homed

\* free_tp.enable = 0 for the joints in js
StopPlanner(js) == [j \in Joint |-> IF j \in js THEN [joint[j] EXCEPT !.tp_enable = FALSE]
                                    ELSE joint[j]]

MotionStateTypeOK ==
    /\ H \in [Joint -> HomeData]
    /\ sequence_state \in SequenceState
    /\ home_sequence \in Int
    /\ homing_active \in BOOLEAN
    /\ sync_final_move \subseteq Int
    /\ joint \in [Joint -> JointData]
    /\ request \in Request
    /\ flag \in MotionFlag
    /\ motion_state \in MotionStates
    /\ cycle \in Cycle
    /\ asked \subseteq Joint
=============================================================================
