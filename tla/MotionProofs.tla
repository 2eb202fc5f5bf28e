---------------------------- MODULE MotionProofs ----------------------------
(***************************************************************************)
(* Theorems about module Motion for any number of joints, any homing       *)
(* configuration, any set of commands and any hardware events.             *)
(***************************************************************************)
EXTENDS MotionProperties, TLAPS

\* The mode of the last set_operating_mode() agrees with the flags it set; only
\* the ENABLE flag may have been cleared since (inverse kinematics that failed).
ModeAgrees ==
    /\ motion_state = "FREE" => ~flag.coord /\ ~flag.teleop
    /\ motion_state = "COORD" => flag.coord
    /\ motion_state = "TELEOP" => flag.teleop

\* do_homing() is inside its loop only for a joint there is.
InLoop == cycle.phase = "homing" => cycle.jno \in Joint

IInv == TypeOK /\ InPosition /\ ModeAgrees /\ InLoop

\* What every step but get_pos_cmds() does to the planners: it keeps free_tp.active.
PlannersKept ==
    /\ joint' \in [Joint -> JointData]
    /\ \A k \in Joint : joint'[k].tp_active = joint[k].tp_active

-----------------------------------------------------------------------------
(* Lemmas about the operators that change one record of H or of joint. *)

USE NumJointsAssumption DEF NumJointsAssumption

(* Stopping planners keeps their type and does not bring them to rest. *)
LEMMA StopPlannerKeeps ==
    ASSUME joint \in [Joint -> JointData], NEW js, joint' = StopPlanner(js)
    PROVE  PlannersKept
BY DEF StopPlanner, JointData, PlannersKept

(* Starting a move does not move the joint yet. *)
LEMMA StartMoveKeeps ==
    ASSUME joint \in [Joint -> JointData], NEW j \in Joint, StartMove(j)
    PROVE  PlannersKept
BY DEF StartMove, JointData, PlannersKept

(* A step that leaves the joints alone. *)
LEMMA SameKeeps ==
    ASSUME joint \in [Joint -> JointData], UNCHANGED joint
    PROVE  PlannersKept
BY DEF PlannersKept

(* A change of home_state keeps the type of the homing data. *)
LEMMA GotoType ==
    ASSUME H \in [Joint -> HomeData], NEW j \in Joint, NEW s \in HomeState, Goto(j, s)
    PROVE  H' \in [Joint -> HomeData]
BY DEF Goto, HomeData

(* The servo thread goes on with a later joint or with the same one. *)
LEMMA NextJointType ==
    ASSUME cycle \in Cycle, cycle.jno \in Joint, NextJoint
    PROVE  cycle' \in Cycle /\ InLoop'
<1>1. cycle.jno + 1 \in 0 .. NumJoints  BY DEF Joint
<1>2. cycle' \in Cycle  BY <1>1 DEF NextJoint, Cycle, Phase
<1>3. cycle'.phase = "joint"  BY DEF NextJoint, Cycle
<1>4. QED  BY <1>2, <1>3 DEF InLoop

(* The start of a part of the servo period other than the inside of a loop. *)
LEMMA AtType ==
    ASSUME NEW p \in Phase, p # "homing", cycle' = At(p)
    PROVE  cycle' \in Cycle /\ InLoop'
BY DEF At, Cycle, InLoop, Phase

-----------------------------------------------------------------------------
(* do_homing(): every case of its switch statement keeps the types. *)

InCase(j) == TypeOK /\ j \in Joint /\ cycle.phase = "homing" /\ cycle.jno = j

CaseOK == /\ H' \in [Joint -> HomeData] /\ PlannersKept
          /\ request' \in Request /\ sync_final_move' \subseteq Int
          /\ cycle' \in Cycle /\ InLoop'

(* The types a case of do_homing() may rely on. *)
LEMMA InCaseTypes ==
    ASSUME NEW j, InCase(j)
    PROVE  /\ j \in Joint /\ H \in [Joint -> HomeData] /\ joint \in [Joint -> JointData]
           /\ cycle \in Cycle /\ cycle.jno \in Joint
BY DEF InCase, TypeOK, MotionStateTypeOK

(* Going on with the same joint, or with the next one, keeps the place valid. *)
LEMMA CyclePlace ==
    ASSUME NEW j, InCase(j), Immediate \/ NextJoint
    PROVE  cycle' \in Cycle /\ InLoop'
<1>1. CASE Immediate  BY <1>1, InCaseTypes DEF Immediate, InLoop
<1>2. CASE NextJoint  BY <1>2, InCaseTypes, NextJointType
<1>3. QED  BY <1>1, <1>2

(* What is left to show for a case that leaves request and sync_final_move alone. *)
LEMMA PlainCase ==
    ASSUME NEW j, InCase(j), Immediate \/ NextJoint, UNCHANGED <<request, sync_final_move>>,
           H' \in [Joint -> HomeData], PlannersKept
    PROVE  CaseOK
BY CyclePlace DEF CaseOK, InCase, TypeOK, MotionStateTypeOK

(* Stopping the joint that is being homed. *)
LEMMA StopJointKeeps ==
    ASSUME NEW j, InCase(j), StopJoint(j)
    PROVE  PlannersKept
BY InCaseTypes, StopPlannerKeeps DEF StopJoint

(* Case HomeIdle of do_homing(). *)
LEMMA CaseHomeIdle ==
    ASSUME NEW j, InCase(j), HomeIdle(j)
    PROVE  CaseOK
BY InCaseTypes, SameKeeps, PlainCase DEF HomeIdle

(* Case HomeStart of do_homing(). *)
LEMMA CaseHomeStart ==
    ASSUME NEW j, InCase(j), HomeStart(j)
    PROVE  CaseOK
<1> DEFINE skip == (Flagged(j, "IS_SHARED") /\ cycle.home_sw) \/ NoRehome(H[j])
<1>1. CASE skip
  <2>0. Goto(j, "IDLE") /\ NextJoint /\ UNCHANGED joint  BY <1>1 DEF HomeStart
  <2>1. H' \in [Joint -> HomeData]  BY <2>0, InCaseTypes, GotoType DEF HomeState
  <2>2. QED  BY <2>0, <2>1, InCaseTypes, SameKeeps, PlainCase DEF HomeStart
<1>2. CASE ~skip
  <2>1. H' \in [Joint -> HomeData]
    <3> DEFINE a == Flagged(j, "ABSOLUTE_ENCODER")
               f == IF a THEN H[j].home_flags \ {"IS_SHARED"} ELSE H[j].home_flags
               s == CASE a -> "SET_SWITCH_POSITION"
                      [] ~a /\ Flagged(j, "UNLOCK_FIRST") -> "UNLOCK"
                      [] OTHER -> "UNLOCK_WAIT"
               h == [H[j] EXCEPT !.homing = TRUE, !.homed = a, !.at_home = FALSE,
                                 !.pause_timer = 0, !.home_flags = f, !.home_state = s]
    <3>1. H' = [H EXCEPT ![j] = h]  BY <1>2 DEF HomeStart
    <3>2. H[j] \in HomeData  BY InCaseTypes
    <3>3. s \in HomeState  BY DEF HomeState
    <3>4. a \in BOOLEAN  BY DEF Flagged
    <3>5. f \in SUBSET HomeFlag  BY <3>2 DEF HomeData
    <3>6. 0 \in 0 .. HomeDelay  BY ConfigAssumption DEF ConfigAssumption
    <3> HIDE DEF a, f, s
    <3>7. h \in HomeData  BY <3>2, <3>3, <3>4, <3>5, <3>6 DEF HomeData
    <3>8. QED  BY <3>1, <3>7, InCaseTypes
  <2>2. PlannersKept /\ (Immediate \/ NextJoint)
    BY <1>2, StopJointKeeps DEF HomeStart
  <2>3. QED  BY <2>1, <2>2, PlainCase DEF HomeStart
<1>3. QED  BY <1>1, <1>2

(* Case HomeUnlock of do_homing(). *)
LEMMA CaseHomeUnlock ==
    ASSUME NEW j, InCase(j), HomeUnlock(j)
    PROVE  CaseOK
<1>1. H' \in [Joint -> HomeData]  BY InCaseTypes, GotoType DEF HomeUnlock, HomeState
<1>2. PlannersKept  BY InCaseTypes DEF HomeUnlock, PlannersKept, JointData
<1>3. QED  BY <1>1, <1>2, PlainCase DEF HomeUnlock

(* Case HomeUnlockWait of do_homing(). *)
LEMMA CaseHomeUnlockWait ==
    ASSUME NEW j, InCase(j), HomeUnlockWait(j)
    PROVE  CaseOK
<1>1. CASE UNCHANGED H /\ NextJoint
  BY <1>1, InCaseTypes, SameKeeps, PlainCase DEF HomeUnlockWait
<1>2. CASE ~(UNCHANGED H /\ NextJoint)
  <2>1. SearchVel[j] \in {-1, 0, 1} /\ LatchVel[j] \in {-1, 0, 1}
    BY InCaseTypes, ConfigAssumption DEF ConfigAssumption
  <2>2. PICK s \in HomeState : Goto(j, s) /\ (Immediate \/ NextJoint)
    BY <1>2, <2>1 DEF HomeUnlockWait, HomeState, MoveStart
  <2>3. H' \in [Joint -> HomeData]  BY <2>2, InCaseTypes, GotoType
  <2>4. QED  BY <2>2, <2>3, InCaseTypes, SameKeeps, PlainCase DEF HomeUnlockWait
<1>3. QED  BY <1>1, <1>2

(* A reset pause timer is in its range. *)
LEMMA ZeroDelay == 0 \in 0 .. HomeDelay
BY ConfigAssumption DEF ConfigAssumption

(* Case WaitForStop of do_homing(). *)
LEMMA CaseWaitForStop ==
    ASSUME NEW j, InCase(j), WaitForStop(j)
    PROVE  CaseOK
<1>1. H' \in [Joint -> HomeData]  BY InCaseTypes, ZeroDelay DEF WaitForStop, HomeData
<1>2. QED  BY <1>1, InCaseTypes, SameKeeps, PlainCase DEF WaitForStop

(* The pause timer is counted up only below HOME_DELAY. *)
LEMMA CasePause ==
    ASSUME NEW j, InCase(j), Pause(j)
    PROVE  CaseOK
<1>1. H[j].pause_timer + 1 \in 0 .. HomeDelay
  BY InCaseTypes, ConfigAssumption DEF Pause, Paused, HomeData, ConfigAssumption
<1>2. H' \in [Joint -> HomeData]  BY <1>1, InCaseTypes DEF Pause, HomeData
<1>3. QED  BY <1>2, InCaseTypes, SameKeeps, PlainCase DEF Pause

(* Case BeginMove of do_homing(). *)
LEMMA CaseBeginMove ==
    ASSUME NEW j, InCase(j), NEW s, NEW wait \in HomeState, NEW wrong \in BOOLEAN,
           BeginMove(j, s, wait, wrong)
    PROVE  CaseOK
<1> DEFINE next == IF wrong THEN "IDLE" ELSE wait
           armed == H[j].index_enable \/ s = "INDEX_ONLY_START"
           h == [H[j] EXCEPT !.home_state = next, !.pause_timer = 0, !.index_enable = armed]
<1>1. H' = [H EXCEPT ![j] = h]  BY InCaseTypes DEF BeginMove, HomeData
<1>2. next \in HomeState /\ armed \in BOOLEAN  BY InCaseTypes DEF HomeState, HomeData
<1> HIDE DEF next, armed
<1>3. H' \in [Joint -> HomeData]
  <2>1. H[j] \in HomeData  BY InCaseTypes
  <2>2. h \in HomeData  BY <1>2, <2>1, ZeroDelay DEF HomeData
  <2>3. QED  BY <1>1, <2>2, InCaseTypes
<1>4. PlannersKept  BY InCaseTypes, SameKeeps, StartMoveKeeps DEF BeginMove
<1>5. QED  BY <1>3, <1>4, PlainCase DEF BeginMove

(* The states that start a move. *)
LEMMA CaseStartsMove ==
    ASSUME NEW j, InCase(j),
           \/ HomeInitialBackoffStart(j) \/ HomeFinalBackoffStart(j) \/ HomeRiseSearchStart(j)
           \/ HomeFallSearchStart(j) \/ HomeIndexOnlyStart(j)
    PROVE  CaseOK
<1>1. cycle.home_sw \in BOOLEAN  BY InCaseTypes DEF Cycle
<1>2. SearchWait \subseteq HomeState  BY DEF HomeState
<1>3. {"INITIAL_BACKOFF_WAIT", "FINAL_BACKOFF_WAIT", "RISE_SEARCH_WAIT", "FALL_SEARCH_WAIT",
       "INDEX_SEARCH_WAIT"} \subseteq HomeState
  BY <1>2 DEF SearchWait
<1>4. QED
  BY <1>1, <1>3, CaseBeginMove
  DEF HomeInitialBackoffStart, HomeFinalBackoffStart, HomeRiseSearchStart,
      HomeFallSearchStart, HomeIndexOnlyStart

(* Case HomeInitialSearchStart of do_homing(). *)
LEMMA CaseHomeInitialSearchStart ==
    ASSUME NEW j, InCase(j), HomeInitialSearchStart(j)
    PROVE  CaseOK
<1>1. CASE ~cycle.home_sw
  <2>1. BeginMove(j, "INITIAL_SEARCH_START", "INITIAL_SEARCH_WAIT", FALSE)
    BY <1>1 DEF HomeInitialSearchStart
  <2>2. "INITIAL_SEARCH_WAIT" \in HomeState  BY DEF HomeState, SearchWait
  <2>3. QED  BY <2>1, <2>2, CaseBeginMove
<1>2. CASE cycle.home_sw
  <2>1. /\ H' = [H EXCEPT ![j].home_state = "INITIAL_BACKOFF_START", ![j].pause_timer = 0]
        /\ Immediate /\ UNCHANGED <<joint, request, sync_final_move>>
    BY <1>2 DEF HomeInitialSearchStart
  <2>2. "INITIAL_BACKOFF_START" \in HomeState  BY DEF HomeState, MoveStart
  <2>3. H' \in [Joint -> HomeData]  BY <2>1, <2>2, InCaseTypes, ZeroDelay DEF HomeData
  <2>4. QED  BY <2>1, <2>3, InCaseTypes, SameKeeps, PlainCase
<1>3. QED  BY <1>1, <1>2

(* Case AwaitSwitch of do_homing(). *)
LEMMA CaseAwaitSwitch ==
    ASSUME NEW j, InCase(j), NEW s, NEW found, NEW stop, NEW next \in HomeState,
           AwaitSwitch(j, s, found, stop, next)
    PROVE  CaseOK
<1>1. \/ UNCHANGED H
      \/ Goto(j, next)
      \/ Goto(j, "ABORT")
  BY DEF AwaitSwitch
<1>2. H' \in [Joint -> HomeData]  BY <1>1, InCaseTypes, GotoType DEF HomeState
<1>3. PlannersKept  BY InCaseTypes, SameKeeps, StopJointKeeps DEF AwaitSwitch
<1>4. QED  BY <1>2, <1>3, PlainCase DEF AwaitSwitch

(* The states that wait for a switch or a pulse. *)
LEMMA CaseAwaits ==
    ASSUME NEW j, InCase(j),
           \/ HomeInitialBackoffWait(j) \/ HomeInitialSearchWait(j) \/ HomeFinalBackoffWait(j)
           \/ HomeRiseSearchWait(j) \/ HomeFallSearchWait(j) \/ HomeIndexSearchWait(j)
    PROVE  CaseOK
<1>1. MoveStart \subseteq HomeState  BY DEF HomeState
<1>2. {"INITIAL_SEARCH_START", "RISE_SEARCH_START", "SET_COARSE_POSITION",
       "SET_INDEX_POSITION"} \subseteq HomeState
  BY <1>1 DEF MoveStart, HomeState
<1>3. AfterLatch(j) \in HomeState  BY DEF AfterLatch, HomeState
<1>4. QED
  BY <1>2, <1>3, CaseAwaitSwitch
  DEF HomeInitialBackoffWait, HomeInitialSearchWait, HomeFinalBackoffWait,
      HomeRiseSearchWait, HomeFallSearchWait, HomeIndexSearchWait

(* Case HomeIndexSearchStart of do_homing(). *)
LEMMA CaseHomeIndexSearchStart ==
    ASSUME NEW j, InCase(j), HomeIndexSearchStart(j)
    PROVE  CaseOK
<1> DEFINE next == IF MoveFailed(j) THEN "ABORT" ELSE "INDEX_SEARCH_WAIT"
<1>1. next \in HomeState  BY DEF HomeState, SearchWait
<1> DEFINE h == [H[j] EXCEPT !.index_enable = TRUE, !.home_state = next]
<1>2. H' = [H EXCEPT ![j] = h]  BY InCaseTypes DEF HomeIndexSearchStart, HomeData
<1> HIDE DEF next
<1>3. H' \in [Joint -> HomeData]
  <2>1. H[j] \in HomeData  BY InCaseTypes
  <2>2. h \in HomeData  BY <1>1, <2>1 DEF HomeData
  <2>3. QED  BY <1>2, <2>2, InCaseTypes
<1>4. PlannersKept  BY InCaseTypes, SameKeeps, StopJointKeeps DEF HomeIndexSearchStart
<1>5. QED  BY <1>3, <1>4, PlainCase DEF HomeIndexSearchStart

(* Case HomeSetPosition of do_homing(). *)
LEMMA CaseHomeSetPosition ==
    ASSUME NEW j, InCase(j), HomeSetPosition(j)
    PROVE  CaseOK
<1>1. SearchVel[j] \in {-1, 0, 1} /\ LatchVel[j] \in {-1, 0, 1}
  BY InCaseTypes, ConfigAssumption DEF ConfigAssumption
<1>2. \E s \in {"FINAL_BACKOFF_START", "FALL_SEARCH_START", "FINISHED", "FINAL_MOVE_START"} :
         H' = [H EXCEPT ![j].home_state = s, ![j].homed = @ \/ s = "FINISHED"]
  BY <1>1 DEF HomeSetPosition, In
<1>3. {"FINAL_BACKOFF_START", "FALL_SEARCH_START", "FINISHED", "FINAL_MOVE_START"} \subseteq HomeState
  BY DEF HomeState, MoveStart
<1>4. PICK s \in HomeState, b \in BOOLEAN :
         H' = [H EXCEPT ![j].home_state = s, ![j].homed = b]
  BY <1>2, <1>3, InCaseTypes DEF HomeData
<1>5. H' \in [Joint -> HomeData]  BY <1>4, InCaseTypes DEF HomeData
<1>6. QED  BY <1>5, InCaseTypes, SameKeeps, PlainCase DEF HomeSetPosition

(* Case HomeFinalMoveStart of do_homing(). *)
LEMMA CaseHomeFinalMoveStart ==
    ASSUME NEW j, InCase(j), HomeFinalMoveStart(j)
    PROVE  CaseOK
<1>1. "FINAL_MOVE_WAIT" \in HomeState  BY DEF HomeState
<1>2. H' = H \/ H' = [H EXCEPT ![j].home_state = "FINAL_MOVE_WAIT", ![j].pause_timer = 0]
  BY DEF HomeFinalMoveStart
<1>3. H' \in [Joint -> HomeData]  BY <1>1, <1>2, InCaseTypes, ZeroDelay DEF HomeData
<1>4. PlannersKept  BY InCaseTypes, SameKeeps, StartMoveKeeps DEF HomeFinalMoveStart
<1>5. sync_final_move' \subseteq Int
  BY DEF HomeFinalMoveStart, InCase, TypeOK, MotionStateTypeOK
<1>6. request' \in Request  BY DEF HomeFinalMoveStart, InCase, TypeOK, MotionStateTypeOK
<1>7. QED  BY <1>3, <1>4, <1>5, <1>6, CyclePlace DEF HomeFinalMoveStart, CaseOK

(* Case HomeFinalMoveWait of do_homing(). *)
LEMMA CaseHomeFinalMoveWait ==
    ASSUME NEW j, InCase(j), HomeFinalMoveWait(j)
    PROVE  CaseOK
<1>1. joint[j].tp_active \in BOOLEAN  BY InCaseTypes DEF JointData
<1>2. /\ UNCHANGED H \/ Goto(j, "LOCK") \/ Goto(j, "ABORT")
      /\ UNCHANGED joint \/ StopJoint(j)
      /\ Immediate \/ NextJoint
  BY <1>1 DEF HomeFinalMoveWait
<1>3. H' \in [Joint -> HomeData]  BY <1>2, InCaseTypes, GotoType DEF HomeState
<1>4. PlannersKept  BY <1>2, InCaseTypes, SameKeeps, StopJointKeeps
<1>5. QED  BY <1>2, <1>3, <1>4, PlainCase DEF HomeFinalMoveWait

(* Case HomeLock of do_homing(). *)
LEMMA CaseHomeLock ==
    ASSUME NEW j, InCase(j), HomeLock(j)
    PROVE  CaseOK
<1>1. H' \in [Joint -> HomeData]  BY InCaseTypes, GotoType DEF HomeLock, HomeState
<1>2. joint' = joint \/ joint' = [joint EXCEPT ![j].unlock = FALSE]  BY DEF HomeLock
<1>3. PlannersKept
  <2>1. CASE joint' = joint  BY <2>1, InCaseTypes, SameKeeps
  <2>2. CASE joint' = [joint EXCEPT ![j].unlock = FALSE]
    BY <2>2, InCaseTypes DEF PlannersKept, JointData
  <2>3. QED  BY <1>2, <2>1, <2>2
<1>4. QED  BY <1>1, <1>3, PlainCase DEF HomeLock

(* Case HomeLockWait of do_homing(). *)
LEMMA CaseHomeLockWait ==
    ASSUME NEW j, InCase(j), HomeLockWait(j)
    PROVE  CaseOK
<1>1. H' = H \/ Goto(j, "FINISHED")  BY DEF HomeLockWait
<1>2. H' \in [Joint -> HomeData]  BY <1>1, InCaseTypes, GotoType DEF HomeState
<1>3. QED  BY <1>2, InCaseTypes, SameKeeps, PlainCase DEF HomeLockWait

(* Case HomeFinished of do_homing(). *)
LEMMA CaseHomeFinished ==
    ASSUME NEW j, InCase(j), HomeFinished(j)
    PROVE  CaseOK
<1> DEFINE h == [H[j] EXCEPT !.homing = FALSE, !.homed = TRUE, !.at_home = TRUE,
                             !.home_state = "IDLE", !.joint_in_sequence = FALSE]
<1>1. H' \in [Joint -> HomeData]
  <2>1. H' = [H EXCEPT ![j] = h]  BY DEF HomeFinished
  <2>2. "IDLE" \in HomeState /\ H[j] \in HomeData  BY InCaseTypes DEF HomeState
  <2>3. h \in HomeData  BY <2>2 DEF HomeData
  <2>4. QED  BY <2>1, <2>3, InCaseTypes
<1>2. joint' = joint \/ joint' = StopPlanner(Joint)  BY DEF HomeFinished
<1>3. PlannersKept  BY <1>2, InCaseTypes, SameKeeps, StopPlannerKeeps
<1>4. cycle' = cycle \/ cycle' = [cycle EXCEPT !.homing_flag = FALSE]  BY DEF HomeFinished
<1>5. cycle' \in Cycle /\ InLoop'  BY <1>4, InCaseTypes DEF Cycle, InLoop
<1>6. request \in Request /\ sync_final_move \subseteq Int
  BY DEF InCase, TypeOK, MotionStateTypeOK
<1>7. \/ request' = request
      \/ request' = [request EXCEPT !.teleoperating = TRUE, !.coordinating = FALSE]
  BY DEF HomeFinished
<1>8. request' \in Request  BY <1>6, <1>7 DEF Request
<1>9. QED  BY <1>1, <1>3, <1>5, <1>6, <1>8 DEF CaseOK, HomeFinished

(* Case HomeAbort of do_homing(). *)
LEMMA CaseHomeAbort ==
    ASSUME NEW j, InCase(j), HomeAbort(j)
    PROVE  CaseOK
<1> DEFINE h == [H[j] EXCEPT !.homing = FALSE, !.homed = FALSE, !.at_home = FALSE,
                             !.joint_in_sequence = FALSE, !.home_state = "IDLE",
                             !.index_enable = FALSE]
<1>1. H' \in [Joint -> HomeData]
  <2>1. H' = [H EXCEPT ![j] = h]  BY DEF HomeAbort
  <2>2. "IDLE" \in HomeState /\ H[j] \in HomeData  BY InCaseTypes DEF HomeState
  <2>3. h \in HomeData  BY <2>2 DEF HomeData
  <2>4. QED  BY <2>1, <2>3, InCaseTypes
<1>2. QED  BY <1>1, StopJointKeeps, PlainCase DEF HomeAbort

(* Every case of do_homing() keeps the types. *)
LEMMA CaseAny ==
    ASSUME NEW j, InCase(j), HomeStep(j)
    PROVE  CaseOK
BY CaseHomeIdle, CaseHomeStart, CaseHomeUnlock, CaseHomeUnlockWait, CaseWaitForStop, CasePause,
   CaseStartsMove, CaseAwaits, CaseHomeInitialSearchStart, CaseHomeIndexSearchStart,
   CaseHomeSetPosition, CaseHomeFinalMoveStart, CaseHomeFinalMoveWait, CaseHomeLock,
   CaseHomeLockWait, CaseHomeFinished, CaseHomeAbort
DEF HomeStep

-----------------------------------------------------------------------------
(* Each part of the servo period preserves the inductive invariant. *)

(* The types of the invariant, one by one. *)
LEMMA Types ==
    ASSUME IInv
    PROVE  /\ H \in [Joint -> HomeData] /\ joint \in [Joint -> JointData]
           /\ sequence_state \in SequenceState /\ home_sequence \in Int
           /\ homing_active \in BOOLEAN /\ sync_final_move \subseteq Int
           /\ request \in Request /\ flag \in MotionFlag /\ motion_state \in MotionStates
           /\ cycle \in Cycle /\ asked \subseteq Joint
BY DEF IInv, TypeOK, MotionStateTypeOK

(* The active joints are joints. *)
LEMMA ActiveIsJoint == ActiveJoint \subseteq Joint
BY ConfigAssumption DEF ConfigAssumption

(* A step that keeps the flags and the mode and brings no planner into motion. *)
LEMMA ModeKept ==
    ASSUME IInv, PlannersKept, UNCHANGED <<flag, motion_state>>
    PROVE  InPosition' /\ ModeAgrees'
BY ActiveIsJoint DEF IInv, InPosition, ModeAgrees, Standing, PlannersKept

(* do_homing() keeps the invariant. *)
LEMMA DoHomingStep ==
    ASSUME IInv, DoHoming
    PROVE  IInv'
<1>1. CASE cycle.phase = "homing" /\ HomeStep(cycle.jno) /\ UNCHANGED homing_active
  <2>1. InCase(cycle.jno)  BY <1>1 DEF IInv, InLoop, InCase
  <2>2. CaseOK  BY <1>1, <2>1, CaseAny
  <2>3. TypeOK'  BY <1>1, <2>2, Types DEF CaseOK, PlannersKept, DoHoming, TypeOK, MotionStateTypeOK
  <2>4. InPosition' /\ ModeAgrees'  BY <2>2, ModeKept DEF CaseOK, DoHoming
  <2>5. QED  BY <2>2, <2>3, <2>4 DEF IInv, CaseOK
<1>2. ASSUME cycle.jno \in Joint, SkipJoint(cycle.jno) \/ EnterJoint(cycle.jno),
             UNCHANGED <<H, joint, request, homing_active, sync_final_move>>
      PROVE  IInv'
  <2>1. cycle' \in Cycle /\ InLoop'
    <3>1. CASE SkipJoint(cycle.jno)  BY <1>2, <3>1, Types, NextJointType DEF SkipJoint
    <3>2. CASE EnterJoint(cycle.jno)
      <4>1. PICK sw \in BOOLEAN, b \in BOOLEAN :
               cycle' = [cycle EXCEPT !.phase = "homing", !.home_sw = sw, !.homing_flag = b]
        BY <3>2, Types DEF EnterJoint, Cycle
      <4>2. cycle' \in Cycle  BY <4>1, Types DEF Cycle, Phase
      <4>3. cycle'.jno = cycle.jno  BY <4>1, Types DEF Cycle
      <4>4. QED  BY <1>2, <4>2, <4>3 DEF InLoop
    <3>3. QED  BY <1>2, <3>1, <3>2
  <2>2. TypeOK'  BY <1>2, <2>1, Types DEF DoHoming, TypeOK, MotionStateTypeOK
  <2>3. InPosition' /\ ModeAgrees'  BY <1>2, Types, SameKeeps, ModeKept DEF DoHoming
  <2>4. QED  BY <2>1, <2>2, <2>3 DEF IInv
<1>3. ASSUME EndHoming, UNCHANGED <<H, joint, request, sync_final_move>>
      PROVE  IInv'
  <2>1. cycle' \in Cycle /\ InLoop'  BY <1>3, AtType DEF EndHoming, Phase
  <2>2. homing_active' \in BOOLEAN  BY <1>3, Types DEF EndHoming, Cycle
  <2>3. TypeOK'  BY <1>3, <2>1, <2>2, Types DEF DoHoming, TypeOK, MotionStateTypeOK
  <2>4. InPosition' /\ ModeAgrees'  BY <1>3, Types, SameKeeps, ModeKept DEF DoHoming
  <2>5. QED  BY <2>1, <2>3, <2>4 DEF IInv
<1>4. QED  BY <1>1, <1>2, <1>3 DEF DoHoming

SequenceOK == /\ H' \in [Joint -> HomeData] /\ PlannersKept
              /\ sequence_state' \in SequenceState /\ home_sequence' \in Int
              /\ homing_active' \in BOOLEAN /\ sync_final_move' \subseteq Int

(* ABS() of an integer. *)
LEMMA AbsInt == \A n \in Int : Abs(n) \in Int
BY DEF Abs

(* Case START_JOINTS of do_homing_sequence() keeps the types. *)
LEMMA StartJointsOK ==
    ASSUME IInv, NEW hd \in [Joint -> HomeData], NEW hs \in Int, NEW active \in BOOLEAN,
           StartJoints(hd, hs, active)
    PROVE  /\ H' \in [Joint -> HomeData] /\ PlannersKept
           /\ sequence_state' \in SequenceState /\ home_sequence' \in Int
           /\ homing_active' \in BOOLEAN
<1>1. PICK js : H' = [j \in Joint |-> IF j \in js THEN [hd[j] EXCEPT !.home_state = "START"] ELSE hd[j]]
  BY DEF StartJoints
<1>2. "START" \in HomeState  BY DEF HomeState
<1>3. \A j \in Joint : [hd[j] EXCEPT !.home_state = "START"] \in HomeData
  BY <1>2 DEF HomeData
<1>4. H' \in [Joint -> HomeData]  BY <1>1, <1>3
<1>5. PICK ks : joint' = StopPlanner(ks)  BY DEF StartJoints
<1>6. PlannersKept  BY <1>5, Types, StopPlannerKeeps
<1>7. QED  BY <1>4, <1>6 DEF StartJoints, SequenceState

(* Case START of do_homing_sequence() keeps the types. *)
LEMMA BeginSequenceOK ==
    ASSUME IInv, NEW hd \in [Joint -> HomeData], NEW hs \in Int, BeginSequence(hd, hs)
    PROVE  SequenceOK
<1> DEFINE rehomed == {j \in Joint : hd[j].joint_in_sequence /\ ~NoRehome(hd[j])}
           synced  == {-hd[j].home_sequence : j \in {k \in rehomed : hd[k].home_sequence < 0}}
           hd1     == [j \in Joint |->
                         [hd[j] EXCEPT !.homed = @ /\ j \notin rehomed,
                                       !.home_sequence = IF @ \in synced THEN -@ ELSE @]]
           hs1     == IF \A j \in Joint : hd1[j].home_sequence = -1 THEN 1 ELSE hs
           running == \E j \in Joint : /\ hd1[j].joint_in_sequence
                                       /\ hd1[j].home_state \notin {"IDLE", "START"}
<1>1. hd1 \in [Joint -> HomeData]
  <2>1. SUFFICES ASSUME NEW j \in Joint
                 PROVE  [hd[j] EXCEPT !.homed = @ /\ j \notin rehomed,
                                      !.home_sequence = IF @ \in synced THEN -@ ELSE @] \in HomeData
    OBVIOUS
  <2> HIDE DEF rehomed, synced
  <2>2. hd[j] \in HomeData  OBVIOUS
  <2>3. (hd[j].homed /\ j \notin rehomed) \in BOOLEAN  BY <2>2 DEF HomeData
  <2>4. (IF hd[j].home_sequence \in synced THEN -hd[j].home_sequence
                                           ELSE hd[j].home_sequence) \in Int
    BY <2>2 DEF HomeData
  <2>5. QED  BY <2>2, <2>3, <2>4 DEF HomeData
<1>2. hs1 \in Int
  <2> HIDE DEF hd1
  <2>1. QED  OBVIOUS
<1>3. CASE running
  <2>1. H' = hd1 /\ home_sequence' = hs1 /\ sequence_state' = "IDLE" /\ sync_final_move' = {}
        /\ UNCHANGED <<joint, homing_active>>
    BY <1>3 DEF BeginSequence
  <2>2. QED  BY <1>1, <1>2, <2>1, Types, SameKeeps DEF SequenceOK, SequenceState
<1>4. CASE ~running
  <2>1. StartJoints(hd1, hs1, TRUE) /\ sync_final_move' = {}  BY <1>4 DEF BeginSequence
  <2> HIDE DEF hd1, hs1
  <2>2. QED  BY <1>1, <1>2, <2>1, StartJointsOK DEF SequenceOK
<1>5. QED  BY <1>3, <1>4

(* Choosing the joints of a sequence keeps the types. *)
LEMMA InSequenceType ==
    ASSUME IInv, NEW js
    PROVE  InSequence(js) \in [Joint -> HomeData]
<1>1. \A j \in Joint : [H[j] EXCEPT !.joint_in_sequence = j \in js] \in HomeData
  <2>1. TAKE j \in Joint
  <2>2. H[j] \in HomeData  BY Types
  <2>3. \A b \in BOOLEAN : [H[j] EXCEPT !.joint_in_sequence = b] \in HomeData
    BY <2>2 DEF HomeData
  <2>4. (j \in js) \in BOOLEAN  OBVIOUS
  <2>5. QED  BY <2>3, <2>4
<1>2. QED  BY <1>1 DEF InSequence

(* do_homing_sequence() keeps the invariant. *)
LEMMA DoHomingSequenceStep ==
    ASSUME IInv, DoHomingSequence
    PROVE  IInv'
<1>1. SequenceOK
  <2>1. CASE SequenceFirstPass \/ SequenceIdle
    BY <2>1, Types, SameKeeps DEF SequenceFirstPass, SequenceIdle, SequenceOK, SequenceState,
                                  sequence_vars
  <2>2. ASSUME NEW j \in Joint
        PROVE  Abs(H[j].home_sequence) \in Int
    BY Types, AbsInt DEF HomeData
  <2>3. CASE SequenceDoOneJoint
    BY <2>2, <2>3, Types, InSequenceType, BeginSequenceOK DEF SequenceDoOneJoint
  <2>4. CASE SequenceDoOneSequence
    BY <2>2, <2>4, InSequenceType, BeginSequenceOK DEF SequenceDoOneSequence
  <2>5. CASE SequenceStart
    BY <2>5, InSequenceType, BeginSequenceOK DEF SequenceStart
  <2>6. CASE SequenceStartJoints
    BY <2>6, Types, StartJointsOK DEF SequenceStartJoints, SequenceOK
  <2>7. CASE SequenceWaitJoints
    <3>1. /\ UNCHANGED <<H, joint, sync_final_move>>
          /\ sequence_state' \in SequenceState
          /\ homing_active' \in BOOLEAN
      BY <2>7, Types DEF SequenceWaitJoints, SequenceState
    <3>2. home_sequence' = home_sequence \/ home_sequence' = home_sequence + 1
      BY <2>7 DEF SequenceWaitJoints
    <3>3. QED  BY <3>1, <3>2, Types, SameKeeps DEF SequenceOK
  <2>8. QED  BY <2>1, <2>3, <2>4, <2>5, <2>6, <2>7 DEF DoHomingSequence
<1>2. cycle' \in Cycle /\ InLoop'
  <2>1. cycle' = At("joint") \/ cycle' = At("plan")  BY DEF DoHomingSequence
  <2>2. QED  BY <2>1, AtType DEF Phase
<1>3. UNCHANGED <<request, flag, motion_state, asked>>  BY DEF DoHomingSequence, mode_vars
<1>4. TypeOK'  BY <1>1, <1>2, <1>3, Types DEF SequenceOK, PlannersKept, TypeOK, MotionStateTypeOK
<1>5. QED  BY <1>1, <1>2, <1>3, <1>4, ModeKept DEF IInv, SequenceOK

(* What a command may change: flags and mode are left to the controller. *)
CommandOK == /\ H' \in [Joint -> HomeData] /\ PlannersKept /\ request' \in Request
             /\ sequence_state' \in SequenceState /\ asked' \subseteq Joint
             /\ UNCHANGED <<home_sequence, homing_active, sync_final_move, flag, motion_state>>

(* Aborting the home of some joints keeps the types. *)
LEMMA AbortHomeType ==
    ASSUME IInv, NEW js, AbortHome(js)
    PROVE  H' \in [Joint -> HomeData]
<1>1. "ABORT" \in HomeState  BY DEF HomeState
<1>2. \A j \in Joint : [H[j] EXCEPT !.home_state = "ABORT"] \in HomeData
  BY <1>1, Types DEF HomeData
<1>3. QED  BY <1>2, Types DEF AbortHome

(* Starting a jog keeps the types and moves nothing yet. *)
LEMMA StartJogOK ==
    ASSUME IInv, NEW js, StartJog(js)
    PROVE  H' \in [Joint -> HomeData] /\ PlannersKept
<1>1. \A j \in Joint : [H[j] EXCEPT !.homed = FALSE] \in HomeData  BY Types DEF HomeData
<1>2. H' \in [Joint -> HomeData]  BY <1>1, Types DEF StartJog
<1>3. \A j \in Joint : /\ [joint[j] EXCEPT !.tp_enable = TRUE] \in JointData
                       /\ [joint[j] EXCEPT !.tp_enable = TRUE].tp_active = joint[j].tp_active
  BY Types DEF JointData
<1>4. PlannersKept  BY <1>3, Types DEF StartJog, PlannersKept
<1>5. QED  BY <1>2, <1>4

(* EMCMOT_ABORT and EMCMOT_JOINT_ABORT. *)
LEMMA CommandAborts ==
    ASSUME IInv, Abort \/ (\E j \in Joint : JointAbort(j))
    PROVE  CommandOK
<1>1. PICK js : AbortJoints(js)  BY DEF Abort, JointAbort
<1>2. PlannersKept  BY <1>1, Types, SameKeeps, StopPlannerKeeps DEF AbortJoints
<1>3. H' \in [Joint -> HomeData]  BY <1>1, Types, AbortHomeType DEF AbortJoints
<1>4. QED  BY <1>1, <1>2, <1>3, Types DEF AbortJoints, CommandOK, sequence_vars, mode_vars

(* EMCMOT_FREE, _COORD, _TELEOP, _ENABLE and _DISABLE. *)
LEMMA CommandModes ==
    ASSUME IInv, Free \/ Coord \/ Teleop \/ Enable \/ Disable
    PROVE  CommandOK
<1>1. PlannersKept  BY Types, SameKeeps, StopPlannerKeeps
                    DEF Free, Coord, Teleop, Enable, Disable, ChangeEnabling
<1>2. request' \in Request
  <2>1. AllHomed(H) \in BOOLEAN  BY DEF AllHomed
  <2>2. CASE Free  BY <2>2, Types DEF Free, Request
  <2>3. CASE Coord  BY <2>1, <2>3, Types DEF Coord, Request
  <2>4. CASE Teleop  BY <2>4, Types DEF Teleop, Request
  <2>5. CASE Enable \/ Disable
    <3>1. PICK e \in BOOLEAN, c \in BOOLEAN, t \in BOOLEAN :
             request' = [enabling |-> e, coordinating |-> c, teleoperating |-> t]
      BY <2>5, Types DEF Enable, Disable, ChangeEnabling, Request
    <3>2. QED  BY <3>1 DEF Request
  <2>6. QED  BY <2>2, <2>3, <2>4, <2>5
<1>3. QED  BY <1>1, <1>2, Types DEF Free, Coord, Teleop, Enable, Disable, ChangeEnabling, CommandOK,
                                    sequence_vars

(* The jogs of joints and axes. *)
LEMMA CommandJogs ==
    ASSUME IInv, AxisJog \/ (\E j \in Joint : Jog(j))
    PROVE  CommandOK
<1>1. H' \in [Joint -> HomeData] /\ PlannersKept
  BY Types, StopPlannerKeeps, StartJogOK DEF AxisJog, Jog
<1>2. QED  BY <1>1, Types DEF AxisJog, Jog, CommandOK, sequence_vars, mode_vars

(* EMCMOT_JOINT_HOME of one joint or all. *)
LEMMA CommandHomes ==
    ASSUME IInv, HomeAll \/ (\E j \in Joint : JointHome(j))
    PROVE  CommandOK
<1>1. CASE HomeAll
  <2>1. asked' \subseteq Joint  BY <1>1, Types DEF HomeAll, Ask, HomeAllJoints
  <2>2. QED  BY <1>1, <2>1, Types, SameKeeps DEF HomeAll, CommandOK, SequenceState, mode_vars
<1>2. ASSUME NEW j \in Joint, JointHome(j)
      PROVE  CommandOK
  <2>1. PICK js \in SUBSET Joint :
           H' = [k \in Joint |-> IF k \in js THEN [H[k] EXCEPT !.home_state = "START"] ELSE H[k]]
    BY <1>2 DEF JointHome
  <2>2. "START" \in HomeState  BY DEF HomeState
  <2>3. \A k \in Joint : [H[k] EXCEPT !.home_state = "START"] \in HomeData
    BY <2>2, Types DEF HomeData
  <2>4. H' \in [Joint -> HomeData]  BY <2>1, <2>3, Types
  <2>5. asked' \subseteq Joint
    <3>1. PICK ks \in SUBSET Joint : Ask(ks)  BY <1>2 DEF JointHome
    <3>2. QED  BY <3>1, Types DEF Ask
  <2>6. PlannersKept  BY <1>2, Types, StopPlannerKeeps DEF JointHome
  <2>7. QED  BY <1>2, <2>4, <2>5, <2>6, Types DEF JointHome, CommandOK, SequenceState, mode_vars
<1>3. QED  BY <1>1, <1>2

(* EMCMOT_JOINT_UNHOME and EMCMOT_UPDATE_JOINT_HOMING_PARAMS. *)
LEMMA CommandHomeData ==
    ASSUME IInv, (\E js : Unhome(js)) \/ (\E j \in Joint : UpdateHomingParams(j))
    PROVE  CommandOK
<1>1. ASSUME NEW js, Unhome(js)
      PROVE  CommandOK
  <2>1. \A k \in Joint : [H[k] EXCEPT !.homed = FALSE] \in HomeData  BY Types DEF HomeData
  <2>2. H' \in [Joint -> HomeData]  BY <1>1, <2>1, Types DEF Unhome
  <2>3. QED  BY <1>1, <2>2, Types, SameKeeps DEF Unhome, CommandOK, sequence_vars, mode_vars
<1>2. ASSUME NEW j \in Joint, UpdateHomingParams(j)
      PROVE  CommandOK
  <2>1. H' \in [Joint -> HomeData]
    BY <1>2, Types, EnvironmentAssumption DEF UpdateHomingParams, HomeData, EnvironmentAssumption
  <2>2. QED  BY <1>2, <2>1, Types, SameKeeps DEF UpdateHomingParams, CommandOK, sequence_vars, mode_vars
<1>3. QED  BY <1>1, <1>2

(* emcmotCommandHandler() keeps the invariant. *)
LEMMA HandleCommandStep ==
    ASSUME IInv, HandleCommand
    PROVE  IInv'
<1>1. CommandOK
  <2>1. CASE NoCommand  BY <2>1, Types, SameKeeps DEF NoCommand, CommandOK, sequence_vars, mode_vars
  <2>2. QED  BY <2>1, CommandAborts, CommandModes, CommandJogs, CommandHomes, CommandHomeData
             DEF HandleCommand
<1>2. cycle' = At("inputs")
  BY DEF HandleCommand, NoCommand, Accept, Abort, JointAbort, Free, Coord, Teleop, Jog, AxisJog,
         Enable, Disable, HomeAll, JointHome, Unhome, UpdateHomingParams
<1>3. cycle' \in Cycle /\ InLoop'  BY <1>2, AtType DEF Phase
<1>4. TypeOK'  BY <1>1, <1>3, Types DEF CommandOK, PlannersKept, TypeOK, MotionStateTypeOK
<1>5. QED  BY <1>1, <1>3, <1>4, ModeKept DEF IInv, CommandOK

(* Reading the inputs and checking for faults keeps the invariant. *)
LEMMA ReadInputsStep ==
    ASSUME IInv, ReadInputs
    PROVE  IInv'
<1>1. PICK limits \in SUBSET Choose("limit", ActiveJoint),
           indexed \in SUBSET Choose("index", {j \in Joint : H[j].index_enable}),
           probe \in {FALSE} \cup Choose("probe", {TRUE}),
           fault \in {FALSE} \cup Choose("fault", {TRUE}) :
        LET probed(j) == probe /\ j \in ActiveJoint
            enabled   == {j \in ActiveJoint : joint[j].enable}
            limited   == \E j \in enabled \cap limits : ~H[j].homing
        IN /\ H' = [j \in Joint |->
                       [H[j] EXCEPT !.index_enable = @ /\ j \notin indexed,
                                    !.home_state = IF probed(j) /\ H[j].homing THEN "ABORT" ELSE @]]
           /\ joint' = [j \in Joint |->
                           [joint[j] EXCEPT !.on_limit = j \in limits,
                                            !.tp_enable = @ /\ ~probed(j)]]
           /\ request' = [request EXCEPT !.enabling =
                             @ /\ ~limited /\ ~(fault /\ (flag.enable \/ enabled # {}))]
  BY Zenon DEF ReadInputs
<1>2. H' \in [Joint -> HomeData]
  <2>1. \A j \in Joint, b \in BOOLEAN, s \in HomeState :
           [H[j] EXCEPT !.index_enable = b, !.home_state = s] \in HomeData
    BY Types DEF HomeData
  <2>2. \A j \in Joint : H[j].home_state \in HomeState /\ H[j].index_enable \in BOOLEAN
    BY Types DEF HomeData
  <2>3. "ABORT" \in HomeState  BY DEF HomeState
  <2>4. QED  BY <1>1, <2>1, <2>2, <2>3
<1>3. PlannersKept
  <2>1. ASSUME NEW j \in Joint
        PROVE  joint'[j] \in JointData /\ joint'[j].tp_active = joint[j].tp_active
    <3> DEFINE b == j \in limits
               c == joint[j].tp_enable /\ ~(probe /\ j \in ActiveJoint)
    <3>1. joint'[j] = [joint[j] EXCEPT !.on_limit = b, !.tp_enable = c]  BY <1>1
    <3>2. joint[j] \in JointData  BY Types
    <3>3. b \in BOOLEAN /\ c \in BOOLEAN  BY <3>2 DEF JointData
    <3> HIDE DEF b, c
    <3>4. QED  BY <3>1, <3>2, <3>3 DEF JointData
  <2>2. joint' = [j \in Joint |-> joint'[j]]  BY <1>1
  <2>3. QED  BY <2>1, <2>2 DEF PlannersKept
<1>4. request' \in Request
  <2>1. PICK b \in BOOLEAN : request' = [request EXCEPT !.enabling = b]
    BY <1>1, Types DEF Request
  <2>2. QED  BY <2>1, Types DEF Request
<1>5. asked' \subseteq Joint  BY Types DEF ReadInputs
<1>6. cycle' \in Cycle /\ InLoop'  BY AtType DEF ReadInputs, Phase
<1>7. UNCHANGED <<sequence_state, home_sequence, homing_active, sync_final_move, flag, motion_state>>
  BY DEF ReadInputs, sequence_vars
<1>8. TypeOK'  BY <1>2, <1>3, <1>4, <1>5, <1>6, <1>7, Types DEF PlannersKept, TypeOK, MotionStateTypeOK
<1>9. QED  BY <1>3, <1>6, <1>7, <1>8, ModeKept DEF IInv

(* The jog wheels keep the invariant. *)
LEMMA HandleJogWheelsStep ==
    ASSUME IInv, HandleJogWheels
    PROVE  IInv'
<1>1. H' \in [Joint -> HomeData] /\ PlannersKept
  BY Types, StopPlannerKeeps, StartJogOK DEF HandleJogWheels
<1>2. cycle' \in Cycle /\ InLoop'  BY AtType DEF HandleJogWheels, Phase
<1>3. UNCHANGED <<sequence_state, home_sequence, homing_active, sync_final_move, request, flag,
                  motion_state, asked>>
  BY DEF HandleJogWheels, sequence_vars, mode_vars
<1>4. TypeOK'  BY <1>1, <1>2, <1>3, Types DEF PlannersKept, TypeOK, MotionStateTypeOK
<1>5. QED  BY <1>1, <1>2, <1>3, <1>4, ModeKept DEF IInv

(* Enabling and disabling keep the types and move nothing. *)
LEMMA SwitchEnableOK ==
    ASSUME IInv, NEW js \in [Joint -> JointData], SwitchEnable(H, js),
           \A k \in Joint : js[k].tp_active = joint[k].tp_active
    PROVE  H' \in [Joint -> HomeData] /\ PlannersKept /\ asked' \subseteq Joint
<1>1. H' \in [Joint -> HomeData]
  <2>1. "IDLE" \in HomeState  BY DEF HomeState
  <2>2. \A k \in Joint : [H[k] EXCEPT !.homing = FALSE, !.home_state = "IDLE"] \in HomeData
    BY <2>1, Types DEF HomeData
  <2>3. QED  BY <2>2, Types DEF SwitchEnable
<1>2. PlannersKept
  <2>1. ASSUME NEW k \in Joint
        PROVE  joint'[k] \in JointData /\ joint'[k].tp_active = joint[k].tp_active
    <3> DEFINE switching == request.enabling # flag.enable
               b == js[k].tp_enable /\ ~(switching /\ flag.enable)
               c == IF switching /\ k \in ActiveJoint THEN request.enabling ELSE js[k].enable
    <3>1. joint'[k] = [js[k] EXCEPT !.tp_enable = b, !.enable = c]  BY DEF SwitchEnable
    <3>2. js[k] \in JointData  OBVIOUS
    <3>3. b \in BOOLEAN /\ c \in BOOLEAN  BY <3>2, Types DEF JointData, Request
    <3> HIDE DEF b, c
    <3>4. QED  BY <3>1, <3>2, <3>3 DEF JointData
  <2>2. joint' = [k \in Joint |-> joint'[k]]  BY DEF SwitchEnable
  <2>3. QED  BY <2>1, <2>2 DEF PlannersKept
<1>3. asked' \subseteq Joint  BY Types DEF SwitchEnable
<1>4. QED  BY <1>1, <1>2, <1>3

(* set_operating_mode() enters coordinated or teleop mode only in position. *)
LEMMA ModeEntered ==
    ASSUME IInv, SetOperatingMode
    PROVE  /\ flag' \in MotionFlag /\ request' \in Request
           /\ flag'.inpos = flag.inpos
           /\ flag'.coord \/ flag'.teleop => flag.inpos \/ flag.coord \/ flag.teleop
<1>1. CASE EnterTeleop
  <2>1. flag' = [flag EXCEPT !.enable = request.enabling, !.teleop = flag.inpos]
        /\ request' = [request EXCEPT !.teleoperating = flag.inpos]
    BY <1>1 DEF EnterTeleop
  <2>2. QED  BY <2>1, Types DEF MotionFlag, Request
<1>2. CASE ChangeMode
  <2>1. PICK leave \in BOOLEAN :
           /\ flag' = [flag EXCEPT !.enable = request.enabling,
                                   !.teleop = @ /\ ~(flag.inpos /\ leave),
                                   !.coord = IF flag.inpos THEN request.coordinating ELSE @]
           /\ request' = [request EXCEPT !.coordinating = IF flag.inpos THEN @ ELSE flag.coord]
    BY <1>2, Zenon DEF ChangeMode
  <2>2. PICK t \in BOOLEAN, c \in BOOLEAN :
           /\ flag' = [flag EXCEPT !.enable = request.enabling, !.teleop = t, !.coord = c]
           /\ t => flag.teleop
           /\ c => flag.inpos \/ flag.coord
    BY <2>1, Types DEF MotionFlag, Request
  <2>3. PICK r \in BOOLEAN : request' = [request EXCEPT !.coordinating = r]
    BY <2>1, Types DEF MotionFlag, Request
  <2>4. request' \in Request  BY <2>3, Types DEF Request
  <2>5. QED  BY <2>2, <2>4, Types DEF MotionFlag, Request
<1>3. QED  BY <1>1, <1>2 DEF SetOperatingMode

(* set_operating_mode() keeps the invariant. *)
LEMMA SetOperatingModeStep ==
    ASSUME IInv, SetOperatingMode
    PROVE  IInv'
<1>1. H' \in [Joint -> HomeData] /\ PlannersKept /\ asked' \subseteq Joint
  <2>1. StopPlanner(Joint) \in [Joint -> JointData]
        /\ \A k \in Joint : StopPlanner(Joint)[k].tp_active = joint[k].tp_active
    BY Types DEF StopPlanner, JointData
  <2>2. SwitchEnable(H, joint) \/ SwitchEnable(H, StopPlanner(Joint))
    BY DEF SetOperatingMode, EnterTeleop, ChangeMode
  <2>3. QED  BY <2>1, <2>2, Types, SwitchEnableOK
<1>2. motion_state' = ModeOf(flag') /\ UNCHANGED <<sequence_state, home_sequence, homing_active,
                                                   sync_final_move>>
  BY DEF SetOperatingMode, sequence_vars
<1>3. motion_state' \in MotionStates /\ ModeAgrees'
  BY <1>2, ModeEntered DEF ModeOf, MotionFlag, MotionStates, ModeAgrees
<1>4. InPosition'
  BY <1>1, ModeEntered, ActiveIsJoint DEF IInv, InPosition, Standing, PlannersKept
<1>5. cycle' \in Cycle /\ InLoop'  BY AtType DEF SetOperatingMode, Phase
<1>6. TypeOK'
  BY <1>1, <1>2, <1>3, <1>5, ModeEntered, Types DEF PlannersKept, TypeOK, MotionStateTypeOK
<1>7. QED  BY <1>3, <1>4, <1>5, <1>6 DEF IInv

(* In free mode get_pos_cmds() recomputes which planners move and INPOS with them. *)
LEMMA PlanFreeOK ==
    ASSUME IInv, PlanFree
    PROVE  /\ H' \in [Joint -> HomeData] /\ joint' \in [Joint -> JointData]
           /\ request' \in Request /\ flag' \in MotionFlag
           /\ flag'.coord = flag.coord /\ flag'.teleop = flag.teleop
           /\ InPosition'
<1>1. PICK moving \in SUBSET ActiveJoint :
         /\ joint' = [j \in Joint |-> [joint[j] EXCEPT !.on_limit = FALSE,
                                        !.tp_active = IF j \in ActiveJoint THEN j \in moving ELSE @]]
         /\ H' = [j \in Joint |-> IF j \in moving THEN [H[j] EXCEPT !.at_home = FALSE] ELSE H[j]]
         /\ flag' = [flag EXCEPT !.inpos = moving = {}]
  BY Zenon DEF PlanFree
<1>2. \A j \in Joint : [H[j] EXCEPT !.at_home = FALSE] \in HomeData  BY Types DEF HomeData
<1>3. H' \in [Joint -> HomeData]  BY <1>1, <1>2, Types
<1>4. ASSUME NEW j \in Joint
      PROVE  joint'[j] \in JointData /\ (j \in ActiveJoint => joint'[j].tp_active = (j \in moving))
  <2> DEFINE b == IF j \in ActiveJoint THEN j \in moving ELSE joint[j].tp_active
  <2>1. joint'[j] = [joint[j] EXCEPT !.on_limit = FALSE, !.tp_active = b]  BY <1>1
  <2>2. joint[j] \in JointData  BY Types
  <2>3. b \in BOOLEAN /\ (j \in ActiveJoint => b = (j \in moving))
    <3>1. CASE j \in ActiveJoint
      <4>1. b = (j \in moving)  BY <3>1, Zenon
      <4>2. (j \in moving) \in BOOLEAN  OBVIOUS
      <4>3. QED  BY <4>1, <4>2, Zenon
    <3>2. CASE j \notin ActiveJoint  BY <3>2, <2>2 DEF JointData
    <3>3. QED  BY <3>1, <3>2
  <2> HIDE DEF b
  <2>4. joint'[j] \in JointData /\ joint'[j].tp_active = b  BY <2>1, <2>2, <2>3 DEF JointData
  <2>5. QED  BY <2>3, <2>4
<1>5. joint' = [j \in Joint |-> joint'[j]]  BY <1>1
<1>6. joint' \in [Joint -> JointData]  BY <1>4, <1>5
<1>7. PICK b \in BOOLEAN : flag' = [flag EXCEPT !.inpos = b] /\ (b => moving = {})  BY <1>1
<1>8. flag' \in MotionFlag /\ flag'.coord = flag.coord /\ flag'.teleop = flag.teleop
      /\ (flag'.inpos => moving = {})
  BY <1>7, Types DEF MotionFlag
<1>9. ~flag.coord /\ ~flag.teleop  BY DEF IInv, ModeAgrees, PlanFree
<1>10. moving = {} => Standing'  BY <1>4, ActiveIsJoint DEF Standing
<1>11. InPosition'  BY <1>8, <1>9, <1>10 DEF InPosition
<1>12. QED  BY <1>3, <1>6, <1>8, <1>11, Types DEF PlanFree

(* The limit switch inputs are read anew in every period. *)
LEMMA InputsForgotten ==
    ASSUME IInv, joint' = [j \in Joint |-> [joint[j] EXCEPT !.on_limit = FALSE]]
    PROVE  PlannersKept
BY Types DEF JointData, PlannersKept

(* get_pos_cmds() keeps the invariant. *)
LEMMA GetPosCmdsStep ==
    ASSUME IInv, GetPosCmds
    PROVE  IInv'
<1>1. /\ H' \in [Joint -> HomeData] /\ joint' \in [Joint -> JointData]
      /\ request' \in Request /\ flag' \in MotionFlag
      /\ flag'.coord = flag.coord /\ flag'.teleop = flag.teleop
      /\ InPosition'
  <2>1. CASE PlanFree  BY <2>1, PlanFreeOK
  <2>2. CASE PlanCartesian
    <3>1. PlannersKept  BY <2>2, InputsForgotten DEF PlanCartesian
    <3>2. Standing  BY <2>2 DEF PlanCartesian, IInv, ModeAgrees, InPosition
    <3>3. InPosition'  BY <3>1, <3>2, ActiveIsJoint DEF InPosition, Standing, PlannersKept
    <3>4. PICK d \in BOOLEAN, e \in BOOLEAN, g \in BOOLEAN :
             /\ flag' = [flag EXCEPT !.inpos = d, !.enable = e]
             /\ request' = [request EXCEPT !.enabling = g]
      BY <2>2, Types DEF PlanCartesian, MotionFlag, Request, Choose
    <3>5. QED  BY <2>2, <3>1, <3>3, <3>4, Types DEF PlanCartesian, MotionFlag, Request, PlannersKept
  <2>3. CASE PlanDisabled
    <3>1. PlannersKept  BY <2>3, InputsForgotten DEF PlanDisabled
    <3>2. InPosition'
      BY <2>3, <3>1, ActiveIsJoint DEF PlanDisabled, IInv, InPosition, Standing, PlannersKept
    <3>3. QED  BY <2>3, <3>1, <3>2, Types DEF PlanDisabled, PlannersKept
  <2>4. QED  BY <2>1, <2>2, <2>3 DEF GetPosCmds
<1>2. UNCHANGED <<sequence_state, home_sequence, homing_active, sync_final_move, motion_state, asked>>
  BY DEF GetPosCmds, sequence_vars
<1>3. cycle' \in Cycle /\ InLoop'  BY AtType DEF GetPosCmds, Phase
<1>4. ModeAgrees'  BY <1>1, <1>2 DEF IInv, ModeAgrees
<1>5. TypeOK'  BY <1>1, <1>2, <1>3, Types DEF TypeOK, MotionStateTypeOK
<1>6. QED  BY <1>1, <1>3, <1>4, <1>5 DEF IInv

-----------------------------------------------------------------------------
(* The invariant holds when the ini file has been read. *)
LEMMA InitIInv ==
    ASSUME Init
    PROVE  IInv
<1>1. H \in [Joint -> HomeData]
  <2>1. "IDLE" \in HomeState  BY DEF HomeState
  <2>2. HomeSequence \in [Joint -> Int] /\ HomeFlags \in [Joint -> SUBSET HomeFlag]
    BY ConfigAssumption DEF ConfigAssumption
  <2>3. QED  BY <2>1, <2>2, ZeroDelay DEF Init, HomeData
<1>2. joint \in [Joint -> JointData]  BY DEF Init, JointData
<1>3. cycle \in Cycle /\ cycle.phase # "homing"  BY DEF Init, At, Cycle, Phase
<1>4. request \in Request /\ flag \in MotionFlag /\ motion_state \in MotionStates
  BY DEF Init, Request, MotionFlag, MotionStates
<1>5. TypeOK
  <2>1. sequence_state \in SequenceState /\ home_sequence \in Int  BY DEF Init, SequenceState
  <2>2. homing_active \in BOOLEAN  BY Zenon DEF Init
  <2>3. sync_final_move \subseteq Int /\ asked \subseteq Joint  BY DEF Init
  <2>4. QED  BY <1>1, <1>2, <1>3, <1>4, <2>1, <2>2, <2>3 DEF TypeOK, MotionStateTypeOK
<1>6. Standing  BY ActiveIsJoint DEF Init, Standing
<1>7. QED  BY <1>3, <1>5, <1>6 DEF IInv, InPosition, ModeAgrees, InLoop, Init

(* The invariant is inductive. *)
LEMMA NextIInv ==
    ASSUME IInv, [Next]_vars
    PROVE  IInv'
<1>1. CASE Next
  BY <1>1, HandleCommandStep, ReadInputsStep, SetOperatingModeStep, HandleJogWheelsStep,
     DoHomingSequenceStep, DoHomingStep, GetPosCmdsStep
  DEF Next
<1>2. CASE UNCHANGED vars
  BY <1>2 DEF vars, sequence_vars, mode_vars, IInv, TypeOK, MotionStateTypeOK, InPosition, Standing,
              ModeAgrees, InLoop
<1>3. QED  BY <1>1, <1>2

(* The variables of the servo thread keep their types, for any number of joints and
   any configuration; the pause timer of homing.c never exceeds HOME_DELAY. *)
THEOREM TypeCorrect == Spec => []TypeOK
<1>1. IInv => TypeOK  BY DEF IInv
<1>2. QED  BY <1>1, InitIInv, NextIInv, PTL DEF Spec

(* get_pos_cmds() and set_operating_mode() keep the INPOS flag truthful: with INPOS
   set, or outside free mode, no free-mode planner moves an active joint. *)
THEOREM InPositionHolds == Spec => []InPosition
<1>1. IInv => InPosition  BY DEF IInv
<1>2. QED  BY <1>1, InitIInv, NextIInv, PTL DEF Spec

(* set_operating_mode() never changes between free, coordinated and teleop mode
   while a free-mode planner moves an active joint. *)
THEOREM ModeChangesOnlyStanding == Spec => ModeChangesStanding
<1> DEFINE Changes == motion_state' # motion_state /\ "DISABLED" \notin {motion_state, motion_state'}
<1>1. ASSUME IInv, Next, Changes
      PROVE  Standing
  <2>1. SetOperatingMode
    BY <1>1, Types
    DEF Next, HandleCommand, NoCommand, Abort, JointAbort, AbortJoints, Free, Coord, Teleop, Jog, AxisJog, Enable,
        Disable, ChangeEnabling, HomeAll, JointHome, Unhome, UpdateHomingParams, ReadInputs,
        HandleJogWheels, DoHomingSequence, DoHoming, GetPosCmds, mode_vars
  <2>2. motion_state' = ModeOf(flag')  BY <2>1 DEF SetOperatingMode
  <2>3. motion_state \in {"FREE", "COORD", "TELEOP"} /\ motion_state' \in {"FREE", "COORD", "TELEOP"}
    <3>1. motion_state' \in MotionStates
      BY <2>1, <1>1, SetOperatingModeStep DEF IInv, TypeOK, MotionStateTypeOK
    <3>2. QED  BY <1>1, <3>1, Types DEF MotionStates
  <2>4. flag.inpos \/ flag.coord \/ flag.teleop
    <3>1. CASE motion_state = "FREE"
      <4>1. flag'.coord \/ flag'.teleop
        BY <1>1, <2>2, <2>3, <3>1, <2>1, ModeEntered DEF ModeOf, MotionFlag
      <4>2. QED  BY <1>1, <2>1, <4>1, ModeEntered
    <3>2. CASE motion_state # "FREE"  BY <1>1, <2>3, <3>2 DEF IInv, ModeAgrees
    <3>3. QED  BY <3>1, <3>2
  <2>5. QED  BY <1>1, <2>4 DEF IInv, InPosition
<1>2. IInv /\ [Next]_vars => [Changes => Standing]_vars  BY <1>1
<1>3. QED  BY <1>2, InitIInv, NextIInv, PTL DEF Spec, ModeChangesStanding

(* When set_operating_mode() goes from coordinated to free mode, it leaves no
   free-mode planner enabled. *)
THEOREM FreeModeStartsStanding == Spec => FreeModeStartsStill
<1> DEFINE ToFree == motion_state = "COORD" /\ motion_state' = "FREE"
           Stopped == \A j \in Joint : joint'[j].tp_enable = FALSE
<1>1. ASSUME IInv, Next, ToFree
      PROVE  Stopped
  <2>1. SetOperatingMode
    BY <1>1, Types
    DEF Next, HandleCommand, NoCommand, Abort, JointAbort, AbortJoints, Free, Coord, Teleop, Jog, AxisJog, Enable,
        Disable, ChangeEnabling, HomeAll, JointHome, Unhome, UpdateHomingParams, ReadInputs,
        HandleJogWheels, DoHomingSequence, DoHoming, GetPosCmds, mode_vars
  <2>2. flag.coord = TRUE /\ flag \in MotionFlag  BY <1>1, Types DEF IInv, ModeAgrees, MotionFlag
  <2>3. ModeOf(flag') = "FREE"  BY <1>1, <2>1 DEF SetOperatingMode
  <2>4. ~flag'.coord
    <3>1. flag' \in MotionFlag
      BY <1>1, <2>1, SetOperatingModeStep DEF IInv, TypeOK, MotionStateTypeOK
    <3>2. QED  BY <2>3, <3>1 DEF ModeOf, MotionFlag
  <2>5. ~EnterTeleop  BY <2>2, <2>4 DEF EnterTeleop, MotionFlag
  <2>6. ChangeMode  BY <2>1, <2>5 DEF SetOperatingMode
  <2>7. flag.inpos /\ ~request.coordinating
    <3>1. flag'.coord = IF flag.inpos THEN request.coordinating ELSE flag.coord
      BY <2>2, <2>6 DEF ChangeMode, MotionFlag
    <3>2. QED  BY <2>2, <2>4, <3>1
  <2>8. SwitchEnable(H, StopPlanner(Joint))  BY <2>2, <2>6, <2>7 DEF ChangeMode
  <2>9. ASSUME NEW j \in Joint
        PROVE  joint'[j].tp_enable = FALSE
    <3>1. joint[j] \in JointData  BY <1>1, Types
    <3>2. StopPlanner(Joint)[j] = [joint[j] EXCEPT !.tp_enable = FALSE]  BY DEF StopPlanner
    <3> DEFINE p == StopPlanner(Joint)[j]
               switching == request.enabling # flag.enable
               b == p.tp_enable /\ ~(switching /\ flag.enable)
               e == IF switching /\ j \in ActiveJoint THEN request.enabling ELSE p.enable
    <3>3. joint'[j] = [p EXCEPT !.tp_enable = b, !.enable = e]  BY <2>8 DEF SwitchEnable
    <3>4. p.tp_enable = FALSE  BY <3>1, <3>2 DEF JointData
    <3>5. b = FALSE  BY <3>4, Zenon
    <3>6. "tp_enable" \in DOMAIN p  BY <3>1, <3>2 DEF JointData
    <3> HIDE DEF p, b, e
    <3>7. QED  BY <3>3, <3>5, <3>6
  <2>10. QED  BY <2>9
<1>2. IInv /\ [Next]_vars => [ToFree => Stopped]_vars  BY <1>1
<1>3. QED  BY <1>2, InitIInv, NextIInv, PTL DEF Spec, FreeModeStartsStill
=============================================================================
