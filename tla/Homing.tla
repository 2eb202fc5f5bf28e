------------------------------- MODULE Homing -------------------------------
(***************************************************************************)
(* homing.c: do_homing_sequence(), which starts the joints of one sequence *)
(* number after another, and do_homing(), the state machine of one joint.  *)
(* Each case of the two switch statements is an action.  do_homing() loops *)
(* over the joints; inside the loop immediate_state decides whether the    *)
(* same joint takes another step in this servo period.                     *)
(***************************************************************************)
EXTENDS MotionState

-----------------------------------------------------------------------------
(* do_homing_sequence() *)

\* The tail of cases START and START_JOINTS: start the joints of sequence number
\* hs among the joints in sequence, or end when there is none.
StartJoints(hd, hs, active) ==
    LET started == {j \in Joint : Abs(hd[j].home_sequence) = hs /\ hd[j].joint_in_sequence}
        busy    == started # {} \/ hs = 0
    IN /\ H' = [j \in Joint |-> IF j \in started
                                THEN [hd[j] EXCEPT !.home_state = "START"] ELSE hd[j]]
       /\ joint' = StopPlanner(started)
       /\ home_sequence' = hs
       /\ sequence_state' = IF busy THEN "WAIT_JOINTS" ELSE "IDLE"
       /\ homing_active' = (busy /\ active)

\* A joint that may not be homed again (an absolute encoder already homed).
NoRehome(h) == "NO_REHOME" \in h.home_flags /\ h.homed

\* Case START from its initialisations on, for the joints in sequence of hd.
BeginSequence(hd, hs) ==
    LET rehomed == {j \in Joint : hd[j].joint_in_sequence /\ ~NoRehome(hd[j])}
        synced  == {-hd[j].home_sequence : j \in {k \in rehomed : hd[k].home_sequence < 0}}
        hd1     == [j \in Joint |->
                      [hd[j] EXCEPT !.homed = @ /\ j \notin rehomed,
                                    !.home_sequence = IF @ \in synced THEN -@ ELSE @]]
        hs1     == IF \A j \in Joint : hd1[j].home_sequence = -1 THEN 1 ELSE hs
        running == \E j \in Joint : /\ hd1[j].joint_in_sequence
                                    /\ hd1[j].home_state \notin {"IDLE", "START"}
    IN /\ sync_final_move' = {}
       /\ IF running
          THEN /\ H' = hd1
               /\ home_sequence' = hs1
               /\ sequence_state' = "IDLE"
               /\ UNCHANGED <<joint, homing_active>>
          ELSE StartJoints(hd1, hs1, TRUE)

InSequence(js) == [j \in Joint |-> [H[j] EXCEPT !.joint_in_sequence = j \in js]]

\* Home-all takes in the joints that have a HOME_SEQUENCE.
HomeAllJoints == {j \in Joint : H[j].home_sequence <= 100}

Starting == {j \in Joint : H[j].home_state = "START"}

\* The loop over the joints leaves the number of the last one in home_sequence.
LastStarting(j) == j \in Starting /\ \A k \in Starting : k <= j

SequenceFirstPass ==
    /\ home_sequence = -1
    /\ sequence_state' = "IDLE"
    /\ home_sequence' = 0
    /\ UNCHANGED <<H, joint, homing_active, sync_final_move>>

SequenceIdle ==
    /\ home_sequence # -1
    /\ sequence_state = "IDLE"
    /\ UNCHANGED <<H, joint, sequence_vars>>

SequenceDoOneJoint ==
    LET already == {j \in Joint : H[j].joint_in_sequence}
        hd      == InSequence(already \cup Starting)
    IN /\ home_sequence # -1
       /\ sequence_state = "DO_ONE_JOINT"
       /\ \/ Starting = {} /\ BeginSequence(hd, home_sequence)
          \/ \E j \in Joint : LastStarting(j) /\ BeginSequence(hd, Abs(H[j].home_sequence))

\* Without a joint in START the sequence is not set and the case falls through
\* into START as a home-all.
SequenceDoOneSequence ==
    /\ home_sequence # -1
    /\ sequence_state = "DO_ONE_SEQUENCE"
    /\ \/ Starting = {} /\ BeginSequence(InSequence(HomeAllJoints), 0)
       \/ \E j \in Joint : LastStarting(j) /\ BeginSequence(InSequence(Starting),
                                                          Abs(H[j].home_sequence))

SequenceStart ==
    /\ home_sequence # -1
    /\ sequence_state = "START"
    /\ BeginSequence(InSequence(HomeAllJoints), 0)

SequenceStartJoints ==
    /\ home_sequence # -1
    /\ sequence_state = "START_JOINTS"
    /\ StartJoints(H, home_sequence, homing_active)
    /\ UNCHANGED sync_final_move

\* The loop over the joints ends at the first one that is idle and not at home.
SequenceWaitJoints ==
    LET current == {j \in Joint : /\ H[j].joint_in_sequence
                                  /\ Abs(H[j].home_sequence) = home_sequence}
        failed  == \E j \in current : H[j].home_state = "IDLE" /\ ~H[j].at_home
        seen    == \E j \in current : H[j].home_state # "IDLE"
    IN /\ home_sequence # -1
       /\ sequence_state = "WAIT_JOINTS"
       /\ sequence_state' = CASE failed -> "IDLE"
                              [] ~failed /\ ~seen -> "START_JOINTS"
                              [] OTHER -> "WAIT_JOINTS"
       /\ homing_active' = (homing_active /\ ~failed)
       /\ home_sequence' = IF failed \/ seen THEN home_sequence ELSE home_sequence + 1
       /\ UNCHANGED <<H, joint, sync_final_move>>

DoHomingSequence ==
    /\ cycle.phase = "sequence"
    /\ \/ SequenceFirstPass \/ SequenceIdle \/ SequenceDoOneJoint
       \/ SequenceDoOneSequence \/ SequenceStart \/ SequenceStartJoints
       \/ SequenceWaitJoints
    /\ cycle' = At(IF motion_state = "FREE" THEN "joint" ELSE "plan")
    /\ UNCHANGED <<mode_vars, asked>>

-----------------------------------------------------------------------------
(* do_homing() *)

\* Leave the do-while of this joint, or run the next state in the same period.
NextJoint == cycle' = [cycle EXCEPT !.phase = "joint", !.jno = @ + 1, !.home_sw = FALSE]
Immediate == UNCHANGED cycle

In(j, s) == H[j].home_state = s
Flagged(j, f) == f \in H[j].home_flags
Goto(j, s) == H' = [H EXCEPT ![j].home_state = s]
StopJoint(j) == joint' = StopPlanner({j})

\* home_start_move()
StartMove(j) == joint' = [joint EXCEPT ![j].tp_enable = TRUE]

\* The head of the loop over the joints: skip a joint, or read its home switch.
SkipJoint(j) ==
    /\ ~H[j].joint_in_sequence \/ j \notin ActiveJoint
    /\ NextJoint

\* Mutant: only the last joint counts as homing.
EnterJointLastOnly(j) ==
    /\ H[j].joint_in_sequence /\ j \in ActiveJoint
    /\ \E sw \in BOOLEAN :
          cycle' = [cycle EXCEPT !.phase = "homing", !.home_sw = sw,
                                 !.homing_flag = H[j].home_state # "IDLE"]

EnterJoint(j) ==
    /\ H[j].joint_in_sequence /\ j \in ActiveJoint
    /\ \E sw \in BOOLEAN :
          cycle' = [cycle EXCEPT !.phase = "homing", !.home_sw = sw,
                                 !.homing_flag = @ \/ H[j].home_state # "IDLE"]

\* Mutant: a sequence between two of its numbers is forgotten.
EndHomingForgetful ==
    /\ cycle.jno = NumJoints
    /\ homing_active' = cycle.homing_flag
    /\ cycle' = At("plan")

\* After the loop.
EndHoming ==
    /\ cycle.jno = NumJoints
    /\ homing_active' = (cycle.homing_flag \/ (homing_active /\ sequence_state # "IDLE"))
    /\ cycle' = At("plan")

HomeIdle(j) ==
    /\ In(j, "IDLE")
    /\ NextJoint
    /\ UNCHANGED <<H, joint, request, sync_final_move>>

HomeStart(j) ==
    LET absolute == Flagged(j, "ABSOLUTE_ENCODER")
        locked   == Flagged(j, "UNLOCK_FIRST")
    IN /\ In(j, "START")
       /\ IF (Flagged(j, "IS_SHARED") /\ cycle.home_sw) \/ NoRehome(H[j])
          THEN Goto(j, "IDLE") /\ NextJoint /\ UNCHANGED joint
          ELSE /\ H' = [H EXCEPT ![j] =
                          [@ EXCEPT !.homing = TRUE, !.homed = absolute, !.at_home = FALSE,
                                    !.pause_timer = 0,
                                    !.home_flags = IF absolute THEN H[j].home_flags \ {"IS_SHARED"}
                                                           ELSE H[j].home_flags,
                                    !.home_state = CASE absolute -> "SET_SWITCH_POSITION"
                                                     [] ~absolute /\ locked -> "UNLOCK"
                                                     [] OTHER -> "UNLOCK_WAIT"]]
               /\ StopJoint(j)
               /\ IF ~absolute /\ locked THEN NextJoint ELSE Immediate
       /\ UNCHANGED <<request, sync_final_move>>

HomeUnlock(j) ==
    /\ In(j, "UNLOCK")
    /\ joint' = [joint EXCEPT ![j].unlock = TRUE]
    /\ Goto(j, "UNLOCK_WAIT")
    /\ NextJoint
    /\ UNCHANGED <<request, sync_final_move>>

\* The is-unlocked input of a locking joint may have either value.
HomeUnlockWait(j) ==
    /\ In(j, "UNLOCK_WAIT")
    /\ \/ /\ Flagged(j, "UNLOCK_FIRST")
          /\ NextJoint
          /\ UNCHANGED H
       \/ LET next == CASE SearchVel[j] = 0 /\ LatchVel[j] = 0 -> "SET_SWITCH_POSITION"
                         [] SearchVel[j] = 0 /\ LatchVel[j] # 0 ->
                               IF Flagged(j, "USE_INDEX") THEN "INDEX_ONLY_START" ELSE "IDLE"
                         [] SearchVel[j] # 0 ->
                               IF LatchVel[j] # 0 THEN "INITIAL_SEARCH_START" ELSE "IDLE"
          IN /\ Goto(j, next)
             /\ IF next = "IDLE" THEN NextJoint ELSE Immediate
    /\ UNCHANGED <<joint, request, sync_final_move>>

\* The states that start a move first wait until the joint stands still ...
WaitForStop(j) ==
    /\ H[j].home_state \in MoveStart
    /\ joint[j].tp_active
    /\ H' = [H EXCEPT ![j].pause_timer = 0]
    /\ NextJoint
    /\ UNCHANGED <<joint, request, sync_final_move>>

\* ... and then for HOME_DELAY.  A joint of a negative sequence stops waiting as
\* soon as its sequence has been released for the final move.
Released(j) ==
    In(j, "FINAL_MOVE_START") /\ H[j].home_sequence < 0 /\ home_sequence \in sync_final_move

\* Mutant: one period too long.
PausedLonger(j) == H[j].pause_timer > HomeDelay

Paused(j) == H[j].pause_timer >= HomeDelay

Pause(j) ==
    /\ H[j].home_state \in MoveStart
    /\ ~joint[j].tp_active /\ ~Paused(j) /\ ~Released(j)
    /\ H' = [H EXCEPT ![j].pause_timer = @ + 1]
    /\ NextJoint
    /\ UNCHANGED <<joint, request, sync_final_move>>

\* Start the move of state s towards state wait, unless the switch is not where
\* the state needs it; then the home ends without an abort.
BeginMove(j, s, wait, wrongSwitch) ==
    /\ In(j, s)
    /\ ~joint[j].tp_active /\ Paused(j)
    /\ H' = [H EXCEPT ![j].home_state = IF wrongSwitch THEN "IDLE" ELSE wait,
                      ![j].pause_timer = 0,
                      ![j].index_enable = @ \/ s = "INDEX_ONLY_START"]
    /\ IF wrongSwitch THEN UNCHANGED joint ELSE StartMove(j)
    /\ NextJoint
    /\ UNCHANGED <<request, sync_final_move>>

HomeInitialBackoffStart(j) == BeginMove(j, "INITIAL_BACKOFF_START", "INITIAL_BACKOFF_WAIT", FALSE)
HomeFinalBackoffStart(j) == BeginMove(j, "FINAL_BACKOFF_START", "FINAL_BACKOFF_WAIT", ~cycle.home_sw)
HomeRiseSearchStart(j) == BeginMove(j, "RISE_SEARCH_START", "RISE_SEARCH_WAIT", cycle.home_sw)
HomeFallSearchStart(j) == BeginMove(j, "FALL_SEARCH_START", "FALL_SEARCH_WAIT", ~cycle.home_sw)
HomeIndexOnlyStart(j) == BeginMove(j, "INDEX_ONLY_START", "INDEX_SEARCH_WAIT", FALSE)

HomeInitialSearchStart(j) ==
    \/ /\ ~cycle.home_sw
       /\ BeginMove(j, "INITIAL_SEARCH_START", "INITIAL_SEARCH_WAIT", FALSE)
    \/ /\ cycle.home_sw
       /\ In(j, "INITIAL_SEARCH_START")
       /\ ~joint[j].tp_active /\ Paused(j)
       /\ H' = [H EXCEPT ![j].home_state = "INITIAL_BACKOFF_START", ![j].pause_timer = 0]
       /\ Immediate
       /\ UNCHANGED <<joint, request, sync_final_move>>

\* home_do_moving_checks(): a move that ends before its switch, or that hits a
\* limit which is not ignored, aborts the home.
LimitTrip(j) == joint[j].on_limit /\ ~Flagged(j, "IGNORE_LIMITS")
MoveFailed(j) == LimitTrip(j) \/ ~joint[j].tp_active

\* Wait in state s for found; then go to next, stopping the joint or not.
AwaitSwitch(j, s, found, stop, next) ==
    /\ In(j, s)
    /\ IF found
       THEN Goto(j, next) /\ Immediate /\ IF stop THEN StopJoint(j) ELSE UNCHANGED joint
       ELSE IF MoveFailed(j)
            THEN /\ Goto(j, "ABORT") /\ Immediate
                 /\ IF LimitTrip(j) THEN UNCHANGED joint ELSE StopJoint(j)
            ELSE NextJoint /\ UNCHANGED <<H, joint>>
    /\ UNCHANGED <<request, sync_final_move>>

HomeInitialBackoffWait(j) ==
    AwaitSwitch(j, "INITIAL_BACKOFF_WAIT", ~cycle.home_sw, TRUE, "INITIAL_SEARCH_START")
HomeInitialSearchWait(j) ==
    AwaitSwitch(j, "INITIAL_SEARCH_WAIT", cycle.home_sw, TRUE, "SET_COARSE_POSITION")
HomeFinalBackoffWait(j) ==
    AwaitSwitch(j, "FINAL_BACKOFF_WAIT", ~cycle.home_sw, TRUE, "RISE_SEARCH_START")

\* With an index pulse to find the joint keeps moving.
AfterLatch(j) == IF Flagged(j, "USE_INDEX") THEN "INDEX_SEARCH_START" ELSE "SET_SWITCH_POSITION"

HomeRiseSearchWait(j) ==
    AwaitSwitch(j, "RISE_SEARCH_WAIT", cycle.home_sw, ~Flagged(j, "USE_INDEX"), AfterLatch(j))
HomeFallSearchWait(j) ==
    AwaitSwitch(j, "FALL_SEARCH_WAIT", ~cycle.home_sw, ~Flagged(j, "USE_INDEX"), AfterLatch(j))
HomeIndexSearchWait(j) ==
    AwaitSwitch(j, "INDEX_SEARCH_WAIT", ~H[j].index_enable, TRUE, "SET_INDEX_POSITION")

HomeIndexSearchStart(j) ==
    /\ In(j, "INDEX_SEARCH_START")
    /\ H' = [H EXCEPT ![j].index_enable = TRUE,
                      ![j].home_state = IF MoveFailed(j) THEN "ABORT" ELSE "INDEX_SEARCH_WAIT"]
    /\ IF MoveFailed(j) /\ ~LimitTrip(j) THEN StopJoint(j) ELSE UNCHANGED joint
    /\ Immediate
    /\ UNCHANGED <<request, sync_final_move>>

\* The states that set the joint position; positions are not modelled.
HomeSetPosition(j) ==
    LET next == CASE In(j, "SET_COARSE_POSITION") ->
                       IF SearchVel[j] * LatchVel[j] > 0 THEN "FINAL_BACKOFF_START"
                                                         ELSE "FALL_SEARCH_START"
                  [] In(j, "SET_SWITCH_POSITION") ->
                       IF {"ABSOLUTE_ENCODER", "NO_FINAL_MOVE"} \subseteq H[j].home_flags
                       THEN "FINISHED" ELSE "FINAL_MOVE_START"
                  [] In(j, "SET_INDEX_POSITION") -> "FINAL_MOVE_START"
    IN /\ H[j].home_state \in {"SET_COARSE_POSITION", "SET_SWITCH_POSITION", "SET_INDEX_POSITION"}
       /\ H' = [H EXCEPT ![j].home_state = next, ![j].homed = @ \/ next = "FINISHED"]
       /\ Immediate
       /\ UNCHANGED <<joint, request, sync_final_move>>

\* A joint of the current negative sequence starts its final move only when all
\* joints of that sequence stand still before theirs.
Synchronized(j) == H[j].home_sequence < 0 /\ Abs(H[j].home_sequence) = home_sequence

\* Mutant: joints that stand still are taken to be ready.
AllReadyStanding ==
    \A k \in Joint : /\ H[k].joint_in_sequence
                     /\ Abs(H[k].home_sequence) = home_sequence
                     /\ ~Flagged(k, "ABSOLUTE_ENCODER")
                     => ~joint[k].tp_active

\* Mutant: a joint that was aborted and has left the sequence is waited for.
AllReadyAborted ==
    \A k \in Joint : /\ Abs(H[k].home_sequence) = home_sequence
                     /\ ~Flagged(k, "ABSOLUTE_ENCODER")
                     => In(k, "FINAL_MOVE_START") /\ ~joint[k].tp_active

AllReady ==
    \A k \in Joint : /\ H[k].joint_in_sequence
                     /\ Abs(H[k].home_sequence) = home_sequence
                     /\ ~Flagged(k, "ABSOLUTE_ENCODER")
                     => In(k, "FINAL_MOVE_START") /\ ~joint[k].tp_active

HomeFinalMoveStart(j) ==
    LET release == home_sequence \in sync_final_move \/ AllReady
    IN /\ In(j, "FINAL_MOVE_START")
       /\ ~joint[j].tp_active /\ (Paused(j) \/ Released(j))
       /\ IF Synchronized(j) /\ ~release
          THEN UNCHANGED <<H, joint, sync_final_move>>
          ELSE /\ H' = [H EXCEPT ![j].home_state = "FINAL_MOVE_WAIT", ![j].pause_timer = 0]
               /\ StartMove(j)
               /\ sync_final_move' = IF Synchronized(j) THEN sync_final_move \cup {home_sequence}
                                                        ELSE sync_final_move
       /\ NextJoint
       /\ UNCHANGED request

HomeFinalMoveWait(j) ==
    /\ In(j, "FINAL_MOVE_WAIT")
    /\ CASE ~joint[j].tp_active -> Goto(j, "LOCK") /\ StopJoint(j) /\ Immediate
         [] joint[j].tp_active /\ LimitTrip(j) -> Goto(j, "ABORT") /\ UNCHANGED joint /\ Immediate
         [] OTHER -> NextJoint /\ UNCHANGED <<H, joint>>
    /\ UNCHANGED <<request, sync_final_move>>

\* Mutant: the joint counts as homed before it is locked.
HomeLockEarly(j) ==
    /\ In(j, "LOCK")
    /\ H' = [H EXCEPT ![j].home_state = "LOCK_WAIT", ![j].homed = TRUE]
    /\ NextJoint
    /\ UNCHANGED <<joint, request, sync_final_move>>

HomeLock(j) ==
    /\ In(j, "LOCK")
    /\ Goto(j, "LOCK_WAIT")
    /\ IF Flagged(j, "UNLOCK_FIRST") THEN joint' = [joint EXCEPT ![j].unlock = FALSE] /\ NextJoint
                                     ELSE UNCHANGED joint /\ Immediate
    /\ UNCHANGED <<request, sync_final_move>>

HomeLockWait(j) ==
    /\ In(j, "LOCK_WAIT")
    /\ \/ Flagged(j, "UNLOCK_FIRST") /\ NextJoint /\ UNCHANGED H
       \/ Goto(j, "FINISHED") /\ Immediate
    /\ UNCHANGED <<joint, request, sync_final_move>>

\* The last joint to get home switches to teleop mode.
HomeFinished(j) ==
    LET hd == [H EXCEPT ![j] = [@ EXCEPT !.homing = FALSE, !.homed = TRUE, !.at_home = TRUE,
                                         !.home_state = "IDLE", !.joint_in_sequence = FALSE]]
    IN /\ In(j, "FINISHED")
       /\ H' = hd
       /\ IF AllHomed(hd)
          THEN /\ joint' = StopPlanner(Joint)
               /\ request' = [request EXCEPT !.teleoperating = TRUE, !.coordinating = FALSE]
               /\ cycle' = [cycle EXCEPT !.homing_flag = FALSE]
          ELSE UNCHANGED <<joint, request, cycle>>
       /\ UNCHANGED sync_final_move

\* Mutant: index-enable stays set.
HomeAbortArmed(j) ==
    /\ In(j, "ABORT")
    /\ H' = [H EXCEPT ![j] = [@ EXCEPT !.homing = FALSE, !.homed = FALSE, !.at_home = FALSE,
                                       !.joint_in_sequence = FALSE, !.home_state = "IDLE"]]
    /\ StopJoint(j)
    /\ Immediate
    /\ UNCHANGED <<request, sync_final_move>>

HomeAbort(j) ==
    /\ In(j, "ABORT")
    /\ H' = [H EXCEPT ![j] = [@ EXCEPT !.homing = FALSE, !.homed = FALSE, !.at_home = FALSE,
                                       !.joint_in_sequence = FALSE, !.home_state = "IDLE",
                                       !.index_enable = FALSE]]
    /\ StopJoint(j)
    /\ Immediate
    /\ UNCHANGED <<request, sync_final_move>>

\* One pass through the switch statement for joint j.
HomeStep(j) ==
    \/ HomeIdle(j) \/ HomeStart(j) \/ HomeUnlock(j) \/ HomeUnlockWait(j)
    \/ WaitForStop(j) \/ Pause(j)
    \/ HomeInitialBackoffStart(j) \/ HomeInitialBackoffWait(j)
    \/ HomeInitialSearchStart(j) \/ HomeInitialSearchWait(j)
    \/ HomeFinalBackoffStart(j) \/ HomeFinalBackoffWait(j)
    \/ HomeRiseSearchStart(j) \/ HomeRiseSearchWait(j)
    \/ HomeFallSearchStart(j) \/ HomeFallSearchWait(j)
    \/ HomeIndexOnlyStart(j) \/ HomeIndexSearchStart(j) \/ HomeIndexSearchWait(j)
    \/ HomeSetPosition(j) \/ HomeFinalMoveStart(j) \/ HomeFinalMoveWait(j)
    \/ HomeLock(j) \/ HomeLockWait(j) \/ HomeFinished(j) \/ HomeAbort(j)

\* The home of joint j begins, or is aborted, in this step.
Begins(j) == In(j, "START") /\ H'[j].home_state \notin {"START", "IDLE", "ABORT"}
Ends(j) == In(j, "ABORT") /\ H'[j].home_state = "IDLE"

DoHoming ==
    /\ \/ /\ cycle.phase = "homing"
          /\ HomeStep(cycle.jno)
          /\ UNCHANGED homing_active
       \/ /\ cycle.phase = "joint" /\ cycle.jno \in Joint
          /\ SkipJoint(cycle.jno) \/ EnterJoint(cycle.jno)
          /\ UNCHANGED <<H, joint, request, homing_active, sync_final_move>>
       \/ /\ cycle.phase = "joint"
          /\ EndHoming
          /\ UNCHANGED <<H, joint, request, sync_final_move>>
    /\ asked' = asked \ {j \in Joint : Begins(j) \/ Ends(j)}
    /\ UNCHANGED <<sequence_state, home_sequence, flag, motion_state>>
=============================================================================
