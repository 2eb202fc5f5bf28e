-------------------------- MODULE MotionProperties --------------------------
(***************************************************************************)
(* What is claimed of the servo thread of module Motion.  The first group  *)
(* holds; the second restates what comments and documents of the program   *)
(* say and the code does not keep.                                         *)
(***************************************************************************)
EXTENDS Motion

\* The state a command handler, the user interface and HAL see.
BetweenPeriods == cycle.phase = "command"

Standing == \A j \in ActiveJoint : ~joint[j].tp_active

\* do_homing() works on joint j whenever the mode is free.
BeingHomed(j) == H[j].home_state # "IDLE" /\ H[j].joint_in_sequence /\ j \in ActiveJoint

-----------------------------------------------------------------------------
(* Type correctness: the variables keep the types of their C counterparts;
   in particular pause_timer never runs past HOME_DELAY. *)
TypeOK == MotionStateTypeOK

(* The INPOS flag tells the truth in free mode, and a machine that left free
   mode did so with every free-mode planner at rest (get_pos_cmds() and
   set_operating_mode() of control.c keep this together). *)
InPosition == flag.inpos \/ flag.coord \/ flag.teleop => Standing

(* set_operating_mode() never changes between free, coordinated and teleop mode
   while the free-mode planner of an active joint is still moving it. *)
ModeChangesStanding ==
    [][(motion_state' # motion_state /\ "DISABLED" \notin {motion_state, motion_state'})
        => Standing]_vars

(* Leaving coordinated mode for free mode, set_operating_mode() leaves no
   free-mode planner enabled: no joint starts to move by the change of mode. *)
FreeModeStartsStill ==
    [][(motion_state = "COORD" /\ motion_state' = "FREE")
        => (\A j \in Joint : joint'[j].tp_enable = FALSE)]_vars

(* In free mode joint jogs are locked out (homing_active) for as long as
   do_homing() is still working on some joint, whichever joint finished, failed
   or was aborted in the meantime. *)
JogLockout ==
    BetweenPeriods /\ motion_state = "FREE" /\ (\E j \in Joint : BeingHomed(j)) => homing_active

(* In free mode a home-all that waits for joints, or for its next joints, keeps
   the jogs locked out between two sequence numbers as well. *)
SequenceLocksJogs ==
    BetweenPeriods /\ motion_state = "FREE" /\ sequence_state \in {"START_JOINTS", "WAIT_JOINTS"}
        => homing_active

(* Jogs are locked out from the start of a home to its end: while do_homing() works on a
   joint, and between the numbers of a home-all. *)
JogsLocked == JogLockout /\ SequenceLocksJogs

(* A joint that is being homed does not count as homed (soft limits, teleop and
   coordinated mode) unless its absolute encoder makes it so from the start. *)
HomedOnlyWhenDone ==
    \A j \in Joint : H[j].homing /\ H[j].homed => "ABSOLUTE_ENCODER" \in H[j].home_flags

(* Between periods no active joint is at home and moving: FINISHED is reached with
   the planner at rest or get_pos_cmds() takes the flag back in the same period. *)
AtHomeStandsStill ==
    BetweenPeriods => \A j \in ActiveJoint : H[j].at_home => ~joint[j].tp_active

(* While a joint of a negative sequence makes its final move no joint of that
   sequence is still searching for its switch (gantry joints stay parallel). *)
Searching == (MoveStart \ {"FINAL_MOVE_START"}) \cup SearchWait

FinalMovesTogether ==
    \A j, k \in ActiveJoint :
        /\ H[j].home_state = "FINAL_MOVE_WAIT" /\ H[j].home_sequence < 0
        /\ H[k].home_sequence = H[j].home_sequence
        => H[k].home_state \notin Searching

(* A home begins only if a command asked for it, and once for each command.  HOME_ABORT
   (after an abort in free mode, a limit or a probe trip) and a disable, by request or by
   a fault, withdraw what was asked, with three exceptions that the code has.  They do not
   end the sequence: an abort does not reach the joints whose number has not come, which
   begin afterwards (AbortStopsHoming below), nor does a disable (StillInSequence) that
   falls between two numbers or into the period of the command, if the machine is enabled
   again before the next joints are due.  An abort in coordinated or teleop mode reaches
   no home at all.  And a JOINT_HOME also homes the joints that a home which ended early
   has left in the sequence (OneJointHomes below). *)
HomesOnlyAsked == [][\A j \in Joint : Begins(j) => j \in asked]_vars

(* The encoder of a joint is armed to reset at the next index pulse only by its own
   home, and disarmed in the step in which that home ends, by success, abort, limit or
   probe; a reset at any other time would shift the position of the joint.  The one end
   of a home that leaves the encoder armed is a change of the enable state, by request
   or by a fault (set_operating_mode(), control.c:775). *)
ArmedOnlyHoming ==
    [][\A j \in Joint :
          /\ H'[j].index_enable /\ ~H[j].index_enable => H'[j].homing
          /\ H[j].homing /\ ~H'[j].homing /\ flag'.enable = flag.enable => ~H'[j].index_enable]_vars

(* A locking indexer that counts as homed is locked again. *)
HomedIsLocked == \A j \in Joint : H[j].homed => ~joint[j].unlock

(* What other code concludes from homed and at_home is true: the home is over, the
   indexer is locked and the joint stands, in every interleaving of the joints. *)
HomedMeansDone == HomedOnlyWhenDone /\ HomedIsLocked /\ AtHomeStandsStill

(* Every home comes to an end, whatever joint is aborted or meets a limit on the way:
   the lockout of jogs is lifted again, unless the machine leaves free mode (do_homing()
   runs in no other), a home is asked for anew, or the one case holds in which the code
   never ends: a joint of a synchronized pair waits before its final move for one that
   has left its home through an error exit, without an abort, and so is still in the
   sequence (Deserted; shown by FinalMoveStarts below). *)
Deserted ==
    \E j, k \in ActiveJoint :
        /\ H[j].home_state = "FINAL_MOVE_START" /\ Synchronized(j)
        /\ H[k].home_state = "IDLE" /\ H[k].joint_in_sequence
        /\ Abs(H[k].home_sequence) = home_sequence

HomingEnds ==
    homing_active ~> \/ ~homing_active
                     \/ motion_state # "FREE"
                     \/ sequence_state \in {"START", "DO_ONE_JOINT", "DO_ONE_SEQUENCE"}
                     \/ Deserted

-----------------------------------------------------------------------------
(* homing.c: "when an joint is homing, 'check_for_faults()' ignores its limit
   switches, so that this code can do the right thing with them. Once the homing
   process is finished, the 'check_for_faults()' resumes checking": a joint is
   marked as homing only while do_homing() looks after it. *)
LimitsSupervised ==
    BetweenPeriods => \A j \in Joint : H[j].homing =>
        motion_state = "FREE" /\ H[j].joint_in_sequence /\ H[j].home_state # "IDLE"

(* command.c, EMCMOT_ABORT: "stop homing if in progress"; homing.c of a sequence number:
   "all joints at this step have finished, move on to next step": a home-all goes on to
   the next number only from a number whose joints are at home. *)
AbortStopsHoming ==
    [][(sequence_state = "WAIT_JOINTS" /\ sequence_state' = "START_JOINTS")
        => \A j \in Joint : Abs(H[j].home_sequence) = home_sequence => H[j].at_home]_vars

(* homing.c, HOME_SEQUENCE_DO_ONE_JOINT: "Expect one joint with home_state==HOME_START":
   the home of one joint starts no other joint. *)
OneJointHomes ==
    [][sequence_state = "DO_ONE_JOINT"
        => \A j \in Joint : H'[j].home_state = "START" => H[j].home_state = "START"]_vars

(* homing.c, HOME_FINAL_MOVE_WAIT: "It terminates when the machine arrives at the
   final location": nobody else has stopped the planner of the move. *)
ArrivesAtHome ==
    [][\A j \in Joint : (H[j].home_state = "FINAL_MOVE_WAIT" /\ H'[j].home_state = "LOCK")
        => joint[j].tp_enable]_vars

(* homing.c, of a sequence in which a joint failed: "must have failed.  bail out".
   The bail-out reaches a joint that waits for the others before its final move:
   it does not wait for ever, with the jogs locked out, in an enabled machine. *)
FinalMoveStarts ==
    \A j \in Joint : H[j].home_state = "FINAL_MOVE_START"
        ~> (H[j].home_state # "FINAL_MOVE_START" \/ motion_state = "DISABLED")

(* command.c, EMCMOT_DISABLE: "reset the emcmotDebug->enabling flag to defer disable
   until controller cycle (it *will* be honored)": with motion disabled no
   amplifier of an active joint is left enabled. *)
DisableHonored ==
    BetweenPeriods /\ motion_state = "DISABLED" => \A j \in ActiveJoint : ~joint[j].enable
=============================================================================
