------------------------------- MODULE Motion -------------------------------
(***************************************************************************)
(* The servo thread of the motion module: emcmotCommandHandler (command.c) *)
(* followed by emcmotController (control.c), once per period.  A period    *)
(* goes through the phases command, inputs, mode, wheels, sequence, joint  *)
(* and homing, and plan; homing is module Homing.  Commands and HAL inputs *)
(* are chosen freely among those the constants allow.                      *)
(***************************************************************************)
EXTENDS Homing

CONSTANTS
    Commands,       \* the commands the user interface issues
    Events,         \* what the hardware may do: see Event
    VolatileHome,   \* joints with VOLATILE_HOME set
    NewSequences    \* the values EMCMOT_UPDATE_JOINT_HOMING_PARAMS may set

Command == {"ABORT", "JOINT_ABORT", "FREE", "COORD", "TELEOP", "JOG", "AXIS_JOG", "ENABLE",
            "DISABLE", "HOME_ALL", "JOINT_HOME", "UNHOME", "UPDATE_HOMING_PARAMS"}
Event == {"limit", "fault", "probe", "index", "wheel", "kins"}

ASSUME EnvironmentAssumption ==
    /\ Commands \subseteq Command
    /\ Events \subseteq Event
    /\ VolatileHome \subseteq Joint
    /\ NewSequences \subseteq Int

-----------------------------------------------------------------------------
(* emcmotCommandHandler() *)

Accept(c) == cycle.phase = "command" /\ c \in Commands /\ cycle' = At("inputs")

\* No command in this period, or one that is refused without a change of state.
NoCommand ==
    /\ cycle.phase = "command"
    /\ cycle' = At("inputs")
    /\ UNCHANGED <<H, sequence_vars, joint, mode_vars, asked>>

AbortHome(js) ==
    H' = [j \in Joint |-> IF j \in js /\ H[j].home_state # "IDLE"
                          THEN [H[j] EXCEPT !.home_state = "ABORT"] ELSE H[j]]

\* What EMCMOT_ABORT and EMCMOT_JOINT_ABORT do to the joints in js.  In teleop and
\* coordinated mode they stop other planners, not modelled, and no home.
AbortJoints(js) ==
    /\ IF flag.teleop \/ flag.coord
       THEN UNCHANGED <<H, joint>>
       ELSE joint' = StopPlanner(js) /\ AbortHome(js)
    /\ UNCHANGED <<sequence_vars, mode_vars, asked>>

Abort == Accept("ABORT") /\ AbortJoints(Joint)
JointAbort(j) == Accept("JOINT_ABORT") /\ AbortJoints({j})

Free ==
    /\ Accept("FREE")
    /\ request' = [request EXCEPT !.coordinating = FALSE, !.teleoperating = FALSE]
    /\ UNCHANGED <<H, sequence_vars, joint, flag, motion_state, asked>>

Coord ==
    /\ Accept("COORD")
    /\ request' = [request EXCEPT !.coordinating = KinType = "IDENTITY" \/ AllHomed(H),
                                  !.teleoperating = FALSE]
    /\ UNCHANGED <<H, sequence_vars, joint, flag, motion_state, asked>>

\* switch_to_teleop_mode()
Teleop ==
    /\ Accept("TELEOP")
    /\ KinType = "IDENTITY" \/ AllHomed(H)
    /\ request' = [request EXCEPT !.coordinating = FALSE, !.teleoperating = TRUE]
    /\ joint' = StopPlanner(Joint)
    /\ UNCHANGED <<H, sequence_vars, flag, motion_state, asked>>

\* update_home_is_synchronized()
HomeIsSynchronized(j) ==
    \/ H[j].home_sequence < 0
    \/ \E k \in Joint \ {j} : H[k].home_sequence < 0 /\ -H[k].home_sequence = H[j].home_sequence

\* A jog starts the planner; without forward kinematics it forgets the home.
StartJog(js) ==
    /\ joint' = [j \in Joint |-> IF j \in js THEN [joint[j] EXCEPT !.tp_enable = TRUE] ELSE joint[j]]
    /\ H' = [j \in Joint |-> IF j \in js /\ KinType = "INVERSE_ONLY"
                             THEN [H[j] EXCEPT !.homed = FALSE] ELSE H[j]]

\* EMCMOT_JOG_CONT, _INCR and _ABS of a joint.  The COORD flag is not tested, and
\* JOG_ABS does not test for a locking joint either.
Jog(j) ==
    /\ Accept("JOG")
    /\ flag.enable /\ ~homing_active /\ ~flag.teleop
    /\ ~HomeIsSynchronized(j)
    /\ StartJog({j})
    /\ UNCHANGED <<sequence_vars, mode_vars, asked>>

\* The same commands for an axis; its planner is not modelled.
AxisJog ==
    /\ Accept("AXIS_JOG")
    /\ flag.enable /\ ~homing_active /\ flag.teleop
    /\ joint' = StopPlanner(Joint)
    /\ UNCHANGED <<H, sequence_vars, mode_vars, asked>>

ChangeEnabling(value) ==
    /\ request' = [enabling |-> value,
                   coordinating |-> request.coordinating /\ KinType # "INVERSE_ONLY",
                   teleoperating |-> request.teleoperating /\ KinType # "INVERSE_ONLY"]
    /\ UNCHANGED <<H, sequence_vars, joint, flag, motion_state, asked>>

Enable == Accept("ENABLE") /\ ChangeEnabling(TRUE)
Disable == Accept("DISABLE") /\ ChangeEnabling(FALSE)

\* The joints in js are asked for, on top of a sequence that is going on.
Ask(js) == asked' = js \cup (IF sequence_state = "IDLE" THEN {} ELSE asked)

\* EMCMOT_JOINT_HOME with joint -1
HomeAll ==
    /\ Accept("HOME_ALL")
    /\ motion_state = "FREE" /\ flag.enable
    /\ sequence_state = "IDLE"
    /\ sequence_state' = "START"
    /\ Ask(HomeAllJoints)
    /\ UNCHANGED <<H, home_sequence, homing_active, sync_final_move, joint, mode_vars>>

JointHome(j) ==
    LET one == H[j].home_sequence >= 0
        js  == IF one THEN {j}
               ELSE {k \in Joint : Abs(H[k].home_sequence) = Abs(H[j].home_sequence)}
    IN /\ Accept("JOINT_HOME")
       /\ motion_state = "FREE" /\ flag.enable
       /\ joint' = StopPlanner({j})
       /\ sequence_state' = IF one THEN "DO_ONE_JOINT" ELSE "DO_ONE_SEQUENCE"
       /\ H' = [k \in Joint |-> IF k \in js THEN [H[k] EXCEPT !.home_state = "START"] ELSE H[k]]
       /\ Ask(js \cup IF one THEN {k \in Joint : H[k].joint_in_sequence} ELSE {})
       /\ UNCHANGED <<home_sequence, homing_active, sync_final_move, mode_vars>>

\* The INPOS flag of a joint: disabling sets it, the free planner updates it.
JointInPos(j) == motion_state = "DISABLED" \/ ~joint[j].tp_active

\* EMCMOT_JOINT_UNHOME for one joint, or for all (-1) and the volatile ones (-2).
Unhome(js) ==
    /\ Accept("UNHOME")
    /\ motion_state \in {"FREE", "DISABLED"}
    /\ \A j \in js : ~H[j].homing /\ JointInPos(j)
    /\ \E unhomed \in {js, js \cap VolatileHome} :
          H' = [j \in Joint |-> IF j \in unhomed THEN [H[j] EXCEPT !.homed = FALSE] ELSE H[j]]
    /\ UNCHANGED <<sequence_vars, joint, mode_vars, asked>>

UpdateHomingParams(j) ==
    /\ Accept("UPDATE_HOMING_PARAMS")
    /\ \E s \in NewSequences : H' = [H EXCEPT ![j].home_sequence = s]
    /\ UNCHANGED <<sequence_vars, joint, mode_vars, asked>>

HandleCommand ==
    \/ NoCommand \/ Abort \/ Free \/ Coord \/ Teleop \/ AxisJog \/ Enable \/ Disable \/ HomeAll
    \/ \E j \in Joint : JointAbort(j) \/ Jog(j) \/ JointHome(j) \/ UpdateHomingParams(j)
    \/ \E js \in {{j} : j \in ActiveJoint} \cup {ActiveJoint} : Unhome(js)

-----------------------------------------------------------------------------
(* emcmotController() *)

Choose(e, S) == IF e \in Events THEN S ELSE {}

\* read_homing_in_pins(), process_inputs(), process_probe_inputs() and
\* check_for_faults().  The encoder clears index-enable at the index pulse; a
\* rising probe input aborts the homing joints; a limit switch of a joint that is
\* not homing, and any other fault, withdraw the enable request.
ReadInputs ==
    /\ cycle.phase = "inputs"
    /\ \E limits \in SUBSET Choose("limit", ActiveJoint) :
       \E indexed \in SUBSET Choose("index", {j \in Joint : H[j].index_enable}) :
       \E probe \in {FALSE} \cup Choose("probe", {TRUE}) :
       \E fault \in {FALSE} \cup Choose("fault", {TRUE}) :
          LET probed(j) == probe /\ j \in ActiveJoint
              enabled   == {j \in ActiveJoint : joint[j].enable}
              limited   == \E j \in enabled \cap limits : ~H[j].homing
          IN /\ H' = [j \in Joint |->
                         [H[j] EXCEPT !.index_enable = @ /\ j \notin indexed,
                                      !.home_state = IF probed(j) /\ H[j].homing THEN "ABORT" ELSE @]]
             /\ joint' = [j \in Joint |->
                             [joint[j] EXCEPT !.on_limit = j \in limits,
                                              !.tp_enable = @ /\ ~probed(j)]]
             /\ request' = [request EXCEPT !.enabling =
                               @ /\ ~limited /\ ~(fault /\ (flag.enable \/ enabled # {}))]
    /\ cycle' = At("mode")
    /\ UNCHANGED <<sequence_vars, flag, motion_state, asked>>

ModeOf(f) == CASE ~f.enable -> "DISABLED"
               [] f.enable /\ f.teleop -> "TELEOP"
               [] f.enable /\ ~f.teleop /\ f.coord -> "COORD"
               [] OTHER -> "FREE"

\* The joints of a sequence which goes on: no stop ends the sequence itself.
StillInSequence ==
    {j \in Joint : \/ sequence_state \in {"START", "DO_ONE_SEQUENCE"}
                   \/ H[j].joint_in_sequence /\ sequence_state # "IDLE"}

\* Mutant: the home of a joint is not reset.
SwitchEnableKeepsHome(hd, js) ==
    LET switching == request.enabling # flag.enable
    IN /\ H' = [j \in Joint |-> IF switching /\ j \in ActiveJoint
                                THEN [hd[j] EXCEPT !.homing = FALSE] ELSE hd[j]]
       /\ joint' = [j \in Joint |->
                       [js[j] EXCEPT !.tp_enable = @ /\ ~(switching /\ flag.enable),
                                     !.enable = IF switching /\ j \in ActiveJoint
                                                THEN request.enabling ELSE @]]
       /\ asked' = IF switching THEN asked \cap StillInSequence ELSE asked

\* The first half of set_operating_mode(): whenever the enable request and the
\* ENABLE flag differ, all active joints stop homing and follow the request.
SwitchEnable(hd, js) ==
    LET switching == request.enabling # flag.enable
    IN /\ H' = [j \in Joint |-> IF switching /\ j \in ActiveJoint
                                THEN [hd[j] EXCEPT !.homing = FALSE, !.home_state = "IDLE"] ELSE hd[j]]
       /\ joint' = [j \in Joint |->
                       [js[j] EXCEPT !.tp_enable = @ /\ ~(switching /\ flag.enable),
                                     !.enable = IF switching /\ j \in ActiveJoint
                                                THEN request.enabling ELSE @]]
       /\ asked' = IF switching THEN asked \cap StillInSequence ELSE asked

\* Mutant: teleop mode is entered in any position.
EnterTeleopMoving ==
    /\ request.teleoperating /\ ~flag.teleop
    /\ SwitchEnable(H, joint)
    /\ flag' = [flag EXCEPT !.enable = request.enabling, !.teleop = TRUE]
    /\ UNCHANGED request

\* The second half: entering teleop mode ...
EnterTeleop ==
    /\ request.teleoperating /\ ~flag.teleop
    /\ SwitchEnable(H, joint)
    /\ flag' = [flag EXCEPT !.enable = request.enabling, !.teleop = flag.inpos]
    /\ request' = [request EXCEPT !.teleoperating = flag.inpos]

\* Mutant: the free-mode planners keep what they were told in coordinated mode.
ChangeModeKeepsPlanners ==
    /\ ~(request.teleoperating /\ ~flag.teleop)
    /\ SwitchEnable(H, joint)
    /\ flag' = [flag EXCEPT !.enable = request.enabling,
                            !.teleop = @ /\ ~(flag.inpos /\ ~request.teleoperating),
                            !.coord = IF flag.inpos THEN request.coordinating ELSE @]
    /\ request' = [request EXCEPT !.coordinating = IF flag.inpos THEN @ ELSE flag.coord]

\* ... or leaving it, entering coordinated mode and entering free mode.  No mode
\* change happens unless the machine is in position.
ChangeMode ==
    LET toCoord == request.coordinating /\ ~flag.coord
        toFree  == ~request.coordinating /\ flag.coord
        leave   == ~request.teleoperating \/ toCoord \/ toFree
    IN /\ ~(request.teleoperating /\ ~flag.teleop)
       /\ SwitchEnable(H, IF toFree /\ flag.inpos THEN StopPlanner(Joint) ELSE joint)
       /\ flag' = [flag EXCEPT !.enable = request.enabling,
                               !.teleop = @ /\ ~(flag.inpos /\ leave),
                               !.coord = IF flag.inpos THEN request.coordinating ELSE @]
       /\ request' = [request EXCEPT !.coordinating = IF flag.inpos THEN @ ELSE flag.coord]

SetOperatingMode ==
    /\ cycle.phase = "mode"
    /\ EnterTeleop \/ ChangeMode
    /\ motion_state' = ModeOf(flag')
    /\ cycle' = At("wheels")
    /\ UNCHANGED sequence_vars

\* handle_jjogwheels(): the joints whose wheel moved and may start to jog.  In
\* teleop mode the first wheel that moved only stops its joint.
HandleJogWheels ==
    /\ cycle.phase = "wheels"
    /\ IF flag.teleop
       THEN /\ \E js \in {{}} \cup {{j} : j \in Choose("wheel", ActiveJoint)} : joint' = StopPlanner(js)
            /\ UNCHANGED H
       ELSE \E js \in SUBSET Choose("wheel", {j \in ActiveJoint :
                                 /\ ~flag.coord /\ flag.enable /\ ~homing_active
                                 /\ ~Flagged(j, "UNLOCK_FIRST") /\ ~HomeIsSynchronized(j)}) :
               StartJog(js)
    /\ cycle' = At("sequence")
    /\ UNCHANGED <<sequence_vars, mode_vars, asked>>

\* Mutant: a joint that moves stays at home.
PlanFreeAtHome ==
    /\ motion_state = "FREE"
    /\ \E moving \in SUBSET {j \in ActiveJoint : joint[j].tp_enable \/ joint[j].tp_active} :
          /\ joint' = [j \in Joint |-> [joint[j] EXCEPT !.on_limit = FALSE,
                                         !.tp_active = IF j \in ActiveJoint THEN j \in moving ELSE @]]
          /\ flag' = [flag EXCEPT !.inpos = moving = {}]
    /\ UNCHANGED <<H, request>>

\* get_pos_cmds() in free mode: simple_tp_update() of every active joint.  A
\* stopped planner may still have to slow down.
PlanFree ==
    /\ motion_state = "FREE"
    /\ \E moving \in SUBSET {j \in ActiveJoint : joint[j].tp_enable \/ joint[j].tp_active} :
          /\ joint' = [j \in Joint |-> [joint[j] EXCEPT !.on_limit = FALSE,
                                         !.tp_active = IF j \in ActiveJoint THEN j \in moving ELSE @]]
          /\ H' = [j \in Joint |-> IF j \in moving THEN [H[j] EXCEPT !.at_home = FALSE] ELSE H[j]]
          /\ flag' = [flag EXCEPT !.inpos = moving = {}]
    /\ UNCHANGED request

\* In coordinated mode the trajectory planner is done or not, in teleop mode
\* INPOS is left alone; inverse kinematics that fail clear the ENABLE flag.
PlanCartesian ==
    /\ motion_state \in {"COORD", "TELEOP"}
    /\ \E done \in IF motion_state = "COORD" THEN BOOLEAN ELSE {flag.inpos} :
       \E failed \in {FALSE} \cup Choose("kins", {TRUE}) :
          /\ flag' = [flag EXCEPT !.inpos = done, !.enable = @ /\ ~failed]
          /\ request' = [request EXCEPT !.enabling = @ /\ ~failed]
    /\ joint' = [j \in Joint |-> [joint[j] EXCEPT !.on_limit = FALSE]]
    /\ UNCHANGED H

PlanDisabled ==
    /\ motion_state = "DISABLED"
    /\ joint' = [j \in Joint |-> [joint[j] EXCEPT !.on_limit = FALSE]]
    /\ UNCHANGED <<H, request, flag>>

GetPosCmds ==
    /\ cycle.phase = "plan"
    /\ PlanFree \/ PlanCartesian \/ PlanDisabled
    /\ cycle' = At("command")
    /\ UNCHANGED <<sequence_vars, motion_state, asked>>

-----------------------------------------------------------------------------
(* After the ini file has been read: disabled, no joint homed, free mode. *)
Init ==
    /\ H = [j \in Joint |->
              [home_state |-> "IDLE", homing |-> FALSE, homed |-> FALSE, at_home |-> FALSE,
               joint_in_sequence |-> FALSE, index_enable |-> FALSE, pause_timer |-> 0,
               home_sequence |-> HomeSequence[j], home_flags |-> HomeFlags[j]]]
    /\ sequence_state = "IDLE"
    /\ home_sequence = -1
    /\ homing_active = FALSE
    /\ sync_final_move = {}
    /\ joint = [j \in Joint |->
                  [tp_enable |-> FALSE, tp_active |-> FALSE, enable |-> FALSE,
                   on_limit |-> FALSE, unlock |-> FALSE]]
    /\ request = [enabling |-> FALSE, coordinating |-> FALSE, teleoperating |-> FALSE]
    /\ flag = [enable |-> FALSE, coord |-> FALSE, teleop |-> FALSE, inpos |-> TRUE]
    /\ motion_state = "DISABLED"
    /\ cycle = At("command")
    /\ asked = {}

Next == HandleCommand \/ ReadInputs \/ SetOperatingMode \/ HandleJogWheels
        \/ DoHomingSequence \/ DoHoming \/ GetPosCmds

Spec == Init /\ [][Next]_vars

\* The servo thread keeps running, and every move of a joint ends: the target of a
\* planner is finite and a stopped planner slows down.
MoveEnds(j) == GetPosCmds /\ joint'[j].tp_active = FALSE

\* A joint that has backed off its home switch is off it, now and then, when it comes to
\* search again.
SwitchOpens(j) ==
    /\ cycle.phase = "joint" /\ cycle.jno = j
    /\ In(j, "INITIAL_SEARCH_START") /\ ~joint[j].tp_active /\ Paused(j)
    /\ DoHoming
    /\ cycle'.phase = "homing" /\ ~cycle'.home_sw

FairSpec == /\ Spec
            /\ WF_vars(Next)
            /\ \A j \in ActiveJoint : SF_vars(MoveEnds(j)) /\ SF_vars(SwitchOpens(j))
=============================================================================
