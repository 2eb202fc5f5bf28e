-------------------------------- MODULE Task --------------------------------
(***************************************************************************)
(* The task controller (emc/task/emctaskmain.cc, emctask.cc): the process  *)
(* that takes the operator's commands, reads G code ahead of the machine   *)
(* and issues the resulting commands one at a time to motion and to I/O.   *)
(*                                                                         *)
(* Its main loop is sequential, but motion and I/O run beside it and are   *)
(* seen only through the copies made once a cycle, so a cycle is three     *)
(* steps: Plan (emcTaskPlan on the operator's command), Execute            *)
(* (emcTaskExecute) and Update (the status copies and the reactions to     *)
(* them).  Motion, I/O, the dwell timer and the interpreter are external:  *)
(* they are modelled by what this code sees and asks of them.              *)
(***************************************************************************)
EXTENDS Integers, Sequences, SequencesExt

CONSTANTS
    InterpMaxLen,   \* emc_task_interp_max_len: read no further above it
    MotionQueue,    \* motion's queue is full at this depth
    MaxMdi,         \* bound: MDI commands the operator has outstanding
    Sessions        \* what an operator may work with: commands, a program

VARIABLES
    session,   \* the operator's commands ({} once they have left), the program,
               \* whether homing is forced and homes are volatile
    task,      \* the task process: emcStatus->task and its statics
    motion,    \* motion as it is: queue depth, paused, enabled, error, its mode
               \* and the mode it was asked for, homed, homing or stopping
    io,        \* I/O as it is: status, estop, a tool change under way
    elapsed,   \* the dwell timer has run out
    pc,        \* where the main loop is: "plan", "execute" or "update"
    stopped    \* history: the last command that stopped work, if nothing
               \* has been started since

vars == <<session, task, motion, io, elapsed, pc, stopped>>

States == {"ESTOP", "ESTOP_RESET", "ON"}
Modes == {"MANUAL", "AUTO", "MDI"}
InterpStates == {"IDLE", "READING", "PAUSED", "WAITING"}
ExecStates ==
    {"DONE", "ERROR", "WAIT_MOTION", "WAIT_IO", "WAIT_MOTION_IO", "WAIT_DELAY"}
\* "SOFT" is I/O's RCS_ERROR with a fault of the tool changer and reason > 0.
Statuses == {"DONE", "EXEC", "ERROR", "SOFT"}

Kinds == {"MOVE", "OFFSET", "TOOL", "DELAY", "PAUSE", "SYNCH", "NEXT", "TEXT"}
\* Commands that move the machine, now or once the interpreter runs them.
Work == {"MOVE", "TOOL", "NEXT", "TEXT"}

NoCommand == [kind |-> "NONE", line |-> 0]
Item(k, l) == [kind |-> k, line |-> l]
Synch == Item("SYNCH", 0)
Items == [kind : Kinds, line : Nat]

StateCommands == {"STATE_OFF", "STATE_ESTOP", "STATE_RESET", "STATE_ON"}
ModeCommands == {"MODE_MANUAL", "MODE_AUTO", "MODE_MDI"}
StartCommands == {"RUN", "STEP", "RESUME", "EXECUTE"}
Commands == StateCommands \cup ModeCommands \cup StartCommands
              \cup {"ABORT", "PAUSE", "HOME"}

-----------------------------------------------------------------------------
(* The world a handler works on: the task process and the two it commands. *)
World == [task |-> task, motion |-> motion, io |-> io]

Queue(w, item) == [w EXCEPT !.task.list = Append(@, item)]

\* EMCMOT_COORD, FREE and TELEOP take effect once motion is in position.
Stands(m) == m.depth = 0 /\ ~m.homing

InMode(m) == [m EXCEPT !.mode = IF Stands(m) THEN m.want ELSE @]

Halted(m) ==
    InMode([m EXCEPT !.depth = 0, !.homing = FALSE, !.stopping = FALSE])

\* emcMotionAbort: motion starts to slow down, its queue stays until it
\* stands (MotionStops); it drops its error and is not paused.
MotionAbort(w) ==
    [w EXCEPT !.motion.stopping = ~Stands(w.motion), !.motion.paused = FALSE,
              !.motion.step = FALSE, !.motion.error = FALSE]

\* emcIoAbort is forced out; I/O is busy until it has echoed it.
IoAbort(w) == [w EXCEPT !.io.status = "EXEC"]

\* emcAbortCleanup: the interpreter unwinds its calls.
AbortCleanup(w) == [w EXCEPT !.task.callLevel = 0]

\* Mutant: no command to resynchronize the interpreter is queued.
TaskAbortNoSynch(w) ==
    [MotionAbort(w) EXCEPT !.task.cmd = NoCommand, !.task.list = <<>>,
                           !.task.interp = "IDLE", !.task.exec = "DONE",
                           !.task.stepping = FALSE, !.task.stepLine = -1,
                           !.task.open = FALSE]

\* Mutant: the commands already read are kept.
TaskAbortKeepsList(w) ==
    [MotionAbort(w) EXCEPT !.task.cmd = NoCommand, !.task.interp = "IDLE",
                           !.task.exec = "DONE", !.task.stepping = FALSE,
                           !.task.stepLine = -1, !.task.open = FALSE]

\* emcTaskAbort.  Closing the file is lazy: the interpreter stays where it is.
TaskAbort(w) ==
    LET a == MotionAbort(w) IN
    [a EXCEPT !.task.cmd = NoCommand, !.task.list = <<Synch>>,
              !.task.interp = "IDLE", !.task.exec = "DONE",
              !.task.stepping = FALSE, !.task.stepLine = -1,
              !.task.open = FALSE,
              !.task.cut = @ \/ w.task.wait \/ w.task.next
                             \/ w.task.callLevel > 0]

\* Mutant: the queue of MDI commands is kept.
MdiAbortKeepsQueue(w) ==
    [w EXCEPT !.task.callLevel = IF w.task.wait \/ w.task.next THEN 0 ELSE @,
              !.task.level = -1, !.task.wait = FALSE, !.task.next = FALSE,
              !.task.interp = "IDLE"]

\* mdi_execute_abort
MdiAbort(w) ==
    [w EXCEPT !.task.callLevel = IF w.task.wait \/ w.task.next THEN 0 ELSE @,
              !.task.level = -1, !.task.wait = FALSE, !.task.next = FALSE,
              !.task.mdi = <<>>, !.task.interp = "IDLE"]

\* The block the three error paths and the change to manual mode share.
ClearAll(w) ==
    [w EXCEPT !.task.open = FALSE, !.task.cmd = NoCommand,
              !.task.curLine = 0, !.task.interp = "IDLE",
              !.task.exec = "DONE", !.task.stepping = FALSE,
              !.task.stepLine = -1, !.task.list = <<Synch>>]

\* The full abort: it leaves nothing of an MDI call.
AbortEverything(w) ==
    [AbortCleanup(MdiAbort(IoAbort(TaskAbort(w)))) EXCEPT !.task.cut = FALSE]

\* An abort that follows an error, in emcTaskExecute and in main.
ErrorAbort(w) == ClearAll(AbortEverything(w))

-----------------------------------------------------------------------------
(* emcTaskSetMode and emcTaskSetState                                      *)

\* A request that waits until motion is in position, or for the next one.
\* "FREE" stands for TELEOP too; identity kinematics, where EMCMOT_COORD is
\* taken also when the joints are not homed.
TrajSetMode(w, m) ==
    [w EXCEPT !.motion = InMode([w.motion EXCEPT !.want = m])]

TaskSetMode(w, c) ==
    IF c = "MODE_MANUAL"
    THEN [TrajSetMode(w, "FREE") EXCEPT !.task.mdiOrAuto = "AUTO"]
    ELSE [TaskAbort(TrajSetMode(w, "COORD")) EXCEPT
            !.task.mdiOrAuto = IF c = "MODE_MDI" THEN "MDI" ELSE "AUTO"]

TrajDisable(w) == [w EXCEPT !.motion = Halted([w.motion EXCEPT !.enabled = FALSE])]

\* emcJointUnhome(-2): joints whose home is volatile lose it.
Unhome(w) == [w EXCEPT !.motion.homed = @ /\ ~session.volatile]

TaskSetState(w, c) ==
    CASE c \in {"STATE_OFF", "STATE_ESTOP"} ->
           LET off == AbortCleanup(Unhome(IoAbort(TaskAbort(
                        TrajDisable(MotionAbort(w))))))
           IN  IF c = "STATE_OFF" THEN off ELSE [off EXCEPT !.io.estop = TRUE]
      [] c = "STATE_ON" -> [w EXCEPT !.motion.enabled = ~w.io.estop]
      [] c = "STATE_RESET" ->
           LET reset == AbortCleanup(IoAbort(TaskAbort(w)))
           IN  [reset EXCEPT !.io.estop = FALSE]

\* EMC_TASK_SET_MODE: refused while a program runs.
SetModeAllowed(w, c) ==
    ~ (w.task.mode = "AUTO" /\ w.task.interp # "IDLE" /\ c # "MODE_AUTO")

LeavesForManual(w, c) ==
    SetModeAllowed(w, c) /\ c = "MODE_MANUAL" /\ w.task.mode # "MANUAL"

IssueSetMode(w, c) ==
    CASE ~SetModeAllowed(w, c) -> w
      [] LeavesForManual(w, c) ->
           TaskSetMode(ClearAll(MdiAbort(TaskAbort(w))), c)
      [] OTHER -> TaskSetMode(w, c)

-----------------------------------------------------------------------------
(* The interpreter: external.  Executing MDI text, or the rest of an       *)
(* interrupted MDI call, gives commands, a result and a call level.  Only  *)
(* a call that has to wait (INTERP_EXECUTE_FINISH) is left on the stack,   *)
(* and a call waits once: calls end.                                       *)
MdiOutcomes(text) ==
    {[add |-> <<>>, result |-> "OK", level |-> 0],
     [add |-> <<Item("MOVE", 0)>>, result |-> "OK", level |-> 0],
     [add |-> <<Item("TOOL", 0)>>, result |-> "FINISH", level |-> 0],
     [add |-> <<>>, result |-> "ERROR", level |-> 0],
     [add |-> <<>>, result |-> "EXIT", level |-> 0]}
      \cup (IF text THEN {[add |-> <<Item("MOVE", 0)>>, result |-> "FINISH",
                          level |-> 1]} ELSE {})

\* ! all_homed() && ! no_force_homing
Unhomed(w) == session.force /\ ~w.task.seen.homed

\* EMC_TASK_PLAN_EXECUTE with MDI text, or with 0xff to go on with a call:
\* the possible worlds after it, and whether it returned an error.
IssueExecute(w, text) ==
    LET calm == [w EXCEPT !.task.stepping = FALSE, !.task.stepLine = -1]
        ran == [calm EXCEPT
                  !.task.interp = "READING",
                  !.task.nested = text /\ w.task.callLevel > 0 /\ ~w.task.cut]
        start == IF w.task.level < 0 THEN w.task.callLevel ELSE w.task.level
        After(o) ==
            LET s == [ran EXCEPT
                        !.task.list = @ \o o.add,
                        !.task.callLevel = o.level,
                        !.task.level = IF start = o.level THEN -1 ELSE start,
                        !.task.next = IF start # o.level /\ o.level > 0
                                      THEN TRUE ELSE @]
            IN  CASE o.result = "FINISH" ->
                       [w |-> [Queue(s, Synch) EXCEPT !.task.wait = TRUE,
                                                      !.task.waitFlag = TRUE],
                        err |-> FALSE]
                  [] o.result = "ERROR" ->
                       [w |-> AbortEverything(s), err |-> TRUE]
                  [] OTHER -> [w |-> s, err |-> o.result = "EXIT"]
    IN  IF Unhomed(w) \/ w.task.mode # "MDI" THEN {[w |-> calm, err |-> TRUE]}
        ELSE {After(o) : o \in MdiOutcomes(text)}

IssueRun(w) ==
    IF Unhomed(w) THEN w
    ELSE [w EXCEPT !.task.stepping = FALSE, !.task.stepLine = -1,
                   !.task.open = TRUE,
                   !.task.pos = IF w.task.open THEN @ ELSE 1,
                   !.task.callLevel = IF w.task.open THEN @ ELSE 0,
                   !.task.interp = "READING"]

IssuePause(w) ==
    [w EXCEPT !.motion.paused = TRUE,
              !.task.resume = IF w.task.interp # "PAUSED" THEN w.task.interp
                              ELSE @,
              !.task.interp = "PAUSED"]

IssueResume(w) ==
    [w EXCEPT !.motion.paused = FALSE, !.motion.step = FALSE,
              !.task.interp = w.task.resume,
              !.task.stepping = FALSE, !.task.stepLine = -1]

\* EMC_JOINT_HOME of all joints; the request for free mode that goes with it
\* is the operator's.  Motion refuses it unless it is enabled and in free mode.
IssueHome(w) ==
    IF w.motion.enabled /\ w.motion.mode = "FREE"
    THEN [w EXCEPT !.motion.homing = TRUE, !.motion.homed = FALSE]
    ELSE w

\* emcTaskIssueCommand on an operator's command.
Issue(w, c) ==
    CASE c \in StateCommands -> {TaskSetState(w, c)}
      [] c \in ModeCommands -> {IssueSetMode(w, c)}
      [] c = "ABORT" -> {AbortEverything(w)}
      [] c = "RUN" -> {IssueRun(w)}
      [] c = "HOME" -> {IssueHome(w)}
      [] c = "PAUSE" -> {IssuePause(w)}
      [] c = "RESUME" -> {IssueResume(w)}
      [] c = "EXECUTE" -> {r.w : r \in IssueExecute(w, TRUE)}

-----------------------------------------------------------------------------
(* Reading ahead.  A line of the program is told by what it is read into;  *)
(* the last one ends the program.                                          *)
LineKinds == {"move", "offset", "tool", "dwell", "stop", "fail", "end"}

ASSUME SessionsAssumption ==
    \A s \in Sessions : s.commands \subseteq Commands /\ Last(s.program) = "end"

ReadLine(w) ==
    LET l == w.task.pos
        k == session.program[l]
        moved == [w EXCEPT !.task.pos = l + 1]
    IN  CASE k = "move" -> Queue(moved, Item("MOVE", l))
          [] k = "offset" -> Queue(moved, Item("OFFSET", l))
          [] k = "dwell" -> Queue(moved, Item("DELAY", l))
          [] k = "stop" -> Queue(moved, Item("PAUSE", l))
          [] k = "tool" ->
               [Queue(Queue(moved, Item("TOOL", l)), Synch)
                  EXCEPT !.task.waitFlag = TRUE]
          [] k = "fail" ->
               AbortCleanup([moved EXCEPT !.task.interp = "WAITING",
                                          !.task.list = <<>>])
          [] k = "end" -> [moved EXCEPT !.task.interp = "WAITING"]

\* One line, or the end of the wait that a queue buster asked for.
ReadOne(w) ==
    CASE w.task.waitFlag ->
           [w EXCEPT !.task.waitFlag =
              ~ (w.task.list = <<>> /\ w.task.cmd = NoCommand
                   /\ w.task.exec = "DONE")]
      [] ~w.task.waitFlag /\ w.task.pos > Len(session.program) ->
           [w EXCEPT !.task.interp = "WAITING"]
      [] OTHER -> ReadLine(w)

\* The interpret_again loop.
ReadsOn(w) ==
    /\ w.task.interp = "READING"
    /\ ~w.task.waitFlag
    /\ Len(w.task.list) <= (InterpMaxLen * 2) \div 3

readahead_reading(w) ==
    LET Again(v, i) == IF ReadsOn(v) THEN ReadOne(v) ELSE v
    IN  CASE Len(w.task.list) > InterpMaxLen -> w
          [] w.task.waitFlag -> ReadOne(w)
          [] OTHER -> FoldLeft(Again, ReadOne(w),
                               [i \in 1 .. InterpMaxLen |-> i])

AllQuiet(w) ==
    /\ w.task.list = <<>>
    /\ w.task.cmd = NoCommand
    /\ w.task.seen.queue = 0
    /\ w.task.seen.io = "DONE"

readahead_waiting(w) ==
    CASE ~AllQuiet(w) -> w
      [] AllQuiet(w) /\ w.task.open -> Queue([w EXCEPT !.task.open = FALSE], Synch)
      [] AllQuiet(w) /\ ~w.task.open -> [w EXCEPT !.task.interp = "IDLE"]

\* mdi_execute_hook, run in MDI mode after the operator's command.
mdi_execute_hook(w) ==
    LET waiting == w.task.wait /\ w.task.waitFlag
        idle == w.task.list = <<>> /\ w.task.cmd = NoCommand
        ready == [w EXCEPT !.task.waitFlag = FALSE, !.task.wait = FALSE]
        Go(v) ==
            IF v.task.level < 0 /\ ~v.task.wait /\ v.task.mdi # <<>> /\ idle
            THEN [Queue(v, Head(v.task.mdi)) EXCEPT !.task.mdi = Tail(@)]
            ELSE LET done == /\ AllQuiet(v)
                             /\ v.task.exec = "DONE"
                             /\ ~v.task.wait
                             /\ ~v.task.next
                     f == IF done THEN [v EXCEPT !.task.interp = "IDLE"] ELSE v
                 IN  IF v.task.next /\ Len(v.task.list) <= InterpMaxLen
                     THEN [Queue(f, Item("NEXT", 0)) EXCEPT !.task.next = FALSE]
                     ELSE f
    IN  CASE waiting /\ idle /\ w.task.exec = "DONE" -> Go(ready)
          [] waiting /\ ~(idle /\ w.task.exec = "DONE") -> w
          [] ~waiting -> Go(w)

-----------------------------------------------------------------------------
(* emcTaskPlan: what each state and mode does with a command.              *)
IssuedWhenOff == StateCommands \cup ModeCommands \cup {"ABORT"}

PlanOff(w, c) ==
    CASE c \in IssuedWhenOff -> Issue(w, c)
      [] OTHER -> {w}

PlanManual(w, c) ==
    CASE c \in IssuedWhenOff \cup {"PAUSE", "RESUME", "EXECUTE", "HOME"} ->
           Issue(w, c)
      [] OTHER -> {w}

\* A first step runs the program and pauses it at once.
PlanAutoIdle(w, c) ==
    CASE c \in IssuedWhenOff \cup {"RUN", "EXECUTE", "PAUSE", "RESUME"} ->
           Issue(w, c)
      [] c = "STEP" -> {IF Unhomed(w) THEN w ELSE IssuePause(IssueRun(w))}
      [] OTHER -> {w}

StepAsked(w) == [w EXCEPT !.task.stepping = TRUE, !.task.stepLine = -1]

PlanAutoReading(w, c) ==
    CASE c \in IssuedWhenOff \cup {"PAUSE", "RESUME"} -> Issue(w, c)
      [] c = "STEP" -> {readahead_reading(StepAsked(w))}
      [] OTHER -> {readahead_reading(w)}

PlanAutoPaused(w, c) ==
    CASE c \in IssuedWhenOff \cup {"PAUSE", "RESUME", "EXECUTE"} ->
           Issue(w, c)
      [] c = "STEP" ->
           IF w.task.seen.paused /\ w.task.seen.queue > 0
           THEN {[StepAsked(w) EXCEPT !.motion.step = TRUE]}
           ELSE {[StepAsked(w) EXCEPT !.task.interp = w.task.resume]}
      [] OTHER -> {w}

PlanAutoWaiting(w, c) ==
    {readahead_waiting(v) : v \in
       CASE c \in IssuedWhenOff \cup {"PAUSE", "RESUME", "EXECUTE"} ->
              Issue(w, c)
         [] c = "STEP" -> {StepAsked(w)}
         [] OTHER -> {w}}

\* Mutant: the interpreter's wait flag is not looked at.
MdiDirectInWait(w) ==
    w.task.mdi = <<>> /\ w.task.list = <<>> /\ w.task.cmd = NoCommand

\* An MDI command is issued at once only if nothing is before it.
MdiDirect(w) ==
    /\ w.task.mdi = <<>>
    /\ w.task.list = <<>>
    /\ w.task.cmd = NoCommand
    /\ ~w.task.waitFlag

PlanMdi(w, c) ==
    {mdi_execute_hook(v) : v \in
       CASE c \in IssuedWhenOff \cup {"PAUSE", "RESUME"} -> Issue(w, c)
         [] c = "EXECUTE" ->
              IF MdiDirect(w) THEN Issue(w, c)
              ELSE {[w EXCEPT !.task.mdi = Append(@, Item("TEXT", 0))]}
            [] OTHER -> {w}}

emcTaskPlan(w, c) ==
    CASE w.task.state # "ON" -> PlanOff(w, c)
      [] w.task.state = "ON" /\ w.task.mode = "MANUAL" -> PlanManual(w, c)
      [] w.task.state = "ON" /\ w.task.mode = "MDI" -> PlanMdi(w, c)
      [] w.task.state = "ON" /\ w.task.mode = "AUTO" ->
           CASE w.task.interp = "IDLE" -> PlanAutoIdle(w, c)
             [] w.task.interp = "READING" -> PlanAutoReading(w, c)
             [] w.task.interp = "PAUSED" -> PlanAutoPaused(w, c)
             [] w.task.interp = "WAITING" -> PlanAutoWaiting(w, c)

-----------------------------------------------------------------------------
(* emcTaskExecute                                                          *)
\* Mutant: a tool change waits for I/O only.
ToolWaitsForIo(k) == IF k \in {"MOVE", "TOOL"} THEN "WAIT_IO" ELSE "WAIT_MOTION_IO"

emcTaskCheckPreconditions(k) ==
    CASE k = "MOVE" -> "WAIT_IO"
      [] k = "OFFSET" -> "WAIT_MOTION"
      [] OTHER -> "WAIT_MOTION_IO"

emcTaskCheckPostconditions(k) == IF k = "DELAY" THEN "WAIT_DELAY" ELSE "DONE"

TakesMoves(m) == m.enabled /\ m.mode = "COORD" /\ ~m.stopping

\* Issuing a queued command: the worlds after it, and whether it failed.
\* Motion refuses a move, and aborts, unless it is enabled, in coordinated
\* mode and not stopping.
IssueQueued(w, k) ==
    LET Ok(v) == {[w |-> v, err |-> FALSE]} IN
    CASE k = "MOVE" ->
           IF TakesMoves(w.motion)
           THEN Ok([w EXCEPT !.motion.depth = @ + 1])
           ELSE {[w |-> [w EXCEPT !.motion.error = TRUE,
                                  !.motion.stopping = ~Stands(w.motion)],
                  err |-> TRUE]}
      [] k = "TOOL" ->
           Ok([w EXCEPT !.io.status = "EXEC", !.io.changing = TRUE])
      [] k = "PAUSE" -> Ok(IssuePause(w))
      [] k = "NEXT" -> IssueExecute(w, FALSE)
      [] k = "TEXT" -> IssueExecute(w, TRUE)
      [] OTHER -> Ok(w)

\* STEPPING_CHECK: while stepping, nothing goes past a change of line.
StepHeld(w) ==
    w.task.stepping /\ w.task.stepLine \notin {-1, w.task.curLine}

StepChecked(w) ==
    IF w.task.stepping /\ w.task.stepLine = -1
    THEN [w EXCEPT !.task.stepLine = w.task.curLine]
    ELSE w

\* Mutant: the depth of motion's queue is not looked at.
ExecuteDoneUnbounded(w) ==
    IF w.task.interp = "PAUSED" \/ (w.task.cmd = NoCommand /\ w.task.list = <<>>)
    THEN {w}
    ELSE IF w.task.cmd # NoCommand
    THEN {[[r.w EXCEPT !.task.cmd = NoCommand] EXCEPT
             !.task.exec = IF r.err THEN "ERROR"
                           ELSE emcTaskCheckPostconditions(w.task.cmd.kind)]
            : r \in IssueQueued(w, w.task.cmd.kind)}
    ELSE {[w EXCEPT !.task.cmd = Head(w.task.list), !.task.list = Tail(@),
                    !.task.curLine = Head(w.task.list).line,
                    !.task.exec =
                      emcTaskCheckPreconditions(Head(w.task.list).kind)]}

ExecuteDone(w) ==
    LET issue == {[[r.w EXCEPT !.task.cmd = NoCommand] EXCEPT
                     !.task.exec = IF r.err THEN "ERROR"
                                   ELSE emcTaskCheckPostconditions(w.task.cmd.kind)]
                    : r \in IssueQueued(w, w.task.cmd.kind)}
        head == Head(w.task.list)
    IN  CASE \/ w.task.seen.queue >= MotionQueue
             \/ w.task.interp = "PAUSED"
             \/ w.task.cmd = NoCommand /\ w.task.list = <<>> -> {w}
          [] OTHER ->
               IF w.task.cmd # NoCommand THEN issue
               ELSE {[w EXCEPT !.task.cmd = head, !.task.list = Tail(@),
                               !.task.curLine = head.line,
                               !.task.exec =
                                 emcTaskCheckPreconditions(head.kind)]}

\* Mutant: a wait for motion and I/O is a wait for an enabled machine too.
AwaitedEnabled(w) ==
    CASE w.task.exec = "WAIT_MOTION" -> {w.task.seen.motion}
      [] w.task.exec = "WAIT_IO" -> {w.task.seen.io}
      [] w.task.exec = "WAIT_MOTION_IO" ->
           {w.task.seen.motion, w.task.seen.io,
            IF w.task.seen.enabled THEN "DONE" ELSE "EXEC"}
      [] w.task.exec = "WAIT_DELAY" -> {IF elapsed THEN "DONE" ELSE "EXEC"}

\* A wait ends in DONE, or in ERROR when what it waits for failed.
Awaited(w) ==
    CASE w.task.exec = "WAIT_MOTION" -> {w.task.seen.motion}
      [] w.task.exec = "WAIT_IO" -> {w.task.seen.io}
      [] w.task.exec = "WAIT_MOTION_IO" -> {w.task.seen.motion, w.task.seen.io}
      [] w.task.exec = "WAIT_DELAY" -> {IF elapsed THEN "DONE" ELSE "EXEC"}

emcTaskExecute(w) ==
    LET s == StepChecked(w)
        e == w.task.exec
    IN  CASE e = "ERROR" -> {ErrorAbort(w)}
          [] e # "ERROR" /\ StepHeld(w) -> {w}
          [] e = "DONE" /\ ~StepHeld(w) -> ExecuteDone(s)
          [] e \notin {"ERROR", "DONE"} /\ ~StepHeld(w) ->
               {IF "ERROR" \in Awaited(w) THEN [s EXCEPT !.task.exec = "ERROR"]
                ELSE IF Awaited(w) = {"DONE"} THEN [s EXCEPT !.task.exec = "DONE"]
                ELSE s}

-----------------------------------------------------------------------------
(* The rest of the main loop                                               *)

\* emcTrajUpdate and emcMotionUpdate
MotionStatus(m) ==
    IF m.error THEN "ERROR" ELSE IF Stands(m) THEN "DONE" ELSE "EXEC"

\* emcIoUpdate and emcMotionUpdate
Copy(w) ==
    [w EXCEPT !.task.seen =
       [motion |-> MotionStatus(w.motion), queue |-> w.motion.depth,
        paused |-> w.motion.paused, mode |-> w.motion.mode,
        enabled |-> w.motion.enabled, homed |-> w.motion.homed,
        io |-> w.io.status, estop |-> w.io.estop]]

SyncEstop(w) ==
    IF w.task.seen.estop /\ w.task.seen.enabled
    THEN AbortEverything(Unhome(TrajDisable(w)))
    ELSE w

\* A soft fault of the tool changer lets the program go on.  The branch for
\* a soft limit is never taken: nothing writes the on_soft_limit it reads in
\* the status of task.
SubordinateErrors(w) ==
    LET s == [w EXCEPT !.task.seen.io = IF @ = "SOFT" THEN "DONE" ELSE @]
    IN  IF "ERROR" \in {s.task.seen.motion, s.task.seen.io}
        THEN ErrorAbort(s) ELSE s

determineMode(t) == IF t.seen.mode = "COORD" THEN t.mdiOrAuto ELSE "MANUAL"

determineState(t) ==
    CASE t.seen.estop -> "ESTOP"
      [] ~t.seen.estop /\ ~t.seen.enabled -> "ESTOP_RESET"
      [] ~t.seen.estop /\ t.seen.enabled -> "ON"

emcTaskUpdate(w) ==
    LET s == [w EXCEPT !.task.mode = determineMode(w.task),
                       !.task.state = determineState(w.task)]
    IN  IF w.task.state = "ON" /\ s.task.state # "ON"
        THEN AbortCleanup(IoAbort(TaskAbort(s)))
        ELSE s

-----------------------------------------------------------------------------
Become(w) == task' = w.task /\ motion' = w.motion /\ io' = w.io

NoteStop(w, c) ==
    CASE c = "ABORT" \/ LeavesForManual(w, c) -> "abort"
      [] c \in {"STATE_OFF", "STATE_ESTOP"} -> "off"
      [] c \in StartCommands -> "no"
      [] OTHER -> stopped

Plan(c) ==
    /\ pc = "plan"
    /\ c \in session.commands \cup {"NONE"}
    /\ c = "EXECUTE" => Len(task.mdi) < MaxMdi
    /\ \E w \in emcTaskPlan(World, c) : Become(w)
    /\ stopped' = NoteStop(World, c)
    /\ pc' = "execute"
    /\ UNCHANGED <<session, elapsed>>

Execute ==
    /\ pc = "execute"
    /\ \E w \in emcTaskExecute(World) : Become(w)
    /\ elapsed' = (elapsed /\ task.exec = "WAIT_DELAY" /\ task'.exec = "WAIT_DELAY")
    /\ pc' = "update"
    /\ UNCHANGED <<session, stopped>>

Update ==
    /\ pc = "update"
    /\ Become(emcTaskUpdate(SubordinateErrors(SyncEstop(Copy(World)))))
    /\ pc' = "plan"
    /\ UNCHANGED <<session, elapsed, stopped>>

(* Motion: external.  A segment ends; a step ends in a pause; motion comes *)
(* to a stand after an abort and drops its queue; the joints are homed;    *)
(* motion disables itself on a fault.                                      *)
SegmentEnds ==
    /\ motion.depth > 0
    /\ ~motion.paused \/ motion.step
    /\ LET m == [motion EXCEPT !.depth = @ - 1, !.step = FALSE]
       IN  motion' = IF m.depth = 0 THEN Halted(m) ELSE m
    /\ UNCHANGED <<session, task, io, elapsed, pc, stopped>>

MotionStops ==
    /\ motion.stopping
    /\ motion' = Halted(motion)
    /\ UNCHANGED <<session, task, io, elapsed, pc, stopped>>

JointsHomed ==
    /\ motion.homing /\ ~motion.stopping
    /\ motion' = Halted([motion EXCEPT !.homed = TRUE])
    /\ UNCHANGED <<session, task, io, elapsed, pc, stopped>>

MotionFault ==
    /\ motion.enabled
    /\ motion' = Halted([motion EXCEPT !.enabled = FALSE, !.error = TRUE])
    /\ UNCHANGED <<session, task, io, elapsed, pc, stopped>>

(* I/O: external.  It finishes what it was asked; a tool change may fail;  *)
(* the emergency stop chain opens.                                         *)
IoDone ==
    /\ io.status = "EXEC"
    /\ io' = [io EXCEPT !.status = "DONE", !.changing = FALSE]
    /\ UNCHANGED <<session, task, motion, elapsed, pc, stopped>>

ToolChangeFails ==
    /\ io.changing
    /\ \E fault \in {"ERROR", "SOFT"} :
         io' = [io EXCEPT !.status = fault, !.changing = FALSE]
    /\ UNCHANGED <<session, task, motion, elapsed, pc, stopped>>

EstopOpens ==
    /\ ~io.estop
    /\ io' = [io EXCEPT !.estop = TRUE]
    /\ UNCHANGED <<session, task, motion, elapsed, pc, stopped>>

DelayElapses ==
    /\ task.exec = "WAIT_DELAY"
    /\ ~elapsed
    /\ elapsed' = TRUE
    /\ UNCHANGED <<session, task, motion, io, pc, stopped>>

OperatorLeaves ==
    /\ session.commands # {}
    /\ session' = [session EXCEPT !.commands = {}]
    /\ UNCHANGED <<task, motion, io, elapsed, pc, stopped>>

-----------------------------------------------------------------------------
\* Emergency stop, servos off, free mode: what main sets before its loop.
Init ==
    /\ session \in Sessions
    /\ task = [state |-> "ESTOP", mode |-> "MANUAL", mdiOrAuto |-> "AUTO",
               interp |-> "IDLE", exec |-> "DONE", list |-> <<>>,
               cmd |-> NoCommand, mdi |-> <<>>, level |-> -1, next |-> FALSE,
               wait |-> FALSE, waitFlag |-> FALSE, open |-> FALSE,
               resume |-> "IDLE", stepping |-> FALSE, stepLine |-> -1,
               curLine |-> 0, pos |-> 1, callLevel |-> 0,
               nested |-> FALSE, cut |-> FALSE,
               seen |-> [motion |-> "DONE", queue |-> 0, paused |-> FALSE,
                         mode |-> "FREE", enabled |-> FALSE, homed |-> FALSE,
                         io |-> "DONE", estop |-> TRUE]]
    /\ motion = [depth |-> 0, paused |-> FALSE, enabled |-> FALSE,
                 mode |-> "FREE", want |-> "FREE", error |-> FALSE,
                 step |-> FALSE, homed |-> FALSE, homing |-> FALSE,
                 stopping |-> FALSE]
    /\ io = [status |-> "DONE", estop |-> TRUE, changing |-> FALSE]
    /\ elapsed = FALSE
    /\ pc = "plan"
    /\ stopped = "no"

Next ==
    \/ \E c \in Commands \cup {"NONE"} : Plan(c)
    \/ Execute
    \/ Update
    \/ SegmentEnds
    \/ MotionStops
    \/ JointsHomed
    \/ MotionFault
    \/ IoDone
    \/ ToolChangeFails
    \/ EstopOpens
    \/ DelayElapses
    \/ OperatorLeaves

Spec == Init /\ [][Next]_vars

(* The main loop is a timed loop that never blocks for good; motion, I/O   *)
(* and the clock go on, and homing ends (HomingEnds of the motion model).  *)
FairSpec ==
    Spec /\ []<>(pc = "plan") /\ []<>(pc = "update") /\ WF_vars(SegmentEnds)
         /\ WF_vars(MotionStops) /\ WF_vars(JointsHomed)
         /\ WF_vars(IoDone) /\ WF_vars(DelayElapses)

-----------------------------------------------------------------------------
(* What the task process holds has its type: the queues are bounded by     *)
(* what reading ahead, the MDI hook and the operator put into them.        *)
TaskTypeOK ==
    /\ task.state \in States
    /\ task.mode \in Modes
    /\ task.mdiOrAuto \in {"AUTO", "MDI"}
    /\ task.interp \in InterpStates
    /\ task.resume \in InterpStates
    /\ task.exec \in ExecStates
    /\ task.list \in Seq(Items)
    /\ task.mdi \in Seq(Items)
    /\ Len(task.mdi) <= MaxMdi
    /\ task.cmd \in Items \cup {NoCommand}
    /\ task.level \in {-1, 0, 1}
    /\ task.callLevel \in {0, 1}
    /\ task.pos \in 1 .. Len(session.program) + 1
    /\ motion.depth \in 0 .. MotionQueue
    /\ io.status \in Statuses

(* The axes never execute a queued move during a tool change, whichever of *)
(* the two was issued first: the waits of emcTaskCheckPreconditions read   *)
(* copies of the status that are a cycle old when the command goes out.    *)
(* Jogs, which go past the interpreter list, are not spoken of: leaving    *)
(* MDI for manual mode does not abort a tool change (emctaskmain.cc:2118), *)
(* and the operator may then jog.                                          *)
MovesAndToolChangesExclude == ~ (io.changing /\ motion.depth > 0)

Listed == {task.list[i].kind : i \in DOMAIN task.list} \cup {task.cmd.kind}
Queued == {task.mdi[i].kind : i \in DOMAIN task.mdi}

(* Once an abort, or a change from AUTO or MDI to manual mode, has been    *)
(* taken, nothing that would move the machine is left in the interpreter   *)
(* list, in hand or in the queue of MDI commands, until the operator       *)
(* starts something (emctaskmain.cc:628, 2101).                            *)
StopHolds == stopped = "abort" => (Listed \cup Queued) \cap Work = {}

(* While the machine is not on, whether the operator turned it off or it   *)
(* went off by itself, nothing that would move it is in the interpreter    *)
(* list or in hand.  The queue of MDI commands is NOT spoken of: neither   *)
(* emcTaskSetState nor emcTaskUpdate calls mdi_execute_abort() (emctask.cc *)
(* :269, 673), so what the operator had queued there is still there when   *)
(* the machine is on again, and mdi_execute_hook() runs it (OffEmptiesMdi).*)
OffMeansEmpty == pc = "plan" /\ task.state # "ON" => Listed \cap Work = {}

(* An abort is final for all that the program or the operator had queued,  *)
(* the loss of the machine for all but the queue of MDI commands.          *)
StopIsFinal == TaskTypeOK /\ StopHolds /\ OffMeansEmpty

(* The loss of the machine empties the queue of MDI commands too, as an    *)
(* abort does.  The code does not do so (v_off).                           *)
OffEmptiesMdi == pc = "plan" /\ task.state # "ON" => Queued = {}

Issues(k) ==
    /\ pc = "execute" /\ task.exec = "DONE"
    /\ task.cmd.kind = k /\ task'.cmd = NoCommand

(* A move is never handed to motion while motion still slows down from an  *)
(* abort, where tpErrorCheck() (tp.c:636) would throw it back and fail the *)
(* program that was started after the abort: the stop takes many cycles,   *)
(* in which the operator may start again, and task knows of it from copies *)
(* only.  That motion is enabled and in coordinated mode is not spoken of: *)
(* it may have gone off by itself, and a program started while a change to *)
(* manual mode waits for the stop is still read in manual mode.            *)
NoMoveIntoStop == [][Issues("MOVE") => ~motion.stopping]_vars

(* MDI commands are executed in turn: the text of one is never given to    *)
(* the interpreter inside a call that an earlier one has not finished, but *)
(* for a call cut in two by a change of mode or the machine going off.     *)
MdiInTurn == ~task.nested

(* A resume when nothing is paused leaves the interpreter where it is.     *)
ResumesOnlyPaused ==
    [][Plan("RESUME") /\ task.interp # "PAUSED"
         => task'.interp = task.interp]_vars

(* Once the operator leaves the machine alone, the program or the MDI      *)
(* commands under way come to their end, unless they are paused or stepped *)
(* or an abort has cut an MDI call in two.                                 *)
Settles ==
    session.commands = {} ~>
        \/ /\ task.list = <<>> /\ task.cmd = NoCommand
           /\ task.interp = "IDLE" \/ task.mode = "MANUAL"
           /\ task.state = "ON" /\ task.mode = "MDI" => task.mdi = <<>>
        \/ task.interp = "PAUSED" \/ motion.paused
        \/ task.stepping
        \/ task.cut
=============================================================================
