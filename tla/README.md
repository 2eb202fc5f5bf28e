# A TLA+ verification of LinuxCNC's controllers and HAL

LinuxCNC drives machine tools. This project models the programs between a G-code line and
the moving machine: the task controller that issues commands, the I/O controller that
changes tools, the shared memory between task and the servo thread, the servo thread itself
with its homing, modes and trajectory planner, and the hardware abstraction layer (HAL) that
all of them run in. Small instances are checked with TLC, and the central properties of the
servo thread and of HAL streams are proved for instances of any size with TLAPS.

## 1. Inventory of the system

| part | source (below `src/src/`) | state | operations | what is hard | module |
|---|---|---|---|---|---|
| homing | `emc/motion/homing.c` | `H[]`, `sequence_state`, `home_sequence`, `homing_active` | `do_homing_sequence`, `do_homing`, setters | two state machines that share flags with commands, faults and the mode switch; joints that wait for each other | `Homing` |
| motion commands | `emc/motion/command.c` | requests in `emcmotDebug`, `joint->free_tp` | one case per `EMCMOT_*` command | commands at any point of a home, a mode change or a disable | `Motion`, `Planner` |
| motion controller | `emc/motion/control.c`, `simple_tp.c` | motion flags, `motion_state`, joints | one servo period: inputs, faults, mode, wheels, homing, planning | requests and flags that lag each other by parts of a period | `Motion` |
| command and status channel | `emc/motion/usrmotintf.cc`, `emcmotutil.c` | `head`/`tail` counters around shared structs, error ring | write command, read status, put and get error | lock-free sharing between task and the servo thread | `MotionChannel` |
| trajectory planner | `emc/tp/tp.c`, `tc.c`, `tcq.c` | ring of segments, the current segment, waits | add line or arc, run cycle, abort, pause, reverse | the ring runs in both directions; blending and splitting move two segments at once | `Planner` |
| task controller | `emc/task/emctaskmain.cc`, `emctask.cc`, `taskintf.cc`, `nml_intf/interpl.cc` | `interp_list`, MDI queue, mode, state, interpreter and execution state | plan, execute, update | everything is decided on copies of the status that are a cycle old | `Task` |
| I/O controller | `emc/iotask/ioControl.cc`, `emc/task/iotaskintf.cc` | command and echo numbers, tool table, HAL pins | prepare, change, set number, abort, e-stop | a handshake with a tool changer that aborts may cut anywhere | `IoControl` |
| HAL pins and signals | `hal/hal_lib.c` | lists of pins, names and signals in shared memory | create, rename, link, unlink, exit | counts and pointers kept in several places; recycled structures | `HalNet` |
| HAL functions and threads | `hal/hal_lib.c` | function lists of the threads | export, add, remove, start, stop, exit; `thread_task` | threads walk the lists without the mutex | `HalThread` |
| HAL streams | `hal/hal_lib.c` | ring of records | write, read, depth | lock-free | `HalStream` |
| HAL ports | `hal/hal_lib.c` | ring of bytes | write, read, peek, skip, clear | lock-free; copies cut in two at the end of the ring | `HalPort` |
| kinematics | `emc/kinematics/*.c` | none | forward, inverse | numeric | |
| interpreter | `emc/rs274ngc`, `emc/task/emccanon.cc` | modal state | read, execute | a language implementation | |
| RTAPI | `rtapi/*` | tasks, shared memory | task scheduling, mutexes | a mutex made of a bit operation | (`HalThread`) |
| NML/CMS | `libnml/*` | message buffers | read, write, peek | shared-memory and TCP buffers | |
| HAL components and drivers | `hal/components`, `hal/drivers` | per component | one function per thread period | hardware | |
| user interfaces | `emc/usr_intf`, `hal/utils`, `hal/user_comps` | GUI state | send NML messages | GUI programs | |

One servo period is `emcmotCommandHandler()` followed by `emcmotController()`, both on the
same thread. User space only writes the command buffer and reads the status; HAL inputs
may change at any time but are read once per period. So inside a period everything is
sequential, and what is hard is the order in which commands, hardware events and the
progress of several joints or segments meet over many periods. Between the processes
nothing is sequential: task, iocontrol and the servo thread each see the others through
copies, counters and echoes, and these are modelled at the grain at which they can be cut.

## 2. Modules

| module | models | extends |
|---|---|---|
| `MotionState` | the state that the servo thread keeps between periods: `H[]` and the sequence variables of `homing.c`, the free-mode planners and enable flags of the joints, the requests in `emcmotDebug`, the motion flags and `motion_state` | |
| `Homing` | `do_homing_sequence()` and `do_homing()`, one action per case of the two switch statements | `MotionState` |
| `Motion` | `emcmotCommandHandler()` and `emcmotController()`: one action per command, then inputs and faults, `set_operating_mode()`, `handle_jjogwheels()`, homing, `get_pos_cmds()`; `Spec` and `FairSpec` | `Homing` |
| `MotionProperties` | what is claimed of the servo thread | `Motion` |
| `MCMotion` | machines of two joints | `MotionProperties` |
| `MotionProofs` | proofs about the servo thread | `MotionProperties`, `TLAPS` |
| `MotionChannel` | the shared memory between task and the servo thread | |
| `Planner` | the trajectory planner and the commands that feed it | |
| `MCPlanner` | programs of moves | `Planner` |
| `Task` | the task controller, composed with motion, I/O and the interpreter as it sees them | |
| `MCTask` | operators and programs | `Task` |
| `IoControl` | the I/O controller, task's side of its channel, and the tool changer | |
| `MCIoControl` | two tool changers | `IoControl` |
| `HalNet` | components, pins, aliases and signals | |
| `MCHalNet` | three systems of two components | `HalNet` |
| `HalThread` | functions, threads and the lists between them | |
| `MCHalThread` | two components with a function each | `HalThread` |
| `StreamFifo` | what a HAL stream promises: a bounded queue of numbered records | |
| `HalStream` | `hal_stream_write()` and `hal_stream_read()` interleaved; properties; the refinement mapping to `StreamFifo` | |
| `HalStreamProofs` | proofs about HAL streams | `HalStream`, `SequenceTheorems`, `TLAPS` |
| `PortFifo` | what a HAL port promises: a byte stream | |
| `HalPort` | the `hal_port_*` calls of two components interleaved; properties; the refinement mapping to `PortFifo` | |

Operators whose comment begins with "Mutant" are variants of the operator that follows
them, each with one plausible programming error. They are not part of the specification;
substituted for the original they show that a property can fail.

### 2.1 The servo thread

A servo period is a run through the phases of `cycle.phase`, in the order of the calls:

    command   emcmotCommandHandler()                    HandleCommand
    inputs    read_homing_in_pins(), process_inputs(),
              process_probe_inputs(), check_for_faults() ReadInputs
    mode      set_operating_mode()                       SetOperatingMode
    wheels    handle_jjogwheels()                        HandleJogWheels
    sequence  do_homing_sequence()                       DoHomingSequence
    joint     do_homing(), head of its loop              SkipJoint, EnterJoint, EndHoming
    homing    do_homing(), the switch for one joint      HomeStep
    plan      get_pos_cmds()                             GetPosCmds

`do_homing()` runs only in free mode, as in `emcmotController()`. A state of `do_homing()`
that sets `immediate_state` leaves `cycle` unchanged, so that the same joint takes its next
step in the same period; the others go on with the next joint.

| variable | in the code |
|---|---|
| `H[j]` | `H[j]` of `homing.c`: `home_state`, `homing`, `homed`, `at_home`, `joint_in_sequence`, `index_enable`, `pause_timer`, `home_sequence`, `home_flags` |
| `sequence_state`, `home_sequence`, `homing_active`, `sync_final_move` | the static variables of `homing.c` |
| `joint[j]` | `free_tp.enable`, `free_tp.active`, the ENABLE flag, the limit inputs, the unlock output |
| `request` | `emcmotDebug->enabling`, `coordinating`, `teleoperating` |
| `flag`, `motion_state` | `emcmotStatus->motionFlag`, `motion_state` |
| `asked` | history: the joints that a home command covers, each until its home begins or what was asked is withdrawn |

Positions and velocities are left out; what the control flow sees of them is kept. A
free-mode planner that is enabled or active may be moving or at rest after each period. The
home switch of a joint has any value whenever it is read. Limits, amplifier and following
errors, the probe, the index pulse, the jog wheels and failing kinematics happen at any
time if `Events` allows them. So the model has every behaviour of the machine that the
inputs allow, and some that a real switch would not show, such as a switch that bounces in
every period; safety properties that hold here hold for the real inputs.

Other choices that make the model larger than the code, never smaller:

* `NoCommand` stands also for a command that is refused without a change of state.
* A jog is accepted without the tests of soft limits and of a limit that is still tripped,
  which depend on positions.
* `Unhome` of all joints may forget all of them or the volatile ones.
* After a disable, `free_tp.active` keeps its value until the next period in free mode, as
  in the code.

`EMCMOT_UPDATE_JOINT_HOMING_PARAMS` changes `home_sequence` only; the offsets and
velocities it also sets have no effect on the control flow. Axis and trajectory planners
appear only through `INPOS`. Extra joints and the limit override are left out.

### 2.2 HAL streams

`HalStream` has one step for each access to the shared ring: the test of the indices, the
copy of the pins, the sample number, the store of the index. The steps of writer and reader
interleave freely. Each side is sequential. The release stores of the
indices keep the copies before them on every machine. The tests in `hal_stream_readable()`
and `hal_stream_writable()` load the other side's index with a plain load; the model takes
loads in program order, which holds on x86 and with the fences of `rtapi_atomic.h`, and is an
assumption on machines that reorder loads (section 5). `num_overruns` and `num_underruns` wrap around at `ULongMax`.

The refinement mapping takes the records between `out` and `in` for the queue. The number
of a record counts from the moment its index is stored: between `WriteSample` and
`WritePublish` the abstract counter is one behind `this_sample`.

### 2.3 HAL ports

`HalPort` has, for each call, the load of both positions (`WriteBegin`, `ReadBegin`,
`ClearBegin`), the copy up to the end of the ring (`WriteEnd`, `ReadEnd`), the copy at its
beginning (`WriteBeg`, `ReadBeg`) and the store of the caller's own position (`WriteStore`,
`ReadStore`). `hal_port_alloc()` is the initial state. A byte is its number in the stream, so
a byte that is lost, repeated or overtaken shows. The refinement mapping takes the bytes from
`read` to `write` for the queue of `PortFifo`; a write takes effect with `WriteStore`, a read,
a skip or a clear with `ReadStore`, a peek when its copy is complete. The loads are
acquire and the stores release operations in the code, so the copies stay between them.
`topped` is history: a write has begun with the read position at 0 that fills the port
exactly, which the code does not survive (section 3.1).

### 2.4 The channel between task and the servo thread

`MotionChannel` copies a structure member by member, in the order of its declaration:
`head`, number or echo, body, `tail`, and for a command the members that are declared behind
`tail`. On one processor (`Parallel = FALSE`) the servo thread interrupts task between any
two accesses and runs to the end of its period; `num--`, one instruction, is not cut. With
`Parallel = TRUE` the two interleave access by access.

| actions | in the code |
|---|---|
| `WriteCommand`, `CopyCommand`, `Poll` | `usrmotWriteEmcmotCommand()`, with the time-out at any turn of the loop |
| `MotionUpdate`, `CopyStatus`, `CheckStatus` | `usrmotReadEmcmotStatus()` and its three tries |
| `GetTest` to `GetStore` | `emcmotErrorGet()` |
| `StartPeriod`, `TestSplit`, `Compare`, `Execute`, `Sync` | the frame of `emcmotCommandHandler()`, with its early returns |
| `StartController`, `Compute`, `Finish` | the counters of `emcmotController()` |
| `PutTest` to `PutStore` | `emcmotErrorPutfv()` |

`Compute` includes `process_inputs()`, where a spindle orient that fails sets
`commandStatus`, whatever command was handled last (`control.c:456`).

`CommandWhole` speaks of the members up to `tail`. The members declared behind it are not
protected by the counters at all; nothing is claimed of them.

### 2.5 The trajectory planner

`Planner` has the ring of `tcq.c` with its four indices, and one planning cycle
(`tpRunCycle`) per servo period, in the code's order: empty queue, abort, waits for spindle
and index, activation, then a split or a regular cycle, completion of the segment. A segment
has a progress of 0 to 2 and stands or moves; whether a cycle reaches its end, splits,
blends or slows down is a free choice within what the flags allow. Which corner a line makes
with the one before (`shapes`) decides whether a blend arc, a consumed segment, a tangent or a
parabolic blend is appended.

Task appears as `TaskReads`, which copies `queueFull`, and the commands it sends while the
copy says that there is room (`SetLine`, `SetTermCond`, `SetSpindleSync`, `SpindleOn`).
The operator's orders are `Pause`, `Resume`, `Step`, `Abort`, `Turn` (reverse and forward),
`Disable` and `Enable`. A line may be refused, out of range or on a limit, which aborts the
planner. Two flags are history: `turned`, of a segment that was to be removed when the
direction was turned, and `tp.stale`, of the waits that `tpClear()` leaves. `SpindleSpeed`, `IndexPulse` and `Rotary` are the hardware.

### 2.6 The task controller

A cycle of the main loop is three steps: `Plan` (`emcTaskPlan()` on the operator's command, if
there is one), `Execute` (`emcTaskExecute()`) and `Update` (`emcTaskUpdate()`, the status
copies and the reactions to subordinate states). Motion and I/O change at any time between
them; task decides on the copies in `task`.

| variable | in the code |
|---|---|
| `task.state`, `mode`, `interp`, `exec`, `resume` | `emcStatus->task`, `interpResumeState` |
| `task.list`, `task.cmd` | `interp_list`, `emcTaskCommand` |
| `task.mdi` and the MDI flags | `mdi_execute_queue`, `mdi_execute_next`, `mdi_execute_wait`, `mdi_execute_level` |
| `task.pos`, `task.callLevel` | how far the interpreter has read, and its call level |
| `motion`, `io`, `elapsed` | external: motion's queue, mode and the mode asked for, homing, pause, stop and errors; I/O's status and e-stop; the dwell timer |
| `stopped`, `task.cut`, `task.nested` | history |

Motion takes its time: after an abort it slows down with its queue in place (`stopping`, until
`MotionStops`), and a change of mode waits until it stands (`want`). A program or an MDI
command is refused unless the joints are homed, where the configuration asks for it
(`session.force`); joints with a volatile home lose it when the machine goes off. The
branch for a soft limit (`emctaskmain.cc:3431`) is left out: nothing in the program writes
`emcStatus->motion.on_soft_limit`, so it is never taken.

A line of a program is a kind of command: a move, a tool change, a dwell, an offset, a
program stop, one that fails, the end. A command that `emcTaskPlan()` refuses in a mode or
state is no step.

### 2.7 The I/O controller

The command buffer holds one command and its number; each of the three parts of the
controller's cycle (`read_hal_inputs`, `read_tool_inputs`, `ReadCommand`) is a step, and
task may write between any two (`sendCommand`, `SetNumber`, `forceCommand`). `Fetch` and
`Exchange` are the tool changer behind the pins: it fetches the tool whose number the pins
show and puts what it has fetched into the spindle. `InputChanges` is the e-stop chain or
the lube level, which the controller reports under a number of its own. `Restart`
ends the process and starts it again with what `saveToolTable()` has left on disk. Saving
and loading the table may fail, and report an error. `astray` is history: by which of the
ways that `SpindleKnown` lists the record and the machine have come apart.

### 2.8 HAL pins and signals

An operation of `hal_lib.c` holds the HAL mutex from its first access to its last, so for the
other operations it is one step. A running component uses its pins without the mutex.
`hal_link()`, `hal_unlink()` and `hal_signal_delete()` are therefore cut between the switch of
a pin's pointer and the copy of the value (`Begin`, `SwitchNext`, `Complete`), and `Write` may
come in between; `hand` is the operation that has the mutex. The test of the lock level comes before the mutex, and `waiting` holds
the levels that a caller has passed before they were set. Pin and name structures have
addresses and are recycled, `net.data` is the pointer that a component follows, so that
what a running component reads and writes is known after every link, unlink and exit.
Names are numbers in the order of `strcmp()`.

### 2.9 HAL functions and threads

The holder of the mutex changes the list of a thread with single stores, and
`thread_task()` walks it without the mutex; each store that a walk can meet is a step. `Wake`
and `Step` are a thread, with fixed priorities: a thread runs when no faster one does. The
process `app` loads and unloads modules and creates threads, `cmd` adds and removes
functions. On one processor (`Parallel = FALSE`) a process runs when every thread waits for
its period.

## 3. Properties and runs

`m` is the number of distinct states.

| run | m | instance | what it shows |
|---|---|---|---|
| `modes` | 1,726,709 | two joints, one after the other; the second has no switch. All commands but the parameter update, all events but the index pulse | `TypeOK`. `InPosition`, `ModeChangesStanding`: modes change only at rest. `FreeModeStartsStill`: no planner starts by leaving coordinated mode. `JogsLocked`: jogs are locked out while any joint homes and between the numbers of a home-all. `HomesOnlyAsked`: no joint begins a home that no command has asked for |
| `gantry` | 111,142 | two joints of one negative sequence, one with a home switch and an index pulse, the other on a shared switch | `FinalMovesTogether`: no joint makes its final move while the other still searches. `HomingEnds`: the lockout of jogs is lifted in the end |
| `flags` | 2,536,721 | a locking indexer with index pulse, and an absolute encoder on a shared switch; disables, limits and faults among the events | `ArmedOnlyHoming`: the end of a home disarms the encoder. `HomedMeansDone`: homed means that the home is over, the indexer locked and the joint at rest |
| `stream` | 14,692 | ring of 4 slots, 7 records, 2 values | `StreamTypeOK`, `NoTornRecord`, `ImplementsFifo`, `Delivered` |
| `port` | 120,525 | ring of 5 bytes, portions of 1 and 3, 10 bytes | `SidesApart`: the two sides never touch the same byte. `ImplementsPort`: the calls implement a byte stream. `EachByteLeaves`: no byte stays in the port |
| `task` | 1,564,262 | operators who run programs, who type MDI commands, who do both, and who home first | `MovesAndToolChangesExclude`. `StopIsFinal`: nothing that moves the machine is left in the list or in hand after an abort or with the machine off. `NoMoveIntoStop`: no move is handed to motion while it slows down from an abort. `MdiInTurn`. `Settles`: what nobody pauses comes to its end |
| `io` | 645,052 | a plain changer with two pockets, a random one with one; 4 commands | `SpindleKnown`, `AbortHonored`, `WaitsItsTurn`, `Answered` |
| `channel` | 3,069,950 | counters of 5 values, 2 commands, the first an orient, 3 errors, a ring of 2, one processor | `MessagesWhole`: no torn command or status is used. `AnswerTrue`, `InOrder`: answers belong to their command and commands are handled in order, once. `ErrorsInOrder` |
| `net` | 609,305 | two components, a signal, three names, three pin structures and one name structure | `LinksAgree`: counts, pointers, list order and the single writer. `ValuesSurvive`: no link, unlink or exit, taken as a whole, disturbs a value that is in use |
| `thread` | 193,554 | two threads, two functions, three entries, one processor | `ListsWalkable`: a walk may start at any moment and ends. `CallsSafe`: it calls only live functions and re-enters none that may not be. `OneChange`: a list is seen before or after a change. `Served` |
| `planner` | 771,810 | ring of 7; programs of corners, of spindle-synchronised moves, of indexing moves; 2 orders | `QueueWhole`: the ring never overflows and the reverse history holds executed segments. `InProgramOrder`. `FrontHasTurn`: only the front segment is active or waited for. `PauseHolds` |

Some of these are conjunctions of properties that are stated one by one in the module, the
type invariant of the module among them: `StopIsFinal`, `MessagesWhole`, `LinksAgree`,
`ListsWalkable`, `QueueWhole`, `SpindleKnown`, `SidesApart`.

Bounds. Two joints are the smallest machine in which a joint waits for another, fails while
another homes, or finishes last. The sequences that matter (one after the other, together, a
synchronized pair) are each the subject of a run. `HomeDelay` is 1, so that a joint can be
met during the pause between two moves. Each run has the commands and events that its
properties can be disturbed by; the whole set at once is in `modes`. In the ring of 4 slots,
7 records make each index wrap around, and a full, an empty and a wrapped ring occur; the
same holds of the 10 bytes in a port of 5. Portions of 1 and 3 add up to a full port, so a
write that fills it exactly happens at every read position; with the reader at 0 it is the
subject of `v_port`. The `io` run was also made with 5 and 6 commands for its safety
properties (2,535,792 and 9,153,260 states). Two commands in `channel` are a command that timed out
and the one after it; `HeadCount` is 5 where the code has 256, and at most `CopyPeriods`
periods fall into one copy, so that the counters cannot come round within a copy, which in
the code would take 128 periods. In `task` the interpreter list is cut at 2 and motion's
queue at 2, so that both are full at times. The ring of 7 in `planner` counts as
full with two segments, which leaves room for what task sends on an old copy.

Fairness. Of `Motion`: the servo thread keeps running (it is a periodic realtime task) and,
for each active joint, a planner which is updated again and again does not move for ever:
its target is finite and `simple_tp_update()` reaches it, and a stopped planner slows down.
Of the home switch: a joint that has backed off it again and again is off it at last
(`SwitchOpens`); a switch that bounces for ever would send `HOME_INITIAL_SEARCH_START` and
`HOME_INITIAL_BACKOFF_WAIT` round in circles. Nothing else is assumed of the switches, of
the index pulse, or of commands. Of `HalStream` and `HalPort`: a call which has begun ends, and
the reader is called again while it can read; the writer may stop at any time between calls.
Of `Task`: the main loop, a timed loop without blocking calls, goes round again and again,
and motion, also when it stops or homes, I/O and the dwell timer make progress. `Settles` asks for the end once the
operator has left, and motion and I/O may still fail. Of `IoControl`: its loop polls for ever
and the changer answers. Of `HalThread`: every thread gets the processor again and again,
the slower ones too, because periods are chosen longer than the work in them; nothing is
assumed of the processes, so `Served` holds also if one keeps the mutex.

What the properties leave out. In the following cases the code does not do what one would
like the property to say. The instances of the runs have them, but for jogs and several
processors; each is excepted in the property, and its comment names it with the line of the code. The configurations of section 3.1
show them.

| property | excepted |
|---|---|
| `HomesOnlyAsked` | joints of later numbers of a home-all that is aborted or disabled between two numbers, an abort outside free mode (`asked` keeps them); joints left in the sequence by a home that ended early (`v_abort`, `v_left`) |
| `HomingEnds` | `Deserted`: a synchronized joint waits for one that has failed without an abort (`v_wait`) |
| `ArmedOnlyHoming` | a change of the enable state during an index search (`control.c:775`) |
| `SidesApart`, `ImplementsPort`, `EachByteLeaves` | `topped`: from the first write on that fills the port exactly with the reader at 0 (`v_port`) |
| `MovesAndToolChangesExclude` | jogs, which are not modelled: leaving MDI for manual mode does not abort a tool change (`emctaskmain.cc:2118`) |
| `StopIsFinal` | the queue of MDI commands while the machine is off (`v_off`) |
| `NoMoveIntoStop` | moves that motion refuses because it is disabled, or because a program was started while a change to manual mode waited for the stop |
| `MdiInTurn`, `Settles` | `task.cut`: an MDI call that a change of mode cuts in two (`emctask.cc:232` calls `emcTaskAbort()` without `mdi_execute_abort()`) |
| `SpindleKnown` | `astray`: the six ways its comment lists, by which record and machine come apart (`v_tool` shows one) |
| `AbortHonored`, `WaitsItsTurn` | `Pushed`, `skipped`: a command whose number an input change has taken (`ioControl.cc:729`, `v_skip`) |
| `AnswerTrue` | INVALID for a command that was carried out, after an orient has failed (`v_answer`) |
| `MessagesWhole`, `ErrorsInOrder`, `ListsWalkable`, `CallsSafe` | several processors (`v_split`, `v_walk`; on several, `num++` and `num--` of the error ring can also lose each other) |
| `LinksAgree` | the saved old names of pins (`v_alias`) |
| `ValuesSurvive` | what a running component reads and writes between the switch of its pointer and the copy of the value (`v_link`) |
| `QueueWhole` | `turned`: a segment run backwards to its start that waits for its indexer when the direction is turned (`v_turn`) |
| `FrontHasTurn` | `tp.stale`: a wait that `tpClear()` leaves (`v_clear`); that the successor has waited for the spindle before it moves (`v_early`) |

### 3.1 Where the code differs from what it says

`v_port` ends with a counterexample to `WrittenStays`: with the reader at position 0,
`hal_port_write()` (`hal_lib.c:3725`) takes the bytes that are writable for the bytes up to
the end of the ring. A write of exactly that many stores 0 as the write position, which is
also the read position: the call returns true, which `hal.h:786` explains with "count bytes
were written", and the port is empty. `hal_port_buffer_size()` returns the size of the
ring, of which one byte is never used.

The following configurations end with a counterexample as well. Each quotes the line of the
repository that the code does not keep, or names the limit of a property above.

| configuration | module | property | quoted | what happens |
|---|---|---|---|---|
| `v_abort` | `MCMotion` | `AbortStopsHoming` | `command.c:529`, `:553` "stop homing if in progress" | `EMCMOT_ABORT` puts the joints that home into `HOME_ABORT`, which takes them out of the sequence (`joint_in_sequence = 0`). `HOME_SEQUENCE_WAIT_JOINTS` no longer sees them, takes its number for done and starts the joints of the next one. |
| `v_left` | `MCMotion` | `OneJointHomes` | `homing.c:399` "Expect one joint with home_state==HOME_START" | A home that ends early, by a disable or an error exit, leaves its joints in the sequence; the next `JOINT_HOME` of another joint starts them too. |
| `v_supervised` | `MCMotion` | `LimitsSupervised` | `homing.c:600` "Once the homing process is finished, the 'check_for_faults()' resumes checking" | In the pause between two moves of a home all planners are at rest and INPOS is set, so `set_operating_mode()` accepts coordinated mode. `do_homing()` no longer runs; `H[].homing` stays set and the limit switches of the joint are ignored. |
| `v_arrives` | `MCMotion` | `ArrivesAtHome` | `homing.c:1185` "It terminates when the machine arrives at the final location" | An absolute encoder joint is homed from the start, so another joint can be the last to get home while it is in its final move. `switch_to_teleop_mode()` stops all planners, and the stopped joint counts as arrived. |
| `v_disable` | `MCMotion` | `DisableHonored` | `command.c:1394` "it *will* be honored" | Failing inverse kinematics clear the ENABLE flag and the request together. `set_operating_mode()` sees no difference, so the amplifiers stay enabled, also after `EMCMOT_DISABLE`. |
| `v_wait` | `MCMotion` | `FinalMoveStarts` | `homing.c:550` "must have failed.  bail out" | One joint of a synchronized pair ends its home without an abort because its switch is in the wrong position. The sequence bails out, the other joint waits for ever for its final move, and jogs stay locked out until the machine is disabled. |
| `v_depth` | `HalStream` | `DepthCounts` | `hal_stream.3hal:108` "Returns the number of samples waiting to be read." | When `in` has wrapped around and `out` has not, `hal_stream_depth()` adds `depth - 1`; it reports 0 when the only record is in the last slot. |
| `v_early` | `MCPlanner` | `WaitsFirst` | `tc.c:590` "we'll have to wait for the spindle to be at-speed; might as well stop at the right place (don't blend)" | A lone segment with a parabolic end is split in its last cycle. A feed that awaits the spindle is appended in that period; the segment before it is told to stop too late, and the rest of the split cycle moves the feed, which has not been activated. |
| `v_turn` | `MCPlanner` | `ExecutedToEnd` | | A segment is run backwards to its start and marked to be removed; while its indexer has not locked, the planner stands and `tpSetRunDir()` accepts forward. `tcqPop()` then puts the segment, which is at its start, into the history of executed ones, and goes on with the one after it. |
| `v_clear` | `MCPlanner` | `ClearsWaits` | `tp.c:363` "the flags are set to an empty, ready queue" | A disable while the front segment waits for the spindle or its index: `tpClear()` empties the queue and leaves `waiting_for_index` and `waiting_for_atspeed`, so that `tpIsMoving()` stays true. |
| `v_alias` | `MCHalNet` | `EitherName` | `hal.h:417` "Once assigned, the pin can be referred to by either its original name or the alias." | After an alias, `hal_pin_new()` lets another pin take the original name, which it compares with current names only. The first pin can then no longer be found by its original name, and removing its alias gives two pins one name. |
| `v_link` | `MCHalNet` | `OutputsOwn` | | `hal_link()` and `unlink_pin()` switch the pointer of a pin before they copy the value: in between the owner of an output pin finds another value there, and what it writes is overwritten. |
| `v_lock` | `MCHalNet` | `LockFreezes` | | The lock level is tested before the mutex is taken; an operation that waits for the mutex goes through after the lock was set. |
| `v_off` | `MCTask` | `OffEmptiesMdi` | | `emcTaskSetState()` and `emcTaskUpdate()` do not call `mdi_execute_abort()`: MDI commands that are queued when the machine goes off run when it is on again. |
| `v_resume` | `MCTask` | `ResumesOnlyPaused` | | `EMC_TASK_PLAN_RESUME` restores the interpreter state noted at the last pause, also when nothing is paused. |
| `v_tool` | `MCIoControl` | `PocketZeroIsSpindle` | `docs/src/code/code-notes.txt:1167` "pocket 0 is the spindle" | M61 on a random changer exchanges the entries of the table first and then reads the tool number from the pocket that now holds the old tool. |
| `v_skip` | `MCIoControl` | `AbortRuns` | `ioControl.cc:790`, `:791` "abort tool change if in progress", "abort tool prepare if in progress" | An input change is reported under the number after the last command. An abort that gets this number is seen done by task, and when it is read it is taken for an old one. |
| `v_answer` | `MotionChannel` | `AnswerOwn` | `motion.h:602` "these three are updated only when a new command is handled" | An orient that fails in a later period sets `commandStatus`, so a command that was carried out is answered INVALID. |
| `v_split` | `MotionChannel` | `CommandWhole` | | On several processors task can begin the next command between the test for a split read and the use of the command. |
| `v_walk` | `MCHalThread` | `CallsLive` | | On several processors a thread can stand on an entry that is removed and cleared under it. |
| `v_delete` | `MCHalThread` | `NoSelfWait` | | `hal_thread_delete()` calls `hal_exit()` with the HAL mutex held, which `hal_exit()` takes again. |
| `v_export` | `MCHalThread` | `TimeStored` | | A function can be added to a running thread before `hal_export_funct()` has made the pin for its run time. |

The error exits of `do_homing()` at `homing.c:688`, `697`, `846`, `895` and `952` leave
`H[].homing` set as well, and so does `JOINT_HOME` of a negative sequence while another joint
homes (`command.c:1505`); they violate `LimitsSupervised` in the same way. A disable during an
index search leaves `index_enable` set (`control.c:775`). `EMCMOT_ENABLE` does not ask whether
all joints are still homed (`command.c:1404`). `free_pin_struct()` and `alloc_pin_struct()` do not
reset `oldname` (`hal_lib.c:3291`, `:2960`): a recycled pin keeps the old name of its predecessor,
and its exit frees that structure a second time.

## 4. Proofs

TLC checks small instances. TLAPS proves the following for every value of the
constants that satisfies the named assumptions.

`MotionProofs`, from `NumJointsAssumption` (at least one joint), `ConfigAssumption` (the
types of the ini-file values) and `EnvironmentAssumption` (commands and events are ones
that exist):

* `TypeCorrect`: `Spec => []TypeOK`. The part that is not plain typing is that
  `pause_timer` never runs past `HOME_DELAY`, and that `do_homing()` stays within the joints.
* `InPositionHolds`: `Spec => []InPosition`. INPOS, or a mode other than free, implies that
  no free-mode planner moves.
* `ModeChangesOnlyStanding`: `Spec => ModeChangesStanding`.
* `FreeModeStartsStanding`: `Spec => FreeModeStartsStill`.

The inductive invariant is `IInv == TypeOK /\ InPosition /\ ModeAgrees /\ InLoop`.
`InPosition` alone is not inductive: that a planner moves only in free mode is known from
`motion_state`, while `InPosition` speaks of the flags, and `motion_state` is computed from
the flags once per period; `ModeAgrees` says that the two agree as long as it matters.
`InLoop` says that inside the loop `cycle.jno` is a joint. Every action other than
`get_pos_cmds()` leaves `free_tp.active` alone (`PlannersKept`); there is one lemma for each
case of `do_homing()` and one for each part of the servo period.

`HalStreamProofs`, from `DepthAssumption` (at least one slot), `ValueAssumption` and
`BoundsAssumption`:

* `StreamTypeCorrect`: `Spec => []StreamTypeOK`.
* `NoTornRecordHolds`: `Spec => []NoTornRecord`.
* `StreamImplementsFifo`: `Spec => ImplementsFifo`, the refinement of `StreamFifo`.

The inductive invariant adds to the types what `Claims` says: a call that has begun still
has the right to its slot (the other side can only make more room, or more records), and
what it has copied so far is what the slot holds. `AdvanceInjective` is the fact about the
ring that carries this. In the refinement, `WritePublish` is `Put`, `ReadPublish` is `Get`
and every other step is a stutter.

Liveness (`HomingEnds`, `Delivered`, `EachByteLeaves`, `Settles`, `Answered`, `Served`) is out of
the prover's reach and only model-checked. `JogsLocked`, `FinalMovesTogether`,
`HomesOnlyAsked`, `ArmedOnlyHoming` and `HomedMeansDone` of the servo thread, and all
properties of `HalPort`, `Task`, `IoControl`, `MotionChannel`, `Planner`, `HalNet` and
`HalThread` are model-checked and not proved yet. Some hold for the instances of their run and
not for all: `MessagesWhole`, `ErrorsInOrder` (where `num++` and `num--` would lose each other),
`ListsWalkable` and `CallsSafe` need that there is one processor.

## 5. Not modelled

The hazards that no property covers yet are listed in `PROJECT.json` with the reason.

* Kinematics, compensation, following error, velocity profiles and blend geometry:
  floating-point computation. Their effect on the control flow is an input of the models.
* Interpreter and user interfaces: sequential programs; they are the source of the commands,
  which come in any order.
* RTAPI below the HAL mutex and the priorities of threads, drivers and HAL components:
  operating system and hardware.
* NML and CMS buffers: encoding of messages; `IoControl` uses that a write replaces the
  message before it.
* Motion: extra joints, limit override, probe and rigid-tap moves, external offsets,
  synchronised outputs.
* Task: commands that are passed on to motion or I/O without a change of task's own state,
  remapped tool changes, system commands.
* I/O controller: tool offsets, coolant and lube.
* HAL: parameters, shared-memory allocation, attaching and detaching of streams; more than
  one writer or reader on a stream or a port.
* Task, I/O controller, channel and servo thread are checked one by one, each against what it
  sees of the others, and not as one composed system, which is out of TLC's reach.
* Loads that overtake each other: on a machine with weak memory order and C11 atomics, the
  acquire load in `hal_stream_read()` is that of the reader's own index, and nothing orders
  the plain load of `in` before the copy of the record.

## 6. Plan

In this order:

1. Proofs: `SidesApart` and the refinement of `PortFifo` by `HalPort`, up to the first exact
   fill; `ErrorsInOrder` and `CommandWhole` of `MotionChannel`;
   `MovesAndToolChangesExclude` of `Task`; the ring part of `QueueWhole` of `Planner`;
   `JogsLocked` and `FinalMovesTogether` for any number of joints.
2. `HalStream` with loads that overtake each other, to see which of the four index loads need
   acquire semantics.
3. Three joints for `HomesOnlyAsked` and `FinalMovesTogether`; disabling and enabling in
   coordinated mode with kinematics that need all joints homed.
4. `Task` with `IoControl` in place of its abstract I/O.
