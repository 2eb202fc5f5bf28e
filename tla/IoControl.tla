------------------------------ MODULE IoControl ------------------------------
(***************************************************************************)
(* The I/O controller (emc/iotask/ioControl.cc) and the task's side of its *)
(* channel (emc/task/iotaskintf.cc).  The command buffer holds one command *)
(* and the number it was written with; the controller polls it, compares   *)
(* the number with the last one it echoed, and writes its status back.     *)
(* Both run freely: each of the three parts of the controller's cycle is a *)
(* step, and the task may write between any two.                           *)
(*                                                                         *)
(* The tool changer behind the HAL pins is external.  It fetches the tool  *)
(* whose number the pins show when it is asked to prepare one, puts what   *)
(* it has fetched into the spindle when asked to change, and lowers an     *)
(* answer at once when the request falls.                                  *)
(***************************************************************************)
EXTENDS Integers

CONSTANTS
    Machines,    \* the changers: random or not, with how many pockets
    MaxSerial    \* bound: commands written

ASSUME MachinesAssumption ==
    Machines \subseteq [random : BOOLEAN, pockets : Nat \ {0}]

VARIABLES
    machine,    \* the changer this machine has
    buffer,     \* toolCmd: the command last written and its number
    sent,       \* emcIoCommandSerialNumber
    status,     \* toolSts: the echo and the state last written
    io,         \* the controller: emcioCommand, emcioStatus, tool_status
    pins,       \* its HAL pins
    file,       \* the tool table on disk
    changer,    \* the tool fetched and the tool in the spindle
    astray,     \* history: "fetched" while the changer may hold another tool
                \* ready than io has prepared, "spindle" while the spindle may
                \* hold one that io was not told of, "crossed" while an answer
                \* stands or is due that belongs to a prepare or a table before
                \* the last, "file" while the last save of the table has failed
    skipped,    \* history: the last command was taken for an old one, not run
    pc          \* where the cycle is: "inputs", "tools" or "command"

vars == <<machine, buffer, sent, status, io, pins, file, changer, astray, skipped, pc>>

\* [EMCIO]RANDOM_TOOLCHANGER, and CANON_POCKETS_MAX - 1
random == machine.random
Pockets == machine.pockets

Forced == {"ABORT", "ESTOP_ON"}
Requests == [op : {"PREPARE"}, pocket : 0 .. Pockets]
              \cup [op : {"LOAD", "TOOL_TABLE"}, pocket : {0}]

\* A tool has the number of the pocket it starts in; the one that starts in
\* the spindle of a random changer is the last.
EmptyTable == [p \in 0 .. Pockets |->
                 IF p > 0 THEN p ELSE IF random THEN Pockets + 1 ELSE -1]

-----------------------------------------------------------------------------
(* Task's side                                                             *)

\* The status emcIoUpdate and sendCommand take for "done".
Done == status.echo >= sent /\ status.state # "EXEC"

Write(c) ==
    /\ sent < MaxSerial
    /\ buffer' = [serial |-> buffer.serial + 1, command |-> c]
    /\ sent' = buffer.serial + 1
    /\ UNCHANGED <<machine, status, io, pins, file, skipped, pc>>

Unread == buffer # io.last
Untold == IF Unread /\ buffer.command.op = "SET_NUMBER" THEN {"spindle"} ELSE {}

\* Mutant: a DONE left over from the command before is taken for this one's.
sendHasty(c) ==
    /\ status.state # "EXEC"
    /\ Write(c)
    /\ astray' = astray \cup Untold
    /\ UNCHANGED changer

\* sendCommand; when five seconds are not enough the command is dropped.
sendCommand(c) ==
    /\ Done
    /\ Write(c)
    /\ astray' = astray \cup Untold
    /\ UNCHANGED changer

\* M61: the operator has put the tool of pocket p into the spindle by hand.
SetNumber(p) ==
    /\ Done
    /\ Write([op |-> "SET_NUMBER", pocket |-> p])
    /\ changer' = [changer EXCEPT !.spindle =
                     IF ~random /\ p = 0 THEN 0 ELSE io.table[p]]
    /\ astray' = astray \cup Untold

\* forceCommand: the abort and the emergency stop do not wait.
forceCommand(op) ==
    /\ Write([op |-> op, pocket |-> 0])
    /\ astray' = astray \cup Untold
    /\ UNCHANGED changer

-----------------------------------------------------------------------------
(* The controller's cycle                                                  *)
WriteStatus(i) == status' = [echo |-> i.echo, state |-> i.state]

\* A change of an input is pushed out under a number of its own.
read_hal_inputs ==
    LET change == [io EXCEPT !.estop = ~pins.enable_in,
                             !.echo = io.last.serial + 1]
    IN  /\ pc = "inputs"
        /\ pc' = "tools"
        /\ IF io.estop = ~pins.enable_in
           THEN UNCHANGED <<io, status>>
           ELSE io' = change /\ WriteStatus(change)
        /\ UNCHANGED <<machine, buffer, sent, pins, file, changer, astray, skipped>>

\* load_tool: swapped with the spindle's pocket, or copied into it.
load_tool(table, p) ==
    CASE random -> [table EXCEPT ![0] = table[p], ![p] = table[0]]
      [] ~random /\ p = 0 -> [table EXCEPT ![0] = 0]
      [] ~random /\ p # 0 -> [table EXCEPT ![0] = table[p]]

\* Whether saveToolTable can open the file; only a swap is saved.
Saves == IF random THEN BOOLEAN ELSE {TRUE}

\* Mutant: a swap is not saved.
SavedNever(ok, table) == file

Saved(ok, table) == IF random /\ ok THEN table ELSE file

Unsaved(ok) == (astray \ {"file"}) \cup (IF ok THEN {} ELSE {"file"})

ToolPrepared ==
    LET after == [io EXCEPT !.prepped = pins.prep_index, !.state = "DONE",
                            !.answered = "prepare", !.echo = io.last.serial]
    IN  /\ pins.prepare /\ pins.prepared
        /\ io' = after
        /\ WriteStatus(after)
        /\ pins' = [pins EXCEPT !.prepare = FALSE, !.prepared = FALSE]
        /\ astray' = IF "crossed" \in astray THEN (astray \ {"crossed"}) \cup {"fetched"}
                     ELSE IF pins.change THEN astray ELSE astray \ {"fetched"}
        /\ UNCHANGED file

\* The DONE at the end also takes the place of the error of a save that failed.
ToolChanged ==
    LET tool == IF ~random /\ io.prepped = 0 THEN 0 ELSE io.table[io.prepped]
        after == [io EXCEPT !.spindle = tool, !.prepped = -1, !.state = "DONE",
                            !.table = load_tool(io.table, io.prepped),
                            !.answered = "change", !.echo = io.last.serial]
    IN  /\ ~(pins.prepare /\ pins.prepared)
        /\ pins.change /\ pins.changed
        /\ io' = after
        /\ WriteStatus(after)
        /\ pins' = [pins EXCEPT !.tool_number = tool, !.prep_number = 0,
                                !.prep_index = 0, !.change = FALSE,
                                !.changed = FALSE]
        /\ \E ok \in Saves :
             /\ file' = Saved(ok, after.table)
             /\ astray' = IF "fetched" \in astray THEN Unsaved(ok) \cup {"spindle"}
                          ELSE Unsaved(ok) \ {"spindle"}

NoAnswer ==
    /\ ~(pins.prepare /\ pins.prepared)
    /\ ~(pins.change /\ pins.changed)
    /\ io' = [io EXCEPT !.answered = "none"]
    /\ UNCHANGED <<status, pins, file, astray>>

read_tool_inputs ==
    /\ pc = "tools"
    /\ pc' = "command"
    /\ ToolPrepared \/ ToolChanged \/ NoAnswer
    /\ UNCHANGED <<machine, buffer, sent, changer, skipped>>

-----------------------------------------------------------------------------
(* Commands.  Each is what the switch of main makes of the controller, its *)
(* pins and the file; the state it starts from is DONE.                    *)
\* Mutant: the state is not set back to DONE.
BegunBusy == [io EXCEPT !.last = buffer, !.echo = buffer.serial]

Begun == [io EXCEPT !.last = buffer, !.state = "DONE", !.echo = buffer.serial]

\* hal_init_pins
SafePins ==
    [pins EXCEPT !.prepare = FALSE, !.prepared = FALSE, !.prep_number = 0, !.prep_index = 0,
                 !.change = FALSE, !.changed = FALSE]

\* What is astray when an answer of the changer is withdrawn before it is read.
CutShort ==
    (astray \ {"crossed"})
      \cup (IF pins.prepared THEN {"fetched"} ELSE {})
      \cup (IF pins.changed THEN {"fetched", "spindle"} ELSE {})

\* Mutant: only a prepare is withdrawn.
AbortedPrepare == [pins EXCEPT !.prepare = FALSE, !.prepared = FALSE]

AbortedPins ==
    [pins EXCEPT !.change = FALSE, !.changed = FALSE,
                 !.prepare = FALSE, !.prepared = FALSE]

ToolPrepare(p) ==
    LET number == IF ~random /\ p = 0 THEN 0 ELSE io.table[p]
        shown == [pins EXCEPT !.prep_index = p, !.prep_number = number]
    IN  IF random /\ p = 0
        THEN /\ io' = [Begun EXCEPT !.prepped = 0]
             /\ pins' = shown
             /\ UNCHANGED astray
        ELSE /\ io' = [Begun EXCEPT !.state =
                          IF io.answered = "prepare" THEN "DONE" ELSE "EXEC"]
             /\ pins' = [shown EXCEPT !.prepare = TRUE]
             /\ astray' = astray
                  \cup (IF io.answered = "prepare" THEN {"fetched"} ELSE {})
                  \cup (IF pins.prepared /\ pins.prep_number # number THEN {"crossed"} ELSE {})

ToolLoad ==
    IF \/ random /\ io.prepped = 0
       \/ ~random /\ io.prepped > 0 /\ io.spindle = io.table[io.prepped]
       \/ io.prepped = -1
    THEN /\ io' = Begun
         /\ UNCHANGED <<pins, astray>>
    ELSE /\ io' = [Begun EXCEPT !.state =
                      IF io.answered = "change" THEN "DONE" ELSE "EXEC"]
         /\ pins' = [pins EXCEPT !.change = TRUE]
         /\ UNCHANGED astray

\* What is astray when the pockets of a random changer get other numbers.
OldTable == {"fetched"} \cup (IF pins.prepare THEN {"crossed"} ELSE {})

\* M61: what load_tool leaves in the pocket is recorded as in the spindle.
ToolSetNumber(p) ==
    LET table == load_tool(io.table, p) IN
    \E ok \in Saves :
      /\ io' = [Begun EXCEPT !.table = table, !.spindle = table[p],
                             !.state = IF ok THEN "DONE" ELSE "ERROR"]
      /\ pins' = [pins EXCEPT !.tool_number = table[p]]
      /\ file' = Saved(ok, table)
      /\ astray' = IF random /\ p # 0 THEN Unsaved(ok) \cup OldTable \cup {"spindle"}
                   ELSE IF "fetched" \in astray \/ ~Unread THEN Unsaved(ok)
                   ELSE Unsaved(ok) \ {"spindle"}

\* reload_tool_number
Reloaded(table) ==
    LET match == {p \in 1 .. Pockets : table[p] = io.spindle}
    IN  IF ~random /\ match # {}
        THEN load_tool(table, CHOOSE p \in match : \A q \in match : p <= q)
        ELSE table

\* loadToolTable clears the entries it may fill when it has opened the file;
\* that it could not is an error of EMC_TOOL_LOAD_TOOL_TABLE alone.
ToolTable(op) ==
    \E ok \in BOOLEAN :
      LET read == CASE ~ok -> io.table
                    [] ok /\ random -> file
                    [] ok /\ ~random -> [file EXCEPT ![0] = io.table[0]]
      IN  /\ io' = IF ok \/ op = "INIT" THEN [Begun EXCEPT !.table = Reloaded(read)]
                   ELSE [Begun EXCEPT !.state = "ERROR"]
          /\ astray' = IF ok /\ "file" \in astray THEN astray \cup OldTable ELSE astray
          /\ UNCHANGED pins

Run(c) ==
    CASE c.op = "PREPARE" -> ToolPrepare(c.pocket) /\ UNCHANGED file
      [] c.op = "LOAD" -> ToolLoad /\ UNCHANGED file
      [] c.op = "SET_NUMBER" -> ToolSetNumber(c.pocket)
      [] c.op \in {"TOOL_TABLE", "INIT"} -> ToolTable(c.op) /\ UNCHANGED file
      [] c.op = "ABORT" ->
           io' = Begun /\ pins' = AbortedPins
             /\ astray' = CutShort /\ UNCHANGED file
      [] c.op = "ESTOP_ON" ->
           io' = Begun /\ pins' = SafePins
             /\ astray' = CutShort /\ UNCHANGED file

AlreadyDone == buffer.serial = io.echo

ReadCommand ==
    /\ pc = "command"
    /\ pc' = "inputs"
    /\ IF AlreadyDone
       THEN /\ io' = [io EXCEPT !.last = buffer]
            /\ skipped' = (skipped \/ Unread)
            /\ astray' = astray \cup Untold
            /\ UNCHANGED <<status, pins, file>>
       ELSE /\ Run(buffer.command)
            /\ WriteStatus(io')
            /\ skipped' = FALSE
    /\ UNCHANGED <<machine, buffer, sent, changer>>

-----------------------------------------------------------------------------
(* The machine behind the pins: external.                                  *)
InputChanges ==
    /\ pins' = [pins EXCEPT !.enable_in = ~@]
    /\ UNCHANGED <<machine, buffer, sent, status, io, file, changer, astray, skipped, pc>>

Fetch ==
    /\ pins.prepare /\ ~pins.prepared
    /\ pins' = [pins EXCEPT !.prepared = TRUE]
    /\ changer' = [changer EXCEPT !.fetched = pins.prep_number]
    /\ UNCHANGED <<machine, buffer, sent, status, io, file, astray, skipped, pc>>

Exchange ==
    /\ pins.change /\ ~pins.changed
    /\ pins' = [pins EXCEPT !.changed = TRUE]
    /\ changer' = [changer EXCEPT !.spindle = changer.fetched]
    /\ UNCHANGED <<machine, buffer, sent, status, io, file, astray, skipped, pc>>

-----------------------------------------------------------------------------
StartBuffer == [serial |-> 1, command |-> [op |-> "INIT", pocket |-> 0]]

StartIo(table, tool) ==
    [last |-> StartBuffer, echo |-> 1, state |-> "DONE", estop |-> TRUE,
     prepped |-> -1, spindle |-> tool, table |-> table,
     answered |-> "none"]

StartPins(tool) ==
    [enable_in |-> FALSE,
     prepare |-> FALSE, prepared |-> FALSE, prep_index |-> 0,
     prep_number |-> 0, change |-> FALSE, changed |-> FALSE,
     tool_number |-> tool]

FirstTool(table) == IF random THEN table[0] ELSE 0

Init ==
    /\ machine \in Machines
    /\ buffer = StartBuffer
    /\ sent = 1
    /\ status = [echo |-> 1, state |-> "DONE"]
    /\ io = StartIo(EmptyTable, FirstTool(EmptyTable))
    /\ pins = StartPins(FirstTool(EmptyTable))
    /\ file = EmptyTable
    /\ changer = [fetched |-> 0, spindle |-> FirstTool(EmptyTable)]
    /\ astray = {}
    /\ skipped = FALSE
    /\ pc = "inputs"

\* The program is stopped and started again: what it knows is in the file.  A
\* changer that is not random is started with an empty spindle.
Restart ==
    /\ buffer' = StartBuffer
    /\ sent' = 1
    /\ status' = [echo |-> 1, state |-> "DONE"]
    /\ io' = StartIo(file, FirstTool(file))
    /\ pins' = StartPins(FirstTool(file))
    /\ changer' = IF random THEN changer ELSE [fetched |-> 0, spindle |-> 0]
    /\ astray' = IF random /\ (CutShort \cup Untold) \cap {"spindle", "file"} # {}
                 THEN {"spindle"} ELSE {}
    /\ skipped' = FALSE
    /\ pc' = "inputs"
    /\ UNCHANGED <<machine, file>>

Next ==
    \/ \E c \in Requests : sendCommand(c)
    \/ \E p \in 0 .. Pockets : SetNumber(p)
    \/ \E op \in Forced : forceCommand(op)
    \/ read_hal_inputs
    \/ read_tool_inputs
    \/ ReadCommand
    \/ InputChanges
    \/ Fetch
    \/ Exchange
    \/ Restart

Spec == Init /\ [][Next]_vars

(* The controller's loop polls for ever, and the changer answers.          *)
FairSpec ==
    /\ Spec
    /\ WF_vars(read_hal_inputs) /\ WF_vars(read_tool_inputs)
    /\ WF_vars(ReadCommand) /\ WF_vars(Fetch) /\ WF_vars(Exchange)

-----------------------------------------------------------------------------
\* The number an input change was pushed out under stands as the echo.
Pushed == io.echo > io.last.serial

(* The controller's record has its type.                                   *)
IoTypeOK ==
    /\ io.state \in {"DONE", "EXEC", "ERROR"}
    /\ io.prepped \in -1 .. Pockets
    /\ io.last.serial <= buffer.serial
    /\ sent = buffer.serial
    /\ pins.prep_index \in 0 .. Pockets

(* What the controller says is in the spindle is there: its record, the    *)
(* tool-number pin and what the changer or the operator put in agree while *)
(* no answer to a change and no M61 is still to be read.  What the code    *)
(* lets come between them is noted as "spindle" in astray and stays        *)
(* excepted until the next change or M61 that is not among these:          *)
(*  - an abort, emergency stop or restart that finds the answer to a       *)
(*    change unread (ioControl.cc:790, 946);                               *)
(*  - a change after a prepare whose answer was withdrawn in that way: the *)
(*    tool that is ready is not the one of pocketPrepped;                  *)
(*  - a change, a further prepare, an M61 or a reading of the file beside  *)
(*    a prepare that was reported done on the answer to the one before it  *)
(*    (ioControl.cc:820);                                                  *)
(*  - an M61 that is written over, or taken for an old command after an    *)
(*    input change (ioControl.cc:729);                                     *)
(*  - an M61 on a random changer, which records the tool that was in the   *)
(*    spindle before (ioControl.cc:912, PocketZeroIsSpindle), and a change *)
(*    to what was prepared before it;                                      *)
(*  - after a save of the table has failed (ioControl.cc:539), a restart,  *)
(*    and a change to what was prepared before the file is read again.     *)
SpindleKnown ==
    /\ IoTypeOK
    /\ \/ pins.changed \/ "spindle" \in Untold \cup astray
       \/ io.spindle = changer.spindle /\ pins.tool_number = io.spindle

(* Pocket 0 of a random changer is the spindle (code-notes.txt).           *)
PocketZeroIsSpindle == random => io.spindle = io.table[0]

(* An abort that the task sees done has withdrawn what was asked of the    *)
(* changer.  Excepted is the abort whose number an input change has used   *)
(* for its report (ioControl.cc:729): the task sees it done while it is    *)
(* unread, and when it is read it is taken for an old one and not run      *)
(* (skipped).                                                              *)
AbortHonored ==
    Done /\ buffer.command.op = "ABORT" =>
        \/ ~pins.prepare /\ ~pins.change
        \/ skipped \/ (Unread /\ Pushed)

(* The same without the exception: ioControl.cc "abort tool change if in   *)
(* progress", "abort tool prepare if in progress".                         *)
AbortRuns ==
    Done /\ buffer.command.op = "ABORT" => ~pins.prepare /\ ~pins.change

(* A command that waits its turn is never written over one that the        *)
(* controller has not read, unless an input change has taken its number.   *)
WaitsItsTurn ==
    [][sent' > sent /\ buffer'.command.op \notin Forced
         => buffer = io.last \/ Pushed]_vars

(* Whatever the task has sent is done at last.                             *)
Answered == ~Done ~> Done
=============================================================================
