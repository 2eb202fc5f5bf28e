--------------------------- MODULE MotionChannel ---------------------------
(***************************************************************************)
(* The shared memory between task and the servo thread: the command        *)
(* structure that usrmotWriteEmcmotCommand() fills and polls for, the      *)
(* status structure that usrmotReadEmcmotStatus() copies, and the ring of  *)
(* error messages (usrmotintf.cc, emcmotutil.c; on the other side          *)
(* command.c and control.c).  There is no lock: counters head and tail at  *)
(* the two ends of a structure are to tell a copy that was cut in two.     *)
(*                                                                         *)
(* A structure is a record with one field per part that the counters tell  *)
(* apart; copies go through it in the order of its members.  The contents  *)
(* of a command are its number.  On one processor the servo thread         *)
(* interrupts task between two accesses and runs to its end; on several    *)
(* (Parallel) the two interleave access by access.                         *)
(***************************************************************************)
EXTENDS Integers, Sequences

CONSTANTS
    Parallel,       \* task and the servo thread run on different processors
    HeadCount,      \* number of values of head and tail (unsigned char)
    ErrorNum,       \* EMCMOT_ERROR_NUM
    CopyPeriods,    \* bound: servo periods that start while task copies the status once
    MaxCommand,     \* bound: commands written
    MaxError,       \* bound: errors reported by the servo thread
    Orients         \* the numbers of the commands that are SPINDLE_ORIENT

ASSUME ChannelAssumption ==
    /\ Parallel \in BOOLEAN
    /\ ErrorNum \in Nat \ {0} /\ CopyPeriods \in Nat \ {0}
    /\ MaxCommand \in Nat /\ MaxError \in Nat /\ Orients \subseteq Nat
    /\ HeadCount \in Nat /\ HeadCount > 2 * CopyPeriods

VARIABLES
    command,    \* *emcmotCommand; rest: the members that follow tail
    status,     \* *emcmotStatus; body and late: what the controller computes in every
                \*   period, from the commands so far and from the time (one bit of it)
    errors,     \* *emcmotError
    user,       \* task: commandNum, headCount and the local variables of the call it is in
    rt,         \* the servo thread: where it is, the number it reads for num++, and
                \*   spindle-orient, the pin of an orient in progress
    handled,    \* history: the command handled last, as it was read; fault: an orient
                \*   has failed since
    pending,    \* history: the errors put and not yet got
    raised,     \* history: the number of errors raised
    answer      \* history: what the last call of usrmotWriteEmcmotCommand() returned

vars == <<command, status, errors, user, rt, handled, pending, raised, answer>>

Result == {"OK", "INVALID"}
Number == 0 .. MaxCommand
Count == 0 .. HeadCount - 1
Inc(h) == (h + 1) % HeadCount

\* The members of the command in the order of the structure, and of the status up to tail.
CommandMember == <<"head", "num", "body", "tail", "rest">>
StatusMember == <<"head", "echo", "body", "late", "tail">>

StatusType == [head : Count, echo : Number, result : Result, body : Number \X {0, 1},
               late : {0, 1}, tail : Count]

-----------------------------------------------------------------------------
(* Task.  user.pc is "idle" between calls; user.at counts the members copied. *)

\* Task gets the processor.
Runs == Parallel \/ rt.pc = "idle"

Blank == [head |-> 0, echo |-> 0, result |-> "OK", body |-> <<0, 0>>, late |-> 0, tail |-> 0]

Idle == [num |-> 0, head |-> 0, pc |-> "idle", at |-> 1, for |-> "poll", tries |-> 0, lag |-> 0,
         copy |-> Blank, error |-> 0, seen |-> 0]

\* The end of a call, and of a turn of the polling loop: its local variables are gone.
Ended(pc) == [Idle EXCEPT !.num = user.num, !.head = user.head, !.pc = pc]

Return(a) == /\ user' = Ended("idle")
             /\ answer' = a

\* usrmotWriteEmcmotCommand() up to the copy
WriteCommand ==
    /\ Runs /\ user.pc = "idle" /\ user.num < MaxCommand
    /\ user' = [user EXCEPT !.pc = "write", !.at = 1, !.num = @ + 1, !.head = Inc(@)]
    /\ answer' = "NONE"
    /\ UNCHANGED <<command, status, errors, rt, handled, pending, raised>>

\* *emcmotCommand = *c, one member at a time
CopyCommand ==
    LET m == CommandMember[user.at]
    IN /\ Runs /\ user.pc = "write"
       /\ command' = [command EXCEPT ![m] = IF m \in {"head", "tail"} THEN user.head ELSE user.num]
       /\ user' = IF user.at = Len(CommandMember) THEN [user EXCEPT !.pc = "poll", !.at = 1]
                                                  ELSE [user EXCEPT !.at = @ + 1]
       /\ UNCHANGED <<status, errors, rt, handled, pending, raised, answer>>

\* A call of usrmotReadEmcmotStatus(): by the poll for a command or by emcMotionUpdate().
StartRead(for) ==
    user' = [user EXCEPT !.pc = "read", !.for = for, !.at = 1, !.tries = 0, !.lag = 0]

\* The head of the polling loop: the time is up, or the status is read.
Poll ==
    /\ Runs /\ user.pc = "poll"
    /\ \/ Return("TIMEOUT")
       \/ StartRead("poll") /\ UNCHANGED answer
    /\ UNCHANGED <<command, status, errors, rt, handled, pending, raised>>

MotionUpdate ==
    /\ Runs /\ user.pc = "idle"
    /\ StartRead("update")
    /\ UNCHANGED <<command, status, errors, rt, handled, pending, raised, answer>>

\* memcpy() of the status; commandStatus follows commandNumEcho
CopyStatus ==
    LET m == StatusMember[user.at]
    IN /\ Runs /\ user.pc = "read" /\ user.at <= Len(StatusMember)
       /\ user' = [user EXCEPT !.at = @ + 1,
                               !.copy = IF m = "echo"
                                        THEN [@ EXCEPT !.echo = status.echo, !.result = status.result]
                                        ELSE [@ EXCEPT ![m] = status[m]]]
       /\ UNCHANGED <<command, status, errors, rt, handled, pending, raised, answer>>

\* Mutant: a copy with different counters is taken when the tries are used up.
AcceptedLast == user.copy.head = user.copy.tail \/ user.tries = 2

\* The copy passes for one made at one time.
Accepted == user.copy.head = user.copy.tail

\* The end of the copy: accepted, tried again, which overwrites all of it, or given up.
CheckStatus ==
    /\ Runs /\ user.pc = "read" /\ user.at > Len(StatusMember)
    /\ \/ /\ Accepted /\ user.for = "poll" /\ user.copy.echo = user.num
          /\ Return(user.copy.result)
       \/ /\ Accepted /\ user.for = "poll" /\ user.copy.echo # user.num
          /\ user' = Ended("poll")
          /\ UNCHANGED answer
       \/ /\ Accepted /\ user.for = "update"
          /\ user' = Ended("get")
          /\ UNCHANGED answer
       \/ /\ ~Accepted /\ user.tries < 2
          /\ user' = [user EXCEPT !.at = 1, !.tries = @ + 1, !.lag = 0, !.copy = Blank]
          /\ UNCHANGED answer
       \/ /\ ~Accepted /\ user.tries = 2
          /\ user' = Ended(IF user.for = "poll" THEN "poll" ELSE "idle")
          /\ UNCHANGED answer
    /\ UNCHANGED <<command, status, errors, rt, handled, pending, raised>>

\* emcmotErrorGet(): the test, the copy of the oldest error, the index, and num--, a load
\* and a store.
GetTest ==
    /\ Runs /\ user.pc = "get"
    /\ user' = [user EXCEPT !.pc = IF errors.num = 0 THEN "idle" ELSE "take"]
    /\ UNCHANGED <<command, status, errors, rt, handled, pending, raised, answer>>

\* Mutant: the index moves on before the copy.
GetTakeNext ==
    /\ Runs /\ user.pc = "take"
    /\ user' = [user EXCEPT !.pc = "load", !.error = errors.slot[(errors.start + 1) % ErrorNum]]
    /\ errors' = [errors EXCEPT !.start = (@ + 1) % ErrorNum]
    /\ pending' = IF pending = <<>> THEN <<>> ELSE Tail(pending)
    /\ UNCHANGED <<command, status, rt, handled, raised, answer>>

GetTake ==
    /\ Runs /\ user.pc = "take"
    /\ user' = [user EXCEPT !.pc = "load", !.error = errors.slot[errors.start]]
    /\ errors' = [errors EXCEPT !.start = (@ + 1) % ErrorNum]
    /\ pending' = IF pending = <<>> THEN <<>> ELSE Tail(pending)
    /\ UNCHANGED <<command, status, rt, handled, raised, answer>>

GetLoad ==
    /\ Runs /\ user.pc = "load"
    /\ user' = [user EXCEPT !.pc = "store", !.seen = errors.num]
    /\ UNCHANGED <<command, status, errors, rt, handled, pending, raised, answer>>

GetStore ==
    /\ Runs /\ user.pc = "store"
    /\ user' = Ended("idle")
    /\ errors' = [errors EXCEPT !.num = user.seen - 1]
    /\ UNCHANGED <<command, status, rt, handled, pending, raised, answer>>

UserStep == \/ WriteCommand \/ CopyCommand \/ Poll \/ MotionUpdate \/ CopyStatus \/ CheckStatus
            \/ GetTest \/ GetTake \/ GetLoad \/ GetStore

-----------------------------------------------------------------------------
(* The servo thread: motion-command-handler, then motion-controller. *)

Goto(pc) == rt' = [rt EXCEPT !.pc = pc]

\* A new period.  On one processor it cannot cut num-- of task, one instruction, in two.
StartPeriod ==
    /\ rt.pc = "idle"
    /\ Parallel \/ user.pc # "store"
    /\ user.pc = "read" => user.lag < CopyPeriods
    /\ user' = IF user.pc = "read" THEN [user EXCEPT !.lag = @ + 1] ELSE user
    /\ Goto("split")
    /\ UNCHANGED <<command, status, errors, handled, pending, raised, answer>>

\* Mutant: the counters are not compared.
SplitNever == FALSE

\* "check for split read"
Split == command.head # command.tail

TestSplit ==
    /\ rt.pc = "split"
    /\ Goto(IF Split THEN "controller" ELSE "compare")
    /\ UNCHANGED <<command, status, errors, user, handled, pending, raised, answer>>

\* Mutant: the result of the command before is not cleared.
EchoKeepsResult == [status EXCEPT !.head = Inc(@), !.echo = command.num]

\* A new command: head, the echo and the default result.
Echo == [status EXCEPT !.head = Inc(@), !.echo = command.num, !.result = "OK"]

Compare ==
    /\ rt.pc = "compare"
    /\ \/ /\ command.num = status.echo
          /\ Goto("controller")
          /\ UNCHANGED status
       \/ /\ command.num # status.echo
          /\ status' = Echo
          /\ Goto("execute")
    /\ UNCHANGED <<command, errors, user, handled, pending, raised, answer>>

\* The switch statement reads the command in place.  A jog that does not fit the mode
\* returns early, with the result OK and tail left behind.  SPINDLE_ORIENT raises the pin
\* of an orient; of the others, SPINDLE_ON and SPINDLE_OFF lower it.
Execute ==
    /\ rt.pc = "execute"
    /\ \E result \in Result, early \in BOOLEAN, orient \in BOOLEAN :
          /\ early => result = "OK"
          /\ IF early \/ result # "OK" THEN orient = rt.orient
             ELSE /\ status.echo \in Orients => orient
                  /\ orient => rt.orient \/ status.echo \in Orients
          /\ handled' = [num |-> status.echo, body |-> command.body,
                         result |-> result, fault |-> FALSE]
          /\ status' = [status EXCEPT !.result = IF result = "OK" THEN @ ELSE result]
          /\ rt' = [rt EXCEPT !.pc = IF early THEN "controller" ELSE "sync", !.orient = orient]
    /\ UNCHANGED <<command, errors, user, pending, raised, answer>>

\* "synch tail count"
Sync ==
    /\ rt.pc = "sync"
    /\ status' = [status EXCEPT !.tail = status.head]
    /\ Goto("controller")
    /\ UNCHANGED <<command, errors, user, handled, pending, raised, answer>>

\* "increment head count to indicate work in progress"
StartController ==
    /\ rt.pc = "controller"
    /\ status' = [status EXCEPT !.head = Inc(@)]
    /\ Goto("compute")
    /\ UNCHANGED <<command, errors, user, handled, pending, raised, answer>>

\* process_inputs() and the rest of emcmotController().  An orient may come to its end, or
\* fail: then it also sets the result of the command handled last, and reports an error.
Compute ==
    /\ rt.pc = "compute"
    /\ \E fault \in BOOLEAN, orient \in BOOLEAN :
          /\ fault => rt.orient /\ ~orient /\ raised < MaxError
          /\ orient => rt.orient
          /\ rt' = [rt EXCEPT !.pc = IF fault THEN "fault" ELSE "report", !.orient = orient]
          /\ status' = [status EXCEPT !.body = <<handled.num, 1 - @[2]>>, !.late = 1 - @,
                                      !.result = IF fault THEN "INVALID" ELSE @]
          /\ handled' = [handled EXCEPT !.fault = @ \/ fault]
    /\ UNCHANGED <<command, errors, user, pending, raised, answer>>

\* Mutant: the echo is cleared with the work of the period.
FinishForgets ==
    /\ rt.pc = "report"
    /\ status' = [status EXCEPT !.tail = status.head, !.echo = 0]
    /\ Goto("idle")
    /\ UNCHANGED <<command, errors, user, handled, pending, raised, answer>>

\* "set tail to head, to indicate work complete"
Finish ==
    /\ rt.pc = "report"
    /\ status' = [status EXCEPT !.tail = status.head]
    /\ Goto("idle")
    /\ UNCHANGED <<command, errors, user, handled, pending, raised, answer>>

\* Mutant: one error too many fits.
FullLate == errors.num > ErrorNum

Full == errors.num = ErrorNum

\* emcmotErrorPutfv(): the test for a full ring, the message, the index, and num++.
PutTest ==
    /\ rt.pc \in {"report", "fault"} /\ raised < MaxError
    /\ raised' = raised + 1
    /\ Goto(IF Full THEN "report" ELSE "put")
    /\ UNCHANGED <<command, status, errors, user, handled, pending, answer>>

Put ==
    /\ rt.pc = "put"
    /\ errors' = [errors EXCEPT !.slot[errors.end] = raised, !.end = (@ + 1) % ErrorNum]
    /\ pending' = Append(pending, raised)
    /\ Goto("load")
    /\ UNCHANGED <<command, status, user, handled, raised, answer>>

PutLoad ==
    /\ rt.pc = "load"
    /\ rt' = [rt EXCEPT !.pc = "store", !.seen = errors.num]
    /\ UNCHANGED <<command, status, errors, user, handled, pending, raised, answer>>

PutStore ==
    /\ rt.pc = "store"
    /\ errors' = [errors EXCEPT !.num = rt.seen + 1]
    /\ rt' = [rt EXCEPT !.pc = "report", !.seen = 0]
    /\ UNCHANGED <<command, status, user, handled, pending, raised, answer>>

ServoStep == \/ StartPeriod \/ TestSplit \/ Compare \/ Execute \/ Sync
             \/ StartController \/ Compute \/ Finish
             \/ PutTest \/ Put \/ PutLoad \/ PutStore

-----------------------------------------------------------------------------
Init ==
    /\ command = [head |-> 0, num |-> 0, body |-> 0, tail |-> 0, rest |-> 0]
    /\ status = Blank
    /\ errors = [slot |-> [i \in 0 .. ErrorNum - 1 |-> 0], start |-> 0, end |-> 0, num |-> 0]
    /\ user = Idle
    /\ rt = [pc |-> "idle", seen |-> 0, orient |-> FALSE]
    /\ handled = [num |-> 0, body |-> 0, result |-> "OK", fault |-> FALSE]
    /\ pending = <<>> /\ raised = 0 /\ answer = "NONE"

Next == UserStep \/ ServoStep

Spec == Init /\ [][Next]_vars

-----------------------------------------------------------------------------
(* What the counters, the ring and the echo are for. *)

(* No counter, index or number leaves its range; num is the number of errors in the
   ring and never negative or past its size. *)
ChannelTypeOK ==
    /\ command \in [head : Count, num : Number, body : Number, tail : Count, rest : Number]
    /\ status \in StatusType /\ user.copy \in StatusType
    /\ errors \in [slot : [0 .. ErrorNum - 1 -> 0 .. MaxError], start : 0 .. ErrorNum - 1,
                   end : 0 .. ErrorNum - 1, num : 0 .. ErrorNum]
    /\ handled \in [num : Number, body : Number, result : Result,
                    fault : BOOLEAN]
    /\ pending \in Seq(1 .. MaxError) /\ Len(pending) <= ErrorNum

(* The split read test of emcmotCommandHandler(): the members up to tail that a command
   is carried out with belong to that command, also when task gave up waiting for an
   earlier one and has begun to write the next. *)
CommandWhole == handled.body = handled.num

(* The counters of emcmotStatus: a copy that usrmotReadEmcmotStatus() accepts shows the
   echo of a command together with what the controller computed after that command, all
   of it in the same period. *)
StatusWhole ==
    user.pc = "read" /\ user.at > Len(StatusMember) /\ Accepted
        => user.copy.body = <<user.copy.echo, user.copy.late>>

(* A message crosses the shared memory as a whole, the command on its way to the servo
   thread and the status on its way back, and the error ring keeps to its slots.  Of the
   servo thread and task on one processor (~Parallel). *)
MessagesWhole == ChannelTypeOK /\ CommandWhole /\ StatusWhole

(* usrmotWriteEmcmotCommand() returns OK or INVALID only for a command that was carried
   out with that result, and the servo thread has not gone on to another one.  Excepted
   is INVALID for a command that was carried out well, after an orient has failed
   (control.c:456). *)
AnswerTrue ==
    answer \in Result =>
        /\ handled.num = user.num
        /\ handled.result = answer \/ (handled.fault /\ answer = "INVALID")

(* The same without the exception: motion.h of commandEcho, commandNumEcho and
   commandStatus, "these three are updated only when a new command is handled". *)
AnswerOwn == answer \in Result => handled.result = answer

(* Commands are carried out at most once and in the order they were written: a command
   whose call timed out is carried out before the next one or not at all. *)
InOrder == [][rt.pc = "execute" /\ rt'.pc # "execute" => handled'.num > handled.num]_vars

(* The error ring: usrmotReadEmcmotError() reports the oldest error that was put and not
   yet reported; none is reported twice or overtaken, also when the ring is full.  On one
   processor (~Parallel); on several, num++ and num-- may lose each other. *)
ErrorsInOrder ==
    [][user.pc = "take" /\ user'.pc # "take"
        => pending # <<>> /\ user'.error = Head(pending)]_vars
=============================================================================
