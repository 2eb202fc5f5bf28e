------------------------------ MODULE Planner ------------------------------
(* The trajectory planner (emc/tp): the ring of segments with its reverse
   history, the commands that append to it and steer it, and one planning
   cycle (tpRunCycle) per servo period.

   Kept: every flag a decision reads, the order of the tests and their early
   returns, the ring's indices.  Abstracted: a segment's progress is 0 (its
   start) .. Length (its end) and one cycle moves it by at most one unit; its
   velocity is 0 or 1 (standing or moving); the velocity profile and the blend
   geometry are nondeterministic choices.  One servo period is at most one
   command followed by one tpRunCycle. *)
EXTENDS Integers, Sequences, FiniteSets

CONSTANTS
  Size,           \* entries of the ring
  ReverseMargin,  \* TCQ_REVERSE_MARGIN: executed segments kept for reverse
  Slack,          \* TC_QUEUE_MARGIN - TCQ_REVERSE_MARGIN
  Systems,        \* the programs to run and what the operator does meanwhile
  MaxOrders       \* bound: operator orders in one behaviour

VARIABLES
  system,   \* the member of Systems of this behaviour
  next,     \* index of the program's next command
  seen,     \* task's copy of queueFull: "unread", "room" or "full"
  orders,   \* operator orders given so far
  handled,  \* the command handler has run in this period
  tcq,      \* TC_QUEUE_STRUCT
  tp,       \* TP_STRUCT
  mot,      \* the members of emcmotStatus and emcmotDebug the planner shares
  hw        \* spindle and locking indexer

vars == <<system, next, seen, orders, handled, tcq, tp, mot, hw>>

Length == 2
NoId == 0

(* A line command of a program: its id, rapid or feed, whether it turns a
   locking indexer, and what the geometry of the corner before it permits. *)
Shapes == {"plain", "corner", "tangent", "parabolic", "arc", "consume", "zero", "refused"}

ASSUME PlannerAssumption ==
  /\ Size \in Nat /\ ReverseMargin \in Nat \ {0} /\ Slack \in Nat
  /\ Size > ReverseMargin + Slack
  /\ MaxOrders \in Nat
  /\ \A s \in Systems : \A i \in DOMAIN s.program :
       s.program[i].op = "line" => s.program[i].shapes \subseteq Shapes

----------------------------------------------------------------------------
(* Segments (TC_STRUCT). *)

Segment ==
  [id : Nat, rapid : BOOLEAN, term : {"stop", "tangent", "parabolic"},
   sync : {"none", "velocity", "position"}, atspeed : BOOLEAN,
   indexer : BOOLEAN, line : BOOLEAN, blendPrev : BOOLEAN,
   progress : 0..Length, vel : 0..1, active : BOOLEAN, splitting : BOOLEAN,
   remove : BOOLEAN, blending : BOOLEAN,
   turned : BOOLEAN]  \* history: the direction was turned when it was to be removed

\* an entry of the ring that is neither queued nor history: never read
NoSegment ==
  [id |-> NoId, rapid |-> FALSE, term |-> "stop", sync |-> "none",
   atspeed |-> FALSE, indexer |-> FALSE, line |-> FALSE, blendPrev |-> FALSE,
   progress |-> 0, vel |-> 0, active |-> FALSE, splitting |-> FALSE,
   remove |-> FALSE, blending |-> FALSE, turned |-> FALSE]

----------------------------------------------------------------------------
(* The ring (tcq.c). *)

tcqInit ==
  [queue |-> [i \in 0..Size-1 |-> NoSegment], start |-> 0, end |-> 0,
   rend |-> 0, len |-> 0, rlen |-> 0, allFull |-> FALSE]

tcqPut(q, s) ==
  IF q.allFull THEN q
  ELSE LET end == (q.end + 1) % Size
       IN [q EXCEPT !.queue[q.end] = s, !.len = @ + 1, !.end = end,
                    !.allFull = (end = q.start)]

tcqPopBack(q) ==
  LET end == (q.end + Size - 1) % Size
  IN [q EXCEPT !.end = end, !.len = @ - 1, !.queue[end] = NoSegment]

tcqPop(q) ==
  LET popped == [q EXCEPT !.start = (@ + 1) % Size, !.allFull = FALSE,
                          !.len = @ - 1]
  IN IF q.rlen < ReverseMargin
     THEN [popped EXCEPT !.rlen = @ + 1]
     ELSE [popped EXCEPT !.rend = (@ + 1) % Size, !.queue[q.rend] = NoSegment]

tcqBackStep(q) ==
  IF q.start = q.rend THEN q
  ELSE [q EXCEPT !.start = (@ + Size - 1) % Size, !.len = @ + 1,
                 !.rlen = @ - 1]

At(q, n) == (q.start + n) % Size
tcqItem(q, n) == q.queue[At(q, n)]
Last(q) == (q.end + Size - 1) % Size

\* Mutant: the margin counts the history alone.
tcqFullLate(q) == q.len >= Size - ReverseMargin

tcqFull(q) == q.len >= Size - (ReverseMargin + Slack)

----------------------------------------------------------------------------
(* Appending a move (tpAddLine, tpAddCircle and the handlers that call them).
   What the code finds out about the corner between the last queued segment
   and the new one is the command's shape. *)

Merge(q, i, t) == [q EXCEPT !.queue[i].term = t]

NewSegment(c, atspeed) ==
  [NoSegment EXCEPT !.id = c.id, !.rapid = c.rapid, !.term = tp.term,
                    !.sync = tp.sync, !.atspeed = atspeed,
                    !.indexer = c.indexer, !.line = TRUE]

BlendArc(c, prev) ==
  [NoSegment EXCEPT !.id = c.id, !.rapid = prev.rapid, !.term = "tangent",
                    !.sync = tp.sync]

\* A corner may be planned at all: the last segment is queued, not past its
\* middle, does not stop, and neither segment turns a rotary axis.
MayBlend(prev, s) ==
  2 * prev.progress <= Length /\ prev.term # "stop" /\ ~s.indexer /\ ~prev.indexer

tcFlagEarlyStop(q, i, s) ==
  IF \/ s.sync = "position" /\ q.queue[i].sync # "position"
     \/ s.atspeed
  THEN Merge(q, i, "stop") ELSE q

(* The queues tpHandleBlendArc may leave, with the new segment itself: the
   corner changes the last segment's termination, puts an arc between the two,
   or replaces the last segment by the arc. *)
tpHandleBlendArc(q, c, s) ==
  LET i == Last(q)
      prev == q.queue[i]
      arc == BlendArc(c, prev)
  IN IF ~MayBlend(prev, s) THEN {<<q, s>>}
     ELSE (IF "corner" \in c.shapes THEN {<<Merge(q, i, "stop"), s>>} ELSE {})
       \cup (IF "tangent" \in c.shapes THEN {<<Merge(q, i, "tangent"), s>>} ELSE {})
       \cup (IF "parabolic" \in c.shapes
             THEN {<<Merge(q, i, "parabolic"), [s EXCEPT !.blendPrev = TRUE]>>}
             ELSE {})
       \cup (IF "arc" \in c.shapes /\ prev.term = "parabolic" /\ prev.line
             THEN {<<tcqPut(Merge(q, i, "tangent"), arc), s>>} ELSE {})
       \cup (IF /\ "consume" \in c.shapes
                /\ prev.term = "parabolic" /\ prev.line
                /\ ~prev.blendPrev /\ ~prev.atspeed
             THEN {<<tcqPut(tcqPopBack(q), arc), s>>} ELSE {})
       \cup (IF "plain" \in c.shapes THEN {<<q, s>>} ELSE {})

\* What the append leaves: the ring, and whether the new segment found room.
Appended(q, c, s) ==
  LET i == Last(q)
      stop == IF q.queue[i].rapid # c.rapid THEN Merge(q, i, "stop") ELSE q
      corners == IF q.len = 0 THEN {<<q, s>>}
                 ELSE {<<tcFlagEarlyStop(b[1], i, b[2]), b[2]>> :
                         b \in tpHandleBlendArc(stop, c, s)}
  IN {[ring |-> tcqPut(b[1], b[2]), room |-> ~b[1].allFull] : b \in corners}

tpAbort(t) ==
  IF t.aborting THEN t ELSE [t EXCEPT !.pausing = TRUE, !.aborting = TRUE]

----------------------------------------------------------------------------
(* Task: it reads the status, sends a command unless the queue was full, and
   reads the status again before the next one. *)

TaskReads ==
  /\ seen' = IF mot.queueFull THEN "full" ELSE "room"
  /\ UNCHANGED <<system, next, orders, handled, tcq, tp, mot, hw>>

Command ==
  /\ mot.enabled /\ ~handled
  /\ next <= Len(system.program)
  /\ seen = "room"

Sent ==
  /\ handled' = TRUE
  /\ seen' = "unread"
  /\ next' = next + 1
  /\ UNCHANGED <<system, orders, hw>>

(* EMCMOT_SET_LINE and SET_CIRCLE: a feed takes over atspeed_next_feed, a rapid
   at constant surface speed sets it, a zero-length move gives it back; a move
   that is out of range or made on a limit, and one to a planner that is
   aborting or has no room, is refused, and the error aborts the planner. *)
NextFeed(c) == IF c.rapid THEN mot.atspeedNextFeed \/ mot.css ELSE FALSE

SetLine ==
  LET c == system.program[next]
      s == NewSegment(c, mot.atspeedNextFeed /\ ~c.rapid)
  IN /\ Command /\ c.op = "line" /\ Sent
     /\ \/ /\ "refused" \in c.shapes
           /\ tp' = tpAbort(tp)
           /\ UNCHANGED <<tcq, mot>>
        \/ /\ tp.aborting
           /\ tp' = tpAbort(tp)
           /\ mot' = [mot EXCEPT !.atspeedNextFeed = NextFeed(c)]
           /\ UNCHANGED tcq
        \/ /\ ~tp.aborting /\ "zero" \in c.shapes
           /\ mot' = [mot EXCEPT !.atspeedNextFeed = @ \/ NextFeed(c)]
           /\ UNCHANGED <<tcq, tp>>
        \/ /\ ~tp.aborting /\ c.shapes \ {"zero", "refused"} # {}
           /\ mot' = [mot EXCEPT !.atspeedNextFeed = NextFeed(c)]
           /\ \E a \in Appended(tcq, c, s) :
                /\ tcq' = a.ring
                /\ tp' = IF a.room
                         THEN [tp EXCEPT !.done = FALSE, !.depth = a.ring.len]
                         ELSE tpAbort(tp)

\* EMCMOT_SET_TERM_COND, SET_SPINDLESYNC and SPINDLE_ON.
SetTermCond ==
  /\ Command /\ system.program[next].op = "term" /\ Sent
  /\ tp' = [tp EXCEPT !.term = system.program[next].term]
  /\ UNCHANGED <<tcq, mot>>

SetSpindleSync ==
  /\ Command /\ system.program[next].op = "sync" /\ Sent
  /\ tp' = [tp EXCEPT !.sync = system.program[next].sync]
  /\ UNCHANGED <<tcq, mot>>

SpindleOn ==
  /\ Command /\ system.program[next].op = "spindle" /\ Sent
  /\ mot' = [mot EXCEPT !.atspeedNextFeed = TRUE, !.css = system.program[next].css]
  /\ UNCHANGED <<tcq, tp>>

----------------------------------------------------------------------------
(* The operator: commands that steer the planner while the program runs. *)

Order(o) ==
  /\ o \in system.orders /\ orders < MaxOrders
  /\ orders' = orders + 1
  /\ UNCHANGED <<system, hw>>

Handler(o) ==
  /\ Order(o) /\ mot.enabled /\ ~handled
  /\ handled' = TRUE
  /\ UNCHANGED tcq

Pause ==
  /\ Handler("pause")
  /\ tp' = [tp EXCEPT !.pausing = TRUE]
  /\ mot' = [mot EXCEPT !.paused = TRUE]
  /\ UNCHANGED <<next, seen>>

Resume ==
  /\ Handler("resume")
  /\ tp' = [tp EXCEPT !.pausing = FALSE]
  /\ mot' = [mot EXCEPT !.paused = FALSE, !.stepping = FALSE]
  /\ UNCHANGED <<next, seen>>

Step ==
  /\ Handler("step") /\ mot.paused
  /\ tp' = [tp EXCEPT !.pausing = FALSE]
  /\ mot' = [mot EXCEPT !.idForStep = mot.id, !.stepping = TRUE]
  /\ UNCHANGED <<next, seen>>

(* EMCMOT_ABORT; task has dropped the rest of the program, and the operator
   starts it again. *)
Abort ==
  /\ Handler("abort")
  /\ tp' = tpAbort(tp)
  /\ mot' = [mot EXCEPT !.paused = FALSE]
  /\ next' = 1 /\ seen' = "unread"

tpIsMoving == mot.currentVel = 1 \/ tp.waitIndex # NoId \/ tp.waitSpeed # NoId

tpSetRunDir(d) == tp' = IF tpIsMoving THEN tp ELSE [tp EXCEPT !.reverse = d]

\* EMCMOT_REVERSE and FORWARD, and the sign of the adaptive feed, which the
\* controller reads before the cycle in the period of any other command.
Turn ==
  /\ Order("turn") /\ mot.enabled
  /\ tpSetRunDir(~tp.reverse)
  /\ tcq' = IF tp' # tp /\ tcqItem(tcq, 0).remove
            THEN [tcq EXCEPT !.queue[tcq.start].turned = TRUE] ELSE tcq
  /\ UNCHANGED <<next, seen, handled, mot>>

(* The machine is switched off: set_operating_mode clears the planner, but for
   the waits for the spindle (tp.stale: history, they may name what is gone). *)
tpClear ==
  /\ tcq' = tcqInit
  /\ tp' = [tp EXCEPT !.execId = NoId, !.term = "parabolic", !.done = TRUE,
                      !.depth = 0, !.aborting = FALSE, !.pausing = FALSE,
                      !.reverse = FALSE, !.sync = "none",
                      !.stale = tp.waitIndex # NoId \/ tp.waitSpeed # NoId]

Disable ==
  /\ Order("disable") /\ mot.enabled
  /\ tpClear
  /\ mot' = [mot EXCEPT !.enabled = FALSE, !.currentVel = 0, !.id = NoId,
                        !.queueFull = FALSE]
  /\ handled' = FALSE
  /\ next' = 1 /\ seen' = "unread"

Enable ==
  /\ ~mot.enabled
  /\ mot' = [mot EXCEPT !.enabled = TRUE]
  /\ UNCHANGED <<system, next, seen, orders, handled, tcq, tp, hw>>

----------------------------------------------------------------------------
(* Spindle and indexer. *)

SpindleSpeed ==
  /\ \E i \in DOMAIN system.program : system.program[i].op = "spindle"
  /\ hw' = [hw EXCEPT !.atSpeed = ~@]
  /\ UNCHANGED <<system, next, seen, orders, handled, tcq, tp, mot>>

IndexPulse ==
  /\ mot.indexEnable
  /\ mot' = [mot EXCEPT !.indexEnable = FALSE]
  /\ UNCHANGED <<system, next, seen, orders, handled, tcq, tp, hw>>

Rotary ==
  /\ hw.unlocked # hw.unlock
  /\ hw' = [hw EXCEPT !.unlocked = hw.unlock]
  /\ UNCHANGED <<system, next, seen, orders, handled, tcq, tp, mot>>


----------------------------------------------------------------------------
(* The planning cycle (tpRunCycle). *)

\* The end of the period: update_status, which also ends a step.
End(q, t, m) ==
  LET stop == m.stepping /\ m.idForStep # t.execId
  IN /\ tcq' = q
     /\ tp' = [t EXCEPT !.pausing = @ \/ stop]
     /\ mot' = [m EXCEPT !.id = t.execId, !.queueFull = tcqFull(q),
                         !.stepping = @ /\ ~stop, !.paused = @ \/ stop]
     /\ handled' = FALSE
     /\ UNCHANGED <<system, next, seen, orders>>

Front == tcqItem(tcq, 0)
HasNext == ~tp.reverse /\ tcq.len > 1
Following == tcqItem(tcq, 1)
Still == [mot EXCEPT !.currentVel = 0]

tpHandleEmptyQueue ==
  /\ tcq.len = 0
  /\ End(tcqInit, [tp EXCEPT !.done = TRUE, !.depth = 0, !.aborting = FALSE,
                             !.execId = NoId, !.pausing = FALSE], Still)
  /\ UNCHANGED hw

Stopped ==
  \/ tp.waitIndex # NoId \/ tp.waitSpeed # NoId
  \/ Front.vel = 0 /\ (HasNext => Following.vel = 0)

\* Mutant: an abort forgets the queue and leaves the reverse history.
EmptiedKeepsHistory == [tcq EXCEPT !.end = tcq.start, !.len = 0]

Emptied == tcqInit

\* Mutant: an abort leaves the wait for the spindle.
AbortedWaiting ==
  [tp EXCEPT !.done = TRUE, !.depth = 0, !.aborting = FALSE, !.execId = NoId,
             !.sync = "none", !.reverse = FALSE, !.pausing = FALSE]

Aborted ==
  [tp EXCEPT !.done = TRUE, !.depth = 0, !.aborting = FALSE, !.execId = NoId,
             !.sync = "none", !.reverse = FALSE, !.waitIndex = NoId,
             !.waitSpeed = NoId, !.pausing = FALSE, !.stale = FALSE]

tpHandleAbort ==
  /\ tcq.len > 0 /\ tp.aborting /\ Stopped
  /\ End(Emptied, Aborted, Still)
  /\ UNCHANGED hw

(* tpCheckAtSpeed: a wait for another segment is forgotten; the spindle's speed
   is awaited before its index. *)
Waits == [tp EXCEPT !.waitIndex = IF @ = Front.id THEN @ ELSE NoId,
                    !.waitSpeed = IF @ = Front.id THEN @ ELSE NoId,
                    !.stale = FALSE]
WaitsForSpeed == Waits.waitSpeed # NoId /\ ~hw.atSpeed
WaitsForIndex == Waits.waitIndex # NoId /\ mot.indexEnable
Runs == tcq.len > 0 /\ ~(tp.aborting /\ Stopped)

SpindleWait ==
  /\ Runs
  /\ \/ WaitsForSpeed /\ End(tcq, Waits, Still)
     \/ ~WaitsForSpeed /\ WaitsForIndex
        /\ End(tcq, [Waits EXCEPT !.waitSpeed = NoId], Still)
  /\ UNCHANGED hw

\* planner and status once the spindle lets the front segment go on
Passed == [tp EXCEPT !.waitIndex = NoId, !.waitSpeed = NoId, !.stale = FALSE]
Synced == [Still EXCEPT !.spindleSync = @ \/ Waits.waitIndex # NoId]
Ready == Runs /\ ~WaitsForSpeed /\ ~WaitsForIndex

(* tpActivateSegment: the reasons not to start a segment, in their order. *)
AwaitsSync(s) == s.sync = "position" /\ ~Synced.spindleSync

NeedsSpeed(s) == s.atspeed \/ AwaitsSync(s)

ActivateReverse == Ready /\ ~Front.active /\ tp.reverse /\ Front.sync # "none"
ActivateSpeed ==
  Ready /\ ~Front.active /\ ~(tp.reverse /\ Front.sync # "none")
  /\ NeedsSpeed(Front) /\ ~hw.atSpeed
MayStart ==
  Ready /\ ~Front.active /\ ~(tp.reverse /\ Front.sync # "none")
  /\ (NeedsSpeed(Front) => hw.atSpeed)

Started(s) == [s EXCEPT !.active = TRUE, !.blending = FALSE, !.turned = FALSE]

IndexerLocked == Front.indexer /\ ~hw.unlocked

tpActivateSegment ==
  \/ ActivateReverse /\ End(tcq, Passed, Synced) /\ UNCHANGED hw
  \/ /\ ActivateSpeed
     /\ End(tcq, [Passed EXCEPT !.waitSpeed = Front.id], Synced)
     /\ UNCHANGED hw
  \/ /\ MayStart /\ IndexerLocked
     /\ End(tcq, Passed, Synced)
     /\ hw' = [hw EXCEPT !.unlock = TRUE]
  \/ /\ MayStart /\ ~IndexerLocked /\ AwaitsSync(Front)
     /\ End([tcq EXCEPT !.queue[tcq.start] = Started(Front)],
            [Passed EXCEPT !.waitIndex = Front.id],
            [Synced EXCEPT !.indexEnable = TRUE])
     /\ hw' = [hw EXCEPT !.unlock = @ \/ Front.indexer]


(* tpUpdateCycle: where one cycle may take a segment.  A pause or an abort only
   slows it down; a position-synchronised segment follows the spindle through
   a pause. *)
Goal == IF tp.reverse THEN 0 ELSE Length

\* Mutant: a pause does not reach the segment that is blended in.
HeldActive(s) == tp.aborting \/ (tp.pausing /\ s.sync # "position" /\ s.active)

Held(s) == tp.aborting \/ (tp.pausing /\ s.sync # "position")

Toward(s, v) ==
  IF s.vel + v = 0 THEN {s.progress}
  ELSE {s.progress, IF tp.reverse THEN s.progress - 1 ELSE s.progress + 1} \cap 0..Length

\* tpCheckEndCondition: at its end a segment is split, and one that stops is
\* done; one that goes on is split in the last cycle before its end.
tpCheckEndCondition(s) ==
  IF s.progress = Goal
  THEN {[s EXCEPT !.splitting = @ \/ ~tp.reverse,
                  !.remove = @ \/ s.term = "stop" \/ tp.reverse]}
  ELSE IF tp.reverse \/ s.term = "stop" \/ s.vel = 0 \/ s.progress < Length - 1
  THEN {s}
  ELSE {s, [s EXCEPT !.splitting = TRUE]}

tpUpdateCycle(s) ==
  UNION {UNION {tpCheckEndCondition([s EXCEPT !.vel = v, !.progress = p]) :
                  p \in Toward(s, v)} :
           v \in 0..(IF Held(s) THEN s.vel ELSE 1)}

(* tpCompleteSegment, when the front segment g is to be removed and its indexer
   has locked again; n is the segment after it. *)
\* Mutant: a segment run backwards to its start stays active.
InactiveForward(s) == [s EXCEPT !.active = tp.reverse, !.remove = FALSE,
                                !.splitting = FALSE, !.vel = 0]

\* Mutant: a removed segment keeps its velocity.
InactiveMoving(s) == [s EXCEPT !.active = FALSE, !.remove = FALSE,
                               !.splitting = FALSE]

Inactive(s) == [s EXCEPT !.active = FALSE, !.remove = FALSE,
                         !.splitting = FALSE, !.vel = 0]

tpCompleteSegment(g, n) ==
  LET q == IF HasNext THEN [tcq EXCEPT !.queue[At(tcq, 1)] = n] ELSE tcq
      r == [q EXCEPT !.queue[q.start] = Inactive(g)]
  IN IF ~g.remove \/ (g.indexer /\ hw.unlocked)
     THEN [q EXCEPT !.queue[q.start] = g]
     ELSE IF tp.reverse THEN tcqBackStep(r) ELSE tcqPop(r)

\* The cycle leaves g and n, and reports segment s (none if s has no id).
Moved(g, n, s, v) ==
  /\ End(tpCompleteSegment(g, n),
         [Passed EXCEPT !.execId = IF s.id = NoId THEN @ ELSE s.id],
         [Synced EXCEPT !.spindleSync = @ /\ g.sync # "none", !.currentVel = v])
  /\ hw' = [hw EXCEPT !.unlock = IF g.indexer THEN ~g.remove ELSE @]

\* tpHandleSplitCycle: the front segment arrives, the next one takes over.
tpHandleSplitCycle(f) ==
  LET g == [f EXCEPT !.progress = Goal, !.remove = TRUE]
  IN IF ~HasNext THEN Moved(g, NoSegment, NoSegment, 0)
     ELSE \E v \in IF f.term = "tangent" THEN 0..f.vel ELSE {Following.vel} :
          \E n \in tpUpdateCycle([Following EXCEPT !.vel = v]) :
            \/ Moved(g, n, n, n.vel)
            \/ f.term = "tangent" /\ f.progress # Length /\ Moved(g, n, g, g.vel)

\* tpHandleRegularCycle: the front segment moves, and with it the next one
\* once a parabolic blend has begun.
tpHandleRegularCycle(f) ==
  \E u \in tpUpdateCycle(f) :
  \E b \in {f.blending, f.blending \/ (f.term = "parabolic" /\ f.vel = 1)} :
    LET g == [u EXCEPT !.blending = f.blending \/ (HasNext /\ b)]
    IN IF HasNext /\ b
       THEN \E n \in tpUpdateCycle(Following) : \E s \in {g, n} :
              Moved(g, n, s, IF g.vel + n.vel > 0 THEN 1 ELSE 0)
       ELSE Moved(g, IF HasNext THEN Following ELSE NoSegment, g, g.vel)

CycleMoves ==
  LET g == IF Front.active THEN Front ELSE Started(Front)
  IN /\ Ready
     /\ Front.active \/ (MayStart /\ ~IndexerLocked /\ ~AwaitsSync(Front))
     /\ \/ /\ g.remove
           /\ Moved(g, IF HasNext THEN Following ELSE NoSegment, NoSegment, 0)
        \/ ~g.remove /\ g.splitting /\ tpHandleSplitCycle(g)
        \/ ~g.remove /\ ~g.splitting /\ tpHandleRegularCycle(g)

tpRunCycle ==
  /\ mot.enabled
  /\ \/ tpHandleEmptyQueue \/ tpHandleAbort
     \/ SpindleWait \/ tpActivateSegment \/ CycleMoves

----------------------------------------------------------------------------
Init ==
  /\ system \in Systems
  /\ next = 1 /\ seen = "unread" /\ orders = 0 /\ handled = FALSE
  /\ tcq = tcqInit
  /\ tp = [execId |-> NoId, term |-> "parabolic", sync |-> "none", done |-> TRUE,
           depth |-> 0, aborting |-> FALSE, pausing |-> FALSE, reverse |-> FALSE,
           waitIndex |-> NoId, waitSpeed |-> NoId, stale |-> FALSE]
  /\ mot = [enabled |-> TRUE, atspeedNextFeed |-> FALSE, css |-> FALSE,
            paused |-> FALSE, stepping |-> FALSE, idForStep |-> NoId, id |-> NoId,
            queueFull |-> FALSE, spindleSync |-> FALSE, currentVel |-> 0,
            indexEnable |-> FALSE]
  /\ hw = [atSpeed |-> FALSE, unlock |-> FALSE, unlocked |-> FALSE]

Next ==
  \/ TaskReads \/ SetLine \/ SetTermCond \/ SetSpindleSync \/ SpindleOn
  \/ Pause \/ Resume \/ Step \/ Abort \/ Turn \/ Disable \/ Enable
  \/ SpindleSpeed \/ IndexPulse \/ Rotary
  \/ tpRunCycle

Spec == Init /\ [][Next]_vars

----------------------------------------------------------------------------
(* Properties. *)

Queued == {tcqItem(tcq, n) : n \in 0..tcq.len-1}
Executed == {tcq.queue[(tcq.start + Size - n) % Size] : n \in 1..tcq.rlen}
Standing == \A s \in Queued : s.vel = 0

\* The ring's indices agree with its counters, task's stale view of queueFull
\* never fills it, and the segments, waits and flags are of their types.
PlannerTypeOK ==
  /\ tcq.queue \in [0..Size-1 -> Segment]
  /\ tcq.len \in 0..Size /\ tcq.rlen \in 0..ReverseMargin
  /\ tcq.len + tcq.rlen < Size /\ ~tcq.allFull
  /\ tcq.end = (tcq.start + tcq.len) % Size
  /\ tcq.start = (tcq.rend + tcq.rlen) % Size
  /\ tp.done => tcq.len = 0
  /\ tp.done <=> tp.depth = 0

\* tcqBackStep leads only into segments that were executed to their end: no
\* append overwrites the reverse history, no segment is popped before its end.
\* Excepted is a segment run backwards to its start whose indexer has to lock
\* before it is removed (tp.c:2587): the planner stands, so that the direction
\* may be turned (3491), and tcqPop (2614) takes the segment for executed
\* (ExecutedToEnd).
HistoryWhole ==
  \A s \in Executed : (s.turned \/ s.progress = Length) /\ ~s.active /\ s.vel = 0

\* Every segment of the history was executed to its end.  The code does not see
\* to it (v_turn).
ExecutedToEnd == \A s \in Executed : s.progress = Length

\* The ring of tcq.c keeps its segments: the queue stays within its size and the
\* reverse history holds executed segments only.
QueueWhole == PlannerTypeOK /\ HistoryWhole

\* History and queue together hold the program's moves in the program's order,
\* none of them twice: through reverse runs, consumed segments, aborts, and the
\* restart of the program after the machine was off.
InProgramOrder ==
  LET total == tcq.rlen + tcq.len
      id(n) == tcq.queue[(tcq.rend + n) % Size].id
      line(n) == tcq.queue[(tcq.rend + n) % Size].line
  IN \A n \in 0..total-2 :
       /\ id(n) <= id(n + 1)
       /\ id(n) = id(n + 1) => ~line(n) /\ line(n + 1)

\* Only the front segment is active, and only it and its successor move.
MovesInTurn ==
  \A n \in 1..tcq.len-1 :
    /\ ~tcqItem(tcq, n).active
    /\ n > 1 => tcqItem(tcq, n).vel = 0

\* A segment that must wait for the spindle or for its indexer does not move
\* before tpActivateSegment has let it: nothing blends into it.  It does (v_early).
WaitsFirst ==
  \A s \in Queued :
    (s.atspeed \/ s.indexer \/ (s.sync = "position" /\ ~mot.spindleSync))
      /\ ~s.active => s.vel = 0

\* tpPause: once everything stands it stays so until the pause ends, through
\* blends, splits and activations, except for position-synchronised segments.
PauseHolds ==
  [][(tp.pausing /\ Standing /\ tp'.pausing /\ \A s \in Queued : s.sync # "position")
       => Standing']_vars

\* A wait names the segment at the front of the queue, except that tpClear (tp.c:368)
\* leaves a wait for a segment that is gone, until the first cycle that finds a segment
\* in the queue again (ClearsWaits).
WaitsForFront ==
  \/ tp.stale
  \/ /\ tp.waitIndex # NoId => tcq.len > 0 /\ Front.id = tp.waitIndex
     /\ tp.waitSpeed # NoId => tcq.len > 0 /\ Front.id = tp.waitSpeed

\* The segment at the front of the queue has the turn: it alone is active or waited
\* for, and at most its successor moves with it.  That the successor itself has nothing
\* to wait for is not spoken of (WaitsFirst).
FrontHasTurn == MovesInTurn /\ WaitsForFront

\* "The flags are set to an empty, ready queue" (tp.c:363) when the machine is off: nothing
\* is waited for.  The code leaves the waits (v_clear).
ClearsWaits == ~mot.enabled => tp.waitIndex = NoId /\ tp.waitSpeed = NoId
============================================================================
