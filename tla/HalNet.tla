------------------------------- MODULE HalNet -------------------------------
(***************************************************************************)
(* Components, pins, aliases and signals of the HAL (hal_lib.c), in the    *)
(* shared memory that every process and every realtime module maps.  An    *)
(* operation holds hal_data->mutex from its first access to its last, so   *)
(* it is one step for every other operation, except that the lock level is *)
(* tested before the mutex is taken.  A running component reads and writes *)
(* its pins without the mutex: a link or unlink is cut between the store   *)
(* that switches the component's pointer and the copy of the value.        *)
(*                                                                         *)
(* Pin and oldname structures are recycled through free lists and are      *)
(* modelled with their addresses.  Component and signal structures are     *)
(* recycled too, with every member reset, and go by their names.  Names    *)
(* are numbers, in the order of strcmp(); 0 is the empty name.             *)
(***************************************************************************)
EXTENDS Integers, FiniteSets, SequencesExt

CONSTANTS
    Comp,       \* names of components
    Signal,     \* names of signals
    MaxName,    \* names of pins and aliases are 1 .. MaxName
    Systems,    \* the systems: exports, what the components create, [comp, name, type, dir];
                \*   aliases, the aliases in use; levels, the lock levels, as sets of bits;
                \*   values, what the components write
    PinMemory,  \* pin structures that fit in the shared memory
    NameMemory  \* oldname structures that fit in the shared memory

ASSUME NetAssumption == MaxName \in Nat /\ PinMemory \in Nat /\ NameMemory \in Nat

VARIABLES
    system,     \* the system at hand
    comp,       \* components: not loaded, being loaded, ready
    net,        \* pins, oldnames and signals; data: *data_ptr_addr of each export,
                \*   where the component reads and writes its pin
    lock,       \* hal_data->lock
    waiting,    \* the bits of lock that a caller found clear before they were set and who
                \*   still waits for the mutex
    hand        \* the link, unlink or deletion that holds the mutex: op; sig, the signal;
                \*   pins, still to be done; switched, the pointer of the first one is;
                \*   before, history: the values when it began of the pins whose value no
                \*   component has written since

vars == <<system, comp, net, lock, waiting, hand>>

Name == 1 .. MaxName
PinSlot == 1 .. PinMemory
NameSlot == 1 .. NameMemory
Null == <<"null", 0>>
Dummy(p) == <<"dummy", p>>

NoPin == [name |-> 0, addr |-> Null, type |-> "none", dir |-> "none", signal |-> "none",
          dummy |-> 0, oldname |-> 0, given |-> 0]
NoSignal == [type |-> "none", readers |-> 0, writers |-> 0, bidirs |-> 0, value |-> 0]

NoHand == [op |-> "none", sig |-> "none", pins |-> <<>>, switched |-> FALSE, before |-> <<>>]

-----------------------------------------------------------------------------
(* Lists and structures.  n stands for net in the middle of an operation.  *)

\* halpr_find_pin_by_name(): the first pin with this name or old name, or 0
FindPin(n, name) ==
    LET i == SelectInSeq(n.list, LAMBDA p :
                \/ n.pin[p].name = name
                \/ n.pin[p].oldname # 0 /\ n.old[n.pin[p].oldname].name = name)
    IN IF i = 0 THEN 0 ELSE n.list[i]

\* Insertion in front of the first pin with a greater name
Insert(n, p) ==
    LET i == SelectInSeq(n.list, LAMBDA q : n.pin[q].name > n.pin[p].name)
    IN [n EXCEPT !.list = InsertAt(@, IF i = 0 THEN Len(@) + 1 ELSE i, p)]

\* halpr_alloc_oldname_struct(): the structure it returns, or 0, and what it leaves
NewOldname(n) ==
    IF n.oldfree # 0 THEN n.oldfree ELSE IF n.oldused < NameMemory THEN n.oldused + 1 ELSE 0

AllocOldname(n) ==
    LET o == NewOldname(n)
    IN [n EXCEPT !.oldfree = IF @ # 0 THEN n.old[@].next ELSE 0,
                 !.oldused = IF n.oldfree # 0 THEN @ ELSE @ + 1,
                 !.old[o] = [name |-> 0, next |-> 0]]

FreeOldname(n, o) ==
    [n EXCEPT !.old[o] = [name |-> 0, next |-> n.oldfree], !.oldfree = o]

\* Mutant: the component is left with the pointer to the signal.
PointAtNever(n, p, at) == IF at[1] = "dummy" THEN n ELSE [n EXCEPT !.data[n.pin[p].addr] = at]

\* *data_ptr_addr = data_addr
PointAt(n, p, at) == [n EXCEPT !.data[n.pin[p].addr] = at]

\* Mutant: a pin that is both input and output is taken off the count of readers only.
UnlinkedReader(n, p) ==
    LET s == n.pin[p].signal
    IN [n EXCEPT !.pin[p].signal = "none", !.pin[p].dummy = n.sig[s].value,
                 !.sig[s].readers = IF n.pin[p].dir \in {"IN", "IO"} THEN @ - 1 ELSE @,
                 !.sig[s].writers = IF n.pin[p].dir = "OUT" THEN @ - 1 ELSE @]

\* Mutant: the value of the signal is not copied.
UnlinkedStale(n, p) ==
    LET s == n.pin[p].signal
    IN [n EXCEPT !.pin[p].signal = "none",
                 !.sig[s].readers = IF n.pin[p].dir \in {"IN", "IO"} THEN @ - 1 ELSE @,
                 !.sig[s].writers = IF n.pin[p].dir = "OUT" THEN @ - 1 ELSE @,
                 !.sig[s].bidirs = IF n.pin[p].dir = "IO" THEN @ - 1 ELSE @]

\* unlink_pin() behind the pointer: the value, the counts and the pin.  An unlinked port is
\* the empty port, 0.
Unlinked(n, p) ==
    LET s == n.pin[p].signal
    IN [n EXCEPT !.pin[p].signal = "none",
                 !.pin[p].dummy = IF n.pin[p].type = "PORT" THEN 0 ELSE n.sig[s].value,
                 !.sig[s].readers = IF n.pin[p].dir \in {"IN", "IO"} THEN @ - 1 ELSE @,
                 !.sig[s].writers = IF n.pin[p].dir = "OUT" THEN @ - 1 ELSE @,
                 !.sig[s].bidirs = IF n.pin[p].dir = "IO" THEN @ - 1 ELSE @]

\* unlink_pin() of a pin whose owner does not run
UnlinkPin(n, p) ==
    IF n.pin[p].signal = "none" THEN n ELSE Unlinked(PointAt(n, p, Dummy(p)), p)

\* free_pin_struct(): the pointer to the old name stays in the structure
FreePin(n, p) ==
    LET u == UnlinkPin(n, p)
        o == n.pin[p].oldname
        f == IF o = 0 THEN u ELSE FreeOldname(u, o)
    IN [f EXCEPT !.pin[p] = [NoPin EXCEPT !.oldname = o], !.free = <<p>> \o @]

\* alloc_pin_struct(): the structure it returns, or 0, and what it leaves
NewPin(n) == IF n.free # <<>> THEN Head(n.free) ELSE IF n.used < PinMemory THEN n.used + 1 ELSE 0

\* Mutant: a recycled structure stays on the free list.
AllocPinKeeps(n) == IF n.free # <<>> THEN n ELSE [n EXCEPT !.used = @ + 1]

AllocPin(n) ==
    IF n.free # <<>> THEN [n EXCEPT !.free = Tail(@)] ELSE [n EXCEPT !.used = @ + 1]

-----------------------------------------------------------------------------
(* Components and the lock level                                           *)

\* A caller gets the mutex who found the bit of the lock level clear, now or before it was set.
Enter(bit) ==
    /\ hand = NoHand
    /\ bit \notin lock \/ bit \in waiting
    /\ waiting' = waiting \ {bit}
    /\ UNCHANGED <<system, lock>>

\* hal_set_lock(), which takes no mutex: callers who passed the test may still wait for it.
HalSetLock(level) ==
    /\ lock' = level
    /\ \E late \in SUBSET (level \ lock) : waiting' = (waiting \cap level) \cup late
    /\ UNCHANGED <<system, comp, net, hand>>

HalInit(c) ==
    /\ hand = NoHand
    /\ comp[c] = "out"
    /\ comp' = [comp EXCEPT ![c] = "loading"]
    /\ UNCHANGED <<system, net, lock, waiting, hand>>

HalReady(c) ==
    /\ hand = NoHand
    /\ comp[c] = "loading"
    /\ comp' = [comp EXCEPT ![c] = "ready"]
    /\ UNCHANGED <<system, net, lock, waiting, hand>>

\* What is left without the component: the next one of its name gets new, zeroed memory.
Without(c) ==
    [net EXCEPT !.list = SelectSeq(@, LAMBDA p : net.pin[p].addr.comp # c),
                !.data = [e \in system.exports |-> IF e.comp = c THEN Null ELSE @[e]]]

Owned(c) == SelectSeq(net.list, LAMBDA p : net.pin[p].addr.comp = c)

\* hal_exit(): free_comp_struct() frees the pins of the component in the order of the list.
\* The component does not run any more, so that nobody sees its pins half unlinked.
HalExit(c) ==
    /\ hand = NoHand
    /\ comp[c] # "out"
    /\ comp' = [comp EXCEPT ![c] = "out"]
    /\ net' = [FoldLeft(FreePin, net, Owned(c)) EXCEPT !.list = Without(c).list, !.data = Without(c).data]
    /\ UNCHANGED <<system, lock, waiting, hand>>

-----------------------------------------------------------------------------
(* Pins                                                                    *)

\* hal_pin_new() by a component that creates each of its pins once.  A structure with a
\* name that is taken is freed again; only names in the list count, old names do not.
HalPinNew(e) ==
    LET p == NewPin(net)
        a == AllocPin(net)
        new == [a EXCEPT !.pin[p] = [name |-> e.name, addr |-> e, type |-> e.type, dir |-> e.dir,
                                     signal |-> "none", dummy |-> 0, oldname |-> @.oldname,
                                     given |-> e.name],
                         !.data[e] = Dummy(p)]
    IN /\ Enter("LOAD")
       /\ comp[e.comp] = "loading" /\ net.data[e] = Null
       /\ net' = IF p = 0 THEN net
                 ELSE IF \E q \in ToSet(net.list) : net.pin[q].name = e.name THEN FreePin(new, p)
                 ELSE Insert(new, p)
       /\ UNCHANGED <<comp, hand>>

\* Mutant: the pin keeps its place in the list.
RelistNever(n, p) == n

\* The pin is taken out of the list under its old name and put back under its new one.
Relist(n, p) == Insert([n EXCEPT !.list = SelectSeq(@, LAMBDA q : q # p)], p)

\* A new alias: the original name is saved once.
SetAlias(n, p, alias) ==
    LET o == NewOldname(n)
        saved == IF n.pin[p].oldname # 0 THEN n
                 ELSE [AllocOldname(n) EXCEPT !.pin[p].oldname = o, !.old[o].name = n.pin[p].name]
    IN [saved EXCEPT !.pin[p].name = alias]

ClearAlias(n, p) ==
    LET o == n.pin[p].oldname
    IN IF o = 0 THEN n
       ELSE FreeOldname([n EXCEPT !.pin[p].name = n.old[o].name, !.pin[p].oldname = 0], o)

\* hal_pin_alias(); alias 0 stands for NULL.  An oldname structure is allocated and freed
\* first, so that there is one when the pin is out of the list.
HalPinAlias(name, alias) ==
    LET ready == FreeOldname(AllocOldname(net), NewOldname(net))
        p == FindPin(ready, name)
    IN /\ Enter("CONFIG")
       /\ net' = IF (alias # 0 /\ FindPin(net, alias) # 0) \/ NewOldname(net) = 0 THEN net
                 ELSE IF p = 0 THEN ready
                 ELSE Relist(IF alias # 0 THEN SetAlias(ready, p, alias) ELSE ClearAlias(ready, p), p)
       /\ UNCHANGED <<comp, hand>>

\* What the owner of pin p reads, in net n
ValueOf(n, p) ==
    LET at == n.data[n.pin[p].addr]
    IN IF at[1] = "dummy" THEN n.pin[at[2]].dummy ELSE n.sig[at[2]].value

\* The pins whose owners read, now or when an unlink is done, what is stored at p's pointer
Shared(p) ==
    LET at == net.data[net.pin[p].addr]
    IN {q \in ToSet(net.list) : net.data[net.pin[q].addr] = at \/ <<"sig", net.pin[q].signal>> = at}

\* The owner of an output or I/O pin writes it, at any time: it takes no mutex.
Write(p, v) ==
    LET e == net.pin[p].addr
        at == net.data[e]
    IN /\ p \in ToSet(net.list) /\ comp[e.comp] = "ready"
       /\ e.dir # "IN" /\ e.type # "PORT"
       /\ net' = IF at[1] = "dummy" THEN [net EXCEPT !.pin[at[2]].dummy = v]
                                    ELSE [net EXCEPT !.sig[at[2]].value = v]
       /\ hand' = [hand EXCEPT !.before = Restrict(@, DOMAIN @ \ ({p} \cup Shared(p)))]
       /\ UNCHANGED <<system, comp, lock, waiting>>

-----------------------------------------------------------------------------
(* Signals                                                                 *)

HalSignalNew(s, t) ==
    /\ Enter("CONFIG")
    /\ net' = IF net.sig[s].type # "none" THEN net ELSE [net EXCEPT !.sig[s] = [NoSignal EXCEPT !.type = t]]
    /\ UNCHANGED <<comp, hand>>

\* An operation on these pins and signal s begins: the mutex is taken and the pointer of the
\* first pin is switched.  Without pins it is over at once.
Begin(op, s, pins) ==
    IF pins = <<>> THEN UNCHANGED <<net, hand>>
    ELSE /\ net' = PointAt(net, Head(pins), IF op = "link" THEN <<"sig", s>> ELSE Dummy(Head(pins)))
         /\ hand' = [op |-> op, sig |-> s, pins |-> pins, switched |-> TRUE,
                     before |-> [p \in ToSet(net.list) |-> ValueOf(net, p)]]

\* hal_signal_delete(): free_sig_struct() unlinks every pin of the signal.
HalSignalDelete(s) ==
    LET linked == SelectSeq(net.list, LAMBDA p : net.pin[p].signal = s)
    IN /\ Enter("CONFIG")
       /\ IF linked # <<>> THEN Begin("delete", s, linked)
          ELSE net' = [net EXCEPT !.sig[s] = NoSignal] /\ UNCHANGED hand
       /\ UNCHANGED comp

\* Mutant: an I/O pin does not keep an output pin from being linked.
MayLinkBesideIo(p, s) ==
    LET pin == net.pin[p]
        sig == net.sig[s]
    IN /\ pin.signal = "none" /\ pin.type = sig.type
       /\ pin.dir = "OUT" => sig.writers = 0
       /\ pin.dir = "IO" => pin.type # "PORT" /\ sig.writers = 0
       /\ pin.dir = "IN" /\ pin.type = "PORT" => sig.readers = 0

\* The conditions under which hal_link() makes the link
MayLink(p, s) ==
    LET pin == net.pin[p]
        sig == net.sig[s]
    IN /\ pin.signal = "none" /\ pin.type = sig.type
       /\ pin.dir = "OUT" => sig.writers = 0 /\ sig.bidirs = 0
       /\ pin.dir = "IO" => pin.type # "PORT" /\ sig.writers = 0
       /\ pin.dir = "IN" /\ pin.type = "PORT" => sig.readers = 0

\* Mutant: an input pin that is the first reader drives its value onto the signal.
DrivesFirst(pin, sig) ==
    pin.type # "PORT" /\ (pin.dir # "IN" => sig.writers = 0 /\ sig.bidirs = 0) /\ sig.readers = 0

\* drive_pin_default_value_onto_signal
Drives(pin, sig) ==
    /\ pin.type # "PORT"
    /\ pin.dir # "IN" \/ sig.readers = 0
    /\ sig.writers = 0 /\ sig.bidirs = 0

\* hal_link() behind the pointer: the value, the counts and the pin
Linked(p, s) ==
    LET pin == net.pin[p]
    IN [net EXCEPT !.pin[p].signal = s,
                   !.sig[s].value = IF Drives(pin, net.sig[s]) THEN pin.dummy ELSE @,
                   !.sig[s].readers = IF pin.dir \in {"IN", "IO"} THEN @ + 1 ELSE @,
                   !.sig[s].writers = IF pin.dir = "OUT" THEN @ + 1 ELSE @,
                   !.sig[s].bidirs = IF pin.dir = "IO" THEN @ + 1 ELSE @]

HalLink(name, s) ==
    LET p == FindPin(net, name)
    IN /\ Enter("CONFIG")
       /\ Begin("link", s,
                IF p # 0 /\ net.sig[s].type # "none" /\ MayLink(p, s) THEN <<p>> ELSE <<>>)
       /\ UNCHANGED comp

HalUnlink(name) ==
    LET p == FindPin(net, name)
    IN /\ Enter("CONFIG")
       /\ IF p = 0 THEN Begin("unlink", "none", <<>>)
          ELSE Begin("unlink", net.pin[p].signal, IF net.pin[p].signal = "none" THEN <<>> ELSE <<p>>)
       /\ UNCHANGED comp

\* The pointer of the next pin of a signal that is deleted
SwitchNext ==
    /\ hand.op # "none" /\ ~hand.switched
    /\ net' = PointAt(net, Head(hand.pins), Dummy(Head(hand.pins)))
    /\ hand' = [hand EXCEPT !.switched = TRUE]
    /\ UNCHANGED <<system, comp, lock, waiting>>

\* The rest of the link or unlink of a pin; with the last one the mutex is given back.
Complete ==
    LET p == Head(hand.pins)
        last == Len(hand.pins) = 1
        done == IF hand.op = "link" THEN Linked(p, hand.sig) ELSE Unlinked(net, p)
    IN /\ hand.op # "none" /\ hand.switched
       /\ net' = IF hand.op = "delete" /\ last THEN [done EXCEPT !.sig[hand.sig] = NoSignal] ELSE done
       /\ hand' = IF last THEN NoHand ELSE [hand EXCEPT !.pins = Tail(@), !.switched = FALSE]
       /\ UNCHANGED <<system, comp, lock, waiting>>

-----------------------------------------------------------------------------
Init ==
    /\ system \in Systems
    /\ comp = [c \in Comp |-> "out"]
    /\ net = [pin |-> [p \in PinSlot |-> NoPin], list |-> <<>>, free |-> <<>>, used |-> 0,
              old |-> [o \in NameSlot |-> [name |-> 0, next |-> 0]], oldfree |-> 0, oldused |-> 0,
              sig |-> [s \in Signal |-> NoSignal],
              data |-> [e \in system.exports |-> Null]]
    /\ lock = {}
    /\ waiting = {}
    /\ hand = NoHand

Next ==
    \/ \E level \in system.levels : HalSetLock(level)
    \/ \E c \in Comp : HalInit(c) \/ HalReady(c) \/ HalExit(c)
    \/ \E e \in system.exports : HalPinNew(e)
    \/ \E name \in Name, alias \in {0} \cup system.aliases : HalPinAlias(name, alias)
    \/ \E p \in PinSlot, v \in system.values : Write(p, v)
    \/ \E s \in Signal : HalSignalDelete(s) \/ \E t \in {"BIT", "PORT"} : HalSignalNew(s, t)
    \/ \E name \in Name : HalUnlink(name) \/ \E s \in Signal : HalLink(name, s)
    \/ SwitchNext
    \/ Complete

Spec == Init /\ [][Next]_vars

-----------------------------------------------------------------------------
(* Properties                                                              *)

Listed == ToSet(net.list)

On(s, dirs) == {p \in Listed : net.pin[p].signal = s /\ net.pin[p].dir \in dirs}

\* Every pin structure that was ever taken from the shared memory is either in the list of
\* pins or on the free list, and once; a listed pin belongs to a component that is loaded.
NetTypeOK ==
    /\ comp \in [Comp -> {"out", "loading", "ready"}]
    /\ waiting \subseteq lock
    /\ net.oldfree \in 0 .. net.oldused /\ net.oldused <= NameMemory
    /\ \A s \in Signal : /\ net.sig[s].type \in {"none", "BIT", "PORT"}
                         /\ {net.sig[s].readers, net.sig[s].writers, net.sig[s].bidirs} \subseteq Nat
    /\ LET all == net.list \o net.free
       IN IsInjective(all) /\ ToSet(all) = 1 .. net.used
    /\ \A p \in Listed : comp[net.pin[p].addr.comp] # "out"

\* The three counts of a signal, which hal_link() relies on, are the numbers of pins that
\* are linked to it, whoever linked them and whoever has exited since.
CountsAgree ==
    \A s \in Signal :
        /\ net.sig[s].readers = Cardinality(On(s, {"IN", "IO"}))
        /\ net.sig[s].writers = Cardinality(On(s, {"OUT"}))
        /\ net.sig[s].bidirs = Cardinality(On(s, {"IO"}))

\* A signal has one output pin, or any number of I/O pins; a port has one reader.
OneWriter ==
    \A s \in Signal :
        /\ On(s, {"OUT"}) # {} => Cardinality(On(s, {"OUT", "IO"})) = 1
        /\ net.sig[s].type = "PORT" => Cardinality(On(s, {"IN", "IO"})) <= 1

\* The pointer through which a component uses a pin leads to the signal if the pin is
\* linked, and that signal exists and has the pin's type; else to the pin's own dummy.  For
\* the pin whose pointer is switched just now it does when the mutex is free again.
PointersFollow ==
    \A p \in Listed \ (IF hand.switched THEN {Head(hand.pins)} ELSE {}) :
        LET pin == net.pin[p]
        IN IF pin.signal = "none" THEN net.data[pin.addr] = Dummy(p)
           ELSE /\ net.data[pin.addr] = <<"sig", pin.signal>>
                /\ net.sig[pin.signal].type = pin.type

\* The list of pins is in the order of the names, whatever was renamed: hal_pin_new() and
\* hal_pin_alias() stop looking at the first greater name.
ListSorted == \A i, j \in 1 .. Len(net.list) : i < j => net.pin[net.list[i]].name <= net.pin[net.list[j]].name

\* What hal_link(), hal_unlink() and the exit of a component keep of a signal agrees with
\* the pins that are linked to it: counts, pointers, the single writer, the sorted list.
\* The saved old names are not spoken of (EitherName).
LinksAgree == NetTypeOK /\ CountsAgree /\ OneWriter /\ PointersFollow /\ ListSorted

\* A pin can be referred to by the name it was created with, and by its alias.  A pin that
\* has the old name of another one hides it (v_alias).
EitherName ==
    \A p \in Listed : FindPin(net, net.pin[p].name) = p /\ FindPin(net, net.pin[p].given) = p

\* While a signal has an output or I/O pin, only the owner of such a pin changes its value:
\* no link, unlink or exit of another component does.
SignalDriven ==
    [][\A s \in Signal :
          /\ On(s, {"OUT", "IO"}) # {} /\ On(s, {"OUT", "IO"})' # {}
          /\ net'.sig[s].value # net.sig[s].value
          => \E p \in On(s, {"OUT", "IO"}), v \in system.values : Write(p, v)]_vars

\* A link may give a new value to an input pin, to a pin that joins a driven signal, and to
\* the pins of a signal that nobody has driven.
Yields(p) ==
    /\ hand.op = "link"
    /\ LET driven == On(hand.sig, {"OUT", "IO"}) # {}
       IN IF p = Head(hand.pins) THEN net.pin[p].dir = "IN" \/ driven
          ELSE net.pin[p].signal = hand.sig /\ ~driven

\* When a link, an unlink or a deletion is done, every pin but those that yield has the value
\* it had when the operation began, if no component has written it meanwhile.
KeepsValue ==
    [][hand.op # "none" /\ hand' = NoHand
       => \A p \in DOMAIN hand.before : Yields(p) \/ ValueOf(net', p) = hand.before[p]]_vars

\* The exit of a component leaves the values of the pins of the others.
ExitKeeps ==
    [][comp' # comp => \A p \in Listed \cap Listed' : ValueOf(net', p) = ValueOf(net, p)]_vars

\* No link, unlink, deletion or exit, taken as a whole, disturbs a value that a component has
\* on a pin.  While hal_link() or hal_unlink() is under way a running component is NOT safe:
\* between the switch of its pointer and the copy of the value (hal_lib.c:1155 and 1173, 3242
\* and 3248) it reads the old value of the other place, and what it writes there is
\* overwritten (OutputsOwn).  Written values are therefore excepted, from hand.before, and the
\* values are compared when the mutex is given back.
ValuesSurvive == SignalDriven /\ KeepsValue /\ ExitKeeps

\* The value of an output pin changes by a write of its owner only.  It does not (v_link).
OutputsOwn ==
    [][\A p \in Listed \cap Listed' :
          net.pin[p].dir = "OUT" /\ ValueOf(net', p) # ValueOf(net, p)
          => \E v \in system.values : Write(p, v)]_vars

\* With CONFIG locked links change by exits alone.  A caller who found it clear and waited for
\* the mutex changes them still (v_lock).
LockFreezes ==
    [][\A p \in Listed \cap Listed' :
          "CONFIG" \in lock /\ comp' = comp => net'.pin[p].signal = net.pin[p].signal]_vars
=============================================================================
