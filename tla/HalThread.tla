----------------------------- MODULE HalThread ------------------------------
(***************************************************************************)
(* Functions and threads of the HAL (hal_lib.c): components export         *)
(* functions, halcmd puts them on the lists of the threads, and            *)
(* thread_task() walks a list once in every period.  Whoever changes a     *)
(* list holds hal_data->mutex; thread_task() does not, so a list is        *)
(* modelled with its links, and every store that a walk can meet is a      *)
(* step.                                                                   *)
(*                                                                         *)
(* "app" is the process that loads and unloads realtime modules and        *)
(* creates the threads, "cmd" a halcmd.  On one processor they run when    *)
(* every thread waits for its next period; on several (Parallel) at any    *)
(* time.                                                                   *)
(***************************************************************************)
EXTENDS Integers, FiniteSets, SequencesExt

CONSTANTS
    Parallel,       \* threads and processes run on different processors
    Comp,           \* names of components
    Funct,          \* names of functions
    Owner,          \* the component that exports a function
    Reentrant,      \* functions that may be in several places
    Threads,        \* number of threads; thread 1 is the fastest
    EntryMemory     \* bound: funct_entry structures taken from the shared memory

ASSUME ThreadAssumption ==
    /\ Parallel \in BOOLEAN
    /\ Owner \in [Funct -> Comp] /\ Reentrant \subseteq Funct
    /\ Threads \in Nat \ {0} /\ EntryMemory \in Nat

Thread == 1 .. Threads
Entry == 101 .. 100 + EntryMemory
FreeRoot == 0
Node == Thread \cup Entry \cup {FreeRoot}   \* the root of a thread's list is its number
Process == {"app", "cmd"}

VARIABLES
    mutex,      \* hal_data->mutex: its holder, or "none"
    running,    \* hal_data->threads_running
    comp,       \* components: not loaded, being loaded, ready
    funct,      \* exported functions: listed, users, and whether runtime points to a pin
    link,       \* next and prev of every list element
    calls,      \* funct_ptr, funct and arg of every entry, as the function or "none"
    used,       \* entries taken from the shared memory so far
    thread,     \* threads: no task, or one; and whether runtime points to a pin
    cur,        \* funct_entry of thread_task(), its own root while it waits
    proc        \* the processes: pc and local variables

vars == <<mutex, running, comp, funct, link, calls, used, thread, cur, proc>>

\* The nodes from n on along next or prev, up to the first root; no more than there are
Along(dir, n) ==
    LET more[k \in 0 .. EntryMemory + 1, x \in Node] ==
            IF k = 0 \/ x \notin Entry THEN <<>> ELSE <<x>> \o more[k - 1, link[x][dir]]
    IN more[EntryMemory + 1, link[n][dir]]

List(t) == Along("next", t)

-----------------------------------------------------------------------------
(* thread_task()                                                           *)

\* A process gets the processor.
Runs == Parallel \/ \A t \in Thread : cur[t] = t

\* No faster thread has the processor.
Highest(t) == Parallel \/ \A u \in Thread : u < t => cur[u] = u

\* Mutant: a period in which a process has the mutex is left out.
WakeTries(t) ==
    /\ thread[t].task /\ cur[t] = t /\ running /\ mutex = "none" /\ Highest(t)
    /\ cur' = [cur EXCEPT ![t] = link[t].next]
    /\ UNCHANGED <<mutex, running, comp, funct, link, calls, used, thread, proc>>

\* A period of a thread begins, and with it the first function.
Wake(t) ==
    /\ thread[t].task /\ cur[t] = t /\ running /\ Highest(t)
    /\ cur' = [cur EXCEPT ![t] = link[t].next]
    /\ UNCHANGED <<mutex, running, comp, funct, link, calls, used, thread, proc>>

\* A function returns; its time is stored, and the next one is called.
Step(t) ==
    /\ cur[t] # t /\ Highest(t)
    /\ cur' = [cur EXCEPT ![t] = link[cur[t]].next]
    /\ UNCHANGED <<mutex, running, comp, funct, link, calls, used, thread, proc>>

-----------------------------------------------------------------------------
(* Processes                                                               *)

\* In between calls
Idle == [pc |-> "idle", f |-> "none", c |-> "none", e |-> 0, at |-> 0]

\* Process p is at pc and has the processor.
At(p, pc) == Runs /\ proc[p].pc = pc

Goto(p, pc) == proc' = [proc EXCEPT ![p].pc = pc]

\* rtapi_mutex_get(), and rtapi_mutex_give() at the end of a call
Get(p) == mutex = "none" /\ mutex' = p
Give == mutex' = "none"
Return(p) == Give /\ proc' = [proc EXCEPT ![p] = Idle]

HalStartThreads ==
    /\ At("cmd", "idle")
    /\ running' = TRUE
    /\ UNCHANGED <<mutex, comp, funct, link, calls, used, thread, cur, proc>>

HalStopThreads ==
    /\ At("cmd", "idle")
    /\ running' = FALSE
    /\ UNCHANGED <<mutex, comp, funct, link, calls, used, thread, cur, proc>>

-----------------------------------------------------------------------------
(* hal_add_funct_to_thread()                                               *)

\* list_remove_entry() and list_add_after() on the list of free entries
WithoutFree(e) == [link EXCEPT ![FreeRoot].next = link[e].next, ![link[e].next].prev = FreeRoot,
                               ![e] = [next |-> e, prev |-> e]]
WithFree(e) == [link EXCEPT ![e] = [next |-> link[FreeRoot].next, prev |-> FreeRoot],
                            ![link[FreeRoot].next].prev = e, ![FreeRoot].next = e]

\* The element after which position pos is, or 0: counted from the start, or from the end
InsertionPoint(t, pos) ==
    LET n == IF pos > 0 THEN pos - 1 ELSE -pos - 1
        s == Along(IF pos > 0 THEN "next" ELSE "prev", t)
        x == IF n = 0 THEN t ELSE s[n]
    IN IF pos = 0 \/ n > Len(s) THEN 0 ELSE IF pos > 0 THEN x ELSE link[x].prev

\* Mutant: a function that is in one place may be put in another.
AvailableTwice(f) == funct[f].listed /\ (funct[f].users > 1 => f \in Reentrant)

\* The function is there, and not in use unless it is reentrant.
Available(f) == funct[f].listed /\ (funct[f].users > 0 => f \in Reentrant)

\* alloc_funct_entry_struct()
NewEntry == IF link[FreeRoot].next # FreeRoot THEN link[FreeRoot].next ELSE 101 + used

\* A call that is refused gives the mutex back at once and changes nothing: so does the
\* one for a function that needs floating point in a thread without it (hal_lib.c:2102).
\* Shared memory is never exhausted here: alloc_funct_entry_struct() would set the links
\* of an entry it did not get (3111-3113).
HalAddFunct(f, t, pos) ==
    LET n == InsertionPoint(t, pos)
        e == NewEntry
    IN /\ At("cmd", "idle") /\ Get("cmd")
       /\ Available(f) /\ thread[t].task /\ n # 0
       /\ e \in Entry
       /\ IF e = 101 + used
          THEN used' = used + 1 /\ link' = [link EXCEPT ![e] = [next |-> e, prev |-> e]]
          ELSE used' = used /\ link' = WithoutFree(e)
       /\ calls' = [calls EXCEPT ![e] = f]
       /\ proc' = [proc EXCEPT !["cmd"] = [Idle EXCEPT !.pc = "add", !.f = f, !.e = e, !.at = n]]
       /\ UNCHANGED <<running, comp, funct, thread, cur>>

\* Mutant: the entry is put in the list before its own links are set.
AddStoresHasty(q, step) ==
    CASE step = "add"  -> [link EXCEPT ![q.at].next = q.e, ![q.e].prev = link[q.at].next]
      [] step = "add2" -> [link EXCEPT ![q.e] = [next |-> link[q.e].prev, prev |-> q.at]]
      [] step = "add3" -> [link EXCEPT ![link[q.e].next].prev = q.e]

\* Mutant: an entry that becomes the first one loses the others.
AddStoresFirst(q, step) ==
    CASE step = "add"  -> [link EXCEPT ![q.e] = [next |-> IF q.at \in Thread THEN q.at ELSE link[q.at].next,
                                                 prev |-> q.at]]
      [] step = "add2" -> [link EXCEPT ![q.at].next = q.e]
      [] step = "add3" -> [link EXCEPT ![link[q.e].next].prev = q.e]

\* list_add_after(): the stores into the entry, into the element before and the one after
AddStores(q, step) ==
    CASE step = "add"  -> [link EXCEPT ![q.e] = [next |-> link[q.at].next, prev |-> q.at]]
      [] step = "add2" -> [link EXCEPT ![q.at].next = q.e]
      [] step = "add3" -> [link EXCEPT ![link[q.e].next].prev = q.e]

AddEntry ==
    LET q == proc["cmd"]
    IN \/ /\ At("cmd", "add")
          /\ link' = AddStores(q, "add") /\ Goto("cmd", "add2")
          /\ UNCHANGED <<mutex, running, comp, funct, calls, used, thread, cur>>
       \/ /\ At("cmd", "add2")
          /\ link' = AddStores(q, "add2") /\ Goto("cmd", "add3")
          /\ UNCHANGED <<mutex, running, comp, funct, calls, used, thread, cur>>
       \/ /\ At("cmd", "add3")
          /\ link' = AddStores(q, "add3")
          /\ funct' = [funct EXCEPT ![q.f].users = @ + 1]
          /\ Return("cmd")
          /\ UNCHANGED <<running, comp, calls, used, thread, cur>>

-----------------------------------------------------------------------------
(* hal_del_funct_from_thread(), and the removal of an entry by either process *)

HalDelFunct(f, t) ==
    LET i == SelectInSeq(List(t), LAMBDA e : calls[e] = f)
    IN /\ At("cmd", "idle") /\ Get("cmd")
       /\ funct[f].listed /\ funct[f].users > 0 /\ thread[t].task /\ i # 0
       /\ proc' = [proc EXCEPT !["cmd"] = [Idle EXCEPT !.pc = "remove", !.f = f, !.e = List(t)[i]]]
       /\ UNCHANGED <<running, comp, funct, link, calls, used, thread, cur>>

\* list_remove_entry() after its first store
Unlinked(e) == [link EXCEPT ![link[e].next].prev = link[e].prev, ![e] = [next |-> e, prev |-> e]]

\* Mutant: the count of the function's users is left.
FreedCount(f) == funct

\* free_funct_entry_struct(): one user less
Freed(f) == [funct EXCEPT ![f].users = @ - 1]

RemoveEntry(p) ==
    LET q == proc[p]
    IN \/ /\ At(p, "remove")
          /\ link' = [link EXCEPT ![link[q.e].prev].next = link[q.e].next]
          /\ Goto(p, "remove2")
          /\ UNCHANGED <<mutex, running, comp, funct, calls, used, thread, cur>>
       \/ /\ At(p, "remove2")
          /\ link' = Unlinked(q.e)
          /\ Goto(p, "free")
          /\ UNCHANGED <<mutex, running, comp, funct, calls, used, thread, cur>>
       \/ /\ At(p, "free")
          /\ funct' = Freed(q.f)
          /\ calls' = [calls EXCEPT ![q.e] = "none"]
          /\ link' = WithFree(q.e)
          /\ IF p = "cmd" THEN Return(p) ELSE Goto(p, "exit") /\ UNCHANGED mutex
          /\ UNCHANGED <<running, comp, used, thread, cur>>

-----------------------------------------------------------------------------
(* Loading and unloading a component, and creating and deleting a thread   *)

\* hal_init()
Load(c) ==
    /\ At("app", "idle") /\ mutex = "none" /\ comp[c] = "out"
    /\ comp' = [comp EXCEPT ![c] = "loading"]
    /\ proc' = [proc EXCEPT !["app"].pc = "load", !["app"].c = c]
    /\ UNCHANGED <<mutex, running, funct, link, calls, used, thread, cur>>

\* hal_export_funct() up to "at this point we have a new function and can yield the mutex"
HalExportFunct(f) ==
    /\ At("app", "load") /\ mutex = "none"
    /\ Owner[f] = proc["app"].c /\ ~funct[f].listed
    /\ funct' = [funct EXCEPT ![f] = [listed |-> TRUE, users |-> 0, runtime |-> FALSE]]
    /\ proc' = [proc EXCEPT !["app"].pc = "pin", !["app"].f = f]
    /\ UNCHANGED <<mutex, running, comp, link, calls, used, thread, cur>>

\* The rest of hal_export_funct().  When there is no pin, the function stays and the
\* component calls hal_exit().
ExportTime ==
    /\ At("app", "pin") /\ mutex = "none"
    /\ \/ funct' = [funct EXCEPT ![proc["app"].f].runtime = TRUE] /\ Goto("app", "load")
       \/ UNCHANGED funct /\ Goto("app", "unload")
    /\ UNCHANGED <<mutex, running, comp, link, calls, used, thread, cur>>

HalReady ==
    LET c == proc["app"].c
    IN /\ At("app", "load") /\ mutex = "none"
       /\ \A f \in Funct : Owner[f] = c => funct[f].listed
       /\ comp' = [comp EXCEPT ![c] = "ready"]
       /\ proc' = [proc EXCEPT !["app"] = Idle]
       /\ UNCHANGED <<mutex, running, funct, link, calls, used, thread, cur>>

Unload(c) ==
    /\ At("app", "idle") /\ comp[c] = "ready"
    /\ proc' = [proc EXCEPT !["app"].pc = "unload", !["app"].c = c]
    /\ UNCHANGED <<mutex, running, comp, funct, link, calls, used, thread, cur>>

\* Mutant: hal_exit() does not wait for the mutex.
HalExitHasty ==
    /\ At("app", "unload") /\ Goto("app", "exit")
    /\ UNCHANGED <<mutex, running, comp, funct, link, calls, used, thread, cur>>

\* hal_exit() gets the mutex.
HalExit ==
    /\ At("app", "unload") /\ Get("app") /\ Goto("app", "exit")
    /\ UNCHANGED <<running, comp, funct, link, calls, used, thread, cur>>

\* Entries on the lists of the threads that call function f
Using(f) == {e \in UNION {ToSet(List(t)) : t \in Thread} : calls[e] = f}

\* free_funct_struct() has entries to remove.
InUse(f) == funct[f].users > 0 /\ Using(f) # {}

\* Mutant: a function is cleared before its entries are removed.
ExitFunctCleared(f) ==
    /\ At("app", "exit") /\ Owner[f] = proc["app"].c /\ funct[f].listed
    /\ funct' = [funct EXCEPT ![f].listed = FALSE]
    /\ IF InUse(f)
       THEN \E e \in Using(f) : proc' = [proc EXCEPT !["app"].pc = "remove", !["app"].f = f, !["app"].e = e]
       ELSE UNCHANGED proc
    /\ UNCHANGED <<mutex, running, comp, link, calls, used, thread, cur>>

\* free_comp_struct(): the functions of the component go, one after the other, each with
\* its entries; then the pins, the times of the functions among them, and the component.
ExitFunct(f) ==
    /\ At("app", "exit") /\ Owner[f] = proc["app"].c /\ funct[f].listed
    /\ IF InUse(f)
       THEN /\ \E e \in Using(f) : proc' = [proc EXCEPT !["app"].pc = "remove", !["app"].f = f, !["app"].e = e]
            /\ UNCHANGED funct
       ELSE /\ funct' = [funct EXCEPT ![f] = [listed |-> FALSE, users |-> 0, runtime |-> FALSE]]
            /\ UNCHANGED proc
    /\ UNCHANGED <<mutex, running, comp, link, calls, used, thread, cur>>

ExitComp ==
    LET c == proc["app"].c
    IN /\ At("app", "exit") /\ \A f \in Funct : Owner[f] = c => ~funct[f].listed
       /\ comp' = [comp EXCEPT ![c] = "out"]
       /\ Return("app")
       /\ UNCHANGED <<running, funct, link, calls, used, thread, cur>>

\* hal_create_thread(), fastest first: the task is started before there is a pin for its time.
HalCreateThread(t) ==
    /\ At("app", "idle") /\ mutex = "none"
    /\ \A u \in Thread : u < t <=> thread[u].task
    /\ thread' = [thread EXCEPT ![t] = [task |-> TRUE, runtime |-> FALSE]]
    /\ proc' = [proc EXCEPT !["app"].pc = "thread", !["app"].at = t]
    /\ UNCHANGED <<mutex, running, comp, funct, link, calls, used, cur>>

ThreadTime ==
    /\ At("app", "thread") /\ mutex = "none"
    /\ thread' = [thread EXCEPT ![proc["app"].at].runtime = TRUE]
    /\ proc' = [proc EXCEPT !["app"] = Idle]
    /\ UNCHANGED <<mutex, running, comp, funct, link, calls, used, cur>>

\* hal_thread_delete() gets the mutex and calls hal_exit(), which waits for it.
HalThreadDelete(t) ==
    /\ At("app", "idle") /\ Get("app") /\ thread[t].task
    /\ proc' = [proc EXCEPT !["app"].pc = "unload", !["app"].at = t]
    /\ UNCHANGED <<running, comp, funct, link, calls, used, thread, cur>>

-----------------------------------------------------------------------------
Init ==
    /\ mutex = "none" /\ running = FALSE
    /\ comp = [c \in Comp |-> "out"]
    /\ funct = [f \in Funct |-> [listed |-> FALSE, users |-> 0, runtime |-> FALSE]]
    /\ link = [n \in Node |-> [next |-> n, prev |-> n]]
    /\ calls = [e \in Entry |-> "none"]
    /\ used = 0
    /\ thread = [t \in Thread |-> [task |-> FALSE, runtime |-> FALSE]]
    /\ cur = [t \in Thread |-> t]
    /\ proc = [p \in Process |-> Idle]

Next ==
    \/ \E t \in Thread : Wake(t) \/ Step(t) \/ HalCreateThread(t) \/ HalThreadDelete(t)
    \/ HalStartThreads \/ HalStopThreads
    \/ \E f \in Funct, t \in Thread : HalDelFunct(f, t) \/ \E pos \in -2 .. 2 : HalAddFunct(f, t, pos)
    \/ AddEntry \/ \E p \in Process : RemoveEntry(p)
    \/ \E c \in Comp : Load(c) \/ Unload(c)
    \/ \E f \in Funct : HalExportFunct(f) \/ ExitFunct(f)
    \/ ExportTime \/ HalReady \/ HalExit \/ ExitComp \/ ThreadTime

Spec == Init /\ [][Next]_vars

\* Every thread gets the processor in time, the slower ones too: the periods are chosen
\* longer than the work in them.
FairSpec == Spec /\ \A t \in Thread : SF_vars(Wake(t)) /\ SF_vars(Step(t))

-----------------------------------------------------------------------------
(* Properties                                                              *)

\* The types; and a process is inside an operation if and only if it has the mutex, except
\* when it is about to take it.
ThreadTypeOK ==
    /\ mutex \in Process \cup {"none"} /\ running \in BOOLEAN
    /\ comp \in [Comp -> {"out", "loading", "ready"}]
    /\ funct \in [Funct -> [listed : BOOLEAN, users : 0 .. EntryMemory, runtime : BOOLEAN]]
    /\ link \in [Node -> [next : Node, prev : Node]]
    /\ calls \in [Entry -> Funct \cup {"none"}]
    /\ cur \in [Thread -> Node]
    /\ \A p \in Process : proc[p].pc \in {"add", "add2", "add3", "remove", "remove2", "free", "exit"} => mutex = p

\* A walk that starts now, in the middle of whatever operation, comes back to the root of
\* its list, meets every entry once, and every entry has a function.
WalkEnds ==
    \A t \in Thread :
        LET s == List(t)
        IN /\ link[IF s = <<>> THEN t ELSE Last(s)].next = t
           /\ IsInjective(s) /\ \A e \in ToSet(s) : calls[e] # "none"

\* A thread only executes functions that are exported, of components that are loaded.
CallsLive ==
    \A t \in Thread :
        cur[t] # t => /\ cur[t] \in Entry /\ calls[cur[t]] # "none"
                      /\ funct[calls[cur[t]]].listed /\ comp[Owner[calls[cur[t]]]] # "out"

\* When nobody has the mutex, a function has as many users as there are entries for it, and
\* the lists are the same in both directions.
ListsWhole ==
    mutex = "none" =>
        /\ \A f \in Funct : funct[f].users = Cardinality(Using(f))
        /\ \A t \in Thread : Along("prev", t) = Reverse(List(t))

\* thread_task() can walk its list at any moment, and what the holder of the mutex leaves
\* behind is a whole list in both directions, with the right number of users.
ListsWalkable == ThreadTypeOK /\ WalkEnds /\ ListsWhole

\* A function that is not reentrant is never called by a thread that interrupts it.
NotReentered ==
    \A t, u \in Thread :
        t # u /\ cur[t] \in Entry /\ cur[u] \in Entry /\ calls[cur[t]] = calls[cur[u]]
        => calls[cur[t]] \in Reentrant

\* A thread calls only what it may call: a live function, and one that is not interrupted.
\* The threads are on one processor: on another one a process may take an entry out while
\* a thread is at it (v_walk).  That the pin for the time is there when the call returns is
\* not spoken of (TimeStored).
CallsSafe == CallsLive /\ NotReentered

\* The pin for the time of a function is there when the function returns and the time is stored.
\* It need not be (v_export).
TimeStored ==
    \A t \in Thread : cur[t] \in Entry /\ calls[cur[t]] # "none" => funct[calls[cur[t]]].runtime

\* No process waits for the mutex that it has itself.
NoSelfWait == ~(mutex = "app" /\ proc["app"].pc = "unload")

\* A thread that walks its list sees it as it was before a change or after it: a step puts
\* in or takes out one entry and leaves the order of the others.
OneChange ==
    [][\A t \in Thread :
          LET old == List(t)
              new == List(t)'
          IN \/ new = old
             \/ \E i \in 1 .. Len(new) : RemoveAt(new, i) = old
             \/ \E i \in 1 .. Len(old) : RemoveAt(old, i) = new]_vars

\* A function on the list of a thread is called while the threads run, whatever the
\* processes do meanwhile and even if one keeps the mutex.
Called(f, t) == \E e \in Using(f) : cur[t] = e
OnList(f, t) == \E e \in ToSet(List(t)) : calls[e] = f
Served ==
    \A f \in Funct, t \in Thread :
        (running /\ OnList(f, t)) ~> (Called(f, t) \/ ~running \/ ~OnList(f, t))
=============================================================================
