------------------------------ MODULE RunLoop ------------------------------
(***************************************************************************)
(* The run loop on libuv (ejs-runloop-libuv.c) and the timers of the       *)
(* program (ejs-timers.c).  Promise jobs and timers are tasks of one heap, *)
(* ordered by due time and then by the order in which they were started.   *)
(* A task_timer is freed when its task has run; the Timer object that the  *)
(* program holds keeps the address, and malloc may give it to another one. *)
(*                                                                         *)
(* The record is freed without uv_close, so libuv's list of handles keeps  *)
(* it.  Only the end of that list is ever followed: uv_timer_init links    *)
(* the new handle behind it.  When that record has been freed, the write   *)
(* is undefined: it is harmless, or the behaviour ends here.               *)
(*                                                                         *)
(* Delays are relative to the loop's clock: 0 is due.                      *)
(***************************************************************************)
EXTENDS Naturals, Sequences, FiniteSets

CONSTANTS
    Addresses,      \* where malloc may put a task_timer
    Timers,         \* EJSTimer objects
    MaxDelay,       \* bound: the longest timeout
    MaxTasks,       \* bound: tasks ever added
    None

ASSUME LoopBounds == MaxDelay \in Nat \ {0} /\ MaxTasks \in Nat
ASSUME NoAddress  == None \notin Addresses

VARIABLES
    task,       \* the allocated task_timers: which data, or 0 when free
    heap,       \* the active timers, in the order the loop will run them
    running,    \* the task whose callback is on the stack, or None
    script,     \* the script is running
    data,       \* the data of every task ever added, by number
    handle,     \* per Timer object: its task_timer, or None
    queueEnd,   \* the last handle of libuv's list, or None before the first task
    status,     \* "running", or "undefined" after a write to a freed record
    mine,       \* history: the data of a Timer object, or 0 before setTimeout
    misused     \* history: a timer was cleared whose task had been freed

vars == <<task, heap, running, script, data, handle, queueEnd, status, mine, misused>>

Datum(d, r) == [delay |-> d, repeats |-> r, fired |-> FALSE, cleared |-> FALSE,
                rooted |-> TRUE]
Entry(a, d) == [at |-> a, delay |-> d]
Id(e)       == task[e.at]
Active      == {Id(heap[i]) : i \in DOMAIN heap}

Init ==
    /\ task = [a \in Addresses |-> 0]
    /\ heap = <<>>
    /\ running = None /\ script = TRUE
    /\ data = <<>>
    /\ handle = [t \in Timers |-> None]
    /\ queueEnd = None /\ status = "running"
    /\ mine = [t \in Timers |-> 0]
    /\ misused = FALSE

-----------------------------------------------------------------------------
(* libuv's timer heap *)

\* h with e in the place after k
Put(h, k, e) ==
    [i \in 1..(Len(h) + 1) |-> IF i <= k THEN h[i] ELSE IF i = k + 1 THEN e ELSE h[i - 1]]

\* fault: a new timer goes before those that are due at the same time
InsertedFirst(h, a, d) ==
    {Put(h, k, Entry(a, d)) : k \in {n \in 0..Len(h) :
        \A i \in DOMAIN h : IF i <= n THEN h[i].delay < d ELSE h[i].delay >= d}}
\* uv_timer_start: after all that is due before or at the same time.  The heap is
\* sorted, so there is one such place
Inserted(h, a, d) ==
    {Put(h, k, Entry(a, d)) : k \in {n \in 0..Len(h) :
        \A i \in DOMAIN h : IF i <= n THEN h[i].delay <= d ELSE h[i].delay > d}}

PlaceOf(h, a) == CHOOSE i \in DOMAIN h : h[i].at = a
Waits(h, a)   == \E i \in DOMAIN h : h[i].at = a
\* fault: what is due as late or later goes too
WithoutRest(h, a) ==
    IF Waits(h, a) THEN [i \in 1..(PlaceOf(h, a) - 1) |-> h[i]] ELSE h
\* uv_timer_stop
Without(h, a) ==
    IF Waits(h, a)
    THEN [i \in 1..(Len(h) - 1) |-> IF i < PlaceOf(h, a) THEN h[i] ELSE h[i + 1]]
    ELSE h

Idle == status = "running" /\ running = None /\ ~script

\* fault: a clock that is late goes past the due time
TickOver(k) ==
    /\ Idle /\ heap # <<>> /\ heap[1].delay > 0
    /\ heap' = [i \in DOMAIN heap |-> Entry(heap[i].at, heap[i].delay - k)]
    /\ UNCHANGED <<task, running, script, data, handle, queueEnd, status, mine, misused>>

\* uv__update_time: what is due stays due, and several timers may become due at once
Tick(k) ==
    /\ Idle /\ heap # <<>>
    /\ heap' = [i \in DOMAIN heap |->
                   Entry(heap[i].at, IF heap[i].delay > k THEN heap[i].delay - k ELSE 0)]
    /\ UNCHANGED <<task, running, script, data, handle, queueEnd, status, mine, misused>>

-----------------------------------------------------------------------------
(* The program *)

InProgram == status = "running" /\ (script \/ running # None)

EndFreed == queueEnd # None /\ task[queueEnd] = 0

\* uv_timer_init of the record at a: it goes to the end of the list of handles,
\* by a write to the record that was the last one
Link(a) ==
    /\ queueEnd' = a
    /\ status' \in IF EndFreed /\ queueEnd # a THEN {"running", "undefined"} ELSE {"running"}

\* malloc, uv_timer_init, uv_timer_start
Start(a, d, r) ==
    /\ Len(data) < MaxTasks
    /\ task[a] = 0
    /\ Link(a)
    /\ task' = [task EXCEPT ![a] = Len(data) + 1]
    /\ data' = Append(data, Datum(d, r))
    /\ heap' \in Inserted(heap, a, d)

\* _ejs_runloop_add_task: repeats is not initialised, the timer fires once
AddTask(a) ==
    /\ InProgram
    /\ Start(a, 0, FALSE)
    /\ UNCHANGED <<running, script, handle, mine, misused>>

AtLeastOne(d) == IF d = 0 THEN 1 ELSE d

\* setTimeout and setInterval
SetTimer(t, a, d, r) ==
    /\ InProgram /\ mine[t] = 0
    /\ Start(a, AtLeastOne(d), r)
    /\ handle' = [handle EXCEPT ![t] = a]
    /\ mine' = [mine EXCEPT ![t] = Len(data) + 1]
    /\ UNCHANGED <<running, script, misused>>

\* fault: unref without stop
ClearUnrefs(t) ==
    /\ InProgram /\ handle[t] # None
    /\ handle' = [handle EXCEPT ![t] = None]
    /\ task[handle[t]] = mine[t]
    /\ data' = [data EXCEPT ![mine[t]].cleared = TRUE]
    /\ UNCHANGED <<task, heap, running, script, queueEnd, status, mine, misused>>

\* fault: the task is freed as well
ClearFrees(t) ==
    /\ InProgram /\ handle[t] # None
    /\ task[handle[t]] = mine[t]
    /\ handle' = [handle EXCEPT ![t] = None]
    /\ heap' = Without(heap, handle[t])
    /\ task' = [task EXCEPT ![handle[t]] = 0]
    /\ data' = [data EXCEPT ![mine[t]].cleared = TRUE, ![mine[t]].rooted = FALSE]
    /\ UNCHANGED <<running, script, queueEnd, status, mine, misused>>

\* clearTimeout and clearInterval.  The task is stopped, not freed.  The address
\* of a task that has been freed is read all the same: whatever is there now is
\* stopped, or nothing happens.
ClearTimer(t) ==
    /\ InProgram /\ handle[t] # None
    /\ handle' = [handle EXCEPT ![t] = None]
    /\ \/ /\ task[handle[t]] = mine[t]
          /\ heap' = Without(heap, handle[t])
          /\ data' = [data EXCEPT ![mine[t]].cleared = TRUE]
          /\ UNCHANGED misused
       \/ /\ task[handle[t]] # mine[t]
          /\ heap' \in {heap, Without(heap, handle[t])}
          /\ misused' = TRUE
          /\ UNCHANGED data
    /\ UNCHANGED <<task, running, script, queueEnd, status, mine>>

ScriptReturns ==
    /\ script /\ InProgram
    /\ script' = FALSE
    /\ UNCHANGED <<task, heap, running, data, handle, queueEnd, status, mine, misused>>

-----------------------------------------------------------------------------
(* The loop *)

\* fault: an interval is not started again
NotRearmed(a) == {Tail(heap)}
\* uv__run_timers: the timer is stopped, started again if it repeats, called
Rearmed(a) ==
    IF data[task[a]].repeats
    THEN Inserted(Tail(heap), a, data[task[a]].delay)
    ELSE {Tail(heap)}

Fire ==
    /\ Idle /\ heap # <<>> /\ heap[1].delay = 0
    /\ running' = heap[1].at
    /\ heap' \in Rearmed(heap[1].at)
    /\ data' = [data EXCEPT ![Id(heap[1])].fired = TRUE]
    /\ UNCHANGED <<task, script, handle, queueEnd, status, mine, misused>>

Returns == InProgram /\ running # None

\* dtor_timeout_task
Destroyed(id) == [data EXCEPT ![id].rooted = FALSE]

\* fault: without the test of repeats
FinishAlways ==
    /\ Returns
    /\ data' = Destroyed(task[running])
    /\ heap' = Without(heap, running)
    /\ task' = [task EXCEPT ![running] = 0]
    /\ running' = None
    /\ UNCHANGED <<script, handle, queueEnd, status, mine, misused>>

\* the rest of invoke_task, for a task that does not repeat: its data is destroyed,
\* the timer stopped and the record freed, which stays in the list of handles
Finish ==
    /\ Returns /\ ~data[task[running]].repeats
    /\ data' = Destroyed(task[running])
    /\ heap' = Without(heap, running)
    /\ task' = [task EXCEPT ![running] = 0]
    /\ running' = None
    /\ UNCHANGED <<script, handle, queueEnd, status, mine, misused>>

\* and for one that does, or whose uninitialised flag says so
IsJob(id) == data[id].delay = 0
KeepTask ==
    /\ Returns /\ (data[task[running]].repeats \/ IsJob(task[running]))
    /\ running' = None
    /\ UNCHANGED <<task, heap, script, data, handle, queueEnd, status, mine, misused>>

Loop == Fire \/ \E k \in 1..MaxDelay : Tick(k)

Program ==
    \/ ScriptReturns \/ Finish \/ KeepTask
    \/ \E a \in Addresses : AddTask(a)
    \/ \E t \in Timers : ClearTimer(t)
    \/ \E t \in Timers, a \in Addresses, d \in 0..MaxDelay, r \in BOOLEAN : SetTimer(t, a, d, r)

Next == Loop \/ Program

\* The loop runs while there are active timers (UV_RUN_DEFAULT).
Spec == Init /\ [][Next]_vars /\ WF_vars(Loop)

-----------------------------------------------------------------------------
(* Properties *)

Slots  == [at : Addresses, delay : 0..MaxDelay]
Record == [delay : 0..MaxDelay, repeats : BOOLEAN, fired : BOOLEAN,
           cleared : BOOLEAN, rooted : BOOLEAN]

\* Type correctness of every variable.
LoopTypeOK ==
    /\ task \in [Addresses -> 0..Len(data)]
    /\ heap \in Seq(Slots)
    /\ running \in Addresses \cup {None} /\ script \in BOOLEAN
    /\ data \in Seq(Record)
    /\ handle \in [Timers -> Addresses \cup {None}]
    /\ queueEnd \in Addresses \cup {None} /\ status \in {"running", "undefined"}
    /\ mine \in [Timers -> 0..Len(data)]
    /\ misused \in BOOLEAN

\* Whatever the program clears, uv__run_timers only finds tasks in the heap that are
\* allocated, whose data has not been destroyed, each of them once; and so does the
\* rest of invoke_task after a callback that may have cleared its own timer.  (Of
\* libuv's other list, that of the handles, FreedHandleNeedsTimer speaks.)
NoFreedTask ==
    /\ \A i \in DOMAIN heap : Id(heap[i]) # 0 /\ data[Id(heap[i])].rooted
    /\ \A i, j \in DOMAIN heap : heap[i].at = heap[j].at => i = j
    /\ running # None => task[running] # 0 /\ data[task[running]].rooted

\* uv_timer_init reaches a freed record (free without uv_close) only in the callback
\* of an interval, or of a timer with a longer timeout than the last task added:
\* when that task has been freed, nothing else waits or runs.  Promise jobs that
\* queue promise jobs never do, in whatever order records are freed and reused.
FreedHandleNeedsTimer ==
    EndFreed =>
        \A id \in Active \cup {task[a] : a \in {running} \ {None}} :
            data[id].repeats \/ data[id].delay > data[Len(data)].delay

\* A timer that was cleared before its task was freed is never called again,
\* also when its own callback clears it: the loop restarts an interval before
\* the call, where clearTimer still finds it.
ClearedIsSilent == \A id \in Active : ~data[id].cleared

\* The address in a Timer object is that of its task until a one-shot task has
\* run; only then can clearTimeout reach another one.
StaleOnlyAfterFiring ==
    \A t \in Timers : handle[t] # None /\ task[handle[t]] # mine[t] =>
        data[mine[t]].fired /\ ~data[mine[t]].repeats

\* As long as the program clears no timer whose task has been freed, no task is
\* lost: one that has not been cleared waits for its first turn, or repeats.
NoTaskLost ==
    ~misused => \A id \in DOMAIN data :
        data[id].cleared \/ (data[id].fired /\ ~data[id].repeats) \/ id \in Active

\* Tasks start in order: when one is called, none waits that was added earlier
\* with a timeout that is no longer.  Promise jobs are tasks without a timeout:
\* they run in the order in which they were queued, and before every timer set
\* after them.
TasksInOrder ==
    [][running' # running /\ running' # None =>
          \A i \in Active : i < task[running'] =>
              \/ data[i].delay > data[task[running']].delay
              \/ data[i].repeats /\ data[i].fired
              \/ data[task[running']].fired]_vars

\* If every callback returns, each task that is not cleared is called, unless a
\* stale clear has stopped it.  (A write to a freed record that ends the behaviour
\* does so in a callback, which then never returns.)
EveryTaskRuns ==
    []<>(running = None /\ ~script) =>
        \A n \in 1..MaxTasks :
            n \in DOMAIN data ~>
                misused \/ (n \in DOMAIN data /\ (data[n].fired \/ data[n].cleared))

=============================================================================
