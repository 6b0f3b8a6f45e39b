------------------------------- MODULE Timer -------------------------------
(***************************************************************************)
(* timer.c: the handler of the timer interrupt, the tasks it runs, and      *)
(* wait, which sleeps on the same counter.                                  *)
(*                                                                          *)
(* The handler runs with interrupts masked; it is written out one iteration *)
(* of its loop at a time because it takes tasks out of the table it walks.  *)
(* System calls run masked too, so add_task and remove_task are one step.   *)
(* wait is the exception: _hlt is sti; hlt; ret, and from the first _hlt on *)
(* an interrupt may come at any point of its loop.                          *)
(*                                                                          *)
(* ticks counts without end.  The code compares it with the ticks a wait    *)
(* asks for and takes it modulo the tasks' periods, so once it has passed   *)
(* the longest wait it may go round in a cycle that every period divides.   *)
(***************************************************************************)
EXTENDS Integers, Sequences, FiniteSets

CONSTANTS Handlers,         \* addresses of task handlers
          TicksPerSecond,   \* TICKS_PER_SECOND
          MaxTasks,         \* MAX_TASKS
          Periods,          \* seconds that add_task is given
          MillisPerSecond,  \* the 1000 that wait divides by
          Delays,           \* milliseconds that wait is given
          Cycle             \* a multiple of every period, in ticks

\* A task of zero seconds would divide by zero in the handler.
ASSUME TimerAssumption ==
  /\ TicksPerSecond \in Nat \ {0}
  /\ MaxTasks \in Nat \ {0}
  /\ Periods \subseteq Nat \ {0}
  /\ MillisPerSecond \in Nat \ {0}
  /\ Delays \subseteq Nat
  /\ Cycle \in Nat \ {0}
  /\ \A s \in Periods : Cycle % (TicksPerSecond * s) = 0
  /\ \A d \in Delays : (d \div MillisPerSecond) * TicksPerSecond <= Cycle

VARIABLES ticks,     \* static unsigned long ticks
          tasks,     \* tasks[0..tasks_number - 1]
          i,         \* the handler's index into tasks from 1, 0 outside it
          pc,        \* where the caller of wait is
          waiting,   \* waiting_ticks
          called,    \* history: the tasks called by this run of the handler
          due,       \* history: the handlers whose time it was
          asked,     \* history: milliseconds that wait was called with
          slept      \* history: ticks since wait was called

vars == <<ticks, tasks, i, pc, waiting, called, due, asked, slept>>

\* age (ticks since the task was added or last called) and steady (it has been
\* called before and ticks was not set back since) are history.
Task == [handler : Handlers, seconds : Periods, forever : BOOLEAN,
         age : Nat, steady : BOOLEAN]

\* Slip: the seconds are left out.
PeriodOfOne(task) == TicksPerSecond

Period(task) == TicksPerSecond * task.seconds

MaxAge == 1 + Cycle

Succ(t) == IF t + 1 = 2 * Cycle THEN Cycle ELSE t + 1

Due(t, task) == t % Period(task) = 0

Contains(handler) == \E j \in 1..Len(tasks) : tasks[j].handler = handler

\* static void remove(int index)
RemoveIndex(table, index) ==
  [j \in 1..(Len(table) - 1) |-> IF j < index THEN table[j] ELSE table[j + 1]]

Init ==
  /\ ticks = 0 /\ tasks = <<>> /\ i = 0
  /\ pc = "idle" /\ waiting = 0
  /\ called = <<>> /\ due = {} /\ asked = 0 /\ slept = 0

-----------------------------------------------------------------------------
(* timer_handler, on IRQ 0.  Every pc below is a point with interrupts on.  *)

\* Slip: the tick is not counted.
TimerEnterStill ==
  /\ i = 0
  /\ i' = 1 /\ called' = <<>>
  /\ due' = {tasks[j].handler : j \in {k \in 1..Len(tasks) : Due(ticks, tasks[k])}}
  /\ UNCHANGED <<ticks, tasks, pc, waiting, asked, slept>>

TimerEnter ==
  /\ i = 0
  /\ ticks' = Succ(ticks)
  /\ i' = 1
  /\ called' = <<>>
  /\ due' = {tasks[j].handler : j \in {k \in 1..Len(tasks) : Due(ticks', tasks[k])}}
  /\ tasks' = [j \in 1..Len(tasks) |->
                 [tasks[j] EXCEPT !.age = IF @ < MaxAge THEN @ + 1 ELSE @]]
  /\ slept' = IF pc # "idle" /\ slept < Cycle THEN slept + 1 ELSE slept
  /\ UNCHANGED <<pc, waiting, asked>>

TimerPass ==
  /\ i \in 1..Len(tasks)
  /\ ~Due(ticks, tasks[i])
  /\ i' = i + 1
  /\ UNCHANGED <<ticks, tasks, pc, waiting, called, due, asked, slept>>

TimerCall ==
  /\ i \in 1..Len(tasks)
  /\ Due(ticks, tasks[i])
  /\ tasks[i].forever
  /\ called' = Append(called, tasks[i])
  /\ tasks' = [tasks EXCEPT ![i].age = 0, ![i].steady = TRUE]
  /\ i' = i + 1
  /\ UNCHANGED <<ticks, pc, waiting, due, asked, slept>>

\* Slip: the index moves on although the next task has moved down.
TimerCallOnceSkip ==
  /\ i \in 1..Len(tasks)
  /\ Due(ticks, tasks[i])
  /\ ~tasks[i].forever
  /\ called' = Append(called, tasks[i])
  /\ tasks' = RemoveIndex(tasks, i)
  /\ i' = i + 1
  /\ UNCHANGED <<ticks, pc, waiting, due, asked, slept>>

\* remove(i--): the task that moves down to i is looked at next.
TimerCallOnce ==
  /\ i \in 1..Len(tasks)
  /\ Due(ticks, tasks[i])
  /\ ~tasks[i].forever
  /\ called' = Append(called, tasks[i])
  /\ tasks' = RemoveIndex(tasks, i)
  /\ UNCHANGED <<ticks, i, pc, waiting, due, asked, slept>>

\* The loop is over; a caller of wait in hlt goes on behind it.
TimerExit ==
  /\ i > Len(tasks)
  /\ i' = 0
  /\ pc' = IF pc = "halted" THEN "awake" ELSE pc
  /\ called' = <<>> /\ due' = {}
  /\ UNCHANGED <<ticks, tasks, waiting, asked, slept>>

\* Any other interrupt (the keyboard's) also ends a hlt.
OtherInterrupt ==
  /\ i = 0 /\ pc = "halted"
  /\ pc' = "awake"
  /\ UNCHANGED <<ticks, tasks, i, waiting, called, due, asked, slept>>

-----------------------------------------------------------------------------
(* System calls.                                                           *)

\* Slip: a handler may be added twice.
AddTaskAgain(seconds, handler, forever) ==
  /\ i = 0 /\ pc = "idle"
  /\ Len(tasks) # MaxTasks - 1
  /\ tasks' = Append(tasks, [handler |-> handler, seconds |-> seconds,
                             forever |-> forever, age |-> 0, steady |-> FALSE])
  /\ UNCHANGED <<ticks, i, pc, waiting, called, due, asked, slept>>

\* Refused (false) when the handler is there already or the table is full: no
\* state changes, and the call is no step.
AddTask(seconds, handler, forever) ==
  /\ i = 0 /\ pc = "idle"
  /\ ~Contains(handler)
  /\ Len(tasks) # MaxTasks - 1
  /\ tasks' = Append(tasks, [handler |-> handler, seconds |-> seconds,
                             forever |-> forever, age |-> 0, steady |-> FALSE])
  /\ UNCHANGED <<ticks, i, pc, waiting, called, due, asked, slept>>

RemoveTask(handler) ==
  /\ i = 0 /\ pc = "idle"
  /\ \E j \in 1..Len(tasks) :
       /\ tasks[j].handler = handler
       /\ \A k \in 1..(j - 1) : tasks[k].handler # handler
       /\ tasks' = RemoveIndex(tasks, j)
  /\ UNCHANGED <<ticks, i, pc, waiting, called, due, asked, slept>>

\* wait up to its first _hlt, all of it masked.  millis / 1000 drops what is no
\* whole second; a wait of less than one sleeps no tick, and still sets ticks back.
WaitBegin(millis) ==
  /\ i = 0 /\ pc = "idle"
  /\ waiting' = (millis \div MillisPerSecond) * TicksPerSecond
  /\ ticks' = 0
  /\ tasks' = [j \in 1..Len(tasks) |-> [tasks[j] EXCEPT !.steady = FALSE]]
  /\ pc' = IF waiting' > 0 THEN "halted" ELSE "done"
  /\ asked' = millis /\ slept' = 0
  /\ UNCHANGED <<i, called, due>>

\* Slip: one tick less is enough.
WaitCheckEarly ==
  /\ i = 0 /\ pc = "awake"
  /\ pc' = IF waiting > ticks + 1 THEN "going" ELSE "done"
  /\ UNCHANGED <<ticks, tasks, i, waiting, called, due, asked, slept>>

\* The loop's test.
WaitCheck ==
  /\ i = 0 /\ pc = "awake"
  /\ pc' = IF waiting > ticks THEN "going" ELSE "done"
  /\ UNCHANGED <<ticks, tasks, i, waiting, called, due, asked, slept>>

\* A tick may come between the test and hlt, which then sleeps for another.
WaitHalt ==
  /\ i = 0 /\ pc = "going"
  /\ pc' = "halted"
  /\ UNCHANGED <<ticks, tasks, i, waiting, called, due, asked, slept>>

\* wait returns.
WaitEnd ==
  /\ i = 0 /\ pc = "done"
  /\ pc' = "idle" /\ waiting' = 0 /\ asked' = 0 /\ slept' = 0
  /\ UNCHANGED <<ticks, tasks, i, called, due>>

Handler == TimerEnter \/ TimerPass \/ TimerCall \/ TimerCallOnce \/ TimerExit

Waiter == WaitCheck \/ WaitHalt \/ WaitEnd

Next ==
  \/ Handler
  \/ OtherInterrupt
  \/ \E s \in Periods, h \in Handlers, f \in BOOLEAN : AddTask(s, h, f)
  \/ \E h \in Handlers : RemoveTask(h)
  \/ \E d \in Delays : WaitBegin(d)
  \/ Waiter

\* The timer chip keeps ticking (TimerEnter is enabled whenever the handler is
\* not running), and between two ticks, 55 ms apart, the processor has time for
\* the instructions of wait, however often a tick has interrupted them.
Fairness == WF_vars(Handler) /\ SF_vars(Waiter)

Spec == Init /\ [][Next]_vars /\ Fairness

-----------------------------------------------------------------------------
(* Properties.                                                             *)

TypeOK ==
  /\ ticks \in 0..(2 * Cycle - 1)
  /\ tasks \in Seq(Task)
  /\ i \in 0..(Len(tasks) + 1)
  /\ pc \in {"idle", "halted", "awake", "going", "done"}
  /\ waiting \in Nat
  /\ called \in Seq(Task)
  /\ due \subseteq Handlers
  /\ asked \in Nat
  /\ slept \in 0..Cycle

\* add_task's two tests keep the table within bounds and its handlers distinct,
\* and neither remove_task nor the handler's own removals disturb that.
TableSound ==
  /\ Len(tasks) <= MaxTasks - 1
  /\ \A j, k \in 1..Len(tasks) : tasks[j].handler = tasks[k].handler => j = k

\* timer_handler, although it removes tasks from the table while it walks it,
\* calls every task that is due, and none twice.
EachDueOnce ==
  i > 0 /\ i > Len(tasks) =>
    /\ {called[k].handler : k \in 1..Len(called)} = due
    /\ Len(called) = Cardinality(due)

\* A forever task that no wait has disturbed is called again after exactly its
\* number of seconds, whatever is added and removed around it.
Periodic ==
  \A k \in 1..Len(called) :
    called[k].steady => called[k].age = TicksPerSecond * called[k].seconds

\* wait returns early by less than a second: no wait of whole seconds returns
\* before they have passed, and no other is short by a second or more.
WaitNotEarly ==
  pc = "done" =>
    /\ asked % MillisPerSecond = 0 => slept * MillisPerSecond >= asked * TicksPerSecond
    /\ slept * MillisPerSecond > (asked - MillisPerSecond) * TicksPerSecond

\* wait returns, although a tick may slip in between its test and its hlt.
WaitEnds == pc # "idle" ~> pc = "idle"
=============================================================================
