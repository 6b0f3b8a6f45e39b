----------------------------- MODULE TimeProofs -----------------------------
(***************************************************************************)
(* What the kernel knows of time: timer.c, for any handlers, periods and    *)
(* table size, and rtc.c, for any lengths of the clock's units.  The two    *)
(* share no state; each has its inductive invariant, IInv and ClockInv.     *)
(***************************************************************************)
EXTENDS Timer, Clock, FiniteSetTheorems, FunctionTheorems, TLAPS

(***************************************************************************)
(* Remainders.                                                             *)
(***************************************************************************)
\* A quotient and its remainder make up the number.
LEMMA Quotient ==
  ASSUME NEW a \in Nat, NEW p \in Nat \ {0}
  PROVE  a \div p \in Nat /\ a % p \in 0..(p - 1) /\ a = p * (a \div p) + (a % p)
OBVIOUS

\* Multiples of p lie p apart.
LEMMA Multiples ==
  ASSUME NEW p \in Nat \ {0}, NEW m \in Nat, NEW n \in Nat, m < n
  PROVE  p * m + p <= p * n
<1>1. PICK d \in Nat : n = m + 1 + d
  <2>1. n - m - 1 \in Nat /\ n = m + 1 + (n - m - 1)
    OBVIOUS
  <2> QED
    BY <2>1
<1>2. p * n = p * m + p + p * d
  BY <1>1
<1>3. p * d \in Nat /\ p * m \in Nat
  OBVIOUS
<1> QED
  BY <1>2, <1>3

\* The remainder is the only number below p that a multiple leaves.
LEMMA RemainderIs ==
  ASSUME NEW a \in Nat, NEW p \in Nat \ {0}, NEW q \in Nat, NEW r \in 0..(p - 1),
         a = p * q + r
  PROVE  a % p = r
<1> DEFINE d == a \div p
           s == a % p
<1>1. d \in Nat /\ s \in 0..(p - 1) /\ a = p * d + s
  BY Quotient
<1>2. p * q \in Nat /\ p * d \in Nat
  BY <1>1
<1> HIDE DEF d, s
<1>3. ~(d < q)
  <2>1. d < q => p * d + p <= p * q
    BY <1>1, Multiples
  <2> QED
    BY <2>1, <1>1, <1>2
<1>4. ~(q < d)
  <2>1. q < d => p * q + p <= p * d
    BY <1>1, Multiples
  <2> QED
    BY <2>1, <1>1, <1>2
<1>5. d = q
  BY <1>1, <1>3, <1>4
<1>6. s = r
  BY <1>1, <1>2, <1>5
<1> QED
  BY <1>6 DEF s

\* Counting on by one, the remainder goes up by one or back to 0.
LEMMA NextRemainder ==
  ASSUME NEW a \in Nat, NEW p \in Nat \ {0}
  PROVE  (a + 1) % p = IF (a % p) + 1 = p THEN 0 ELSE (a % p) + 1
<1> DEFINE d == a \div p
           s == a % p
<1>1. d \in Nat /\ s \in 0..(p - 1) /\ a = p * d + s
  BY Quotient
<1> HIDE DEF d, s
<1>2. CASE s + 1 = p
  <2>1. a + 1 = p * (d + 1) + 0
    BY <1>1, <1>2
  <2>2. (a + 1) % p = 0
    BY <1>1, <2>1, RemainderIs
  <2> QED
    BY <1>2, <2>2 DEF s
<1>3. CASE s + 1 # p
  <2>1. a + 1 = p * d + (s + 1) /\ s + 1 \in 0..(p - 1)
    BY <1>1, <1>3
  <2>2. (a + 1) % p = s + 1
    BY <1>1, <2>1, RemainderIs
  <2> QED
    BY <1>3, <2>2 DEF s
<1> QED
  BY <1>2, <1>3

(***************************************************************************)
(* timer.c: the inductive invariant.                                       *)
(***************************************************************************)
Called == {called[k].handler : k \in 1..Len(called)}

\* The handlers that the rest of timer_handler's walk will call.
Pending == {tasks[j].handler : j \in {k \in 1..Len(tasks) : k >= i /\ Due(ticks, tasks[k])}}

\* While the handler runs, every due handler is called already or still ahead.
WalkSound ==
  i > 0 =>
    /\ due = Called \cup Pending
    /\ Called \cap Pending = {}
    /\ \A j, k \in 1..Len(called) : called[j].handler = called[k].handler => j = k

\* wait sleeps for the whole seconds it was asked for; while it does, ticks counts
\* the ticks slept, up to Cycle.
WaitSound ==
  pc # "idle" =>
    /\ waiting = (asked \div MillisPerSecond) * TicksPerSecond
    /\ waiting <= Cycle
    /\ pc = "done" => slept >= waiting
    /\ \/ slept < Cycle /\ ticks = slept
       \/ slept = Cycle /\ ticks >= Cycle

\* The age of a steady task is what ticks has gone past a multiple of its period;
\* at the multiple itself it is the period until the walk has come to the task.
AgeSound ==
  \A j \in 1..Len(tasks) :
    tasks[j].steady =>
      tasks[j].age = IF i > 0 /\ j >= i /\ Due(ticks, tasks[j])
                     THEN Period(tasks[j]) ELSE ticks % Period(tasks[j])

IInv == TypeOK /\ TableSound /\ WalkSound /\ WaitSound /\ AgeSound /\ Periodic

(***************************************************************************)
(* How ticks counts.                                                       *)
(***************************************************************************)
\* Where ticks goes round, it goes from just before a multiple to a multiple.
LEMMA CycleRemainder ==
  ASSUME NEW p \in Nat \ {0}, Cycle % p = 0, NEW a \in Nat
  PROVE  p <= Cycle /\ (a + 1 = 2 * Cycle => (a % p) + 1 = p)
<1> DEFINE k == Cycle \div p
<1>0. Cycle \in Nat \ {0}
  BY TimerAssumption
<1>1. k \in Nat /\ Cycle = p * k
  BY <1>0, Quotient
<1> HIDE DEF k
<1>2. k # 0
  BY <1>0, <1>1
<1>3. p <= Cycle
  <2>1. p * 0 + p <= p * k
    BY <1>1, <1>2, Multiples
  <2> QED
    BY <1>1, <2>1
<1>4. ASSUME a + 1 = 2 * Cycle
      PROVE  (a % p) + 1 = p
  <2>1. 2 * k - 1 \in Nat /\ p - 1 \in 0..(p - 1)
    BY <1>1, <1>2
  <2>2. a = p * (2 * k - 1) + (p - 1)
    <3>1. p * (2 * k - 1) = 2 * (p * k) - p
      BY <1>1
    <3>2. p * k \in Nat
      BY <1>1
    <3> QED
      BY <1>1, <1>4, <3>1, <3>2
  <2>3. a % p = p - 1
    BY <2>1, <2>2, RemainderIs
  <2> QED
    BY <2>3
<1> QED
  BY <1>3, <1>4

\* The remainder of ticks goes up by one or back to 0, over the end of the cycle too.
LEMMA SuccRemainder ==
  ASSUME NEW p \in Nat \ {0}, Cycle % p = 0, NEW t \in Nat
  PROVE  Succ(t) % p = IF (t % p) + 1 = p THEN 0 ELSE (t % p) + 1
<1>1. CASE t + 1 = 2 * Cycle
  <2>1. (t % p) + 1 = p
    BY <1>1, CycleRemainder
  <2> QED
    BY <1>1, <2>1 DEF Succ
<1>2. CASE t + 1 # 2 * Cycle
  BY <1>2, NextRemainder DEF Succ
<1> QED
  BY <1>1, <1>2

(***************************************************************************)
(* The table.                                                              *)
(***************************************************************************)
LEMMA Removal ==
  ASSUME NEW table \in Seq(Task), NEW n \in 1..Len(table)
  PROVE  /\ RemoveIndex(table, n) \in Seq(Task)
         /\ Len(RemoveIndex(table, n)) = Len(table) - 1
         /\ \A j \in 1..(Len(table) - 1) :
              RemoveIndex(table, n)[j] = IF j < n THEN table[j] ELSE table[j + 1]
<1> DEFINE new == RemoveIndex(table, n)
<1>1. Len(table) \in Nat /\ Len(table) - 1 \in Nat
  OBVIOUS
<1>2. ASSUME NEW j \in 1..(Len(table) - 1)
      PROVE  (IF j < n THEN table[j] ELSE table[j + 1]) \in Task
  <2>1. j \in 1..Len(table) /\ j + 1 \in 1..Len(table)
    BY <1>1
  <2> QED
    BY <2>1
<1>3. new \in [1..(Len(table) - 1) -> Task]
  BY <1>2 DEF RemoveIndex
<1>4. new \in Seq(Task) /\ Len(new) = Len(table) - 1
  BY <1>1, <1>3
<1> QED
  BY <1>4 DEF RemoveIndex

\* Taking one task out leaves the others distinct.
LEMMA RemovalSound ==
  ASSUME TypeOK, TableSound, NEW n \in 1..Len(tasks), tasks' = RemoveIndex(tasks, n)
  PROVE  TableSound'
<1>1. /\ Len(tasks) \in Nat /\ Len(tasks') = Len(tasks) - 1
      /\ \A j \in 1..(Len(tasks) - 1) :
           tasks'[j] = IF j < n THEN tasks[j] ELSE tasks[j + 1]
  <2>1. tasks \in Seq(Task)
    BY DEF TypeOK
  <2> QED
    BY <2>1, Removal
<1>2. Len(tasks') <= MaxTasks - 1
  BY <1>1, TimerAssumption DEF TableSound
<1>3. ASSUME NEW j \in 1..Len(tasks'), NEW k \in 1..Len(tasks'),
             tasks'[j].handler = tasks'[k].handler
      PROVE  j = k
  <2> DEFINE old(x) == IF x < n THEN x ELSE x + 1
  <2>1. old(j) \in 1..Len(tasks) /\ old(k) \in 1..Len(tasks)
    BY <1>1
  <2>2. tasks'[j] = tasks[old(j)] /\ tasks'[k] = tasks[old(k)]
    BY <1>1
  <2>3. old(j) = old(k)
    BY <1>3, <2>1, <2>2 DEF TableSound
  <2> QED
    BY <1>1, <2>3
<1> QED
  BY <1>2, <1>3 DEF TableSound

\* add_task puts its task behind the others.
LEMMA Added ==
  ASSUME TypeOK, NEW seconds \in Periods, NEW handler \in Handlers, NEW forever \in BOOLEAN,
         AddTask(seconds, handler, forever)
  PROVE  /\ tasks' \in Seq(Task) /\ Len(tasks') = Len(tasks) + 1
         /\ \A j \in 1..Len(tasks) : tasks'[j] = tasks[j]
         /\ tasks'[Len(tasks) + 1].handler = handler
         /\ ~tasks'[Len(tasks) + 1].steady
<1> DEFINE task == [handler |-> handler, seconds |-> seconds,
                    forever |-> forever, age |-> 0, steady |-> FALSE]
<1>1. task \in Task
  BY DEF Task
<1>2. tasks \in Seq(Task) /\ tasks' = Append(tasks, task)
  BY DEF AddTask, TypeOK
<1>3. ~task.steady /\ task.handler = handler
  OBVIOUS
<1> HIDE DEF task
<1> QED
  BY <1>1, <1>2, <1>3

\* The handler's first step makes each task a tick older, and no other change.
LEMMA Aged ==
  ASSUME TypeOK, TimerEnter
  PROVE  /\ tasks' \in Seq(Task) /\ Len(tasks') = Len(tasks)
         /\ \A j \in 1..Len(tasks) :
              /\ tasks'[j].handler = tasks[j].handler
              /\ tasks'[j].seconds = tasks[j].seconds
              /\ tasks'[j].steady = tasks[j].steady
              /\ tasks'[j].age = IF tasks[j].age < MaxAge THEN tasks[j].age + 1
                                 ELSE tasks[j].age
<1>1. tasks \in Seq(Task) /\ Len(tasks) \in Nat /\ MaxAge \in Nat
  BY TimerAssumption DEF TypeOK, MaxAge
<1>2. tasks' = [j \in 1..Len(tasks) |->
                  [tasks[j] EXCEPT !.age = IF @ < MaxAge THEN @ + 1 ELSE @]]
  BY DEF TimerEnter
<1>3. \A j \in 1..Len(tasks) : tasks[j] \in Task
  BY <1>1
<1>4. ASSUME NEW j \in 1..Len(tasks)
      PROVE  /\ tasks'[j] \in Task
             /\ tasks'[j].handler = tasks[j].handler
             /\ tasks'[j].seconds = tasks[j].seconds
             /\ tasks'[j].steady = tasks[j].steady
             /\ tasks'[j].age = IF tasks[j].age < MaxAge THEN tasks[j].age + 1
                                ELSE tasks[j].age
  BY <1>1, <1>2, <1>3 DEF Task
<1>5. tasks' \in [1..Len(tasks) -> Task]
  BY <1>2, <1>4
<1>6. tasks' \in Seq(Task) /\ Len(tasks') = Len(tasks)
  BY <1>1, <1>5
<1> QED
  BY <1>4, <1>6

\* wait keeps the tasks and disturbs their periods.
LEMMA SetBack ==
  ASSUME TypeOK, NEW delay \in Delays, WaitBegin(delay)
  PROVE  /\ tasks' \in Seq(Task) /\ Len(tasks') = Len(tasks)
         /\ \A j \in 1..Len(tasks) :
              tasks'[j].handler = tasks[j].handler /\ ~tasks'[j].steady
<1>1. tasks \in Seq(Task) /\ Len(tasks) \in Nat
  BY DEF TypeOK
<1>2. tasks' = [j \in 1..Len(tasks) |-> [tasks[j] EXCEPT !.steady = FALSE]]
  BY DEF WaitBegin
<1>3. \A j \in 1..Len(tasks) : tasks[j] \in Task
  BY <1>1
<1>4. ASSUME NEW j \in 1..Len(tasks)
      PROVE  tasks'[j] \in Task /\ tasks'[j].handler = tasks[j].handler /\ ~tasks'[j].steady
  BY <1>2, <1>3 DEF Task
<1>5. tasks' \in [1..Len(tasks) -> Task]
  BY <1>2, <1>4
<1>6. tasks' \in Seq(Task) /\ Len(tasks') = Len(tasks)
  BY <1>1, <1>5
<1> QED
  BY <1>4, <1>6

\* A call of a forever task starts its age again.
LEMMA Restarted ==
  ASSUME TypeOK, TimerCall
  PROVE  /\ tasks' \in Seq(Task) /\ Len(tasks') = Len(tasks)
         /\ \A j \in 1..Len(tasks) :
              /\ tasks'[j].handler = tasks[j].handler
              /\ tasks'[j].seconds = tasks[j].seconds
              /\ j # i => tasks'[j] = tasks[j]
         /\ tasks'[i].age = 0
<1>1. tasks \in Seq(Task) /\ Len(tasks) \in Nat /\ i \in 1..Len(tasks)
  BY DEF TypeOK, TimerCall
<1>2. tasks' = [tasks EXCEPT ![i] = [[tasks[i] EXCEPT !.age = 0] EXCEPT !.steady = TRUE]]
  <2>1. tasks' = [tasks EXCEPT ![i].age = 0, ![i].steady = TRUE]
    BY DEF TimerCall
  <2> QED
    BY <1>1, <2>1
<1>3. \A j \in 1..Len(tasks) : tasks[j] \in Task
  BY <1>1
<1> DEFINE new == [[tasks[i] EXCEPT !.age = 0] EXCEPT !.steady = TRUE]
<1>4. /\ new \in Task /\ new.handler = tasks[i].handler
      /\ new.seconds = tasks[i].seconds /\ new.age = 0
  BY <1>1, <1>3 DEF Task
<1> HIDE DEF new
<1>5. tasks' = [tasks EXCEPT ![i] = new]
  BY <1>2 DEF new
<1>6. tasks' \in Seq(Task) /\ Len(tasks') = Len(tasks)
  BY <1>1, <1>4, <1>5
<1>7. \A j \in 1..Len(tasks) : tasks'[j] = IF j = i THEN new ELSE tasks[j]
  BY <1>1, <1>5
<1> QED
  BY <1>1, <1>4, <1>6, <1>7

(***************************************************************************)
(* The types and the table.                                                *)
(***************************************************************************)
LEMMA TypeStep ==
  TypeOK /\ [Next]_vars => TypeOK'
<1> SUFFICES ASSUME TypeOK, [Next]_vars
             PROVE  TypeOK'
  OBVIOUS
<1>0. /\ ticks \in 0..(2 * Cycle - 1) /\ tasks \in Seq(Task) /\ Len(tasks) \in Nat
      /\ i \in 0..(Len(tasks) + 1) /\ pc \in {"idle", "halted", "awake", "going", "done"}
      /\ waiting \in Nat /\ called \in Seq(Task) /\ due \subseteq Handlers
      /\ asked \in Nat /\ slept \in 0..Cycle /\ Cycle \in Nat \ {0} /\ TicksPerSecond \in Nat
      /\ MillisPerSecond \in Nat \ {0} /\ Delays \subseteq Nat
  BY TimerAssumption DEF TypeOK
<1>00. \A j \in 1..Len(tasks) : tasks[j] \in Task /\ tasks[j].handler \in Handlers
  <2>1. \A task \in Task : task.handler \in Handlers
    BY DEF Task
  <2>2. \A j \in 1..Len(tasks) : tasks[j] \in Task
    BY <1>0
  <2> QED
    BY <2>1, <2>2
<1>1. CASE TimerEnter
  <2>1. tasks' \in Seq(Task) /\ Len(tasks') = Len(tasks)
    BY <1>1, Aged
  <2>2. ticks' \in 0..(2 * Cycle - 1)
    <3>1. ticks' = Succ(ticks)
      BY <1>1 DEF TimerEnter
    <3> QED
      BY <1>0, <3>1 DEF Succ
  <2>3. due' \subseteq Handlers
    BY <1>00, <1>1 DEF TimerEnter
  <2>4. slept' \in 0..Cycle
    BY <1>0, <1>1 DEF TimerEnter
  <2>5. i' \in 0..(Len(tasks') + 1) /\ called' \in Seq(Task)
    BY <1>0, <1>1, <2>1 DEF TimerEnter
  <2> QED
    BY <1>0, <1>1, <2>1, <2>2, <2>3, <2>4, <2>5 DEF TypeOK, TimerEnter
<1>2. CASE TimerPass
  BY <1>0, <1>2 DEF TypeOK, TimerPass
<1>3. CASE TimerCall
  <2>1. tasks' \in Seq(Task) /\ Len(tasks') = Len(tasks)
    BY <1>3, Restarted
  <2>2. called' \in Seq(Task)
    BY <1>0, <1>00, <1>3 DEF TimerCall
  <2>3. i \in 1..Len(tasks) /\ i' = i + 1 /\ UNCHANGED <<ticks, pc, waiting, due, asked, slept>>
    BY <1>3 DEF TimerCall
  <2> QED
    BY <1>0, <2>1, <2>2, <2>3 DEF TypeOK
<1>4. CASE TimerCallOnce
  <2>1. tasks' \in Seq(Task) /\ Len(tasks') = Len(tasks) - 1
    BY <1>0, <1>4, Removal DEF TimerCallOnce
  <2>2. called' \in Seq(Task)
    BY <1>0, <1>00, <1>4 DEF TimerCallOnce
  <2> QED
    BY <1>0, <1>4, <2>1, <2>2 DEF TypeOK, TimerCallOnce
<1>5. CASE TimerExit
  BY <1>0, <1>5 DEF TypeOK, TimerExit
<1>6. CASE OtherInterrupt
  BY <1>0, <1>6 DEF TypeOK, OtherInterrupt
<1>7. ASSUME NEW s \in Periods, NEW h \in Handlers, NEW f \in BOOLEAN, AddTask(s, h, f)
      PROVE  TypeOK'
  <2>1. tasks' \in Seq(Task) /\ Len(tasks') = Len(tasks) + 1
    BY <1>7, Added
  <2> QED
    BY <1>0, <1>7, <2>1 DEF TypeOK, AddTask
<1>8. ASSUME NEW h \in Handlers, RemoveTask(h)
      PROVE  TypeOK'
  <2>1. PICK j \in 1..Len(tasks) : tasks' = RemoveIndex(tasks, j)
    BY <1>8 DEF RemoveTask
  <2>2. tasks' \in Seq(Task) /\ Len(tasks') = Len(tasks) - 1
    BY <1>0, <2>1, Removal
  <2> QED
    BY <1>0, <1>8, <2>2 DEF TypeOK, RemoveTask
<1>9. ASSUME NEW d \in Delays, WaitBegin(d)
      PROVE  TypeOK'
  <2>1. tasks' \in Seq(Task) /\ Len(tasks') = Len(tasks)
    BY <1>9, SetBack
  <2>2. waiting' \in Nat /\ asked' \in Nat
    <3>1. waiting' = (d \div MillisPerSecond) * TicksPerSecond /\ asked' = d
      BY <1>9 DEF WaitBegin
    <3>2. d \div MillisPerSecond \in Nat
      BY <1>0
    <3> QED
      BY <1>0, <3>1, <3>2
  <2> QED
    BY <1>0, <1>9, <2>1, <2>2 DEF TypeOK, WaitBegin
<1>10. CASE WaitCheck
  BY <1>0, <1>10 DEF TypeOK, WaitCheck
<1>11. CASE WaitHalt
  BY <1>0, <1>11 DEF TypeOK, WaitHalt
<1>12. CASE WaitEnd
  BY <1>0, <1>12 DEF TypeOK, WaitEnd
<1>13. CASE UNCHANGED vars
  BY <1>13 DEF TypeOK, vars
<1> QED
  BY <1>1, <1>2, <1>3, <1>4, <1>5, <1>6, <1>7, <1>8, <1>9, <1>10, <1>11, <1>12, <1>13
     DEF Next, Handler, Waiter

\* Every step keeps the table sound.
LEMMA TableStep ==
  TypeOK /\ TableSound /\ [Next]_vars => TableSound'
<1> SUFFICES ASSUME TypeOK, TableSound, [Next]_vars
             PROVE  TableSound'
  OBVIOUS
<1>0. /\ tasks \in Seq(Task) /\ Len(tasks) \in Nat /\ MaxTasks \in Nat \ {0}
      /\ Len(tasks) <= MaxTasks - 1
      /\ \A j, k \in 1..Len(tasks) : tasks[j].handler = tasks[k].handler => j = k
  BY TimerAssumption DEF TypeOK, TableSound
<1>1. CASE TimerEnter
  <2>1. /\ Len(tasks') = Len(tasks)
        /\ \A j \in 1..Len(tasks) : tasks'[j].handler = tasks[j].handler
    BY <1>1, Aged
  <2> QED
    BY <1>0, <2>1 DEF TableSound
<1>2. CASE TimerCall
  <2>1. /\ Len(tasks') = Len(tasks)
        /\ \A j \in 1..Len(tasks) : tasks'[j].handler = tasks[j].handler
    BY <1>2, Restarted
  <2> QED
    BY <1>0, <2>1 DEF TableSound
<1>3. CASE TimerCallOnce
  BY <1>3, RemovalSound DEF TimerCallOnce
<1>4. ASSUME NEW s \in Periods, NEW h \in Handlers, NEW f \in BOOLEAN, AddTask(s, h, f)
      PROVE  TableSound'
  <2>1. /\ Len(tasks') = Len(tasks) + 1
        /\ \A j \in 1..Len(tasks) : tasks'[j] = tasks[j]
        /\ tasks'[Len(tasks) + 1].handler = h
    BY <1>4, Added
  <2>2. \A j \in 1..Len(tasks) : tasks[j].handler # h
    BY <1>4 DEF AddTask, Contains
  <2>3. Len(tasks) # MaxTasks - 1
    BY <1>4 DEF AddTask
  <2>4. Len(tasks') <= MaxTasks - 1
    BY <1>0, <2>1, <2>3
  <2>5. ASSUME NEW j \in 1..Len(tasks'), NEW k \in 1..Len(tasks'),
               tasks'[j].handler = tasks'[k].handler
        PROVE  j = k
    <3>1. \A x \in 1..Len(tasks') : x \in 1..Len(tasks) \/ x = Len(tasks) + 1
      BY <1>0, <2>1
    <3> QED
      BY <1>0, <2>1, <2>2, <2>5, <3>1
  <2> QED
    BY <2>4, <2>5 DEF TableSound
<1>5. ASSUME NEW h \in Handlers, RemoveTask(h)
      PROVE  TableSound'
  <2>1. PICK j \in 1..Len(tasks) : tasks' = RemoveIndex(tasks, j)
    BY <1>5 DEF RemoveTask
  <2> QED
    BY <2>1, RemovalSound
<1>6. ASSUME NEW d \in Delays, WaitBegin(d)
      PROVE  TableSound'
  <2>1. /\ Len(tasks') = Len(tasks)
        /\ \A j \in 1..Len(tasks) : tasks'[j].handler = tasks[j].handler
    BY <1>6, SetBack
  <2> QED
    BY <1>0, <2>1 DEF TableSound
<1>7. CASE tasks' = tasks
  BY <1>7 DEF TableSound
<1> QED
  BY <1>1, <1>2, <1>3, <1>4, <1>5, <1>6, <1>7
     DEF Next, Handler, Waiter, vars, TimerPass, TimerExit, OtherInterrupt,
         WaitCheck, WaitHalt, WaitEnd

(***************************************************************************)
(* wait.                                                                   *)
(***************************************************************************)
LEMMA WaitStep ==
  TypeOK /\ WaitSound /\ [Next]_vars => WaitSound'
<1> SUFFICES ASSUME TypeOK, WaitSound, [Next]_vars
             PROVE  WaitSound'
  OBVIOUS
<1>0. /\ ticks \in 0..(2 * Cycle - 1) /\ waiting \in Nat /\ slept \in 0..Cycle
      /\ Cycle \in Nat \ {0} /\ TicksPerSecond \in Nat /\ Delays \subseteq Nat
      /\ MillisPerSecond \in Nat \ {0}
      /\ \A d \in Delays : (d \div MillisPerSecond) * TicksPerSecond <= Cycle
  BY TimerAssumption DEF TypeOK
<1> DEFINE whole == (asked \div MillisPerSecond) * TicksPerSecond
<1>00. pc # "idle" =>
         /\ waiting = whole /\ waiting <= Cycle
         /\ pc = "done" => slept >= waiting
         /\ \/ slept < Cycle /\ ticks = slept
            \/ slept = Cycle /\ ticks >= Cycle
  BY DEF WaitSound
<1>01. ASSUME UNCHANGED asked,
              pc' # "idle" =>
                /\ waiting' = whole /\ waiting' <= Cycle
                /\ pc' = "done" => slept' >= waiting'
                /\ \/ slept' < Cycle /\ ticks' = slept'
                   \/ slept' = Cycle /\ ticks' >= Cycle
       PROVE  WaitSound'
  BY <1>01 DEF WaitSound
<1> HIDE DEF whole
<1>1. CASE TimerEnter
  <2>1. /\ UNCHANGED <<pc, waiting, asked>> /\ ticks' = Succ(ticks)
        /\ slept' = IF pc # "idle" /\ slept < Cycle THEN slept + 1 ELSE slept
    BY <1>1 DEF TimerEnter
  <2>2. ticks' = IF ticks + 1 = 2 * Cycle THEN Cycle ELSE ticks + 1
    BY <2>1 DEF Succ
  <2>3. ASSUME pc # "idle"
        PROVE  /\ slept' >= slept
               /\ \/ slept' < Cycle /\ ticks' = slept'
                  \/ slept' = Cycle /\ ticks' >= Cycle
    BY <1>0, <1>00, <2>1, <2>2, <2>3
  <2>4. pc = "done" => slept' >= waiting
    BY <1>0, <1>00, <2>1, <2>3
  <2> QED
    BY <1>00, <1>01, <2>1, <2>3, <2>4
<1>2. CASE UNCHANGED <<pc, ticks, waiting, asked, slept>>
  BY <1>00, <1>01, <1>2
<1>3. CASE TimerExit
  BY <1>00, <1>01, <1>3 DEF TimerExit
<1>4. CASE OtherInterrupt
  BY <1>00, <1>01, <1>4 DEF OtherInterrupt
<1>5. ASSUME NEW d \in Delays, WaitBegin(d)
      PROVE  WaitSound'
  <2> DEFINE w == (d \div MillisPerSecond) * TicksPerSecond
  <2>1. waiting' = w /\ asked' = d /\ ticks' = 0 /\ slept' = 0
        /\ pc' = IF waiting' > 0 THEN "halted" ELSE "done"
    BY <1>5 DEF WaitBegin
  <2>2. w \in Nat /\ w <= Cycle
    <3>1. d \div MillisPerSecond \in Nat
      BY <1>0
    <3> QED
      BY <1>0, <3>1
  <2>3. waiting' = (asked' \div MillisPerSecond) * TicksPerSecond
    BY <2>1
  <2> HIDE DEF w
  <2>4. waiting' <= Cycle /\ (pc' = "done" => slept' >= waiting')
    BY <1>0, <2>1, <2>2
  <2>5. slept' < Cycle /\ ticks' = slept'
    BY <1>0, <2>1
  <2> QED
    BY <2>3, <2>4, <2>5 DEF WaitSound
<1>6. CASE WaitCheck
  BY <1>0, <1>00, <1>01, <1>6 DEF WaitCheck
<1>7. CASE WaitHalt
  BY <1>00, <1>01, <1>7 DEF WaitHalt
<1>8. CASE WaitEnd
  BY <1>8 DEF WaitEnd, WaitSound
<1> QED
  BY <1>1, <1>2, <1>3, <1>4, <1>5, <1>6, <1>7, <1>8
     DEF Next, Handler, Waiter, vars, TimerPass, TimerCall, TimerCallOnce, AddTask, RemoveTask

\* Ticks of whole seconds, against the milliseconds they were counted from.
LEMMA WholeSeconds ==
  ASSUME NEW m \in Nat \ {0}, NEW t \in Nat \ {0}, NEW n \in Nat, NEW s \in Nat,
         s >= (n \div m) * t
  PROVE  /\ n % m = 0 => s * m >= n * t
         /\ s * m > (n - m) * t
<1> DEFINE q == n \div m
           rest == n % m
<1>1. q \in Nat /\ rest \in 0..(m - 1) /\ n = q * m + rest
  OBVIOUS
<1>2. s >= q * t
  OBVIOUS
<1> HIDE DEF q, rest
<1>3. s * m >= (q * t) * m
  <2>1. q * t \in Nat
    BY <1>1
  <2>2. \A x, y \in Nat : x >= y => x * m >= y * m
    OBVIOUS
  <2> QED
    BY <1>2, <2>1, <2>2
<1>4. (q * t) * m = (n - rest) * t
  <2>1. n - rest = q * m
    BY <1>1
  <2> QED
    BY <1>1, <2>1
<1>5. rest = 0 => s * m >= n * t
  BY <1>1, <1>3, <1>4
<1>6. (n - rest) * t > (n - m) * t
  <2>1. n - rest \in Int /\ n - m \in Int /\ n - rest > n - m
    BY <1>1
  <2>2. \A x, y \in Int : x > y => x * t > y * t
    OBVIOUS
  <2> QED
    BY <2>1, <2>2
<1>7. s * m > (n - m) * t
  <2>1. s * m \in Int /\ (n - rest) * t \in Int /\ (n - m) * t \in Int
    BY <1>1
  <2> QED
    BY <1>3, <1>4, <1>6, <2>1
<1> QED
  BY <1>5, <1>7 DEF rest

\* Where wait ends, it has slept the whole seconds of what it was asked for.
LEMMA WaitEnded ==
  TypeOK /\ WaitSound => WaitNotEarly
<1> SUFFICES ASSUME TypeOK, WaitSound, pc = "done"
             PROVE  /\ asked % MillisPerSecond = 0 =>
                         slept * MillisPerSecond >= asked * TicksPerSecond
                    /\ slept * MillisPerSecond > (asked - MillisPerSecond) * TicksPerSecond
  BY DEF WaitNotEarly
<1>1. /\ MillisPerSecond \in Nat \ {0} /\ TicksPerSecond \in Nat \ {0}
      /\ asked \in Nat /\ slept \in Nat
  BY TimerAssumption DEF TypeOK
<1>2. slept >= (asked \div MillisPerSecond) * TicksPerSecond
  BY DEF WaitSound
<1> QED
  BY <1>1, <1>2, WholeSeconds

(***************************************************************************)
(* The walk: what is called and what is still ahead.                       *)
(***************************************************************************)
LEMMA Appended ==
  ASSUME called \in Seq(Task), NEW task \in Task, called' = Append(called, task)
  PROVE  /\ Called' = Called \cup {task.handler}
         /\ (/\ task.handler \notin Called
             /\ \A j, k \in 1..Len(called) : called[j].handler = called[k].handler => j = k)
            => \A j, k \in 1..Len(called') : called'[j].handler = called'[k].handler => j = k
<1>1. /\ Len(called) \in Nat /\ Len(called') = Len(called) + 1
      /\ \A j \in 1..Len(called) : called'[j] = called[j]
      /\ called'[Len(called) + 1] = task
  OBVIOUS
<1>2. \A x \in 1..Len(called') : x \in 1..Len(called) \/ x = Len(called) + 1
  BY <1>1
<1>3. \A x \in 1..Len(called) : x \in 1..Len(called')
  BY <1>1
<1>4. Len(called) + 1 \in 1..Len(called')
  BY <1>1
<1>5. \A h : h \in Called' <=> h \in Called \cup {task.handler}
  BY <1>1, <1>2, <1>3, <1>4, Zenon DEF Called
<1>6. ASSUME task.handler \notin Called,
             \A j, k \in 1..Len(called) : called[j].handler = called[k].handler => j = k,
             NEW j \in 1..Len(called'), NEW k \in 1..Len(called'),
             called'[j].handler = called'[k].handler
      PROVE  j = k
  <2>1. \A x \in 1..Len(called) : called[x].handler # task.handler
    BY <1>6 DEF Called
  <2>2. j \in 1..Len(called) \/ j = Len(called) + 1
    BY <1>2
  <2>3. k \in 1..Len(called) \/ k = Len(called) + 1
    BY <1>2
  <2> QED
    BY <1>1, <1>6, <2>1, <2>2, <2>3
<1> QED
  BY <1>5, <1>6

\* Every step keeps the walk sound: a removal moves the tasks behind down with the index.
LEMMA WalkStep ==
  TypeOK /\ TableSound /\ WalkSound /\ [Next]_vars => WalkSound'
<1> SUFFICES ASSUME TypeOK, TableSound, WalkSound, [Next]_vars
             PROVE  WalkSound'
  OBVIOUS
<1>0. /\ tasks \in Seq(Task) /\ Len(tasks) \in Nat /\ called \in Seq(Task)
      /\ i \in 0..(Len(tasks) + 1)
      /\ \A j, k \in 1..Len(tasks) : tasks[j].handler = tasks[k].handler => j = k
  BY DEF TypeOK, TableSound
<1>00. \A j \in 1..Len(tasks) : tasks[j] \in Task
  BY <1>0
<1>1. CASE TimerEnter
  <2>1. /\ Len(tasks') = Len(tasks)
        /\ \A j \in 1..Len(tasks) : /\ tasks'[j].handler = tasks[j].handler
                                    /\ tasks'[j].seconds = tasks[j].seconds
    BY <1>1, Aged
  <2>2. called' = <<>> /\ i' = 1
        /\ due' = {tasks[j].handler : j \in {k \in 1..Len(tasks) : Due(ticks', tasks[k])}}
    BY <1>1 DEF TimerEnter
  <2>3. Called' = {}
    BY <2>2 DEF Called
  <2>4. \A j \in 1..Len(tasks) : j >= i' /\ (Due(ticks', tasks'[j]) <=> Due(ticks', tasks[j]))
    BY <1>0, <2>1, <2>2 DEF Due, Period
  <2>5. \A h : h \in Pending' <=> h \in due'
    BY <2>1, <2>2, <2>4, Zenon DEF Pending
  <2> QED
    BY <2>2, <2>3, <2>5 DEF WalkSound
<1>2. CASE TimerPass
  <2>1. i \in 1..Len(tasks) /\ ~Due(ticks, tasks[i]) /\ i' = i + 1
        /\ UNCHANGED <<ticks, tasks, called, due>>
    BY <1>2 DEF TimerPass
  <2>2. \A j \in 1..Len(tasks) : Due(ticks, tasks[j]) => (j >= i' <=> j >= i)
    BY <1>0, <2>1
  <2>3. \A h : h \in Pending' <=> h \in Pending
    BY <2>1, <2>2, Zenon DEF Pending
  <2>4. Called' = Called
    BY <2>1 DEF Called
  <2> QED
    BY <1>0, <2>1, <2>3, <2>4 DEF WalkSound
<1>3. CASE TimerCall
  <2>1. i \in 1..Len(tasks) /\ Due(ticks, tasks[i]) /\ i' = i + 1
        /\ called' = Append(called, tasks[i]) /\ UNCHANGED <<ticks, due>>
    BY <1>3 DEF TimerCall
  <2>2. /\ Len(tasks') = Len(tasks)
        /\ \A j \in 1..Len(tasks) : tasks'[j].handler = tasks[j].handler
                                    /\ (j # i => tasks'[j] = tasks[j])
    BY <1>3, Restarted
  <2>3. \A j \in 1..Len(tasks) :
          j >= i /\ Due(ticks, tasks[j]) <=> j = i \/ (j >= i' /\ Due(ticks', tasks'[j]))
    BY <1>0, <2>1, <2>2
  <2>4. \A j \in 1..Len(tasks) : j >= i' => j # i
    BY <1>0, <2>1
  <2>5. \A h : h \in Pending' <=> \E j \in 1..Len(tasks) :
                 j >= i' /\ Due(ticks', tasks'[j]) /\ h = tasks[j].handler
    BY <2>2, Zenon DEF Pending
  <2>6. \A h : h \in Pending <=> \E j \in 1..Len(tasks) :
                 j >= i /\ Due(ticks, tasks[j]) /\ h = tasks[j].handler
    BY Zenon DEF Pending
  <2>7. \A h : h \in Pending <=> h \in Pending' \/ h = tasks[i].handler
    <3>1. ASSUME NEW h \in Pending
          PROVE  h \in Pending' \/ h = tasks[i].handler
      BY <2>3, <2>5, <2>6, <3>1, Zenon
    <3>2. ASSUME NEW h \in Pending'
          PROVE  h \in Pending
      BY <2>3, <2>5, <2>6, <3>2, Zenon
    <3>3. tasks[i].handler \in Pending
      BY <2>1, <2>3, <2>6, Zenon
    <3> QED
      BY <3>1, <3>2, <3>3
  <2>8. tasks[i].handler \notin Pending'
    <3>1. ASSUME NEW j \in 1..Len(tasks), j >= i'
          PROVE  tasks[j].handler # tasks[i].handler
      BY <1>0, <2>1, <2>4, <3>1
    <3> QED
      BY <2>5, <3>1, Zenon
  <2>9. tasks[i].handler \notin Called /\ due = Called \cup Pending /\ Called \cap Pending = {}
        /\ \A j, k \in 1..Len(called) : called[j].handler = called[k].handler => j = k
    BY <1>0, <2>1, <2>7 DEF WalkSound
  <2>10. /\ Called' = Called \cup {tasks[i].handler}
         /\ \A j, k \in 1..Len(called') : called'[j].handler = called'[k].handler => j = k
    BY <1>0, <1>00, <2>1, <2>9, Appended
  <2>11. due' = Called' \cup Pending' /\ Called' \cap Pending' = {}
    BY <2>1, <2>7, <2>8, <2>9, <2>10
  <2>12. \A j, k \in 1..Len(called') : called'[j].handler = called'[k].handler => j = k
    BY <2>10
  <2> QED
    BY <2>11, <2>12, Zenon DEF WalkSound
<1>4. CASE TimerCallOnce
  <2>1. i \in 1..Len(tasks) /\ Due(ticks, tasks[i]) /\ tasks' = RemoveIndex(tasks, i)
        /\ called' = Append(called, tasks[i]) /\ UNCHANGED <<ticks, due, i>>
    BY <1>4 DEF TimerCallOnce
  <2>2. /\ Len(tasks') = Len(tasks) - 1
        /\ \A j \in 1..Len(tasks') : tasks'[j] = IF j < i THEN tasks[j] ELSE tasks[j + 1]
    BY <1>0, <2>1, Removal
  <2>3. ASSUME NEW j \in 1..Len(tasks'), j >= i
        PROVE  j + 1 \in 1..Len(tasks) /\ j + 1 # i /\ j + 1 >= i /\ tasks'[j] = tasks[j + 1]
    BY <1>0, <2>1, <2>2, <2>3
  <2>4. ASSUME NEW j \in 1..Len(tasks), j >= i, j # i
        PROVE  j - 1 \in 1..Len(tasks') /\ j - 1 >= i /\ tasks'[j - 1] = tasks[j]
    BY <1>0, <2>1, <2>2, <2>4
  <2>5. \A h : h \in Pending' <=> \E j \in 1..Len(tasks') :
                 j >= i /\ Due(ticks, tasks'[j]) /\ h = tasks'[j].handler
    BY <2>1, Zenon DEF Pending
  <2>6. \A h : h \in Pending <=> \E j \in 1..Len(tasks) :
                 j >= i /\ Due(ticks, tasks[j]) /\ h = tasks[j].handler
    BY Zenon DEF Pending
  <2>7. ASSUME NEW h \in Pending'
        PROVE  h \in Pending /\ h # tasks[i].handler
    <3>1. PICK j \in 1..Len(tasks') : j >= i /\ Due(ticks, tasks'[j]) /\ h = tasks'[j].handler
      BY <2>5, <2>7
    <3>2. j + 1 \in 1..Len(tasks) /\ j + 1 # i /\ j + 1 >= i /\ tasks'[j] = tasks[j + 1]
      BY <2>3, <3>1
    <3> QED
      BY <1>0, <2>1, <2>6, <3>1, <3>2
  <2>8. ASSUME NEW h \in Pending, h # tasks[i].handler
        PROVE  h \in Pending'
    <3>1. PICK j \in 1..Len(tasks) : j >= i /\ Due(ticks, tasks[j]) /\ h = tasks[j].handler
      BY <2>6, <2>8
    <3>2. j - 1 \in 1..Len(tasks') /\ j - 1 >= i /\ tasks'[j - 1] = tasks[j]
      BY <2>4, <2>8, <3>1
    <3> QED
      BY <2>5, <3>1, <3>2
  <2>9. tasks[i].handler \in Pending
    <3>1. i >= i
      BY <1>0
    <3> QED
      BY <2>1, <2>6, <3>1, Zenon
  <2>10. tasks[i].handler \notin Called /\ due = Called \cup Pending /\ Called \cap Pending = {}
        /\ \A j, k \in 1..Len(called) : called[j].handler = called[k].handler => j = k
    BY <1>0, <2>1, <2>9 DEF WalkSound
  <2>11. /\ Called' = Called \cup {tasks[i].handler}
         /\ \A j, k \in 1..Len(called') : called'[j].handler = called'[k].handler => j = k
    BY <1>0, <1>00, <2>1, <2>10, Appended
  <2>12. due' = Called' \cup Pending' /\ Called' \cap Pending' = {}
    BY <2>1, <2>7, <2>8, <2>9, <2>10, <2>11
  <2>13. \A j, k \in 1..Len(called') : called'[j].handler = called'[k].handler => j = k
    BY <2>11
  <2> QED
    BY <2>12, <2>13, Zenon DEF WalkSound
<1>5. CASE i' = 0
  BY <1>5 DEF WalkSound
<1>6. CASE UNCHANGED <<ticks, tasks, i, called, due>>
  <2>1. Called' = Called
    BY <1>6 DEF Called
  <2>2. Pending' = Pending
    BY <1>6 DEF Pending
  <2> QED
    BY <1>6, <2>1, <2>2 DEF WalkSound
<1> QED
  <2>1. i = 0 /\ UNCHANGED i => i' = 0
    OBVIOUS
  <2> QED
    BY <1>1, <1>2, <1>3, <1>4, <1>5, <1>6
       DEF Next, Handler, Waiter, vars, TimerExit, OtherInterrupt, AddTask, RemoveTask,
           WaitBegin, WaitCheck, WaitHalt, WaitEnd

\* At the end of the walk nothing is ahead, and what was called was called once.
LEMMA WalkEnd ==
  TypeOK /\ WalkSound => EachDueOnce
<1> SUFFICES ASSUME TypeOK, WalkSound, i > 0, i > Len(tasks)
             PROVE  Called = due /\ Len(called) = Cardinality(due)
  BY DEF EachDueOnce, Called
<1>1. i \in Nat /\ Len(tasks) \in Nat /\ Len(called) \in Nat
  BY DEF TypeOK
<1>2. Pending = {}
  <2>1. \A k \in 1..Len(tasks) : ~(k >= i)
    BY <1>1
  <2> QED
    BY <2>1 DEF Pending
<1>3. Called = due
  BY <1>2 DEF WalkSound
<1> DEFINE f == [k \in 1..Len(called) |-> called[k].handler]
<1>4. f \in Bijection(1..Len(called), due)
  <2>1. \A k \in 1..Len(called) : called[k].handler \in due
    BY <1>3 DEF Called
  <2>2. f \in [1..Len(called) -> due]
    BY <2>1
  <2>3. \A h \in due : \E k \in 1..Len(called) : f[k] = h
    BY <1>3 DEF Called
  <2>4. \A j, k \in 1..Len(called) : f[j] = f[k] => j = k
    BY DEF WalkSound
  <2> HIDE DEF f
  <2> QED
    BY <2>2, <2>3, <2>4, Fun_IsBij
<1>5. Cardinality(due) = Len(called)
  <2>1. ExistsBijection(1..Len(called), due)
    BY <1>4, Fun_ExistsBij
  <2> QED
    BY <1>1, <2>1, FS_CountingElements
<1> QED
  BY <1>3, <1>5

(***************************************************************************)
(* Ages and periods.                                                       *)
(***************************************************************************)
LEMMA PeriodOf ==
  ASSUME NEW task \in Task
  PROVE  /\ task.seconds \in Periods /\ task.age \in Nat
         /\ Period(task) \in Nat \ {0} /\ Cycle % Period(task) = 0
         /\ Period(task) <= Cycle
<1>1. task.seconds \in Periods /\ task.age \in Nat
  BY DEF Task
<1>2. task.seconds \in Nat \ {0} /\ TicksPerSecond \in Nat \ {0}
  BY <1>1, TimerAssumption
<1>3. Period(task) \in Nat \ {0}
  BY <1>2 DEF Period
<1>4. Cycle % Period(task) = 0
  BY <1>1, TimerAssumption DEF Period
<1>5. Period(task) <= Cycle
  BY <1>3, <1>4, CycleRemainder
<1> QED
  BY <1>1, <1>3, <1>4, <1>5

\* A tick makes every task one older.
LEMMA AgeEnter ==
  ASSUME TypeOK, AgeSound, TimerEnter
  PROVE  AgeSound'
<1>1. /\ tasks \in Seq(Task) /\ Len(tasks) \in Nat /\ ticks \in Nat /\ Cycle \in Nat
  BY TimerAssumption DEF TypeOK
<1>2. i = 0 /\ i' = 1 /\ ticks' = Succ(ticks)
  BY DEF TimerEnter
<1>3. Len(tasks') = Len(tasks)
  BY Aged
<1>4. ASSUME NEW j \in 1..Len(tasks), tasks'[j].steady
      PROVE  tasks'[j].age = IF Due(ticks', tasks'[j])
                             THEN Period(tasks'[j]) ELSE ticks' % Period(tasks'[j])
  <2> DEFINE p == Period(tasks[j])
  <2>1. tasks[j] \in Task
    BY <1>1
  <2>2. p \in Nat \ {0} /\ Cycle % p = 0 /\ p <= Cycle
    BY <2>1, PeriodOf
  <2>3. /\ tasks[j].steady
        /\ tasks'[j].seconds = tasks[j].seconds
        /\ tasks'[j].age = IF tasks[j].age < MaxAge THEN tasks[j].age + 1 ELSE tasks[j].age
    BY <1>4, Aged
  <2>4. Period(tasks'[j]) = p
    BY <2>3 DEF Period
  <2>5. tasks[j].age = ticks % p
    BY <1>2, <2>3 DEF AgeSound
  <2> HIDE DEF p
  <2>6. ticks % p \in 0..(p - 1)
    BY <1>1, <2>2, Quotient
  <2>7. tasks'[j].age = (ticks % p) + 1
    BY <1>1, <2>2, <2>3, <2>5, <2>6 DEF MaxAge
  <2>8. ticks' % p = IF (ticks % p) + 1 = p THEN 0 ELSE (ticks % p) + 1
    BY <1>1, <1>2, <2>2, SuccRemainder
  <2> QED
    BY <2>2, <2>4, <2>6, <2>7, <2>8 DEF Due
<1>5. \A j \in 1..Len(tasks') : i' > 0 /\ j >= i'
  BY <1>1, <1>2, <1>3
<1> QED
  BY <1>3, <1>4, <1>5 DEF AgeSound

\* A call makes the task new and leaves the others.
LEMMA AgeCall ==
  ASSUME TypeOK, AgeSound, TimerCall
  PROVE  AgeSound'
<1>1. /\ tasks \in Seq(Task) /\ Len(tasks) \in Nat /\ i \in 1..Len(tasks)
      /\ Due(ticks, tasks[i]) /\ i' = i + 1 /\ ticks' = ticks
  BY DEF TypeOK, TimerCall
<1>2. /\ Len(tasks') = Len(tasks) /\ tasks'[i].age = 0
      /\ \A j \in 1..Len(tasks) : /\ tasks'[j].seconds = tasks[j].seconds
                                  /\ j # i => tasks'[j] = tasks[j]
  BY Restarted
<1>3. ASSUME NEW j \in 1..Len(tasks), tasks'[j].steady
      PROVE  tasks'[j].age = IF i' > 0 /\ j >= i' /\ Due(ticks', tasks'[j])
                             THEN Period(tasks'[j]) ELSE ticks' % Period(tasks'[j])
  <2>1. CASE j = i
    <3>1. ~(j >= i')
      BY <1>1, <2>1
    <3>2. ticks' % Period(tasks'[j]) = 0
      BY <1>1, <1>2, <2>1 DEF Due, Period
    <3> QED
      BY <1>2, <2>1, <3>1, <3>2
  <2>2. CASE j # i
    <3>1. tasks'[j] = tasks[j] /\ (j >= i' <=> j >= i) /\ i > 0 /\ i' > 0
      BY <1>1, <1>2, <2>2
    <3> QED
      BY <1>1, <1>3, <3>1 DEF AgeSound
  <2> QED
    BY <2>1, <2>2
<1> QED
  BY <1>2, <1>3 DEF AgeSound

\* A removal leaves the other tasks their ages.
LEMMA AgeRemoval ==
  ASSUME TypeOK, AgeSound, NEW n \in 1..Len(tasks), n = i \/ i = 0,
         tasks' = RemoveIndex(tasks, n), UNCHANGED <<ticks, i>>
  PROVE  AgeSound'
<1>1. tasks \in Seq(Task) /\ Len(tasks) \in Nat /\ i \in Nat
  BY DEF TypeOK
<1>2. /\ Len(tasks') = Len(tasks) - 1
      /\ \A j \in 1..Len(tasks') : tasks'[j] = IF j < n THEN tasks[j] ELSE tasks[j + 1]
  BY <1>1, Removal
<1>3. ASSUME NEW j \in 1..Len(tasks'), tasks'[j].steady
      PROVE  tasks'[j].age = IF i > 0 /\ j >= i /\ Due(ticks, tasks'[j])
                             THEN Period(tasks'[j]) ELSE ticks % Period(tasks'[j])
  <2>1. CASE j < n
    <3>1. j \in 1..Len(tasks) /\ tasks'[j] = tasks[j]
      BY <1>1, <1>2, <2>1
    <3> QED
      BY <1>3, <3>1 DEF AgeSound
  <2>2. CASE ~(j < n)
    <3>1. j + 1 \in 1..Len(tasks) /\ tasks'[j] = tasks[j + 1]
      BY <1>1, <1>2, <2>2
    <3>2. i > 0 => (j >= i <=> j + 1 >= i)
      BY <1>1, <2>2
    <3> QED
      BY <1>3, <3>1, <3>2 DEF AgeSound
  <2> QED
    BY <2>1, <2>2
<1> QED
  BY <1>3 DEF AgeSound

\* Every step keeps the ages what ticks says.
LEMMA AgeStep ==
  TypeOK /\ AgeSound /\ [Next]_vars => AgeSound'
<1> SUFFICES ASSUME TypeOK, AgeSound, [Next]_vars
             PROVE  AgeSound'
  OBVIOUS
<1>0. /\ tasks \in Seq(Task) /\ Len(tasks) \in Nat /\ i \in Nat
  BY DEF TypeOK
<1>1. CASE TimerEnter
  BY <1>1, AgeEnter
<1>2. CASE TimerPass
  <2>1. /\ i \in 1..Len(tasks) /\ ~Due(ticks, tasks[i]) /\ i' = i + 1
        /\ UNCHANGED <<ticks, tasks>>
    BY <1>2 DEF TimerPass
  <2>2. \A j \in 1..Len(tasks) :
          (i > 0 /\ j >= i /\ Due(ticks, tasks[j]))
          <=> (i' > 0 /\ j >= i' /\ Due(ticks', tasks'[j]))
    BY <1>0, <2>1
  <2> QED
    BY <2>1, <2>2 DEF AgeSound
<1>3. CASE TimerCall
  BY <1>3, AgeCall
<1>4. CASE TimerCallOnce
  BY <1>4, AgeRemoval DEF TimerCallOnce
<1>5. CASE TimerExit
  <2>1. i > Len(tasks) /\ i' = 0 /\ UNCHANGED <<ticks, tasks>>
    BY <1>5 DEF TimerExit
  <2>2. \A j \in 1..Len(tasks) : ~(j >= i)
    BY <1>0, <2>1
  <2> QED
    BY <2>1, <2>2 DEF AgeSound
<1>6. ASSUME NEW s \in Periods, NEW h \in Handlers, NEW f \in BOOLEAN, AddTask(s, h, f)
      PROVE  AgeSound'
  <2>1. /\ Len(tasks') = Len(tasks) + 1
        /\ \A j \in 1..Len(tasks) : tasks'[j] = tasks[j]
        /\ ~tasks'[Len(tasks) + 1].steady
    BY <1>6, Added
  <2>2. UNCHANGED <<ticks, i>>
    BY <1>6 DEF AddTask
  <2>3. \A x \in 1..Len(tasks') : x \in 1..Len(tasks) \/ x = Len(tasks) + 1
    BY <1>0, <2>1
  <2> QED
    BY <2>1, <2>2, <2>3 DEF AgeSound
<1>7. ASSUME NEW h \in Handlers, RemoveTask(h)
      PROVE  AgeSound'
  <2>1. i = 0 /\ UNCHANGED <<ticks, i>>
    BY <1>7 DEF RemoveTask
  <2>2. PICK j \in 1..Len(tasks) : tasks' = RemoveIndex(tasks, j)
    BY <1>7 DEF RemoveTask
  <2> QED
    BY <2>1, <2>2, AgeRemoval
<1>8. ASSUME NEW d \in Delays, WaitBegin(d)
      PROVE  AgeSound'
  <2>1. /\ Len(tasks') = Len(tasks)
        /\ \A j \in 1..Len(tasks) : ~tasks'[j].steady
    BY <1>8, SetBack
  <2> QED
    BY <2>1 DEF AgeSound
<1>9. CASE UNCHANGED <<ticks, tasks, i>>
  BY <1>9 DEF AgeSound
<1> QED
  BY <1>1, <1>2, <1>3, <1>4, <1>5, <1>6, <1>7, <1>8, <1>9
     DEF Next, Handler, Waiter, vars, OtherInterrupt, WaitCheck, WaitHalt, WaitEnd

\* A steady task is called at its period.
LEMMA PeriodicStep ==
  TypeOK /\ AgeSound /\ Periodic /\ [Next]_vars => Periodic'
<1> SUFFICES ASSUME TypeOK, AgeSound, Periodic, [Next]_vars
             PROVE  Periodic'
  OBVIOUS
<1>0. tasks \in Seq(Task) /\ Len(tasks) \in Nat /\ called \in Seq(Task) /\ Len(called) \in Nat
  BY DEF TypeOK
<1>1. ASSUME i \in 1..Len(tasks), Due(ticks, tasks[i]), called' = Append(called, tasks[i])
      PROVE  Periodic'
  <2>1. tasks[i] \in Task /\ i \in 1..Len(tasks)
    BY <1>0, <1>1
  <2>2. tasks[i].steady => tasks[i].age = TicksPerSecond * tasks[i].seconds
    <3>1. i > 0 /\ i >= i
      BY <1>1
    <3> QED
      BY <1>1, <3>1 DEF AgeSound, Period
  <2>3. /\ Len(called') = Len(called) + 1
        /\ \A k \in 1..Len(called) : called'[k] = called[k]
        /\ called'[Len(called) + 1] = tasks[i]
    BY <1>0, <1>1, <2>1
  <2>4. \A k \in 1..Len(called') : k \in 1..Len(called) \/ k = Len(called) + 1
    BY <1>0, <2>3
  <2> QED
    BY <2>2, <2>3, <2>4 DEF Periodic
<1>2. CASE called' = <<>>
  BY <1>2 DEF Periodic
<1>3. CASE called' = called
  BY <1>3 DEF Periodic
<1> QED
  BY <1>1, <1>2, <1>3
     DEF Next, Handler, Waiter, vars, TimerEnter, TimerPass, TimerCall, TimerCallOnce, TimerExit,
         OtherInterrupt, AddTask, RemoveTask, WaitBegin, WaitCheck, WaitHalt, WaitEnd

(***************************************************************************)
(* The theorems.                                                           *)
(***************************************************************************)
LEMMA Start == Init => IInv
<1> SUFFICES ASSUME Init
             PROVE  IInv
  OBVIOUS
<1>1. /\ ticks = 0 /\ tasks = <<>> /\ i = 0 /\ pc = "idle" /\ waiting = 0
      /\ called = <<>> /\ due = {} /\ asked = 0 /\ slept = 0
      /\ MaxTasks \in Nat \ {0} /\ Cycle \in Nat \ {0}
  BY TimerAssumption DEF Init
<1>2. TypeOK
  BY <1>1 DEF TypeOK
<1>3. TableSound /\ AgeSound /\ Periodic
  BY <1>1 DEF TableSound, AgeSound, Periodic
<1>4. WalkSound /\ WaitSound
  BY <1>1 DEF WalkSound, WaitSound
<1> QED
  BY <1>2, <1>3, <1>4 DEF IInv

\* The conjunction of the types, the table, the walk, the wait and the ages is
\* kept by every step of timer_handler, add_task, remove_task and wait.
THEOREM TimerInvariant == Spec => []IInv
<1>1. IInv /\ [Next]_vars => IInv'
  BY TypeStep, TableStep, WalkStep, WaitStep, AgeStep, PeriodicStep DEF IInv
<1> QED
  BY Start, <1>1, PTL DEF Spec

\* The variables of timer.c keep their types: the handler's index stays within the
\* table although tasks are removed under it.
THEOREM TypesHold == Spec => []TypeOK
<1>1. IInv => TypeOK
  BY DEF IInv
<1> QED
  BY TimerInvariant, <1>1, PTL

\* The table of add_task never holds a handler twice nor exceeds its room.
THEOREM TableHolds == Spec => []TableSound
<1>1. IInv => TableSound
  BY DEF IInv
<1> QED
  BY TimerInvariant, <1>1, PTL

\* timer_handler calls each due task once, whichever of them it removes meanwhile.
THEOREM DueAreCalledOnce == Spec => []EachDueOnce
<1>1. IInv => EachDueOnce
  BY WalkEnd DEF IInv
<1> QED
  BY TimerInvariant, <1>1, PTL

\* A forever task that no wait set back is called again after exactly its period.
THEOREM TasksArePeriodic == Spec => []Periodic
<1>1. IInv => Periodic
  BY DEF IInv
<1> QED
  BY TimerInvariant, <1>1, PTL

\* wait sleeps whole seconds in full, and is short of no delay by a second or more:
\* what timer.c's division drops is all it drops.
THEOREM WaitsAreNotEarly == Spec => []WaitNotEarly
<1>1. IInv => WaitNotEarly
  BY WaitEnded DEF IInv
<1> QED
  BY TimerInvariant, <1>1, PTL

(***************************************************************************)
(* rtc.c.                                                                  *)
(***************************************************************************)
\* Reading back what was written in BCD gives the number.
LEMMA BcdOf ==
  ASSUME NEW v \in Nat
  PROVE  BIN2BCD(v) \in Nat /\ BCD2BIN(BIN2BCD(v)) = v
BY DEF BIN2BCD, BCD2BIN

\* A difference that is one of the carries, or falls short of it by the day.
LEMMA AheadBy ==
  ASSUME NEW n \in Nat \ {0}, NEW c \in 0..n, NEW d \in Int, d = c \/ d = c - n
  PROVE  d % n = c \/ (c = n /\ d % n = 0)
OBVIOUS

\* Every register holds a value of its own, in BCD.
InRange(regs) ==
  /\ regs \in [Registers -> Int]
  /\ \A r \in Registers : \E v \in Low(r)..(Low(r) + Size(r) - 1) : regs[r] = BIN2BCD(v)

\* The types of a register's range.
LEMMA SizeIs ==
  ASSUME NEW r \in Registers
  PROVE  Size(r) \in Nat \ {0} /\ Low(r) \in {0, 1}
BY ClockAssumption DEF Registers, Size, Low

\* A register's value, out of BCD.
LEMMA ValueIs ==
  ASSUME NEW regs, InRange(regs), NEW r \in Registers
  PROVE  /\ BCD2BIN(regs[r]) \in Nat
         /\ BCD2BIN(regs[r]) >= Low(r) /\ BCD2BIN(regs[r]) < Low(r) + Size(r)
         /\ regs[r] = BIN2BCD(BCD2BIN(regs[r]))
<1>1. PICK v \in Low(r)..(Low(r) + Size(r) - 1) : regs[r] = BIN2BCD(v)
  BY DEF InRange
<1>2. v \in Nat /\ v >= Low(r) /\ v < Low(r) + Size(r)
  BY SizeIs
<1>3. BCD2BIN(regs[r]) = v
  BY <1>1, <1>2, BcdOf
<1> QED
  BY <1>1, <1>2, <1>3

\* What a tick does to one register.
LEMMA TickOf ==
  ASSUME NEW regs, InRange(regs)
  PROVE  /\ InRange(Ticked(regs))
         /\ \A r \in Registers :
              BCD2BIN(Ticked(regs)[r]) =
                IF \A q \in Below(r) : Full(regs, q)
                THEN IF Full(regs, r) THEN Low(r) ELSE BCD2BIN(regs[r]) + 1
                ELSE BCD2BIN(regs[r])
<1> DEFINE value(r) == IF \A q \in Below(r) : Full(regs, q)
                       THEN IF Full(regs, r) THEN Low(r) ELSE BCD2BIN(regs[r]) + 1
                       ELSE BCD2BIN(regs[r])
<1>1. ASSUME NEW r \in Registers
      PROVE  /\ value(r) \in Low(r)..(Low(r) + Size(r) - 1) /\ value(r) \in Nat
             /\ Ticked(regs)[r] = BIN2BCD(value(r))
  <2>1. /\ BCD2BIN(regs[r]) \in Nat
        /\ BCD2BIN(regs[r]) >= Low(r) /\ BCD2BIN(regs[r]) < Low(r) + Size(r)
        /\ regs[r] = BIN2BCD(BCD2BIN(regs[r]))
    BY ValueIs
  <2>2. Size(r) \in Nat \ {0} /\ Low(r) \in {0, 1}
    BY SizeIs
  <2>3. value(r) \in Low(r)..(Low(r) + Size(r) - 1) /\ value(r) \in Nat
    BY <2>1, <2>2 DEF Full
  <2>4. Ticked(regs)[r] = BIN2BCD(value(r))
    <3>1. CASE \A q \in Below(r) : Full(regs, q)
      BY <3>1 DEF Ticked
    <3>2. CASE \E q \in Below(r) : ~Full(regs, q)
      BY <2>1, <3>2 DEF Ticked
    <3> QED
      BY <3>1, <3>2
  <2> QED
    BY <2>3, <2>4
<1>2. \A r \in Registers : BCD2BIN(Ticked(regs)[r]) = value(r)
  BY <1>1, BcdOf
<1>3. Ticked(regs) \in [Registers -> Int]
  <2>1. \A r \in Registers : Ticked(regs)[r] \in Int
    BY <1>1, BcdOf
  <2>2. Ticked(regs) = [r \in Registers |-> Ticked(regs)[r]]
    BY DEF Ticked
  <2> QED
    BY <2>1, <2>2
<1> HIDE DEF value
<1>4. InRange(Ticked(regs))
  BY <1>1, <1>3 DEF InRange
<1> QED
  BY <1>2, <1>4 DEF value


\* The time of day and the date a tick later.
LEMMA TimeTick ==
  ASSUME NEW regs, InRange(regs)
  PROVE  LET s == BCD2BIN(regs["seconds"])
             m == BCD2BIN(regs["minutes"])
             h == BCD2BIN(regs["hours"])
         IN  /\ BCD2BIN(Ticked(regs)["seconds"]) = IF s + 1 >= SecondsIn THEN 0 ELSE s + 1
             /\ BCD2BIN(Ticked(regs)["minutes"]) =
                  IF s + 1 >= SecondsIn THEN IF m + 1 >= MinutesIn THEN 0 ELSE m + 1 ELSE m
             /\ BCD2BIN(Ticked(regs)["hours"]) =
                  IF s + 1 >= SecondsIn /\ m + 1 >= MinutesIn
                  THEN IF h + 1 >= HoursIn THEN 0 ELSE h + 1 ELSE h
<1>1. \A r \in {"seconds", "minutes", "hours"} : r \in Registers /\ Low(r) = 0
  BY DEF Registers, Low
<1>2. /\ Size("seconds") = SecondsIn /\ Size("minutes") = MinutesIn /\ Size("hours") = HoursIn
      /\ Below("seconds") = {} /\ Below("minutes") = {"seconds"}
      /\ Below("hours") = {"seconds", "minutes"}
  BY DEF Size, Below
<1>3. /\ Full(regs, "seconds") <=> BCD2BIN(regs["seconds"]) + 1 >= SecondsIn
      /\ Full(regs, "minutes") <=> BCD2BIN(regs["minutes"]) + 1 >= MinutesIn
      /\ Full(regs, "hours") <=> BCD2BIN(regs["hours"]) + 1 >= HoursIn
  BY <1>1, <1>2, ClockAssumption DEF Full
<1> QED
  BY <1>1, <1>2, <1>3, TickOf

\* The date a tick later: it changes at midnight only.
LEMMA DateTick ==
  ASSUME NEW regs, InRange(regs)
  PROVE  LET midnight == \A r \in {"seconds", "minutes", "hours"} : Full(regs, r)
             d == BCD2BIN(regs["day"])
             m == BCD2BIN(regs["month"])
             y == BCD2BIN(regs["year"])
         IN  /\ BCD2BIN(Ticked(regs)["day"]) =
                  IF midnight THEN IF Full(regs, "day") THEN 1 ELSE d + 1 ELSE d
             /\ BCD2BIN(Ticked(regs)["month"]) =
                  IF midnight /\ Full(regs, "day")
                  THEN IF Full(regs, "month") THEN 1 ELSE m + 1 ELSE m
             /\ BCD2BIN(Ticked(regs)["year"]) =
                  IF midnight /\ Full(regs, "day") /\ Full(regs, "month")
                  THEN IF Full(regs, "year") THEN 0 ELSE y + 1 ELSE y
<1>1. /\ \A r \in {"day", "month"} : r \in Registers /\ Low(r) = 1
      /\ "year" \in Registers /\ Low("year") = 0
  BY DEF Registers, Low
<1>2. /\ Below("day") = {"seconds", "minutes", "hours"}
      /\ Below("month") = {"seconds", "minutes", "hours", "day"}
      /\ Below("year") = {"seconds", "minutes", "hours", "day", "month"}
  BY DEF Below, Registers
<1> QED
  BY <1>1, <1>2, TickOf

(***************************************************************************)
(* The inductive invariant: where a call is and what it has done so far.    *)
(***************************************************************************)
\* What was read of r stood in it when the call began, or stands in it since the tick.
Old(r) == got[r] = BCD2BIN(start[r])
New(r) == ticked /\ got[r] = BCD2BIN(Ticked(start)[r])

\* A call that reads a, b and c in this order: once one is new, so are the later ones.
ReadSound(a, b, c) ==
  /\ rtc = IF ticked THEN Ticked(start) ELSE start
  /\ \/ todo = <<Read(a), Read(b), Read(c)>>
     \/ todo = <<Read(b), Read(c)>> /\ (Old(a) \/ New(a))
     \/ todo = <<Read(c)>> /\ ((Old(a) /\ (Old(b) \/ New(b))) \/ (New(a) /\ New(b)))
     \/ /\ todo = <<>>
        /\ \/ Old(a) /\ Old(b) /\ (Old(c) \/ New(c))
           \/ (Old(a) \/ New(a)) /\ New(b) /\ New(c)

\* The hours and the minutes since they were written.
HoursPassed ==
  \/ BCD2BIN(rtc["hours"]) = call.hours
  \/ /\ ticked
     /\ BCD2BIN(rtc["hours"]) = IF call.hours + 1 >= HoursIn THEN 0 ELSE call.hours + 1

MinutesPassed ==
  \/ BCD2BIN(rtc["minutes"]) = call.minutes /\ HoursPassed
  \/ /\ ticked
     /\ call.minutes + 1 < MinutesIn
     /\ BCD2BIN(rtc["minutes"]) = call.minutes + 1 /\ BCD2BIN(rtc["hours"]) = call.hours
  \/ /\ ticked
     /\ call.minutes + 1 >= MinutesIn
     /\ BCD2BIN(rtc["minutes"]) = 0
     /\ BCD2BIN(rtc["hours"]) = IF call.hours + 1 >= HoursIn THEN 0 ELSE call.hours + 1

SetTimeSound ==
  /\ call.hours \in 0..(HoursIn - 1) /\ call.minutes \in 0..(MinutesIn - 1)
  /\ call.seconds \in 0..(SecondsIn - 1)
  /\ LET hours == Write("hours", call.hours)
         minutes == Write("minutes", call.minutes)
         seconds == Write("seconds", call.seconds)
     IN  \/ todo = <<Select("hours"), hours, Select("minutes"), minutes, Select("seconds"), seconds>>
         \/ todo = <<hours, Select("minutes"), minutes, Select("seconds"), seconds>>
         \/ todo = <<Select("minutes"), minutes, Select("seconds"), seconds>> /\ HoursPassed
         \/ todo = <<minutes, Select("seconds"), seconds>> /\ HoursPassed
         \/ todo = <<Select("seconds"), seconds>> /\ MinutesPassed
         \/ todo = <<seconds>> /\ MinutesPassed
         \/ todo = <<>>

SetDateSound ==
  /\ call.day \in 1..DaysIn /\ call.month \in 1..MonthsIn /\ call.year \in 0..(YearsIn - 1)
  /\ LET day == Write("day", call.day)
         month == Write("month", call.month)
         year == Write("year", call.year)
     IN  todo \in {<<day, month, year>>, <<month, year>>, <<year>>, <<>>}

\* Where the call is.
CallSound ==
  \/ call.kind = "none" /\ todo = <<>>
  \/ call.kind = "time" /\ ReadSound("seconds", "minutes", "hours")
  \/ call.kind = "date" /\ ReadSound("day", "month", "year")
  \/ call.kind = "settime" /\ SetTimeSound
  \/ call.kind = "setdate" /\ SetDateSound

ClockInv ==
  /\ InRange(rtc) /\ InRange(start)
  /\ got \in [Registers -> Int] /\ ticked \in BOOLEAN
  /\ CallSound

(***************************************************************************)
(* The steps.                                                              *)
(***************************************************************************)
\* One access that reads a register r.
LEMMA ReadStep ==
  ASSUME Access, NEW r, todo # <<>>, Head(todo) = Read(r)
  PROVE  /\ got' = [got EXCEPT ![r] = BCD2BIN(rtc[r])] /\ rtc' = rtc /\ todo' = Tail(todo)
         /\ call' = call /\ start' = start /\ ticked' = ticked
BY DEF Access, Read

\* One access that writes v to a register r.
LEMMA WriteStep ==
  ASSUME Access, NEW r, NEW v, todo # <<>>, Head(todo) = Write(r, v)
  PROVE  /\ rtc' = [rtc EXCEPT ![r] = BIN2BCD(v)] /\ got' = got /\ todo' = Tail(todo)
         /\ call' = call /\ start' = start /\ ticked' = ticked
BY DEF Access, Write

\* Sequences of accesses.
LEMMA Rest ==
  ASSUME NEW a, NEW b, NEW c
  PROVE  /\ Head(<<a>>) = a /\ Tail(<<a>>) = <<>>
         /\ Head(<<a, b>>) = a /\ Tail(<<a, b>>) = <<b>>
         /\ Head(<<a, b, c>>) = a /\ Tail(<<a, b, c>>) = <<b, c>>
         /\ <<a>> # <<>> /\ <<a, b>> # <<>> /\ <<a, b, c>> # <<>>
OBVIOUS

\* Reading goes on, and stays in order.
LEMMA ReadSoundStep ==
  ASSUME ClockInv, Access, NEW a \in Registers, NEW b \in Registers, NEW c \in Registers,
         a # b, a # c, b # c, ReadSound(a, b, c)
  PROVE  /\ ReadSound(a, b, c)'
         /\ got' \in [Registers -> Int] /\ rtc' = rtc
         /\ call' = call /\ start' = start /\ ticked' = ticked
<1>1. todo # <<>>
  BY DEF Access
<1>2. PICK r \in {a, b, c} : Head(todo) = Read(r)
                            /\ (r = a => todo = <<Read(a), Read(b), Read(c)>>)
                            /\ (r = b => todo = <<Read(b), Read(c)>>)
                            /\ (r = c => todo = <<Read(c)>>)
  BY <1>1, Rest DEF ReadSound
<1>3. /\ got' = [got EXCEPT ![r] = BCD2BIN(rtc[r])] /\ rtc' = rtc /\ todo' = Tail(todo)
      /\ call' = call /\ start' = start /\ ticked' = ticked
  BY <1>1, <1>2, ReadStep
<1>4. got \in [Registers -> Int] /\ r \in Registers
  BY DEF ClockInv
<1>5. /\ got'[r] = BCD2BIN(rtc[r])
      /\ \A q \in Registers \ {r} : got'[q] = got[q]
      /\ rtc = (IF ticked THEN Ticked(start) ELSE start) /\ ticked \in BOOLEAN
  BY <1>3, <1>4 DEF ReadSound, ClockInv
<1>6. Old(r)' \/ New(r)'
  BY <1>3, <1>5 DEF Old, New
<1>7. \A q \in Registers \ {r} : (Old(q)' <=> Old(q)) /\ (New(q)' <=> New(q))
  BY <1>3, <1>5 DEF Old, New
<1>8. \A q \in Registers : New(q) => ticked
  BY DEF New
<1>9. ticked => New(r)'
  BY <1>3, <1>5 DEF New
<1>10. got' \in [Registers -> Int]
  <2>1. BCD2BIN(rtc[r]) \in Int
    BY <1>4, ValueIs DEF ClockInv
  <2> QED
    BY <1>3, <1>4, <2>1
<1>11. ReadSound(a, b, c)'
  <2>1. CASE r = a
    <3>1. todo' = <<Read(b), Read(c)>>
      <4>1. todo = <<Read(a), Read(b), Read(c)>>
        BY <1>2, <2>1
      <4>2. Tail(<<Read(a), Read(b), Read(c)>>) = <<Read(b), Read(c)>>
        BY Rest
      <4> QED
        BY <1>3, <4>1, <4>2
    <3> QED
      BY <1>3, <1>5, <1>6, <2>1, <3>1 DEF ReadSound
  <2>2. CASE r = b
    <3>1. todo' = <<Read(c)>> /\ (Old(a) \/ New(a))
      <4>1. todo # <<Read(a), Read(b), Read(c)>> /\ todo # <<Read(c)>>
        BY <1>2, <2>2
      <4>2. Old(a) \/ New(a)
        BY <1>1, <4>1 DEF ReadSound
      <4>3. todo = <<Read(b), Read(c)>>
        BY <1>2, <2>2
      <4>4. Tail(<<Read(b), Read(c)>>) = <<Read(c)>>
        BY Rest
      <4> QED
        BY <1>3, <4>2, <4>3, <4>4
    <3>2. (Old(a) /\ (Old(b)' \/ New(b)')) \/ (New(a) /\ New(b)')
      BY <1>6, <1>8, <1>9, <2>2, <3>1
    <3> QED
      BY <1>3, <1>5, <1>7, <2>2, <3>1, <3>2 DEF ReadSound
  <2>3. CASE r = c
    <3>1. todo' = <<>> /\ ((Old(a) /\ (Old(b) \/ New(b))) \/ (New(a) /\ New(b)))
      <4>1. todo # <<Read(a), Read(b), Read(c)>> /\ todo # <<Read(b), Read(c)>>
        BY <1>2, <2>3
      <4>2. (Old(a) /\ (Old(b) \/ New(b))) \/ (New(a) /\ New(b))
        BY <1>1, <4>1 DEF ReadSound
      <4> QED
        BY <1>2, <1>3, <2>3, <4>2, Rest
    <3>2. \/ Old(a) /\ Old(b) /\ (Old(c)' \/ New(c)')
          \/ (Old(a) \/ New(a)) /\ New(b) /\ New(c)'
      BY <1>6, <1>8, <1>9, <2>3, <3>1
    <3> QED
      BY <1>3, <1>5, <1>7, <2>3, <3>1, <3>2 DEF ReadSound
  <2> QED
    BY <2>1, <2>2, <2>3
<1> QED
  BY <1>3, <1>10, <1>11

\* A tick while a call reads.
LEMMA ReadSoundTick ==
  ASSUME ClockInv, TickInCall, NEW a, NEW b, NEW c, ReadSound(a, b, c)
  PROVE  ReadSound(a, b, c)'
<1>1. /\ ~ticked /\ ticked' = TRUE /\ rtc' = Ticked(rtc)
      /\ got' = got /\ start' = start /\ todo' = todo /\ rtc = start /\ todo # <<>>
  BY DEF TickInCall, ReadSound
<1>2. \A r : (Old(r)' <=> Old(r)) /\ ~New(r)
  BY <1>1 DEF Old, New
<1> QED
  BY <1>1, <1>2 DEF ReadSound

\* A register after a write.
LEMMA Written ==
  ASSUME NEW regs, InRange(regs), NEW r \in Registers,
         NEW v \in Low(r)..(Low(r) + Size(r) - 1)
  PROVE  LET new == [regs EXCEPT ![r] = BIN2BCD(v)]
         IN  /\ InRange(new) /\ BCD2BIN(new[r]) = v
             /\ \A q \in Registers \ {r} : new[q] = regs[q]
<1> DEFINE new == [regs EXCEPT ![r] = BIN2BCD(v)]
<1>1. v \in Nat
  BY SizeIs
<1>2. new[r] = BIN2BCD(v) /\ \A q \in Registers \ {r} : new[q] = regs[q]
  BY DEF InRange
<1>3. new \in [Registers -> Int]
  BY <1>1, BcdOf DEF InRange
<1> HIDE DEF new
<1>4. \A q \in Registers : \E w \in Low(q)..(Low(q) + Size(q) - 1) : new[q] = BIN2BCD(w)
  BY <1>2 DEF InRange
<1>5. InRange(new) /\ BCD2BIN(new[r]) = v
  BY <1>1, <1>2, <1>3, <1>4, BcdOf DEF InRange
<1> QED
  BY <1>2, <1>5 DEF new

\* The registers of the time.
LEMMA TimeRegisters ==
  /\ "seconds" \in Registers /\ Low("seconds") = 0 /\ Size("seconds") = SecondsIn
  /\ "minutes" \in Registers /\ Low("minutes") = 0 /\ Size("minutes") = MinutesIn
  /\ "hours" \in Registers /\ Low("hours") = 0 /\ Size("hours") = HoursIn
  /\ SecondsIn \in Nat \ {0} /\ MinutesIn \in Nat \ {0} /\ HoursIn \in Nat \ {0}
BY ClockAssumption DEF Registers, Low, Size

\* The registers of the date.
LEMMA DateRegisters ==
  /\ "day" \in Registers /\ Low("day") = 1 /\ Size("day") = DaysIn
  /\ "month" \in Registers /\ Low("month") = 1 /\ Size("month") = MonthsIn
  /\ "year" \in Registers /\ Low("year") = 0 /\ Size("year") = YearsIn
  /\ DaysIn \in Nat \ {0} /\ MonthsIn \in Nat \ {0} /\ YearsIn \in Nat \ {0}
BY ClockAssumption DEF Registers, Low, Size

\* An access of a call that writes: the first of todo.
LEMMA WriteMakes ==
  ASSUME ClockInv, Access, NEW r \in Registers, NEW v \in Low(r)..(Low(r) + Size(r) - 1),
         todo # <<>>, Head(todo) = Write(r, v)
  PROVE  /\ InRange(rtc)' /\ BCD2BIN(rtc[r])' = v
         /\ \A q \in Registers \ {r} : rtc'[q] = rtc[q]
         /\ todo' = Tail(todo)
         /\ got' = got /\ call' = call /\ start' = start /\ ticked' = ticked
<1>1. /\ rtc' = [rtc EXCEPT ![r] = BIN2BCD(v)] /\ got' = got /\ todo' = Tail(todo)
      /\ call' = call /\ start' = start /\ ticked' = ticked
  BY WriteStep
<1>2. InRange(rtc)
  BY DEF ClockInv
<1> DEFINE new == [rtc EXCEPT ![r] = BIN2BCD(v)]
<1>3. InRange(new) /\ BCD2BIN(new[r]) = v /\ \A q \in Registers \ {r} : new[q] = rtc[q]
  BY <1>2, Written, Zenon
<1>4. rtc' = new
  BY <1>1
<1> HIDE DEF new
<1>5. InRange(rtc)' /\ BCD2BIN(rtc[r])' = v /\ \A q \in Registers \ {r} : rtc'[q] = rtc[q]
  BY <1>3, <1>4 DEF InRange
<1> QED
  BY <1>1, <1>5

\* set_time writes on: what was written stays but for a tick.
LEMMA SetTimeStep ==
  ASSUME ClockInv, Access, SetTimeSound
  PROVE  /\ SetTimeSound' /\ InRange(rtc)'
         /\ got' = got /\ call' = call /\ start' = start /\ ticked' = ticked
         /\ todo' = <<>> => MinutesPassed' /\ BCD2BIN(rtc["seconds"])' = call.seconds
<1> DEFINE hours == Write("hours", call.hours)
           minutes == Write("minutes", call.minutes)
           seconds == Write("seconds", call.seconds)
           sh == Select("hours")
           sm == Select("minutes")
           ss == Select("seconds")
<1>1. /\ call.hours \in Low("hours")..(Low("hours") + Size("hours") - 1)
      /\ call.minutes \in Low("minutes")..(Low("minutes") + Size("minutes") - 1)
      /\ call.seconds \in Low("seconds")..(Low("seconds") + Size("seconds") - 1)
      /\ 0 \in Low("hours")..(Low("hours") + Size("hours") - 1)
      /\ 0 \in Low("minutes")..(Low("minutes") + Size("minutes") - 1)
      /\ 0 \in Low("seconds")..(Low("seconds") + Size("seconds") - 1)
  BY TimeRegisters DEF SetTimeSound
<1>2. todo # <<>>
  BY DEF Access
<1>3. sh = Write("hours", 0) /\ sm = Write("minutes", 0) /\ ss = Write("seconds", 0)
  BY DEF Select
<1>4. "hours" \in Registers /\ "minutes" \in Registers /\ "seconds" \in Registers
  BY TimeRegisters
<1>5. \/ todo = <<sh, hours, sm, minutes, ss, seconds>>
      \/ todo = <<hours, sm, minutes, ss, seconds>>
      \/ todo = <<sm, minutes, ss, seconds>> /\ HoursPassed
      \/ todo = <<minutes, ss, seconds>> /\ HoursPassed
      \/ todo = <<ss, seconds>> /\ MinutesPassed
      \/ todo = <<seconds>> /\ MinutesPassed
  BY <1>2 DEF SetTimeSound
<1> HIDE DEF hours, minutes, seconds, sh, sm, ss
<1>6. CASE todo = <<sh, hours, sm, minutes, ss, seconds>>
  <2>1. Head(todo) = sh /\ Tail(todo) = <<hours, sm, minutes, ss, seconds>>
    BY <1>6
  <2>2. /\ InRange(rtc)' /\ todo' = <<hours, sm, minutes, ss, seconds>>
        /\ got' = got /\ call' = call /\ start' = start /\ ticked' = ticked
    BY <1>1, <1>2, <1>3, <1>4, <2>1, WriteMakes
  <2>3. SetTimeSound'
    BY <2>2 DEF SetTimeSound, hours, sm, minutes, ss, seconds, Select, Write
  <2> QED
    BY <2>2, <2>3
<1>7. CASE todo = <<hours, sm, minutes, ss, seconds>>
  <2>1. Head(todo) = Write("hours", call.hours) /\ Tail(todo) = <<sm, minutes, ss, seconds>>
    BY <1>7 DEF hours
  <2>2. /\ InRange(rtc)' /\ todo' = <<sm, minutes, ss, seconds>>
        /\ got' = got /\ call' = call /\ start' = start /\ ticked' = ticked
        /\ BCD2BIN(rtc["hours"])' = call.hours
    BY <1>1, <1>2, <1>4, <2>1, WriteMakes
  <2>3. HoursPassed'
    BY <2>2 DEF HoursPassed
  <2>4. SetTimeSound'
    BY <2>2, <2>3 DEF SetTimeSound, sm, minutes, ss, seconds, Select, Write
  <2> QED
    BY <2>2, <2>4
<1>8. CASE todo = <<sm, minutes, ss, seconds>> /\ HoursPassed
  <2>1. Head(todo) = Write("minutes", 0) /\ Tail(todo) = <<minutes, ss, seconds>>
    BY <1>3, <1>8
  <2>2. /\ InRange(rtc)' /\ todo' = <<minutes, ss, seconds>>
        /\ got' = got /\ call' = call /\ start' = start /\ ticked' = ticked
        /\ rtc'["hours"] = rtc["hours"]
    BY <1>1, <1>2, <1>4, <2>1, WriteMakes
  <2>3. HoursPassed'
    BY <1>8, <2>2 DEF HoursPassed
  <2>4. SetTimeSound'
    BY <2>2, <2>3 DEF SetTimeSound, minutes, ss, seconds, Select, Write
  <2> QED
    BY <2>2, <2>4
<1>9. CASE todo = <<minutes, ss, seconds>> /\ HoursPassed
  <2>1. Head(todo) = Write("minutes", call.minutes) /\ Tail(todo) = <<ss, seconds>>
    BY <1>9 DEF minutes
  <2>2. /\ InRange(rtc)' /\ todo' = <<ss, seconds>>
        /\ got' = got /\ call' = call /\ start' = start /\ ticked' = ticked
        /\ rtc'["hours"] = rtc["hours"] /\ BCD2BIN(rtc["minutes"])' = call.minutes
    BY <1>1, <1>2, <1>4, <2>1, WriteMakes
  <2>3. MinutesPassed'
    BY <1>9, <2>2 DEF HoursPassed, MinutesPassed
  <2>4. SetTimeSound'
    BY <2>2, <2>3 DEF SetTimeSound, ss, seconds, Select, Write
  <2> QED
    BY <2>2, <2>4
<1>10. CASE todo = <<ss, seconds>> /\ MinutesPassed
  <2>1. Head(todo) = Write("seconds", 0) /\ Tail(todo) = <<seconds>>
    BY <1>3, <1>10
  <2>2. /\ InRange(rtc)' /\ todo' = <<seconds>>
        /\ got' = got /\ call' = call /\ start' = start /\ ticked' = ticked
        /\ rtc'["hours"] = rtc["hours"] /\ rtc'["minutes"] = rtc["minutes"]
    BY <1>1, <1>2, <1>4, <2>1, WriteMakes
  <2>3. MinutesPassed'
    BY <1>10, <2>2 DEF HoursPassed, MinutesPassed
  <2>4. SetTimeSound'
    BY <2>2, <2>3 DEF SetTimeSound, seconds, Write
  <2> QED
    BY <2>2, <2>4
<1>11. CASE todo = <<seconds>> /\ MinutesPassed
  <2>1. Head(todo) = Write("seconds", call.seconds) /\ Tail(todo) = <<>>
    BY <1>11 DEF seconds
  <2>2. /\ InRange(rtc)' /\ todo' = <<>>
        /\ got' = got /\ call' = call /\ start' = start /\ ticked' = ticked
        /\ rtc'["hours"] = rtc["hours"] /\ rtc'["minutes"] = rtc["minutes"]
        /\ BCD2BIN(rtc["seconds"])' = call.seconds
    BY <1>1, <1>2, <1>4, <2>1, WriteMakes
  <2>3. MinutesPassed'
    BY <1>11, <2>2 DEF HoursPassed, MinutesPassed
  <2>4. SetTimeSound'
    BY <2>2 DEF SetTimeSound
  <2> QED
    BY <2>2, <2>3, <2>4
<1> QED
  BY <1>5, <1>6, <1>7, <1>8, <1>9, <1>10, <1>11

\* A tick while set_time writes carries from what is written, if at all.
LEMMA SetTimeTick ==
  ASSUME ClockInv, TickInCall, SetTimeSound
  PROVE  SetTimeSound'
<1>1. /\ ~ticked /\ ticked' = TRUE /\ rtc' = Ticked(rtc) /\ call' = call /\ todo' = todo
      /\ todo # <<>>
  BY DEF TickInCall
<1> DEFINE s == BCD2BIN(rtc["seconds"])
           m == BCD2BIN(rtc["minutes"])
           h == BCD2BIN(rtc["hours"])
<1>2. /\ BCD2BIN(rtc["minutes"])' =
           IF s + 1 >= SecondsIn THEN IF m + 1 >= MinutesIn THEN 0 ELSE m + 1 ELSE m
      /\ BCD2BIN(rtc["hours"])' =
           IF s + 1 >= SecondsIn /\ m + 1 >= MinutesIn
           THEN IF h + 1 >= HoursIn THEN 0 ELSE h + 1 ELSE h
  BY <1>1, TimeTick DEF ClockInv
<1>3. s \in Nat /\ m \in Nat /\ h \in Nat /\ MinutesIn \in Nat
  BY TimeRegisters, ValueIs DEF ClockInv
<1>4. ASSUME HoursPassed
      PROVE  HoursPassed'
  <2>1. h = call.hours
    BY <1>1, <1>4 DEF HoursPassed
  <2> HIDE DEF s, m, h
  <2> QED
    BY <1>1, <1>2, <2>1 DEF HoursPassed
<1>5. ASSUME MinutesPassed
      PROVE  MinutesPassed'
  <2>1. h = call.hours /\ m = call.minutes
    BY <1>1, <1>5 DEF HoursPassed, MinutesPassed
  <2> HIDE DEF s, m, h
  <2> QED
    BY <1>1, <1>2, <1>3, <2>1 DEF HoursPassed, MinutesPassed
<1> QED
  BY <1>1, <1>4, <1>5 DEF SetTimeSound

\* set_date writes on.
LEMMA SetDateStep ==
  ASSUME ClockInv, Access, SetDateSound
  PROVE  /\ SetDateSound' /\ InRange(rtc)'
         /\ got' = got /\ call' = call /\ start' = start /\ ticked' = ticked
<1> DEFINE day == Write("day", call.day)
           month == Write("month", call.month)
           year == Write("year", call.year)
<1>1. /\ call.day \in Low("day")..(Low("day") + Size("day") - 1)
      /\ call.month \in Low("month")..(Low("month") + Size("month") - 1)
      /\ call.year \in Low("year")..(Low("year") + Size("year") - 1)
      /\ "day" \in Registers /\ "month" \in Registers /\ "year" \in Registers
  BY DateRegisters DEF SetDateSound
<1>2. todo # <<>>
  BY DEF Access
<1>3. todo = <<day, month, year>> \/ todo = <<month, year>> \/ todo = <<year>>
  BY <1>2 DEF SetDateSound
<1>4. PICK r \in {"day", "month", "year"} :
        Head(todo) = Write(r, call[r]) /\ Tail(todo) \in {<<month, year>>, <<year>>, <<>>}
  <2> HIDE DEF day, month, year
  <2>1. \/ Head(todo) = day /\ Tail(todo) = <<month, year>>
        \/ Head(todo) = month /\ Tail(todo) = <<year>>
        \/ Head(todo) = year /\ Tail(todo) = <<>>
    <3>1. CASE todo = <<day, month, year>>
      BY <3>1
    <3>2. CASE todo = <<month, year>>
      BY <3>2
    <3>3. CASE todo = <<year>>
      BY <3>3
    <3> QED
      BY <1>3, <3>1, <3>2, <3>3
  <2> QED
    BY <2>1 DEF day, month, year
<1>5. r \in Registers /\ call[r] \in Low(r)..(Low(r) + Size(r) - 1)
  BY <1>1
<1>6. /\ InRange(rtc)' /\ todo' = Tail(todo)
      /\ got' = got /\ call' = call /\ start' = start /\ ticked' = ticked
  BY <1>2, <1>4, <1>5, WriteMakes
<1>7. SetDateSound'
  BY <1>4, <1>6 DEF SetDateSound
<1> QED
  BY <1>6, <1>7

\* A port access keeps the invariant, whichever call makes it.
LEMMA AccessStep ==
  ASSUME ClockInv, Access
  PROVE  ClockInv' /\ call' = call /\ start' = start
<1>1. todo # <<>>
  BY DEF Access
<1>2. ASSUME NEW a \in Registers, NEW b \in Registers, NEW c \in Registers,
             a # b, a # c, b # c, ReadSound(a, b, c)
      PROVE  /\ ReadSound(a, b, c)' /\ call' = call /\ start' = start
             /\ InRange(rtc)' /\ InRange(start)' /\ got' \in [Registers -> Int] /\ ticked' \in BOOLEAN
  BY <1>2, ReadSoundStep DEF ClockInv, InRange
<1>3. CASE call.kind = "time" /\ ReadSound("seconds", "minutes", "hours")
  BY <1>2, <1>3, TimeRegisters DEF ClockInv, CallSound
<1>4. CASE call.kind = "date" /\ ReadSound("day", "month", "year")
  BY <1>2, <1>4, DateRegisters DEF ClockInv, CallSound
<1>5. CASE call.kind = "settime" /\ SetTimeSound
  BY <1>5, SetTimeStep DEF ClockInv, CallSound, InRange
<1>6. CASE call.kind = "setdate" /\ SetDateSound
  BY <1>6, SetDateStep DEF ClockInv, CallSound, InRange
<1> QED
  BY <1>1, <1>3, <1>4, <1>5, <1>6 DEF ClockInv, CallSound

\* A tick of the chip during a call keeps the invariant.
LEMMA TickInCallStep ==
  ASSUME ClockInv, TickInCall
  PROVE  ClockInv'
<1>1. /\ rtc' = Ticked(rtc) /\ ticked' = TRUE /\ todo' = todo /\ todo # <<>>
      /\ got' = got /\ call' = call /\ start' = start
  BY DEF TickInCall
<1>2. InRange(rtc)' /\ InRange(start)'
  BY <1>1, TickOf DEF ClockInv, InRange
<1>3. CallSound'
  <2>1. CASE call.kind = "time" /\ ReadSound("seconds", "minutes", "hours")
    BY <1>1, <2>1, ReadSoundTick DEF CallSound
  <2>2. CASE call.kind = "date" /\ ReadSound("day", "month", "year")
    BY <1>1, <2>2, ReadSoundTick DEF CallSound
  <2>3. CASE call.kind = "settime" /\ SetTimeSound
    BY <1>1, <2>3, SetTimeTick DEF CallSound
  <2>4. CASE call.kind = "setdate" /\ SetDateSound
    BY <1>1, <2>4 DEF CallSound, SetDateSound
  <2> QED
    BY <1>1, <2>1, <2>2, <2>3, <2>4 DEF ClockInv, CallSound
<1> QED
  BY <1>1, <1>2, <1>3 DEF ClockInv

\* So does one between two calls.
LEMMA TickBetweenStep ==
  ASSUME ClockInv, TickBetween
  PROVE  ClockInv'
<1>1. /\ rtc' = Ticked(rtc) /\ start' = rtc' /\ ticked' = FALSE /\ todo' = <<>>
      /\ call' = [kind |-> "none"] /\ got' = [r \in Registers |-> 0]
  BY DEF TickBetween
<1>2. InRange(rtc)' /\ InRange(start)'
  BY <1>1, TickOf DEF ClockInv, InRange
<1>3. CallSound' /\ got' \in [Registers -> Int]
  BY <1>1 DEF CallSound
<1> QED
  BY <1>1, <1>2, <1>3 DEF ClockInv

\* What every call begins with.
LEMMA Begun ==
  ASSUME ClockInv, NEW what, NEW accesses, Begin(what, accesses)
  PROVE  /\ todo' = accesses /\ call' = what /\ start' = rtc /\ rtc' = rtc /\ ticked' = FALSE
         /\ InRange(rtc)' /\ InRange(start)' /\ got' \in [Registers -> Int]
<1>1. /\ todo' = accesses /\ call' = what /\ start' = rtc /\ rtc' = rtc /\ ticked' = FALSE
      /\ got' = [r \in Registers |-> 0]
  BY DEF Begin
<1> QED
  BY <1>1 DEF ClockInv, InRange

\* The beginning of a call keeps the invariant.
LEMMA CallStep ==
  ASSUME ClockInv,
         \/ GetTime
         \/ GetDate
         \/ \E h, m, s \in Arguments : SetTime(h, m, s)
         \/ \E d, m, y \in Arguments : SetDate(d, m, y)
  PROVE  ClockInv'
<1>1. CASE GetTime
  <2>1. /\ todo' = <<Read("seconds"), Read("minutes"), Read("hours")>> /\ call' = [kind |-> "time"]
        /\ start' = rtc /\ rtc' = rtc /\ ticked' = FALSE
        /\ InRange(rtc)' /\ InRange(start)' /\ got' \in [Registers -> Int]
    BY <1>1, Begun DEF GetTime
  <2>2. CallSound'
    BY <2>1 DEF CallSound, ReadSound, Read
  <2> QED
    BY <2>1, <2>2 DEF ClockInv
<1>2. CASE GetDate
  <2>1. /\ todo' = <<Read("day"), Read("month"), Read("year")>> /\ call' = [kind |-> "date"]
        /\ start' = rtc /\ rtc' = rtc /\ ticked' = FALSE
        /\ InRange(rtc)' /\ InRange(start)' /\ got' \in [Registers -> Int]
    BY <1>2, Begun DEF GetDate
  <2>2. CallSound'
    BY <2>1 DEF CallSound, ReadSound, Read
  <2> QED
    BY <2>1, <2>2 DEF ClockInv
<1>3. ASSUME NEW h \in Arguments, NEW m \in Arguments, NEW s \in Arguments, SetTime(h, m, s)
      PROVE  ClockInv'
  <2>1. /\ todo' = TimeWrites(h, m, s)
        /\ call' = [kind |-> "settime", hours |-> h, minutes |-> m, seconds |-> s]
        /\ ticked' = FALSE
        /\ InRange(rtc)' /\ InRange(start)' /\ got' \in [Registers -> Int]
    BY <1>3, Begun DEF SetTime
  <2>2. s \in 0..(SecondsIn - 1) /\ m \in 0..(MinutesIn - 1) /\ h \in 0..(HoursIn - 1)
    BY <1>3 DEF SetTime, TimeAccepted
  <2>3. call'.kind = "settime" /\ call'.hours = h /\ call'.minutes = m /\ call'.seconds = s
    BY <2>1
  <2>4. CallSound'
    BY <2>1, <2>2, <2>3 DEF CallSound, SetTimeSound, TimeWrites, Select, Write
  <2> QED
    BY <2>1, <2>4 DEF ClockInv
<1>4. ASSUME NEW d \in Arguments, NEW m \in Arguments, NEW y \in Arguments, SetDate(d, m, y)
      PROVE  ClockInv'
  <2>1. /\ todo' = DateWrites(d, m, y)
        /\ call' = [kind |-> "setdate", day |-> d, month |-> m, year |-> y]
        /\ ticked' = FALSE
        /\ InRange(rtc)' /\ InRange(start)' /\ got' \in [Registers -> Int]
    BY <1>4, Begun DEF SetDate
  <2>2. d \in 1..DaysIn /\ m \in 1..MonthsIn /\ y \in 0..(YearsIn - 1)
    BY <1>4, DateRegisters, ClockAssumption DEF SetDate, DateAccepted
  <2>3. call'.kind = "setdate" /\ call'.day = d /\ call'.month = m /\ call'.year = y
    BY <2>1
  <2>4. CallSound'
    BY <2>1, <2>2, <2>3 DEF CallSound, SetDateSound, DateWrites, Write
  <2> QED
    BY <2>1, <2>4 DEF ClockInv
<1> QED
  BY <1>1, <1>2, <1>3, <1>4

\* The chip as it starts.
LEMMA ClockStart ==
  ASSUME ClockInit
  PROVE  ClockInv
<1>1. \A r \in Registers : BIN2BCD(Low(r)) \in Int /\ Low(r) \in Low(r)..(Low(r) + Size(r) - 1)
  BY SizeIs, BcdOf
<1>2. InRange(rtc) /\ InRange(start)
  BY <1>1 DEF ClockInit, InRange
<1>3. CallSound
  BY DEF ClockInit, CallSound
<1>4. got \in [Registers -> Int]
  <2>1. got = [r \in Registers |-> 0]
    BY DEF ClockInit
  <2> QED
    BY <2>1
<1>5. ticked \in BOOLEAN
  BY DEF ClockInit
<1> QED
  BY <1>2, <1>3, <1>4, <1>5 DEF ClockInv

\* rtc.c: the inductive invariant, for any numbers of seconds, minutes and so on.
THEOREM ClockInvariant == ClockSpec => []ClockInv
<1>1. ClockInit => ClockInv
  BY ClockStart
<1>2. ClockInv /\ [ClockNext]_clockVars => ClockInv'
  <2> SUFFICES ASSUME ClockInv, [ClockNext]_clockVars
               PROVE  ClockInv'
    OBVIOUS
  <2>1. CASE TickInCall
    BY <2>1, TickInCallStep
  <2>2. CASE TickBetween
    BY <2>2, TickBetweenStep
  <2>3. CASE \/ GetTime
             \/ GetDate
             \/ \E h, m, s \in Arguments : SetTime(h, m, s)
             \/ \E d, m, y \in Arguments : SetDate(d, m, y)
    BY <2>3, CallStep
  <2>4. CASE Access
    BY <2>4, AccessStep
  <2>5. CASE UNCHANGED clockVars
    BY <2>5 DEF clockVars, ClockInv, InRange, CallSound, ReadSound, Old, New, HoursPassed,
                MinutesPassed, SetTimeSound, SetDateSound
  <2> QED
    BY <2>1, <2>2, <2>3, <2>4, <2>5 DEF ClockNext
<1> QED
  BY <1>1, <1>2, PTL DEF ClockSpec

\* rtc.c: the registers hold values of their range in BCD, whatever is set and wherever the
\* chip ticks meanwhile.
THEOREM RegistersInRange == ClockSpec => []ClockTypeOK
<1>1. ClockInv => ClockTypeOK
  <2> SUFFICES ASSUME ClockInv
               PROVE  ClockTypeOK
    OBVIOUS
  <2>1. Len(todo) <= 6
    <3>1. CASE call.kind = "none" /\ todo = <<>>
      BY <3>1
    <3>2. ASSUME NEW a, NEW b, NEW c, NEW d, NEW e, NEW f
          PROVE  /\ Len(<<a, b, c, d, e, f>>) <= 6 /\ Len(<<b, c, d, e, f>>) <= 6
                 /\ Len(<<c, d, e, f>>) <= 6 /\ Len(<<d, e, f>>) <= 6
                 /\ Len(<<e, f>>) <= 6 /\ Len(<<f>>) <= 6 /\ Len(<<>>) <= 6
      OBVIOUS
    <3>3. ASSUME NEW a, NEW b, NEW c, ReadSound(a, b, c)
          PROVE  Len(todo) <= 6
      BY <3>2, <3>3, Zenon DEF ReadSound
    <3>4. CASE SetTimeSound
      BY <3>2, <3>4, Zenon DEF SetTimeSound
    <3>5. CASE SetDateSound
      BY <3>2, <3>5, Zenon DEF SetDateSound
    <3> QED
      BY <3>1, <3>3, <3>4, <3>5 DEF ClockInv, CallSound
  <2> QED
    BY <2>1 DEF ClockInv, InRange, ClockTypeOK
<1> QED
  BY <1>1, ClockInvariant, PTL

(***************************************************************************)
(* How far a time is ahead.                                                *)
(***************************************************************************)
\* The day, an hour and a minute in seconds.
LEMMA Units ==
  LET hour == SecondsIn * MinutesIn
      day == hour * HoursIn
  IN  /\ hour \in Nat \ {0} /\ day \in Nat \ {0}
      /\ SecondsIn <= hour /\ hour <= day /\ SecondsIn <= day /\ 1 <= day
<1> DEFINE hour == SecondsIn * MinutesIn
           day == hour * HoursIn
<1>1. SecondsIn \in Nat \ {0} /\ MinutesIn \in Nat \ {0} /\ HoursIn \in Nat \ {0}
  BY TimeRegisters
<1>2. PICK m \in Nat : MinutesIn = m + 1
  <2>1. MinutesIn - 1 \in Nat /\ MinutesIn = (MinutesIn - 1) + 1
    BY <1>1
  <2> QED
    BY <2>1
<1>3. PICK h \in Nat : HoursIn = h + 1
  <2>1. HoursIn - 1 \in Nat /\ HoursIn = (HoursIn - 1) + 1
    BY <1>1
  <2> QED
    BY <2>1
<1>4. hour = SecondsIn * m + SecondsIn /\ SecondsIn * m \in Nat
  BY <1>1, <1>2
<1>5. hour \in Nat \ {0} /\ SecondsIn <= hour
  BY <1>1, <1>4
<1> HIDE DEF hour
<1>6. day = hour * h + hour /\ hour * h \in Nat
  BY <1>3, <1>5
<1> HIDE DEF day
<1>7. day \in Nat \ {0} /\ hour <= day /\ SecondsIn <= day /\ 1 <= day
  BY <1>1, <1>5, <1>6
<1> QED
  BY <1>5, <1>7 DEF day, hour

\* A gap of one of the carries, or short of it by the day.
LEMMA AheadIs ==
  ASSUME NEW now \in Int, NEW then \in Int, NEW c \in Carries,
         \/ now - then = c
         \/ now - then = c - (SecondsIn * MinutesIn) * HoursIn
  PROVE  Ahead(now, then) \in Carries
<1> DEFINE day == (SecondsIn * MinutesIn) * HoursIn
<1>1. day \in Nat \ {0} /\ c \in 0..day
  BY Units, TimeRegisters DEF Carries
<1>2. Ahead(now, then) = (now - then) % day
  BY DEF Ahead
<1>3. now - then = c \/ now - then = c - day
  OBVIOUS
<1> HIDE DEF day
<1>4. (now - then) % day = c \/ (now - then) % day = 0
  BY <1>1, <1>3, AheadBy
<1> QED
  BY <1>2, <1>4 DEF Carries

\* h2, m2, s2 are h, m, s an hour on, a minute on, a second on.
HourOn(h, h2) == IF h + 1 >= HoursIn THEN h2 = 0 ELSE h2 = h + 1
MinuteOn(h, m, h2, m2) ==
  IF m + 1 >= MinutesIn THEN m2 = 0 /\ HourOn(h, h2) ELSE m2 = m + 1 /\ h2 = h
SecondOn(h, m, s, h2, m2, s2) ==
  IF s + 1 >= SecondsIn THEN s2 = 0 /\ MinuteOn(h, m, h2, m2) ELSE s2 = s + 1 /\ m2 = m /\ h2 = h

\* A time that is ahead by the carry into some unit, and equal below it, is ahead by that unit.
LEMMA AheadByCarry ==
  ASSUME NEW h \in 0..(HoursIn - 1), NEW m \in 0..(MinutesIn - 1), NEW s \in 0..(SecondsIn - 1),
         NEW h2, NEW m2, NEW s2,
         \/ s2 = s /\ m2 = m /\ h2 = h
         \/ s2 = s /\ m2 = m /\ HourOn(h, h2)
         \/ s2 = s /\ MinuteOn(h, m, h2, m2)
         \/ SecondOn(h, m, s, h2, m2, s2)
  PROVE  Ahead(OfDay(h2, m2, s2), OfDay(h, m, s)) \in Carries
<1> DEFINE day == (SecondsIn * MinutesIn) * HoursIn
           hour == SecondsIn * MinutesIn
           gap == OfDay(h2, m2, s2) - OfDay(h, m, s)
<1>1. /\ SecondsIn \in Nat /\ MinutesIn \in Nat /\ HoursIn \in Nat
      /\ h \in Nat /\ m \in Nat /\ s \in Nat
      /\ h + 1 <= HoursIn /\ m + 1 <= MinutesIn /\ s + 1 <= SecondsIn
  BY TimeRegisters
<1>2. h2 \in Nat /\ m2 \in Nat /\ s2 \in Nat
  BY <1>1 DEF HourOn, MinuteOn, SecondOn
<1>3. OfDay(h2, m2, s2) \in Int /\ OfDay(h, m, s) \in Int
  BY <1>1, <1>2 DEF OfDay
<1>4. CASE s2 = s /\ m2 = m /\ h2 = h
  <2>1. gap = 0
    BY <1>3, <1>4
  <2> QED
    BY <1>3, <2>1, AheadIs DEF Carries
<1>5. CASE s2 = s /\ m2 = m /\ HourOn(h, h2)
  <2>1. CASE h2 = h + 1
    <3>1. gap = hour
      BY <1>1, <1>5, <2>1 DEF OfDay
    <3> QED
      BY <1>3, <3>1, AheadIs DEF Carries
  <2>2. CASE h2 = 0 /\ h = HoursIn - 1
    <3>1. gap = hour - day
      BY <1>1, <1>5, <2>2 DEF OfDay
    <3> QED
      BY <1>3, <3>1, AheadIs DEF Carries
  <2> QED
    BY <1>1, <1>5, <2>1, <2>2 DEF HourOn
<1>6. CASE s2 = s /\ MinuteOn(h, m, h2, m2)
  <2>1. CASE m2 = m + 1 /\ h2 = h
    <3>1. gap = SecondsIn
      BY <1>1, <1>6, <2>1 DEF OfDay
    <3> QED
      BY <1>3, <3>1, AheadIs DEF Carries
  <2>2. CASE m2 = 0 /\ m = MinutesIn - 1 /\ h2 = h + 1
    <3>1. gap = SecondsIn
      BY <1>1, <1>6, <2>2 DEF OfDay
    <3> QED
      BY <1>3, <3>1, AheadIs DEF Carries
  <2>3. CASE m2 = 0 /\ m = MinutesIn - 1 /\ h2 = 0 /\ h = HoursIn - 1
    <3>1. gap = SecondsIn - day
      BY <1>1, <1>6, <2>3 DEF OfDay
    <3> QED
      BY <1>3, <3>1, AheadIs DEF Carries
  <2> QED
    BY <1>1, <1>6, <2>1, <2>2, <2>3 DEF HourOn, MinuteOn
<1>7. CASE SecondOn(h, m, s, h2, m2, s2)
  <2>1. CASE s2 = s + 1 /\ m2 = m /\ h2 = h
    <3>1. gap = 1
      BY <1>1, <2>1 DEF OfDay
    <3> QED
      BY <1>3, <3>1, AheadIs DEF Carries
  <2>2. CASE s2 = 0 /\ s = SecondsIn - 1 /\ m2 = m + 1 /\ h2 = h
    <3>1. gap = 1
      BY <1>1, <2>2 DEF OfDay
    <3> QED
      BY <1>3, <3>1, AheadIs DEF Carries
  <2>3. CASE s2 = 0 /\ s = SecondsIn - 1 /\ m2 = 0 /\ m = MinutesIn - 1 /\ h2 = h + 1
    <3>1. gap = 1
      BY <1>1, <2>3 DEF OfDay
    <3> QED
      BY <1>3, <3>1, AheadIs DEF Carries
  <2>4. CASE s2 = 0 /\ s = SecondsIn - 1 /\ m2 = 0 /\ m = MinutesIn - 1 /\ h2 = 0 /\ h = HoursIn - 1
    <3>1. gap = 1 - day
      BY <1>1, <2>4 DEF OfDay
    <3> QED
      BY <1>3, <3>1, AheadIs DEF Carries
  <2> QED
    BY <1>1, <1>7, <2>1, <2>2, <2>3, <2>4 DEF HourOn, MinuteOn, SecondOn
<1> QED
  BY <1>4, <1>5, <1>6, <1>7

(***************************************************************************)
(* The properties.                                                         *)
(***************************************************************************)
\* TimeNeverSetBack of one step.
SetsAhead ==
  Done("settime")' /\ todo # <<>> =>
    Ahead(At(rtc'), OfDay(call.hours, call.minutes, call.seconds)) \in Carries

\* rtc.c: set_time, writing from the hours down, leaves a time that is at or ahead of what
\* was asked for, by no more than a carry, whatever the chip does between the writes.
THEOREM SettingLosesNothing == ClockSpec => TimeNeverSetBack
<1>1. ClockInv /\ [ClockNext]_clockVars => [SetsAhead]_clockVars
  <2> SUFFICES ASSUME ClockInv, [ClockNext]_clockVars, Done("settime")', todo # <<>>
               PROVE  Ahead(At(rtc'), OfDay(call.hours, call.minutes, call.seconds)) \in Carries
    BY DEF SetsAhead
  <2>1. Access
    <3>1. todo' = <<>>
      BY DEF Done
    <3>2. ~TickInCall
      BY <3>1 DEF TickInCall
    <3>3. ~(UNCHANGED clockVars)
      BY <3>1 DEF clockVars
    <3>4. ~TickBetween /\ ~GetTime /\ ~GetDate
      BY DEF TickBetween, GetTime, GetDate, Begin
    <3>5. \A h, m, s \in Arguments : ~SetTime(h, m, s) /\ ~SetDate(h, m, s)
      BY DEF SetTime, SetDate, Begin
    <3> QED
      BY <3>2, <3>3, <3>4, <3>5 DEF ClockNext
  <2>2. call' = call /\ call.kind = "settime" /\ SetTimeSound
    BY <2>1, AccessStep DEF Done, ClockInv, CallSound
  <2>3. todo' = <<>> /\ MinutesPassed' /\ BCD2BIN(rtc["seconds"])' = call.seconds
    BY <2>1, <2>2, SetTimeStep DEF Done
  <2> DEFINE h == BCD2BIN(rtc'["hours"])
             m == BCD2BIN(rtc'["minutes"])
             s == BCD2BIN(rtc'["seconds"])
  <2>4. s = call.seconds
    BY <2>3
  <2>5. \/ m = call.minutes /\ h = call.hours
        \/ m = call.minutes /\ HourOn(call.hours, h)
        \/ MinuteOn(call.hours, call.minutes, h, m)
    <3>1. /\ call'.hours = call.hours /\ call'.minutes = call.minutes
          /\ call.minutes \in Nat /\ MinutesIn \in Nat
      BY <2>2, TimeRegisters DEF SetTimeSound
    <3> QED
      BY <2>3, <3>1 DEF MinutesPassed, HoursPassed, HourOn, MinuteOn
  <2>6. At(rtc') = OfDay(h, m, s)
    BY DEF At
  <2> HIDE DEF h, m, s
  <2> QED
    BY <2>2, <2>4, <2>5, <2>6, AheadByCarry DEF SetTimeSound
<1> QED
  BY <1>1, ClockInvariant, PTL DEF ClockSpec, TimeNeverSetBack, SetsAhead

\* Read while a tick may come, the time is that of the start but for a carry.
LEMMA TimeIsRead ==
  ASSUME ClockInv, Done("time")
  PROVE  Ahead(OfDay(got["hours"], got["minutes"], got["seconds"]), At(start)) \in Carries
<1> DEFINE s == BCD2BIN(start["seconds"])
           m == BCD2BIN(start["minutes"])
           h == BCD2BIN(start["hours"])
           s2 == got["seconds"]
           m2 == got["minutes"]
           h2 == got["hours"]
           ts == BCD2BIN(Ticked(start)["seconds"])
           tm == BCD2BIN(Ticked(start)["minutes"])
           th == BCD2BIN(Ticked(start)["hours"])
<1>1. /\ ts = IF s + 1 >= SecondsIn THEN 0 ELSE s + 1
      /\ tm = IF s + 1 >= SecondsIn THEN IF m + 1 >= MinutesIn THEN 0 ELSE m + 1 ELSE m
      /\ th = IF s + 1 >= SecondsIn /\ m + 1 >= MinutesIn
              THEN IF h + 1 >= HoursIn THEN 0 ELSE h + 1 ELSE h
  BY TimeTick DEF ClockInv
<1>2. s \in 0..(SecondsIn - 1) /\ m \in 0..(MinutesIn - 1) /\ h \in 0..(HoursIn - 1)
  BY TimeRegisters, ValueIs DEF ClockInv
<1>3. \/ s2 = s /\ m2 = m /\ h2 = h
      \/ s2 = s /\ m2 = m /\ h2 = th
      \/ s2 = s /\ m2 = tm /\ h2 = th
      \/ s2 = ts /\ m2 = tm /\ h2 = th
  BY Rest DEF ClockInv, Done, CallSound, ReadSound, Old, New
<1>4. At(start) = OfDay(h, m, s)
  BY DEF At
<1> HIDE DEF s, m, h, s2, m2, h2, ts, tm, th
<1>5. \/ s2 = s /\ m2 = m /\ h2 = h
      \/ s2 = s /\ m2 = m /\ HourOn(h, h2)
      \/ s2 = s /\ MinuteOn(h, m, h2, m2)
      \/ SecondOn(h, m, s, h2, m2, s2)
  BY <1>1, <1>3 DEF HourOn, MinuteOn, SecondOn
<1>6. Ahead(OfDay(h2, m2, s2), OfDay(h, m, s)) \in Carries
  BY <1>2, <1>5, AheadByCarry
<1> QED
  BY <1>4, <1>6 DEF s2, m2, h2

\* The same of the date: a carry makes the day, the month or the year one more.
LEMMA DateIsRead ==
  ASSUME ClockInv, Done("date")
  PROVE  \/ DateOf(got["year"], got["month"], got["day"]) >=
              DateOf(BCD2BIN(start["year"]), BCD2BIN(start["month"]), BCD2BIN(start["day"]))
         \/ \A r \in {"day", "month", "year"} : Full(start, r)
<1> DEFINE d == BCD2BIN(start["day"])
           m == BCD2BIN(start["month"])
           y == BCD2BIN(start["year"])
           d2 == got["day"]
           m2 == got["month"]
           y2 == got["year"]
           td == BCD2BIN(Ticked(start)["day"])
           tm == BCD2BIN(Ticked(start)["month"])
           ty == BCD2BIN(Ticked(start)["year"])
           midnight == \A r \in {"seconds", "minutes", "hours"} : Full(start, r)
           day == Full(start, "day")
           month == Full(start, "month")
           year == Full(start, "year")
<1> SUFFICES ASSUME ~(day /\ month /\ year)
             PROVE  DateOf(y2, m2, d2) >= DateOf(y, m, d)
  OBVIOUS
<1>1. /\ td = IF midnight THEN IF day THEN 1 ELSE d + 1 ELSE d
      /\ tm = IF midnight /\ day THEN IF month THEN 1 ELSE m + 1 ELSE m
      /\ ty = IF midnight /\ day /\ month THEN IF year THEN 0 ELSE y + 1 ELSE y
  BY DateTick DEF ClockInv
<1>2. /\ d \in Nat /\ m \in Nat /\ y \in Nat
      /\ 1 <= d /\ d <= DaysIn /\ 1 <= m /\ m <= MonthsIn
      /\ DaysIn \in Nat /\ MonthsIn \in Nat
  BY DateRegisters, ValueIs DEF ClockInv
<1>3. \/ d2 = d /\ m2 = m /\ y2 = y
      \/ d2 = d /\ m2 = m /\ y2 = ty
      \/ d2 = d /\ m2 = tm /\ y2 = ty
      \/ d2 = td /\ m2 = tm /\ y2 = ty
  BY Rest DEF ClockInv, Done, CallSound, ReadSound, Old, New
<1> HIDE DEF d, m, y, d2, m2, y2, td, tm, ty, midnight, day, month, year
<1>4. \/ y2 = y /\ m2 = m /\ (d2 = d \/ d2 = d + 1)
      \/ y2 = y /\ m2 = m + 1 /\ (d2 = d \/ d2 = 1)
      \/ y2 = y + 1 /\ (m2 = m \/ m2 = 1) /\ (d2 = d \/ d2 = 1)
  BY <1>1, <1>3
<1>5. d2 \in Nat /\ m2 \in Nat /\ y2 \in Nat
  BY <1>2, <1>4
<1>6. CASE y2 = y /\ m2 = m /\ (d2 = d \/ d2 = d + 1)
  <2>1. DateOf(y2, m2, d2) - DateOf(y, m, d) = d2 - d
    BY <1>2, <1>5, <1>6 DEF DateOf
  <2>2. DateOf(y2, m2, d2) \in Int /\ DateOf(y, m, d) \in Int
    BY <1>2, <1>5 DEF DateOf
  <2> QED
    BY <1>2, <1>6, <2>1, <2>2
<1>7. CASE y2 = y /\ m2 = m + 1 /\ (d2 = d \/ d2 = 1)
  <2>1. DateOf(y2, m2, d2) - DateOf(y, m, d) = (DaysIn + 1) + (d2 - d)
    BY <1>2, <1>5, <1>7 DEF DateOf
  <2>2. DateOf(y2, m2, d2) \in Int /\ DateOf(y, m, d) \in Int
    BY <1>2, <1>5 DEF DateOf
  <2> QED
    BY <1>2, <1>7, <2>1, <2>2
<1>8. CASE y2 = y + 1 /\ (m2 = m \/ m2 = 1) /\ (d2 = d \/ d2 = 1)
  <2>1. PICK k \in Nat : m2 + MonthsIn = m + k
    <3>1. m2 + MonthsIn - m \in Nat /\ m2 + MonthsIn = m + (m2 + MonthsIn - m)
      BY <1>2, <1>8
    <3> QED
      BY <3>1
  <2>2. DateOf(y2, m2, d2) - DateOf(y, m, d) = (k + 1) * (DaysIn + 1) + (d2 - d)
    BY <1>2, <1>5, <1>8, <2>1 DEF DateOf
  <2>3. (k + 1) * (DaysIn + 1) = k * (DaysIn + 1) + (DaysIn + 1) /\ k * (DaysIn + 1) \in Nat
    BY <1>2
  <2>4. DateOf(y2, m2, d2) \in Int /\ DateOf(y, m, d) \in Int
    BY <1>2, <1>5 DEF DateOf
  <2> QED
    BY <1>2, <1>8, <2>2, <2>3, <2>4
<1> QED
  BY <1>4, <1>6, <1>7, <1>8

\* rtc.c: time and date never show a moment before the one at which they were called, for
\* any lengths of the units and wherever between the reads the chip carries.
THEOREM ReadingIsNeverBehind == ClockSpec => []NeverBehind
<1>1. ClockInv => NeverBehind
  BY TimeIsRead, DateIsRead DEF NeverBehind, TimeNeverBehind, DateNeverBehind
<1> QED
  BY <1>1, ClockInvariant, PTL
=============================================================================
