------------------------------ MODULE Scheduler ------------------------------
(***************************************************************************)
(* The cooperative scheduler of IsoAgLib: Scheduler_c, which keeps the     *)
(* registered tasks in a list ordered by next trigger time, and            *)
(* SchedulerTask_c, which computes the next trigger time of a task.        *)
(*                                                                         *)
(* One call of Scheduler_c::timeEvent() is the sequence EnterTimeEvent,    *)
(* (StartTask, calls made by the task, FinishTask)*, LeaveTimeEvent.  The  *)
(* clock may advance between any two of them.  The calls an application or *)
(* a task may make (registerTask, deregisterTask, setPeriod,               *)
(* setNextTriggerTime) happen outside timeEvent() or inside the timeEvent  *)
(* of the running task, on itself or on any other task.                    *)
(***************************************************************************)
EXTENDS Integers, Sequences

CONSTANTS
  Task,            \* the SchedulerTask_c objects
  HardTiming,      \* those constructed with hardTiming = true
  Period,          \* periods setPeriod is called with; negative is one-shot
  Delay,           \* delays registerTask is called with
  TriggerOffset,   \* setNextTriggerTime is called with now + one of these
  CallsOn,         \* the tasks each task makes calls on in its timeEvent
  MaxTime,         \* bound: the clock stops here
  NoTask           \* no task runs

ASSUME SchedulerAssumption ==
  /\ HardTiming \subseteq Task
  /\ Period \subseteq Int \ {0}
  /\ Delay \subseteq Nat
  /\ TriggerOffset \subseteq Int
  /\ CallsOn \in [Task -> SUBSET Task]
  /\ MaxTime \in Nat
  /\ NoTask \notin Task

VARIABLES
  now,                 \* System_c::getTime()
  taskQueue,           \* Scheduler_c::m_taskQueue
  registered,          \* SchedulerTask_c::m_registered
  nextTriggerTime,     \* SchedulerTask_c::m_nextTriggerTime
  nextTriggerTimeSet,  \* SchedulerTask_c::m_nextTriggerTimeSet
  period,              \* SchedulerTask_c::m_period
  phase,               \* where the main thread is: outside timeEvent(), in its loop, in a task
  running              \* the task whose timeEvent() runs

taskVars == <<taskQueue, registered, nextTriggerTime, nextTriggerTimeSet, period>>
vars == <<now, taskVars, phase, running>>

Init ==
  /\ now = 0
  /\ taskQueue = <<>>
  /\ registered = [t \in Task |-> FALSE]
  /\ nextTriggerTime = [t \in Task |-> -1]
  /\ nextTriggerTimeSet = [t \in Task |-> FALSE]
  /\ period \in [Task -> Period]
  /\ phase = "outside"
  /\ running = NoTask

----------------------------------------------------------------------------
(* The task list.                                                          *)

\* q without the element at position p.
Without(q, p) == [i \in 1..(Len(q) - 1) |-> IF i < p THEN q[i] ELSE q[i + 1]]

\* q with t put in before position p.
InsertedAt(q, p, t) ==
  [i \in 1..(Len(q) + 1) |-> IF i < p THEN q[i] ELSE IF i = p THEN t ELSE q[i - 1]]

PositionOf(q, t) == CHOOSE p \in 1..Len(q) : q[p] = t

\* Defects of rescheduleTask the properties must tell apart: the task goes to the
\* end whatever its time, or in front of those with the same time.
InsertPosition_AtEnd(q, trigger, time) == Len(q) + 1
InsertPosition_BeforeEqual(q, trigger, time) ==
  CHOOSE p \in 1..(Len(q) + 1) :
    /\ \A i \in 1..(p - 1) : trigger[q[i]] < time
    /\ p <= Len(q) => trigger[q[p]] >= time

\* The first position of q whose task triggers later than time, or past the end.
InsertPosition(q, trigger, time) ==
  CHOOSE p \in 1..(Len(q) + 1) :
    /\ \A i \in 1..(p - 1) : trigger[q[i]] <= time
    /\ p <= Len(q) => trigger[q[p]] > time

\* rescheduleTask: t goes behind every task that does not trigger later than it.
Rescheduled(q, t, trigger) ==
  LET others == Without(q, PositionOf(q, t))
  IN  InsertedAt(others, InsertPosition(others, trigger, trigger[t]), t)

----------------------------------------------------------------------------
(* Calls of the application and of the running task.                       *)

CallsAllowed == phase \in {"outside", "inTask"}

SetTrigger(q, t, time) ==
  LET trigger == [nextTriggerTime EXCEPT ![t] = time]
  IN  /\ nextTriggerTime' = trigger
      /\ taskQueue' = Rescheduled(q, t, trigger)
      /\ nextTriggerTimeSet' = [nextTriggerTimeSet EXCEPT ![t] = TRUE]

RegisterTask(t, delay) ==
  /\ CallsAllowed
  /\ ~registered[t]
  /\ registered' = [registered EXCEPT ![t] = TRUE]
  /\ SetTrigger(InsertedAt(taskQueue, 1, t), t, now + delay)
  /\ UNCHANGED <<now, period, phase, running>>

DeregisterTask(t) ==
  /\ CallsAllowed
  /\ registered[t]
  /\ taskQueue' = Without(taskQueue, PositionOf(taskQueue, t))
  /\ registered' = [registered EXCEPT ![t] = FALSE]
  /\ UNCHANGED <<now, nextTriggerTime, nextTriggerTimeSet, period, phase, running>>

SetPeriod(t, newPeriod) ==
  /\ CallsAllowed
  /\ period' = [period EXCEPT ![t] = newPeriod]
  /\ UNCHANGED <<now, taskQueue, registered, nextTriggerTime, nextTriggerTimeSet, phase, running>>

SetPeriodRetrigger(t, newPeriod) ==
  /\ CallsAllowed
  /\ registered[t] /\ newPeriod > 0
  /\ period' = [period EXCEPT ![t] = newPeriod]
  /\ SetTrigger(taskQueue, t, now + newPeriod)
  /\ UNCHANGED <<now, registered, phase, running>>

SetNextTriggerTime(t, time) ==
  /\ CallsAllowed
  /\ registered[t]
  /\ SetTrigger(taskQueue, t, time)
  /\ UNCHANGED <<now, registered, period, phase, running>>

----------------------------------------------------------------------------
(* Scheduler_c::timeEvent().                                               *)

EnterTimeEvent ==
  /\ phase = "outside"
  /\ phase' = "inLoop"
  /\ UNCHANGED <<now, taskVars, running>>

Due(t) == nextTriggerTime[t] <= now

StartTask ==
  /\ phase = "inLoop"
  /\ taskQueue # <<>>
  /\ Due(Head(taskQueue))
  /\ running' = Head(taskQueue)
  /\ nextTriggerTimeSet' = [nextTriggerTimeSet EXCEPT ![Head(taskQueue)] = FALSE]
  /\ phase' = "inTask"
  /\ UNCHANGED <<now, taskQueue, registered, nextTriggerTime, period>>

\* The next trigger time timeEventPost computes from the period: the first one
\* that is at least one period after base and not in the past.
NextPeriodic(base, p) ==
  LET first == base + p
  IN  IF first >= now THEN first ELSE first + ((now - first + p - 1) \div p) * p

\* Defect: hard and soft timing mixed up.
RepostPeriodic_TimingSwapped(t) ==
  /\ ~nextTriggerTimeSet[t] /\ period[t] > 0
  /\ IF registered[t]
       THEN LET base    == IF t \in HardTiming THEN now ELSE nextTriggerTime[t]
                trigger == [nextTriggerTime EXCEPT ![t] = NextPeriodic(base, period[t])]
            IN  /\ nextTriggerTime' = trigger
                /\ taskQueue' = Rescheduled(taskQueue, t, trigger)
       ELSE UNCHANGED <<nextTriggerTime, taskQueue>>
  /\ UNCHANGED <<registered, nextTriggerTimeSet>>

\* timeEventPost of a periodic task whose timeEvent did not set its trigger time.
RepostPeriodic(t) ==
  /\ ~nextTriggerTimeSet[t] /\ period[t] > 0
  /\ IF registered[t]
       THEN LET base    == IF t \in HardTiming THEN nextTriggerTime[t] ELSE now
                trigger == [nextTriggerTime EXCEPT ![t] = NextPeriodic(base, period[t])]
            IN  /\ nextTriggerTime' = trigger
                /\ taskQueue' = Rescheduled(taskQueue, t, trigger)
       ELSE UNCHANGED <<nextTriggerTime, taskQueue>>
  /\ UNCHANGED <<registered, nextTriggerTimeSet>>

\* Defect: the registered flag is not reset.
RetireOneShot_KeepsFlag(t) ==
  /\ ~nextTriggerTimeSet[t] /\ period[t] < 0
  /\ taskQueue' = IF registered[t] THEN Without(taskQueue, PositionOf(taskQueue, t)) ELSE taskQueue
  /\ UNCHANGED <<registered, nextTriggerTime, nextTriggerTimeSet>>

\* timeEventPost of a one-shot task: it is deregistered.  deregisterTask asserts
\* that it is registered, which a task that deregistered itself in its timeEvent
\* is not; the model is the build with assertions compiled out, where nothing is
\* removed then.
RetireOneShot(t) ==
  /\ ~nextTriggerTimeSet[t] /\ period[t] < 0
  /\ taskQueue' = IF registered[t] THEN Without(taskQueue, PositionOf(taskQueue, t)) ELSE taskQueue
  /\ registered' = [registered EXCEPT ![t] = FALSE]
  /\ UNCHANGED <<nextTriggerTime, nextTriggerTimeSet>>

KeepOwnTrigger(t) ==
  /\ nextTriggerTimeSet[t]
  /\ nextTriggerTimeSet' = [nextTriggerTimeSet EXCEPT ![t] = FALSE]
  /\ UNCHANGED <<taskQueue, registered, nextTriggerTime>>

FinishTask ==
  /\ phase = "inTask"
  /\ \/ KeepOwnTrigger(running)
     \/ RepostPeriodic(running)
     \/ RetireOneShot(running)
  /\ phase' = "inLoop"
  /\ running' = NoTask
  /\ UNCHANGED <<now, period>>

\* What timeEvent() returns when it leaves its loop.
IdleForever == 3600000
IdleTime == IF taskQueue = <<>> THEN IdleForever ELSE nextTriggerTime[Head(taskQueue)] - now

\* Defect: timeEvent() leaves its loop although a task is due.
LeaveTimeEvent_AnyTime ==
  /\ phase = "inLoop"
  /\ phase' = "outside"
  /\ UNCHANGED <<now, taskVars, running>>

LeaveTimeEvent ==
  /\ phase = "inLoop"
  /\ IdleTime > 0
  /\ phase' = "outside"
  /\ UNCHANGED <<now, taskVars, running>>

Tick ==
  /\ now < MaxTime
  /\ now' = now + 1
  /\ UNCHANGED <<taskVars, phase, running>>

CallOn(t) ==
  \/ \E d \in Delay : RegisterTask(t, d)
  \/ DeregisterTask(t)
  \/ \E p \in Period : SetPeriod(t, p) \/ SetPeriodRetrigger(t, p)
  \/ \E o \in TriggerOffset : SetNextTriggerTime(t, now + o)

Loop == EnterTimeEvent \/ StartTask \/ FinishTask \/ LeaveTimeEvent

\* The application calls on every task, a running task on those it knows.
Calls == \E t \in IF phase = "inTask" THEN CallsOn[running] ELSE Task : CallOn(t)

Next == Calls \/ Loop \/ Tick

Spec == Init /\ [][Next]_vars

\* The application's main loop keeps calling timeEvent(), and the timeEvent()
\* of a task returns (tasks run to completion).
FairSpec ==
  /\ Spec
  /\ WF_vars(EnterTimeEvent) /\ WF_vars(StartTask)
  /\ WF_vars(FinishTask) /\ WF_vars(LeaveTimeEvent)

----------------------------------------------------------------------------
TypeOK ==
  /\ now \in Nat
  /\ taskQueue \in Seq(Task)
  /\ registered \in [Task -> BOOLEAN]
  /\ nextTriggerTime \in [Task -> Int]
  /\ nextTriggerTimeSet \in [Task -> BOOLEAN]
  /\ period \in [Task -> Int \ {0}]
  /\ phase \in {"outside", "inLoop", "inTask"}
  /\ running \in Task \cup {NoTask}
  /\ (phase = "inTask") <=> (running \in Task)

\* The list holds exactly the registered tasks, each once, whatever a task does
\* to itself and to others while it runs (register, deregister, retrigger).
QueueHoldsRegistered ==
  /\ \A t \in Task : registered[t] <=> \E i \in 1..Len(taskQueue) : taskQueue[i] = t
  /\ \A i, j \in 1..Len(taskQueue) : taskQueue[i] = taskQueue[j] => i = j

\* The list is ordered by next trigger time, so looking at its front, as
\* timeEvent() does, finds the task that is due first.
QueueSorted ==
  \A i, j \in 1..Len(taskQueue) :
    i < j => nextTriggerTime[taskQueue[i]] <= nextTriggerTime[taskQueue[j]]

\* timeEvent() returns a time the main loop may sleep: no registered task is
\* due before that time has passed.
NeverSleepsPastATask ==
  [][phase = "inLoop" /\ phase' = "outside" =>
       \A t \in Task : registered[t] => nextTriggerTime[t] - now >= IdleTime /\ ~Due(t)]_vars

\* Hard timing does not drift: when a run ends without an explicit trigger
\* time, the next one lies on the grid of the last, is later than it, is not in
\* the past, and no grid point that is still ahead is skipped.
HardTimingKeepsGrid ==
  [][\A t \in HardTiming :
       phase = "inTask" /\ phase' = "inLoop" /\ running = t /\ ~nextTriggerTimeSet[t]
         /\ registered'[t]
       => LET step == nextTriggerTime'[t] - nextTriggerTime[t]
          IN  /\ step > 0 /\ step % period[t] = 0
              /\ nextTriggerTime'[t] >= now
              /\ step > period[t] => nextTriggerTime'[t] - period[t] < now]_vars

\* A task no other task calls on runs when it is due, is deregistered or is postponed:
\* the others cannot starve it by retriggering themselves and each other at once,
\* because equal trigger times are served in turn.
LeftAlone == {t \in Task : \A u \in Task \ {t} : t \notin CallsOn[u]}
DueTaskRuns ==
  \A t \in LeftAlone :
    (registered[t] /\ Due(t)) ~> (running = t \/ ~registered[t] \/ ~Due(t))

=============================================================================
