--------------------------- MODULE Scheduler_proofs ---------------------------
(* Proofs about Scheduler, for any tasks, periods, delays and clock bound.   *)
EXTENDS Scheduler, SequenceLemmas

(* The list without one position: its length and elements.                   *)
LEMMA WithoutType ==
  ASSUME NEW q \in Seq(Task), NEW p \in 1..Len(q)
  PROVE  /\ Without(q, p) \in Seq(Task)
         /\ Len(Without(q, p)) = Len(q) - 1
         /\ \A i \in 1..(Len(q) - 1) : Without(q, p)[i] = IF i < p THEN q[i] ELSE q[i + 1]
BY DEF Without

(* The list with an element put in: its length and elements.                 *)
LEMMA InsertedAtType ==
  ASSUME NEW q \in Seq(Task), NEW p \in 1..(Len(q) + 1), NEW t \in Task
  PROVE  /\ InsertedAt(q, p, t) \in Seq(Task)
         /\ Len(InsertedAt(q, p, t)) = Len(q) + 1
         /\ \A i \in 1..(Len(q) + 1) :
              InsertedAt(q, p, t)[i] = IF i < p THEN q[i] ELSE IF i = p THEN t ELSE q[i - 1]
BY DEF InsertedAt

(* rescheduleTask always finds a position, even in an unsorted list.         *)
LEMMA InsertPositionType ==
  ASSUME NEW q \in Seq(Task), NEW trigger \in [Task -> Int], NEW time \in Int
  PROVE  LET p == InsertPosition(q, trigger, time)
         IN  /\ p \in 1..(Len(q) + 1)
             /\ \A i \in 1..(p - 1) : trigger[q[i]] <= time
             /\ p <= Len(q) => trigger[q[p]] > time
<1> DEFINE L == {p \in 1..(Len(q) + 1) : p <= Len(q) => trigger[q[p]] > time}
<1>1. L \subseteq Nat /\ Len(q) + 1 \in L
  OBVIOUS
<1>2. PICK p \in L : \A y \in L : p <= y
  BY <1>1, LeastNatural
<1>3. ASSUME NEW i \in 1..(p - 1) PROVE trigger[q[i]] <= time
  <2>1. i \in 1..Len(q) /\ i \notin L
    BY <1>2
  <2>2. ~(trigger[q[i]] > time)
    BY <2>1
  <2>3. q[i] \in Task
    BY <2>1
  <2>4. QED BY <2>2, <2>3
<1>4. \E x \in 1..(Len(q) + 1) :
         /\ \A i \in 1..(x - 1) : trigger[q[i]] <= time
         /\ x <= Len(q) => trigger[q[x]] > time
  BY <1>2, <1>3
<1>5. QED BY <1>4 DEF InsertPosition

----------------------------------------------------------------------------
(* The properties of a list that rescheduleTask must preserve.               *)
Distinct(q) == \A i, j \in 1..Len(q) : q[i] = q[j] => i = j
Occurs(q, t) == \E i \in 1..Len(q) : q[i] = t
SortedBut(q, trigger, t) ==
  \A i, j \in 1..Len(q) : i < j /\ q[i] # t /\ q[j] # t => trigger[q[i]] <= trigger[q[j]]
Sorted(q, trigger) ==
  \A i, j \in 1..Len(q) : i < j => trigger[q[i]] <= trigger[q[j]]

\* The place of a task is one of the list or zero.
LEMMA PositionOfType ==
  ASSUME NEW q \in Seq(Task), NEW t \in Task, Occurs(q, t)
  PROVE  PositionOf(q, t) \in 1..Len(q) /\ q[PositionOf(q, t)] = t
BY DEF Occurs, PositionOf

(* Taking a task out keeps the others, once each and in order.               *)
LEMMA WithoutTask ==
  ASSUME NEW q \in Seq(Task), NEW t \in Task, Occurs(q, t), Distinct(q)
  PROVE  LET r == Without(q, PositionOf(q, t))
         IN  /\ r \in Seq(Task)
             /\ Distinct(r)
             /\ ~Occurs(r, t)
             /\ \A s \in Task : s # t => (Occurs(r, s) <=> Occurs(q, s))
             /\ \A trigger \in [Task -> Int] : SortedBut(q, trigger, t) => Sorted(r, trigger)
<1> DEFINE p == PositionOf(q, t)
           r == Without(q, p)
<1>1. p \in 1..Len(q) /\ q[p] = t
  BY PositionOfType
<1>2. /\ r \in Seq(Task)
      /\ Len(r) = Len(q) - 1
      /\ \A i \in 1..(Len(q) - 1) : r[i] = IF i < p THEN q[i] ELSE q[i + 1]
  BY <1>1, WithoutType
<1> HIDE DEF p, r
<1>0. Len(q) \in Nat /\ p \in Nat
  BY <1>1
<1>3. Distinct(r)
  <2> SUFFICES ASSUME NEW i \in 1..Len(r), NEW j \in 1..Len(r), r[i] = r[j]
               PROVE  i = j
    BY DEF Distinct
  <2> DEFINE k == IF i < p THEN i ELSE i + 1
             l == IF j < p THEN j ELSE j + 1
  <2>1. k \in 1..Len(q) /\ l \in 1..Len(q)
    BY <1>0, <1>2
  <2>2. r[i] = q[k] /\ r[j] = q[l]
    BY <1>2
  <2>3. k = l
    BY <2>1, <2>2 DEF Distinct
  <2>4. QED BY <1>0, <1>2, <2>3
<1>4. ~Occurs(r, t)
  BY <1>1, <1>2 DEF Distinct, Occurs
<1>5. ASSUME NEW s \in Task, s # t PROVE Occurs(r, s) <=> Occurs(q, s)
  <2>1. Occurs(r, s) => Occurs(q, s)
    BY <1>1, <1>2 DEF Occurs
  <2>2. ASSUME NEW i \in 1..Len(q), q[i] = s PROVE Occurs(r, s)
    <3>1. CASE i < p
      BY <1>1, <1>2, <2>2, <3>1 DEF Occurs
    <3>2. CASE i > p
      <4>1. i - 1 \in 1..(Len(q) - 1) /\ ~(i - 1 < p)
        BY <1>1, <3>2
      <4>2. r[i - 1] = q[i]
        BY <1>2, <4>1
      <4>3. QED BY <1>2, <2>2, <4>1, <4>2 DEF Occurs
    <3>3. QED BY <1>1, <1>5, <2>2, <3>1, <3>2
  <2>3. QED BY <2>1, <2>2 DEF Occurs
<1>6. ASSUME NEW trigger \in [Task -> Int], SortedBut(q, trigger, t) PROVE Sorted(r, trigger)
  <2> SUFFICES ASSUME NEW i \in 1..Len(r), NEW j \in 1..Len(r), i < j
               PROVE  trigger[r[i]] <= trigger[r[j]]
    BY DEF Sorted
  <2> DEFINE k == IF i < p THEN i ELSE i + 1
             l == IF j < p THEN j ELSE j + 1
  <2>a. i \in Nat /\ j \in Nat /\ 1 <= i /\ j <= Len(q) - 1
    BY <1>0, <1>2
  <2>b. k \in 1..Len(q) /\ k # p
    BY <1>0, <2>a
  <2>c. l \in 1..Len(q) /\ l # p
    BY <1>0, <2>a
  <2>d. k < l
    BY <1>0, <2>a
  <2>0. k \in 1..Len(q) /\ l \in 1..Len(q) /\ k < l /\ k # p /\ l # p
    BY <2>b, <2>c, <2>d
  <2>1. r[i] = q[k] /\ r[j] = q[l]
    BY <1>2
  <2>2. q[k] # t /\ q[l] # t
    BY <1>1, <2>0 DEF Distinct
  <2>3. QED BY <1>6, <2>0, <2>1, <2>2 DEF SortedBut
<1>7. QED BY <1>2, <1>3, <1>4, <1>5, <1>6 DEF r, p

(* Putting a new task in at any position keeps the others.                   *)
LEMMA InsertedTask ==
  ASSUME NEW q \in Seq(Task), NEW t \in Task, ~Occurs(q, t), Distinct(q),
         NEW p \in 1..(Len(q) + 1)
  PROVE  LET r == InsertedAt(q, p, t)
         IN  /\ r \in Seq(Task)
             /\ Distinct(r)
             /\ \A s \in Task : Occurs(r, s) <=> (s = t \/ Occurs(q, s))
<1> DEFINE r == InsertedAt(q, p, t)
<1>1. r = InsertedAt(q, p, t)
  OBVIOUS
<1> HIDE DEF r
<1>2. /\ r \in Seq(Task)
      /\ Len(r) = Len(q) + 1
      /\ \A i \in 1..(Len(q) + 1) : r[i] = IF i < p THEN q[i] ELSE IF i = p THEN t ELSE q[i - 1]
  BY <1>1 DEF InsertedAt
<1>3. Distinct(r)
  <2> SUFFICES ASSUME NEW i \in 1..Len(r), NEW j \in 1..Len(r), r[i] = r[j]
               PROVE  i = j
    BY DEF Distinct
  <2>0. Len(q) \in Nat /\ p \in Nat /\ Len(r) = Len(q) + 1
    BY <1>2
  <2>1. CASE i = p \/ j = p
    <3>1. ASSUME NEW x \in 1..Len(r), r[x] = t PROVE x = p
      <4>1. x < p => r[x] = q[x] /\ x \in 1..Len(q)
        BY <1>2, <2>0
      <4>2. x > p => r[x] = q[x - 1] /\ x - 1 \in 1..Len(q)
        BY <1>2, <2>0
      <4>3. QED BY <2>0, <3>1, <4>1, <4>2 DEF Occurs
    <3>2. r[p] = t
      BY <1>2, <2>0
    <3>3. QED BY <2>1, <3>1, <3>2
  <2>2. CASE i # p /\ j # p
    <3> DEFINE k == IF i < p THEN i ELSE i - 1
               l == IF j < p THEN j ELSE j - 1
    <3>1. k \in 1..Len(q) /\ l \in 1..Len(q)
      BY <2>0, <2>2
    <3>2. r[i] = q[k] /\ r[j] = q[l]
      BY <1>2, <2>0, <2>2
    <3>3. k = l
      BY <3>1, <3>2 DEF Distinct
    <3>4. QED BY <2>0, <2>2, <3>3
  <2>3. QED BY <2>1, <2>2
<1>4. ASSUME NEW s \in Task PROVE Occurs(r, s) <=> (s = t \/ Occurs(q, s))
  <2>0. Len(q) \in Nat /\ p \in Nat /\ Len(r) = Len(q) + 1
    BY <1>2
  <2>1. ASSUME NEW i \in 1..Len(r), r[i] = s PROVE s = t \/ Occurs(q, s)
    <3>1. CASE i < p
      <4>1. i \in 1..Len(q) /\ r[i] = q[i]
        BY <1>2, <2>0, <3>1
      <4>2. QED BY <2>1, <4>1 DEF Occurs
    <3>2. CASE i = p
      BY <1>2, <2>0, <2>1, <3>2
    <3>3. CASE i > p
      <4>1. i - 1 \in 1..Len(q) /\ r[i] = q[i - 1]
        BY <1>2, <2>0, <3>3
      <4>2. QED BY <2>1, <4>1 DEF Occurs
    <3>4. QED BY <2>0, <3>1, <3>2, <3>3
  <2>2. s = t => Occurs(r, s)
    <3>1. p \in 1..Len(r) /\ r[p] = t
      BY <1>2, <2>0
    <3>2. QED BY <3>1 DEF Occurs
  <2>3. ASSUME NEW i \in 1..Len(q), q[i] = s PROVE Occurs(r, s)
    <3>1. CASE i < p
      BY <1>2, <2>3, <3>1 DEF Occurs
    <3>2. CASE ~(i < p)
      <4>1. i + 1 \in 1..Len(r) /\ ~(i + 1 < p) /\ i + 1 # p /\ (i + 1) - 1 = i
        BY <1>2, <3>2
      <4>2. r[i + 1] = q[i]
        BY <1>2, <4>1
      <4>3. QED BY <2>3, <4>1, <4>2 DEF Occurs
    <3>3. QED BY <3>1, <3>2
  <2>4. QED BY <2>1, <2>2, <2>3 DEF Occurs
<1>5. QED BY <1>2, <1>3, <1>4 DEF r

(* rescheduleTask: the same tasks, once each, now all in trigger order.      *)
LEMMA RescheduledList ==
  ASSUME NEW q \in Seq(Task), NEW t \in Task, Occurs(q, t), Distinct(q),
         NEW trigger \in [Task -> Int], SortedBut(q, trigger, t)
  PROVE  LET r == Rescheduled(q, t, trigger)
         IN  /\ r \in Seq(Task)
             /\ Distinct(r)
             /\ \A s \in Task : Occurs(r, s) <=> Occurs(q, s)
             /\ Sorted(r, trigger)
<1> DEFINE others == Without(q, PositionOf(q, t))
           p == InsertPosition(others, trigger, trigger[t])
           r == InsertedAt(others, p, t)
<1>1. /\ others \in Seq(Task)
      /\ Distinct(others)
      /\ ~Occurs(others, t)
      /\ \A s \in Task : s # t => (Occurs(others, s) <=> Occurs(q, s))
      /\ Sorted(others, trigger)
  BY WithoutTask
<1> HIDE DEF others
<1>2. trigger[t] \in Int
  OBVIOUS
<1>3. /\ p \in 1..(Len(others) + 1)
      /\ \A i \in 1..(p - 1) : trigger[others[i]] <= trigger[t]
      /\ p <= Len(others) => trigger[others[p]] > trigger[t]
  BY <1>1, <1>2, InsertPositionType
<1> HIDE DEF p
<1>4. /\ r \in Seq(Task)
      /\ Distinct(r)
      /\ \A s \in Task : Occurs(r, s) <=> (s = t \/ Occurs(others, s))
  BY <1>1, <1>3, InsertedTask
<1>5. /\ Len(r) = Len(others) + 1
      /\ \A i \in 1..(Len(others) + 1) :
           r[i] = IF i < p THEN others[i] ELSE IF i = p THEN t ELSE others[i - 1]
  BY <1>1, <1>3, InsertedAtType
<1>6. \A i \in 1..Len(others) : others[i] \in Task /\ trigger[others[i]] \in Int
  BY <1>1
<1>7. \A i \in p..Len(others) : trigger[others[i]] > trigger[t]
  <2> SUFFICES ASSUME NEW i \in p..Len(others)
               PROVE  trigger[others[i]] > trigger[t]
    OBVIOUS
  <2>1. p \in 1..Len(others) /\ i \in 1..Len(others)
    BY <1>3, <1>1
  <2>2. i # p => trigger[others[p]] <= trigger[others[i]]
    BY <1>1, <2>1 DEF Sorted
  <2>3. QED BY <1>2, <1>3, <1>6, <2>1, <2>2
<1> HIDE DEF r
<1>8. Sorted(r, trigger)
  <2> SUFFICES ASSUME NEW i \in 1..Len(r), NEW j \in 1..Len(r), i < j
               PROVE  trigger[r[i]] <= trigger[r[j]]
    BY DEF Sorted
  <2>1. CASE j < p
    <3>1. r[i] = others[i] /\ r[j] = others[j] /\ i \in 1..Len(others) /\ j \in 1..Len(others)
      BY <1>3, <1>5, <2>1
    <3>2. QED BY <1>1, <3>1 DEF Sorted
  <2>2. CASE j = p
    BY <1>3, <1>5, <2>2
  <2>3. CASE j > p
    <3>1. r[j] = others[j - 1] /\ j - 1 \in 1..Len(others) /\ j - 1 >= p
      BY <1>3, <1>5, <2>3
    <3>2. CASE i < p
      <4>1. r[i] = others[i] /\ i \in 1..Len(others) /\ i < j - 1
        BY <1>3, <1>5, <3>1, <3>2
      <4>2. QED BY <1>1, <3>1, <4>1 DEF Sorted
    <3>3. CASE i = p
      <4>1. r[i] = t
        BY <1>3, <1>5, <3>3
      <4>2. QED BY <1>2, <1>6, <1>7, <3>1, <4>1
    <3>4. CASE i > p
      <4>1. r[i] = others[i - 1] /\ i - 1 \in 1..Len(others) /\ i - 1 < j - 1
        BY <1>3, <1>5, <3>1, <3>4
      <4>2. QED BY <1>1, <3>1, <4>1 DEF Sorted
    <3>5. QED BY <1>3, <3>2, <3>3, <3>4
  <2>4. QED BY <1>3, <2>1, <2>2, <2>3
<1>9. r = Rescheduled(q, t, trigger)
  BY DEF r, p, others, Rescheduled
<1>10. QED BY <1>1, <1>4, <1>8, <1>9

----------------------------------------------------------------------------
(* The inductive invariant.  Order alone is not inductive: a task can only   *)
(* be found and moved because the list holds each registered task once.      *)
ListInv ==
  /\ \A t \in Task : registered[t] <=> Occurs(taskQueue, t)
  /\ Distinct(taskQueue)
  /\ Sorted(taskQueue, nextTriggerTime)

IInv == TypeOK /\ ListInv

\* What the invariant of the list says of the task list.
LEMMA ListInvMeaning == ListInv <=> QueueHoldsRegistered /\ QueueSorted
BY DEF ListInv, QueueHoldsRegistered, QueueSorted, Occurs, Distinct, Sorted

(* setNextTriggerTime on a list that holds t and is in order but for t.      *)
LEMMA SetTriggerKeeps ==
  ASSUME NEW q \in Seq(Task), NEW t \in Task, NEW time \in Int,
         nextTriggerTime \in [Task -> Int], nextTriggerTimeSet \in [Task -> BOOLEAN],
         Occurs(q, t), Distinct(q), SortedBut(q, nextTriggerTime, t),
         SetTrigger(q, t, time)
  PROVE  /\ nextTriggerTime' \in [Task -> Int]
         /\ nextTriggerTimeSet' \in [Task -> BOOLEAN]
         /\ taskQueue' \in Seq(Task)
         /\ Distinct(taskQueue')
         /\ \A s \in Task : Occurs(taskQueue', s) <=> Occurs(q, s)
         /\ Sorted(taskQueue', nextTriggerTime')
<1> DEFINE trigger == [nextTriggerTime EXCEPT ![t] = time]
<1>1. trigger \in [Task -> Int]
  OBVIOUS
<1>2. \A s \in Task : s # t => trigger[s] = nextTriggerTime[s]
  OBVIOUS
<1>3. \A i \in 1..Len(q) : q[i] \in Task
  OBVIOUS
<1>4. SortedBut(q, trigger, t)
  BY <1>2, <1>3 DEF SortedBut
<1>5. nextTriggerTime' = trigger /\ taskQueue' = Rescheduled(q, t, trigger)
  BY DEF SetTrigger
<1>6. nextTriggerTimeSet' \in [Task -> BOOLEAN]
  BY DEF SetTrigger
<1> HIDE DEF trigger
<1>7. QED BY <1>1, <1>4, <1>5, <1>6, RescheduledList

\* A sorted list is sorted but for any one task.
LEMMA SortedIsSortedBut ==
  ASSUME NEW q, NEW trigger, NEW t, Sorted(q, trigger)
  PROVE  SortedBut(q, trigger, t)
BY DEF Sorted, SortedBut

\* The next trigger time is a time.
LEMMA NextPeriodicType ==
  ASSUME now \in Nat, NEW base \in Int, NEW p \in Int, p > 0
  PROVE  NextPeriodic(base, p) \in Int
BY DEF NextPeriodic

\* The initial states satisfy the invariant.
LEMMA InitIInv == Init => IInv
<1> SUFFICES ASSUME Init PROVE IInv
  OBVIOUS
<1> USE SchedulerAssumption DEF Init
<1>1. period \in [Task -> Int \ {0}]
  OBVIOUS
<1>2. taskQueue = <<>> /\ taskQueue \in Seq(Task) /\ Len(taskQueue) = 0
  OBVIOUS
<1>3. ListInv
  BY <1>2 DEF ListInv, Occurs, Distinct, Sorted
<1>4. QED BY <1>1, <1>2, <1>3 DEF IInv, TypeOK

\* The calls of tasks keep the invariant.
LEMMA CallKeepsIInv ==
  ASSUME IInv, NEW t \in Task, CallOn(t)
  PROVE  IInv'
<1> USE SchedulerAssumption
<1>1. TypeOK /\ ListInv
  BY DEF IInv
<1>2. taskQueue \in Seq(Task) /\ now \in Nat
      /\ nextTriggerTime \in [Task -> Int] /\ nextTriggerTimeSet \in [Task -> BOOLEAN]
      /\ registered \in [Task -> BOOLEAN]
  BY <1>1 DEF TypeOK
<1>3. ASSUME NEW time \in Int, registered[t], SetTrigger(taskQueue, t, time),
             UNCHANGED <<now, registered, phase, running>>,
             period' \in [Task -> Int \ {0}]
      PROVE  IInv'
  <2>1. Occurs(taskQueue, t) /\ Distinct(taskQueue) /\ SortedBut(taskQueue, nextTriggerTime, t)
    BY <1>1, <1>3, SortedIsSortedBut DEF ListInv
  <2>2. /\ nextTriggerTime' \in [Task -> Int]
        /\ nextTriggerTimeSet' \in [Task -> BOOLEAN]
        /\ taskQueue' \in Seq(Task)
        /\ Distinct(taskQueue')
        /\ \A s \in Task : Occurs(taskQueue', s) <=> Occurs(taskQueue, s)
        /\ Sorted(taskQueue', nextTriggerTime')
    BY <1>2, <1>3, <2>1, SetTriggerKeeps
  <2>3. QED BY <1>1, <1>3, <2>2 DEF IInv, TypeOK, ListInv
<1>4. CASE \E d \in Delay : RegisterTask(t, d)
  <2>1. PICK d \in Delay : RegisterTask(t, d)
    BY <1>4
  <2> DEFINE q == InsertedAt(taskQueue, 1, t)
  <2>2. ~Occurs(taskQueue, t) /\ Distinct(taskQueue) /\ Sorted(taskQueue, nextTriggerTime)
    BY <1>1, <2>1 DEF RegisterTask, ListInv
  <2>3. 1 \in 1..(Len(taskQueue) + 1)
    BY <1>2
  <2>4. /\ q \in Seq(Task)
        /\ Distinct(q)
        /\ \A s \in Task : Occurs(q, s) <=> (s = t \/ Occurs(taskQueue, s))
    BY <1>2, <2>2, <2>3, InsertedTask
  <2>5. /\ Len(q) = Len(taskQueue) + 1
        /\ \A i \in 1..(Len(taskQueue) + 1) :
             q[i] = IF i < 1 THEN taskQueue[i] ELSE IF i = 1 THEN t ELSE taskQueue[i - 1]
    BY <1>2, <2>3, InsertedAtType
  <2> HIDE DEF q
  <2>6. SortedBut(q, nextTriggerTime, t)
    <3> SUFFICES ASSUME NEW i \in 1..Len(q), NEW j \in 1..Len(q),
                        i < j, q[i] # t, q[j] # t
                 PROVE  nextTriggerTime[q[i]] <= nextTriggerTime[q[j]]
      BY DEF SortedBut
    <3>1. i # 1 /\ j # 1
      BY <2>5
    <3>2. /\ q[i] = taskQueue[i - 1] /\ q[j] = taskQueue[j - 1]
          /\ i - 1 \in 1..Len(taskQueue) /\ j - 1 \in 1..Len(taskQueue)
      BY <2>5, <3>1
    <3>3. QED BY <2>2, <3>2 DEF Sorted
  <2>7. SetTrigger(q, t, now + d) /\ now + d \in Int /\ Occurs(q, t)
    BY <1>2, <2>1, <2>4 DEF RegisterTask, q
  <2>8. /\ nextTriggerTime' \in [Task -> Int]
        /\ nextTriggerTimeSet' \in [Task -> BOOLEAN]
        /\ taskQueue' \in Seq(Task)
        /\ Distinct(taskQueue')
        /\ \A s \in Task : Occurs(taskQueue', s) <=> Occurs(q, s)
        /\ Sorted(taskQueue', nextTriggerTime')
    BY <1>2, <2>4, <2>6, <2>7, SetTriggerKeeps
  <2>9. registered' = [registered EXCEPT ![t] = TRUE]
        /\ UNCHANGED <<now, period, phase, running>>
    BY <2>1 DEF RegisterTask
  <2>10. TypeOK'
    BY <1>1, <2>8, <2>9 DEF TypeOK
  <2>11. \A s \in Task : registered'[s] <=> Occurs(taskQueue', s)
    BY <1>1, <1>2, <2>4, <2>8, <2>9 DEF ListInv
  <2>12. QED BY <2>8, <2>10, <2>11 DEF IInv, ListInv
<1>5. CASE DeregisterTask(t)
  <2> DEFINE r == Without(taskQueue, PositionOf(taskQueue, t))
  <2>1. Occurs(taskQueue, t) /\ Distinct(taskQueue) /\ SortedBut(taskQueue, nextTriggerTime, t)
    BY <1>1, <1>5, SortedIsSortedBut DEF DeregisterTask, ListInv
  <2>2. /\ r \in Seq(Task)
        /\ Distinct(r)
        /\ ~Occurs(r, t)
        /\ \A s \in Task : s # t => (Occurs(r, s) <=> Occurs(taskQueue, s))
        /\ Sorted(r, nextTriggerTime)
    BY <1>2, <2>1, WithoutTask
  <2>3. /\ taskQueue' = r
        /\ registered' = [registered EXCEPT ![t] = FALSE]
        /\ UNCHANGED <<now, nextTriggerTime, nextTriggerTimeSet, period, phase, running>>
    BY <1>5 DEF DeregisterTask
  <2> HIDE DEF r
  <2>4. \A s \in Task : registered'[s] <=> Occurs(taskQueue', s)
    BY <1>1, <1>2, <2>2, <2>3 DEF ListInv
  <2>5. TypeOK'
    BY <1>1, <2>2, <2>3 DEF TypeOK
  <2>6. QED BY <2>2, <2>3, <2>4, <2>5 DEF IInv, ListInv
<1>6. CASE \E p \in Period : SetPeriod(t, p)
  BY <1>1, <1>6 DEF SetPeriod, IInv, TypeOK, ListInv
<1>7. CASE \E p \in Period : SetPeriodRetrigger(t, p)
  <2>1. PICK p \in Period : SetPeriodRetrigger(t, p)
    BY <1>7
  <2>2. now + p \in Int /\ period' \in [Task -> Int \ {0}]
    BY <1>1, <1>2, <2>1 DEF SetPeriodRetrigger, TypeOK
  <2>3. QED BY <1>3, <2>1, <2>2 DEF SetPeriodRetrigger
<1>8. CASE \E o \in TriggerOffset : SetNextTriggerTime(t, now + o)
  <2>1. PICK o \in TriggerOffset : SetNextTriggerTime(t, now + o)
    BY <1>8
  <2>2. now + o \in Int /\ period' \in [Task -> Int \ {0}]
    BY <1>1, <1>2, <2>1 DEF SetNextTriggerTime, TypeOK
  <2>3. QED BY <1>3, <2>1, <2>2 DEF SetNextTriggerTime
<1>9. QED BY <1>4, <1>5, <1>6, <1>7, <1>8 DEF CallOn

\* The end of a task's time event keeps the invariant.
LEMMA FinishKeepsIInv ==
  ASSUME IInv, FinishTask
  PROVE  IInv'
<1> USE SchedulerAssumption
<1>1. TypeOK /\ ListInv
  BY DEF IInv
<1>2. taskQueue \in Seq(Task) /\ now \in Nat
      /\ nextTriggerTime \in [Task -> Int] /\ nextTriggerTimeSet \in [Task -> BOOLEAN]
      /\ registered \in [Task -> BOOLEAN] /\ period \in [Task -> Int \ {0}]
      /\ running \in Task
  BY <1>1 DEF TypeOK, FinishTask
<1>3. phase' = "inLoop" /\ running' = NoTask /\ now' = now /\ period' = period
  BY DEF FinishTask
<1>4. CASE KeepOwnTrigger(running)
  <2>1. nextTriggerTimeSet' \in [Task -> BOOLEAN]
        /\ UNCHANGED <<taskQueue, registered, nextTriggerTime>>
    BY <1>2, <1>4 DEF KeepOwnTrigger
  <2>2. QED BY <1>1, <1>3, <2>1 DEF IInv, TypeOK, ListInv
<1>5. CASE RepostPeriodic(running)
  <2>1. CASE ~registered[running]
    <3>1. UNCHANGED <<taskQueue, registered, nextTriggerTime, nextTriggerTimeSet>>
      BY <1>5, <2>1 DEF RepostPeriodic
    <3>2. QED BY <1>1, <1>3, <3>1 DEF IInv, TypeOK, ListInv
  <2>2. CASE registered[running]
    <3> DEFINE base == IF running \in HardTiming THEN nextTriggerTime[running] ELSE now
               trigger == [nextTriggerTime EXCEPT ![running] = NextPeriodic(base, period[running])]
    <3>1. base \in Int /\ period[running] \in Int /\ period[running] > 0
      BY <1>2, <1>5 DEF RepostPeriodic
    <3>2. NextPeriodic(base, period[running]) \in Int
      BY <1>2, <3>1, NextPeriodicType
    <3>3. trigger \in [Task -> Int] /\ \A s \in Task : s # running => trigger[s] = nextTriggerTime[s]
      BY <1>2, <3>2
    <3>4. /\ nextTriggerTime' = trigger
          /\ taskQueue' = Rescheduled(taskQueue, running, trigger)
          /\ UNCHANGED <<registered, nextTriggerTimeSet>>
      BY <1>5, <2>2 DEF RepostPeriodic
    <3> HIDE DEF trigger
    <3>5. Occurs(taskQueue, running) /\ Distinct(taskQueue) /\ Sorted(taskQueue, nextTriggerTime)
      BY <1>1, <1>2, <2>2 DEF ListInv
    <3>6. \A i \in 1..Len(taskQueue) : taskQueue[i] \in Task
      BY <1>2
    <3>7. SortedBut(taskQueue, trigger, running)
      BY <3>3, <3>5, <3>6 DEF Sorted, SortedBut
    <3>8. /\ taskQueue' \in Seq(Task)
          /\ Distinct(taskQueue')
          /\ \A s \in Task : Occurs(taskQueue', s) <=> Occurs(taskQueue, s)
          /\ Sorted(taskQueue', nextTriggerTime')
      BY <1>2, <3>3, <3>4, <3>5, <3>7, RescheduledList
    <3>9. QED BY <1>1, <1>3, <3>3, <3>4, <3>8 DEF IInv, TypeOK, ListInv
  <2>3. QED BY <2>1, <2>2
<1>6. CASE RetireOneShot(running)
  <2> DEFINE r == Without(taskQueue, PositionOf(taskQueue, running))
  <2>1. CASE registered[running]
    <3>1. Occurs(taskQueue, running) /\ Distinct(taskQueue)
          /\ SortedBut(taskQueue, nextTriggerTime, running)
      BY <1>1, <1>2, <2>1, SortedIsSortedBut DEF ListInv
    <3>2. /\ r \in Seq(Task)
          /\ Distinct(r)
          /\ ~Occurs(r, running)
          /\ \A s \in Task : s # running => (Occurs(r, s) <=> Occurs(taskQueue, s))
          /\ Sorted(r, nextTriggerTime)
      BY <1>2, <3>1, WithoutTask
    <3>3. /\ taskQueue' = r
          /\ registered' = [registered EXCEPT ![running] = FALSE]
          /\ UNCHANGED <<nextTriggerTime, nextTriggerTimeSet>>
      BY <1>6, <2>1 DEF RetireOneShot
    <3> HIDE DEF r
    <3>4. \A s \in Task : registered'[s] <=> Occurs(taskQueue', s)
      BY <1>1, <1>2, <3>2, <3>3 DEF ListInv
    <3>5. TypeOK'
      BY <1>1, <1>2, <1>3, <3>2, <3>3 DEF TypeOK
    <3>6. QED BY <3>2, <3>3, <3>4, <3>5 DEF IInv, ListInv
  <2>2. CASE ~registered[running]
    <3>1. UNCHANGED <<taskQueue, nextTriggerTime, nextTriggerTimeSet>> /\ registered' = registered
      BY <1>2, <1>6, <2>2 DEF RetireOneShot
    <3>2. QED BY <1>1, <1>3, <3>1 DEF IInv, TypeOK, ListInv
  <2>3. QED BY <2>1, <2>2
<1>7. QED BY <1>4, <1>5, <1>6 DEF FinishTask

\* Every step keeps the invariant.
LEMMA StepKeepsIInv == IInv /\ [Next]_vars => IInv'
<1> SUFFICES ASSUME IInv, [Next]_vars PROVE IInv'
  OBVIOUS
<1> USE SchedulerAssumption DEF IInv, TypeOK, ListInv
<1>1. CASE Calls
  <2>1. PICK t \in IF phase = "inTask" THEN CallsOn[running] ELSE Task : CallOn(t)
    BY <1>1 DEF Calls
  <2>2. t \in Task
    <3>1. CASE phase = "inTask"
      BY <2>1, <3>1
    <3>2. CASE phase # "inTask"
      BY <2>1, <3>2
    <3>3. QED BY <3>1, <3>2
  <2>3. QED BY <2>1, <2>2, CallKeepsIInv
<1>2. CASE EnterTimeEvent
  BY <1>2 DEF EnterTimeEvent, taskVars
<1>3. CASE StartTask
  <2>1. Head(taskQueue) \in Task
    BY <1>3 DEF StartTask
  <2>2. QED BY <1>3, <2>1 DEF StartTask
<1>4. CASE FinishTask
  BY <1>4, FinishKeepsIInv
<1>5. CASE LeaveTimeEvent
  BY <1>5 DEF LeaveTimeEvent, taskVars
<1>6. CASE Tick
  BY <1>6 DEF Tick, taskVars
<1>7. CASE UNCHANGED vars
  BY <1>7 DEF vars, taskVars
<1>8. QED BY <1>1, <1>2, <1>3, <1>4, <1>5, <1>6, <1>7 DEF Next, Loop

(* The invariant holds in every reachable state.                             *)
LEMMA AlwaysIInv == Spec => []IInv
BY InitIInv, StepKeepsIInv, PTL DEF Spec

(* Type correctness of the scheduler, for any set of tasks and any clock.    *)
THEOREM TypeCorrect == Spec => []TypeOK
<1>1. IInv => TypeOK
  BY DEF IInv
<1>2. QED BY <1>1, AlwaysIInv, PTL

(* The list holds exactly the registered tasks, each once.                   *)
THEOREM QueueAlwaysHoldsRegistered == Spec => []QueueHoldsRegistered
<1>1. IInv => QueueHoldsRegistered
  BY ListInvMeaning DEF IInv
<1>2. QED BY <1>1, AlwaysIInv, PTL

(* The list is always in trigger order.                                      *)
THEOREM QueueAlwaysSorted == Spec => []QueueSorted
<1>1. IInv => QueueSorted
  BY ListInvMeaning DEF IInv
<1>2. QED BY <1>1, AlwaysIInv, PTL

(* The idle time timeEvent() returns never reaches past a registered task.   *)
THEOREM IdleTimeIsSafe == Spec => NeverSleepsPastATask
<1> DEFINE Leave == phase = "inLoop" /\ phase' = "outside" =>
              \A t \in Task : registered[t] => nextTriggerTime[t] - now >= IdleTime /\ ~Due(t)
<1>1. IInv /\ [Next]_vars => [Leave]_vars
  <2> SUFFICES ASSUME IInv, [Next]_vars, phase = "inLoop", phase' = "outside",
                      NEW t \in Task, registered[t]
               PROVE  nextTriggerTime[t] - now >= IdleTime /\ ~Due(t)
    OBVIOUS
  <2> USE DEF IInv, TypeOK
  <2>1. LeaveTimeEvent
    <3>1. phase' # phase
      OBVIOUS
    <3>2. CASE Calls
      BY <3>1, <3>2 DEF Calls, CallOn, RegisterTask, DeregisterTask, SetPeriod,
                        SetPeriodRetrigger, SetNextTriggerTime
    <3>3. QED BY <3>1, <3>2 DEF Next, Loop, EnterTimeEvent, StartTask, FinishTask, Tick, vars
  <2>2. PICK i \in 1..Len(taskQueue) : taskQueue[i] = t
    BY DEF ListInv, Occurs
  <2>3. taskQueue # <<>> /\ 1 \in 1..Len(taskQueue) /\ Head(taskQueue) = taskQueue[1]
        /\ taskQueue[1] \in Task
    BY <2>2
  <2>4. nextTriggerTime[taskQueue[1]] <= nextTriggerTime[t]
    BY <2>2, <2>3 DEF ListInv, Sorted
  <2>5. IdleTime = nextTriggerTime[taskQueue[1]] - now /\ IdleTime > 0
    BY <2>1, <2>3 DEF IdleTime, LeaveTimeEvent
  <2>6. QED BY <2>3, <2>4, <2>5 DEF Due
<1>2. QED BY <1>1, AlwaysIInv, PTL DEF Spec, NeverSleepsPastATask

(* Rounding up to a multiple.                                                *)
LEMMA RoundedUp ==
  ASSUME NEW a \in Nat, NEW p \in Nat \ {0}
  PROVE  LET k == (a + p - 1) \div p
         IN  k \in Nat /\ k * p >= a /\ (k * p) - p < a
<1> DEFINE b == a + p - 1
           k == b \div p
           r == b % p
<1>1. b \in Nat
  OBVIOUS
<1> HIDE DEF b
<1>2. k \in Nat /\ r \in 0..(p - 1) /\ b = p * k + r
  BY <1>1
<1> HIDE DEF k, r
<1>3. p * k \in Int /\ k * p = p * k
  BY <1>2
<1> DEFINE m == p * k
<1>4. m \in Int /\ b = m + r
  BY <1>2, <1>3
<1> HIDE DEF m
<1>5. m >= a /\ m - p < a
  BY <1>2, <1>4 DEF b
<1>6. k \in Nat /\ k * p >= a /\ (k * p) - p < a
  BY <1>2, <1>3, <1>5 DEF m
<1>7. QED BY <1>6 DEF k, b

(* A multiple leaves no rest.                                                *)
LEMMA MultipleLeavesNoRest ==
  ASSUME NEW k \in Nat, NEW p \in Nat \ {0}
  PROVE  (k * p) % p = 0
<1> DEFINE m == k * p
           q == m \div p
           r == m % p
<1>1. m \in Nat
  OBVIOUS
<1>2. q \in Int /\ r \in 0..(p - 1) /\ m = p * q + r
  <2> HIDE DEF m
  <2>1. QED BY <1>1
<1>3. r = p * (k - q)
  BY <1>1, <1>2
<1> HIDE DEF m, q, r
<1> DEFINE d == k - q
<1>4. d \in Int
  BY <1>2
<1>5. r = p * d
  BY <1>3
<1> HIDE DEF d
<1>6. d >= 1 => p * d >= p
  BY <1>4
<1>7. d <= -1 => p * d <= -p
  BY <1>4
<1>8. d = 0 => r = 0
  BY <1>5
<1>9. r = 0
  BY <1>2, <1>4, <1>5, <1>6, <1>7, <1>8
<1>10. QED BY <1>9 DEF r, m

(* What timeEventPost computes is a multiple of the period behind base, not  *)
(* in the past, and the first such time if the period itself was overrun.    *)
LEMMA NextPeriodicOnGrid ==
  ASSUME now \in Nat, NEW base \in Int, NEW p \in Nat \ {0}
  PROVE  LET step == NextPeriodic(base, p) - base
         IN  /\ step > 0 /\ step % p = 0
             /\ NextPeriodic(base, p) >= now
             /\ step > p => NextPeriodic(base, p) - p < now
<1> DEFINE first == base + p
           next == NextPeriodic(base, p)
<1>1. first \in Int
  OBVIOUS
<1>2. CASE first >= now
  <2>1. next = base + p
    BY <1>2 DEF NextPeriodic
  <2>2. p % p = 0
    <3>1. (1 * p) % p = 0
      BY MultipleLeavesNoRest
    <3>2. QED BY <3>1
  <2> HIDE DEF next
  <2>3. next - base = p
    BY <2>1
  <2>4. next - base > 0 /\ (next - base) % p = 0 /\ next >= now /\ ~(next - base > p)
    BY <1>2, <2>1, <2>2, <2>3
  <2>5. QED BY <2>4 DEF next
<1>3. CASE ~(first >= now)
  <2> DEFINE a == now - first
             k == (a + p - 1) \div p
  <2>1. a \in Nat /\ a + p - 1 = now - first + p - 1
    BY <1>1, <1>3
  <2>2. next = first + k * p
    BY <1>3, <2>1 DEF NextPeriodic
  <2> HIDE DEF a
  <2>3. k \in Nat /\ k * p >= a /\ (k * p) - p < a
    BY <2>1, RoundedUp
  <2> HIDE DEF k, next
  <2>4. k * p \in Int /\ (k + 1) * p = (k * p) + p /\ k + 1 \in Nat
    BY <2>3
  <2>5. ((k + 1) * p) % p = 0
    BY <2>4, MultipleLeavesNoRest
  <2> DEFINE m == k * p
  <2>6. /\ m \in Int /\ m >= a /\ m - p < a /\ (m + p) % p = 0 /\ next = first + m
    BY <2>2, <2>3, <2>4, <2>5
  <2> HIDE DEF m, first
  <2>7. next = base + p + m
    BY <2>6 DEF first
  <2>8. next - base = m + p
    BY <2>6, <2>7
  <2>9. a = now - base - p
    BY DEF a, first
  <2>10. next - base > 0 /\ next >= now /\ next - p < now
    BY <2>1, <2>6, <2>7, <2>9
  <2>11. (next - base) % p = 0
    BY <2>6, <2>8
  <2>12. QED BY <2>10, <2>11 DEF next
<1>4. QED BY <1>2, <1>3

(* Hard timing does not drift, for any periods and overruns: a run that sets no      *)
(* trigger time of its own is followed by one on the grid of the last, the first     *)
(* that is not in the past.                                                          *)
THEOREM HardTimingStaysOnGrid == Spec => HardTimingKeepsGrid
<1> DEFINE Kept(t) ==
      LET step == nextTriggerTime'[t] - nextTriggerTime[t]
      IN  /\ step > 0 /\ step % period[t] = 0
          /\ nextTriggerTime'[t] >= now
          /\ step > period[t] => nextTriggerTime'[t] - period[t] < now
           Step ==
      \A t \in HardTiming :
        phase = "inTask" /\ phase' = "inLoop" /\ running = t /\ ~nextTriggerTimeSet[t]
          /\ registered'[t]
        => Kept(t)
<1>1. IInv /\ [Next]_vars => [Step]_vars
  <2> SUFFICES ASSUME IInv, [Next]_vars, NEW t \in HardTiming,
                      phase = "inTask", phase' = "inLoop", running = t,
                      ~nextTriggerTimeSet[t], registered'[t]
               PROVE  Kept(t)
    OBVIOUS
  <2>1. /\ now \in Nat /\ registered \in [Task -> BOOLEAN] /\ t \in Task
        /\ nextTriggerTime \in [Task -> Int] /\ period \in [Task -> Int \ {0}]
    BY SchedulerAssumption DEF IInv, TypeOK
  <2>2. FinishTask
    <3>1. phase' # phase
      OBVIOUS
    <3>2. CASE Calls
      BY <3>1, <3>2 DEF Calls, CallOn, RegisterTask, DeregisterTask, SetPeriod,
                        SetPeriodRetrigger, SetNextTriggerTime
    <3>3. QED BY <3>1, <3>2 DEF Next, Loop, EnterTimeEvent, StartTask, LeaveTimeEvent, Tick, vars
  <2>3. RepostPeriodic(t)
    <3>1. ~KeepOwnTrigger(t)
      BY DEF KeepOwnTrigger
    <3>2. ~RetireOneShot(t)
      BY <2>1 DEF RetireOneShot
    <3>3. QED BY <2>2, <3>1, <3>2 DEF FinishTask
  <2>4. /\ period[t] > 0 /\ registered[t]
        /\ nextTriggerTime' =
             [nextTriggerTime EXCEPT ![t] = NextPeriodic(nextTriggerTime[t], period[t])]
    BY <2>3 DEF RepostPeriodic
  <2>5. nextTriggerTime'[t] = NextPeriodic(nextTriggerTime[t], period[t])
    BY <2>1, <2>4
  <2>6. nextTriggerTime[t] \in Int /\ period[t] \in Nat \ {0}
    BY <2>1, <2>4
  <2>7. QED BY <2>1, <2>5, <2>6, NextPeriodicOnGrid
<1>2. QED BY <1>1, AlwaysIInv, PTL DEF Spec, HardTimingKeepsGrid
=============================================================================
