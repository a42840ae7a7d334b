------------------------- MODULE FiberSchedulerProofs -------------------------
(* Proofs about FiberScheduler, for any tasks, owners and bounds and any   *)
(* finite set of threads.                                                  *)
EXTENDS FiberScheduler, SequenceTheorems, FiniteSetTheorems, TLAPS

(* A task at the end of the queue, and one taken from inside it.           *)
LEMMA AppendEntry ==
  ASSUME tasks \in Seq(Entries), NEW e \in Entries, tasks' = Append(tasks, e)
  PROVE  /\ tasks' \in Seq(Entries)
         /\ \A i \in DOMAIN tasks : i \in DOMAIN tasks' /\ tasks'[i] = tasks[i]
         /\ \A i \in DOMAIN tasks' : i \in DOMAIN tasks \/ (i = Len(tasks) + 1 /\ tasks'[i] = e)
         /\ \E i \in DOMAIN tasks' : tasks'[i] = e
OBVIOUS

Shift(i, j) == IF j < i THEN j ELSE j + 1

LEMMA RemoveEntry ==
  ASSUME tasks \in Seq(Entries), NEW i \in DOMAIN tasks, tasks' = RemoveAt(tasks, i)
  PROVE  /\ tasks' \in Seq(Entries)
         /\ \A j \in DOMAIN tasks' : Shift(i, j) \in DOMAIN tasks \ {i} /\ tasks'[j] = tasks[Shift(i, j)]
         /\ \A j, k \in DOMAIN tasks' : Shift(i, j) = Shift(i, k) => j = k
         /\ \A k \in DOMAIN tasks \ {i} : \E j \in DOMAIN tasks' : Shift(i, j) = k
<1> DEFINE n == Len(tasks)
           a == SubSeq(tasks, 1, i - 1)
           b == SubSeq(tasks, i + 1, n)
<1>1. n \in Nat /\ i \in 1 .. n /\ DOMAIN tasks = 1 .. n
  OBVIOUS
<1>2. a \in Seq(Entries) /\ Len(a) = i - 1 /\ \A j \in 1 .. i - 1 : a[j] = tasks[j]
  BY <1>1
<1>3. b \in Seq(Entries) /\ Len(b) = n - i /\ \A j \in 1 .. n - i : b[j] = tasks[j + i]
  BY <1>1
<1>4. tasks' = a \o b
  BY DEF RemoveAt
<1> HIDE DEF a, b
<1>cat. /\ a \o b \in Seq(Entries) /\ Len(a \o b) = Len(a) + Len(b)
        /\ \A j \in 1 .. Len(a) + Len(b) : (a \o b)[j] = IF j <= Len(a) THEN a[j] ELSE b[j - Len(a)]
  BY <1>2, <1>3, ConcatProperties
<1>5. tasks' \in Seq(Entries) /\ Len(tasks') = n - 1
  BY <1>1, <1>2, <1>3, <1>4, <1>cat
<1>6. DOMAIN tasks' = 1 .. n - 1
  BY <1>5
<1>7. ASSUME NEW j \in 1 .. n - 1
      PROVE  Shift(i, j) \in (1 .. n) \ {i} /\ tasks'[j] = tasks[Shift(i, j)]
  <2>1. CASE j < i
    <3>1. j \in 1 .. Len(a) /\ Shift(i, j) = j /\ j \in (1 .. n) \ {i}
      BY <1>1, <1>2, <1>7, <2>1 DEF Shift
    <3>2. (a \o b)[j] = a[j]
      BY <1>1, <1>2, <1>3, <1>cat, <3>1
    <3>3. QED
      BY <1>2, <1>4, <3>1, <3>2
  <2>2. CASE ~ (j < i)
    <3>1. j \in Len(a) + 1 .. Len(a) + Len(b) /\ Shift(i, j) = j + 1 /\ j + 1 \in (1 .. n) \ {i}
          /\ j - Len(a) \in 1 .. n - i /\ j - Len(a) + i = j + 1
      BY <1>1, <1>2, <1>3, <1>7, <2>2 DEF Shift
    <3>2. j \in 1 .. Len(a) + Len(b) /\ ~ (j <= Len(a))
      BY <1>1, <1>2, <1>3, <3>1
    <3>3. (a \o b)[j] = b[j - Len(a)]
      BY <1>cat, <3>2
    <3>4. QED
      BY <1>3, <1>4, <3>1, <3>3
  <2>3. QED
    BY <2>1, <2>2
<1>8. \A j, k \in 1 .. n - 1 : Shift(i, j) = Shift(i, k) => j = k
  BY <1>1 DEF Shift
<1>9. \A k \in (1 .. n) \ {i} : \E j \in 1 .. n - 1 : Shift(i, j) = k
  <2> SUFFICES ASSUME NEW k \in (1 .. n) \ {i}
               PROVE  \E j \in 1 .. n - 1 : Shift(i, j) = k
    OBVIOUS
  <2>1. CASE k < i
    BY <1>1, <2>1 DEF Shift
  <2>2. CASE k > i
    <3>1. k - 1 \in 1 .. n - 1 /\ Shift(i, k - 1) = k
      BY <1>1, <2>2 DEF Shift
    <3>2. QED
      BY <3>1
  <2>3. QED
    BY <1>1, <2>1, <2>2
<1>10. QED
  BY <1>1, <1>5, <1>6, <1>7, <1>8, <1>9
-----------------------------------------------------------------------------
LEMMA NoThreadIsATask == Nobody \notin Tasks /\ NoEntry \notin Entries
BY ConstantsAssumption DEF NoEntry, Entries

(* A thread that has taken an entry has a task, and a Fiber to run it in.  *)
LEMMA HandProperties ==
  ASSUME TypeOK, HandsOK, NEW th \in Threads
  PROVE  /\ pc[th] \in Busy \union {"dispatch"} => cur[th] \in Entries /\ cur[th].task \in Tasks
         /\ pc[th] \in Busy => Fiber(th) \in Tasks
<1>1. cur[th] \in Entries \union {NoEntry} /\ wrapper[th] \in Tasks \union {Nobody}
  BY DEF TypeOK
<1>2. pc[th] \in Busy \union {"dispatch"} => cur[th] \in Entries /\ cur[th].task \in Tasks
  BY <1>1 DEF HandsOK, Entries
<1>3. pc[th] \in Busy => Fiber(th) \in Tasks
  <2>1. cur[th] \in Entries => cur[th].form \in {"func", "fiber"}
    BY DEF Entries
  <2>2. QED
    BY <1>1, <1>2, <2>1 DEF HandsOK, Fiber
<1>4. QED
  BY <1>2, <1>3

LEMMA InitTypeOK == Init => TypeOK /\ HandsOK
<1> SUFFICES ASSUME Init PROVE TypeOK /\ HandsOK
  OBVIOUS
<1>1. tasks \in Seq(Entries) /\ active \in Int /\ yields \in 0 .. MaxYields /\ wakes \in 0 .. MaxWakes
  BY ConstantsAssumption DEF Init
<1>2. TypeOK
  BY <1>1 DEF Init, TypeOK
<1>3. HandsOK
  BY DEF Init, HandsOK, Busy
<1>4. QED
  BY <1>2, <1>3

LEMMA ScheduleType ==
  ASSUME TypeOK, NEW t \in Tasks, NEW owner \in Owners, Schedule(t, owner)
  PROVE  tasks' \in Seq(Entries) /\ scheduled' \subseteq Tasks
<1>1. [task |-> t, form |-> FormOf(t), owner |-> owner] \in Entries
  BY ConstantsAssumption DEF Entries, FormOf
<1>2. QED
  BY <1>1 DEF Schedule, TypeOK

LEMMA RequeueType ==
  ASSUME TypeOK, NEW f \in Tasks, Requeue(f)
  PROVE  tasks' \in Seq(Entries)
<1>1. [task |-> f, form |-> "fiber", owner |-> Nobody] \in Entries
  BY DEF Entries
<1>2. QED
  BY <1>1 DEF Requeue, TypeOK

LEMMA StepTypeOK ==
  ASSUME TypeOK, HandsOK, [Next]_vars
  PROVE  TypeOK'
<1>1. CASE UNCHANGED vars
  BY <1>1 DEF vars, run, fibers, bounds, TypeOK
<1>2. CASE RootSchedules
  BY <1>2, ScheduleType DEF RootSchedules, run, fibers, bounds, TypeOK
<1>3. CASE Start \/ Stop \/ StopReturn
  BY <1>3 DEF Start, Stop, StopReturn, Goto, run, fibers, bounds, TypeOK
<1>4. ASSUME NEW th \in Threads, RunStep(th)
      PROVE  TypeOK'
  <2> USE DEF Goto, fibers, bounds
  <2>1. CASE Pick(th)
    <3>1. PICK i \in DOMAIN tasks : cur' = [cur EXCEPT ![th] = tasks[i]] /\ tasks' = RemoveAt(tasks, i)
      BY <2>1 DEF Pick
    <3>2. tasks' \in Seq(Entries) /\ tasks[i] \in Entries
      BY <3>1, RemoveEntry DEF TypeOK
    <3>3. QED
      BY <2>1, <3>1, <3>2 DEF Pick, TypeOK
  <2>2. CASE PickNone(th) \/ Idle(th) \/ AcceptFiber(th) \/ Back(th) \/ Decrement(th)
    BY <2>2 DEF PickNone, Idle, AcceptFiber, Back, Decrement, TypeOK
  <2>3. CASE RejectFiber(th)
    BY <2>3 DEF RejectFiber, Abort, TypeOK
  <2>4. CASE CreateWrapper(th) \/ ResetWrapper(th)
    <3>1. cur[th].task \in Tasks
      BY <2>4, HandProperties DEF CreateWrapper, ResetWrapper
    <3>2. QED
      BY <2>4, <3>1 DEF CreateWrapper, ResetWrapper, Abort, TypeOK
  <2>5. CASE Resume(th)
    BY <2>5 DEF Resume, Abort, TypeOK
  <2>6. CASE BodySchedules(th)
    BY <2>6, ScheduleType DEF BodySchedules, run, TypeOK
  <2>7. CASE BodyYields(th)
    <3>1. yields' \in 0 .. MaxYields
      BY <2>7, ConstantsAssumption DEF BodyYields, TypeOK
    <3>2. state' \in [Tasks -> {"unused", "ready", "running", "hold", "term", "except"}]
      BY <2>7 DEF BodyYields, TypeOK
    <3>3. QED
      BY <2>7, <3>1, <3>2 DEF BodyYields, TypeOK
  <2>8. CASE BodyEnds(th)
    <3>1. Fiber(th) \in Tasks
      BY <2>8, HandProperties DEF BodyEnds, Busy
    <3>2. finished' \subseteq Tasks
      BY <2>8, <3>1 DEF BodyEnds, TypeOK
    <3>3. QED
      BY <2>8, <3>2 DEF BodyEnds, TypeOK
  <2>9. CASE SettleFiber(th) \/ SettleReady(th)
    <3>1. Fiber(th) \in Tasks
      BY <2>9, HandProperties DEF SettleFiber, SettleReady, Busy
    <3>2. tasks' \in Seq(Entries)
      BY <2>9, <3>1, RequeueType DEF SettleFiber, SettleReady, Fiber, TypeOK
    <3>3. QED
      BY <2>9, <3>2 DEF SettleFiber, SettleReady, Drop, TypeOK
  <2>10. CASE SettleHold(th) \/ SettleOver(th)
    BY <2>10 DEF SettleHold, SettleOver, Drop, TypeOK
  <2>11. CASE SettleWrong(th)
    BY <2>11 DEF SettleWrong, Abort, Drop, TypeOK
  <2>12. QED
    BY <1>4, <2>1, <2>2, <2>3, <2>4, <2>5, <2>6, <2>7, <2>8, <2>9, <2>10, <2>11 DEF RunStep, Body
<1>5. ASSUME NEW f \in Tasks, Wake(f)
      PROVE  TypeOK'
  <2>1. tasks' \in Seq(Entries)
    BY <1>5, RequeueType DEF Wake
  <2>2. QED
    BY <1>5, <2>1, ConstantsAssumption DEF Wake, run, fibers, TypeOK
<1>6. QED
  BY <1>1, <1>2, <1>3, <1>4, <1>5 DEF Next, RootStep

LEMMA StepHandsOK ==
  ASSUME TypeOK, HandsOK, [Next]_vars
  PROVE  HandsOK'
<1>1. CASE UNCHANGED <<pc, cur, wrapper>>
  BY <1>1 DEF HandsOK
<1>2. CASE Start \/ Stop
  <2>1. UNCHANGED <<cur, wrapper>> /\ \A th \in Threads : pc'[th] = pc[th] \/ pc'[th] = "pick"
    BY <1>2 DEF Start, Stop, Goto, TypeOK
  <2>2. QED
    BY <2>1 DEF HandsOK, Busy
<1>3. ASSUME NEW th \in Threads, RunStep(th)
      PROVE  HandsOK'
  <2>1. CASE pc' = [u \in Threads |-> "dead"]
    BY <2>1 DEF HandsOK, Busy
  <2>2. ASSUME NEW place, Goto(th, place),
               cur' = cur \/ \E e \in Entries \union {NoEntry} : cur' = [cur EXCEPT ![th] = e],
               wrapper' = wrapper \/ \E f \in Tasks \union {Nobody} : wrapper' = [wrapper EXCEPT ![th] = f],
               place \in Busy \union {"dispatch"} => cur'[th] # NoEntry,
               place \in Busy /\ cur'[th].form = "func" => wrapper'[th] # Nobody
        PROVE  HandsOK'
    <3>1. \A u \in Threads \ {th} : pc'[u] = pc[u] /\ cur'[u] = cur[u] /\ wrapper'[u] = wrapper[u]
      BY <2>2 DEF Goto, TypeOK
    <3>2. pc'[th] = place
      BY <2>2 DEF Goto, TypeOK
    <3>3. QED
      BY <2>2, <3>1, <3>2 DEF HandsOK
  <2>3. CASE Pick(th)
    <3>1. PICK i \in DOMAIN tasks : cur' = [cur EXCEPT ![th] = tasks[i]]
      BY <2>3 DEF Pick
    <3>2. tasks[i] \in Entries /\ cur'[th] = tasks[i] /\ tasks[i] # NoEntry
      BY <3>1, NoThreadIsATask DEF TypeOK
    <3>3. QED
      BY <2>2, <2>3, <3>1, <3>2 DEF Pick, Busy
  <2>4. CASE PickNone(th) \/ Idle(th) \/ Decrement(th)
    BY <2>2, <2>4 DEF PickNone, Idle, Decrement, Busy
  <2>5. CASE AcceptFiber(th) \/ RejectFiber(th) \/ Resume(th) \/ Back(th) \/ BodyYields(th) \/ BodyEnds(th)
    <3>1. CASE pc' = [u \in Threads |-> "dead"]
      BY <2>1, <3>1
    <3>2. CASE pc' # [u \in Threads |-> "dead"]
      <4>1. \E place \in Busy : Goto(th, place)
        BY <2>5, <3>2 DEF AcceptFiber, RejectFiber, Resume, Back, BodyYields, BodyEnds, Abort, Busy
      <4>2. UNCHANGED <<cur, wrapper>>
        BY <2>5 DEF AcceptFiber, RejectFiber, Resume, Back, BodyYields, BodyEnds
      <4>3. pc[th] \in Busy \union {"dispatch"} /\ (pc[th] = "dispatch" => cur[th].form = "fiber")
        BY <2>5 DEF AcceptFiber, RejectFiber, Resume, Back, BodyYields, BodyEnds, Busy
      <4>4. cur[th] # NoEntry /\ (cur[th].form = "func" => wrapper[th] # Nobody)
        BY <4>3 DEF HandsOK
      <4>5. QED
        BY <2>2, <4>1, <4>2, <4>4
    <3>3. QED
      BY <3>1, <3>2
  <2>6. CASE CreateWrapper(th)
    <3>1. cur[th].task \in Tasks /\ cur[th].task # Nobody
      BY <2>6, HandProperties, NoThreadIsATask DEF CreateWrapper
    <3>2. wrapper'[th] = cur[th].task /\ cur[th] # NoEntry
      BY <2>6 DEF CreateWrapper, TypeOK, HandsOK
    <3>3. QED
      BY <2>2, <2>6, <3>1, <3>2 DEF CreateWrapper
  <2>7. CASE ResetWrapper(th)
    <3>1. cur[th] # NoEntry
      BY <2>7 DEF ResetWrapper, HandsOK
    <3>2. QED
      BY <2>1, <2>2, <2>7, <3>1 DEF ResetWrapper, Abort
  <2>8. CASE SettleFiber(th) \/ SettleReady(th) \/ SettleHold(th) \/ SettleOver(th) \/ SettleWrong(th)
    <3>1. CASE pc' = [u \in Threads |-> "dead"]
      BY <2>1, <3>1
    <3>2. CASE pc' # [u \in Threads |-> "dead"]
      <4>1. \E place \in {"pick", "dec"} : Goto(th, place)
        BY <2>8, <3>2 DEF SettleFiber, SettleReady, SettleHold, SettleOver, SettleWrong, Abort
      <4>2. cur' = [cur EXCEPT ![th] = NoEntry]
        BY <2>8, <3>2 DEF SettleFiber, SettleReady, SettleHold, SettleOver, SettleWrong, Abort, Drop
      <4>3. wrapper' = wrapper \/ wrapper' = [wrapper EXCEPT ![th] = Nobody]
        BY <2>8 DEF SettleFiber, SettleReady, SettleHold, SettleOver, SettleWrong
      <4>4. QED
        BY <2>2, <4>1, <4>2, <4>3 DEF Busy
    <3>3. QED
      BY <3>1, <3>2
  <2>9. QED
    BY <1>1, <1>3, <2>3, <2>4, <2>5, <2>6, <2>7, <2>8 DEF RunStep, Body, BodySchedules, run
<1>4. QED
  BY <1>1, <1>2, <1>3 DEF Next, RootStep, RootSchedules, StopReturn, Wake, vars, run

(* The queue, the threads and the fibers stay well-typed.                  *)
THEOREM TypeOKHolds == Spec => []TypeOK
<1>1. TypeOK /\ HandsOK /\ [Next]_vars => TypeOK' /\ HandsOK'
  BY StepTypeOK, StepHandsOK
<1>2. QED
  BY <1>1, InitTypeOK, PTL DEF Spec
-----------------------------------------------------------------------------
(* Nothing new is held, and the queue is as it was.                        *)
LEMMA ApartHeldShrinks ==
  ASSUME Apart, tasks' = tasks,
         \A th \in Threads : Holds(th)' \subseteq Holds(th),
         scheduled \subseteq scheduled',
         \A th \in Threads : cur'[th].form = "fiber" => wrapper'[th] # cur'[th].task
  PROVE  Apart'
<1>1. \A th \in Threads : \A x : x \in Holds(th)' => x \in Holds(th)
  OBVIOUS
<1>2. QED
  BY <1>1 DEF Apart

(* A task that nobody holds is added to the queue.                         *)
LEMMA ApartAppended ==
  ASSUME TypeOK, Apart, NEW e \in Entries, tasks' = Append(tasks, e),
         \A i \in DOMAIN tasks : tasks[i].task # e.task,
         \A th \in Threads : Holds(th)' \subseteq Holds(th) /\ e.task \notin Holds(th)',
         scheduled \subseteq scheduled', e.task \in scheduled',
         \A th \in Threads : cur'[th].form = "fiber" => wrapper'[th] # cur'[th].task
  PROVE  Apart'
<1>1. \A th \in Threads : \A x : x \in Holds(th)' => x \in Holds(th) /\ x # e.task
  OBVIOUS
<1>2. \A i \in DOMAIN tasks' :
        \/ i \in DOMAIN tasks /\ tasks'[i] = tasks[i]
        \/ i = Len(tasks) + 1 /\ tasks'[i] = e
  BY AppendEntry DEF TypeOK
<1>3. \A i, j \in DOMAIN tasks' : tasks'[i].task = tasks'[j].task => i = j
  BY <1>2 DEF Apart
<1>4. \A i \in DOMAIN tasks', th \in Threads : tasks'[i].task \notin Holds(th)'
  BY <1>1, <1>2 DEF Apart
<1>5. \A th, u \in Threads : th # u => Holds(th)' \intersect Holds(u)' = {}
  BY <1>1 DEF Apart
<1>6. \A t \in Tasks \ scheduled' :
        /\ \A i \in DOMAIN tasks' : tasks'[i].task # t
        /\ \A th \in Threads : t \notin Holds(th)'
  BY <1>1, <1>2 DEF Apart
<1>7. QED
  BY <1>3, <1>4, <1>5, <1>6 DEF Apart

LEMMA ApartSchedule ==
  ASSUME TypeOK, Apart, NEW t \in Tasks, NEW owner \in Owners, Schedule(t, owner), UNCHANGED run
  PROVE  Apart'
<1> DEFINE e == [task |-> t, form |-> FormOf(t), owner |-> owner]
<1>1. e \in Entries /\ e.task = t
  BY ConstantsAssumption DEF Entries, FormOf
<1>2. tasks' = Append(tasks, e) /\ t \in Tasks \ scheduled /\ scheduled' = scheduled \union {t}
  BY DEF Schedule
<1> HIDE DEF e
<1>3. \A i \in DOMAIN tasks : tasks[i].task # e.task
  BY <1>1, <1>2 DEF Apart
<1>4. \A th \in Threads : Holds(th)' \subseteq Holds(th) /\ e.task \notin Holds(th)'
  BY <1>1, <1>2 DEF Apart, Holds, run
<1>5. \A th \in Threads : cur'[th].form = "fiber" => wrapper'[th] # cur'[th].task
  BY DEF Apart, run
<1>6. QED
  BY <1>1, <1>2, <1>3, <1>4, <1>5, ApartAppended

(* A thread takes a task out of the queue.                                 *)
LEMMA ApartPick ==
  ASSUME TypeOK, Apart, NEW th \in Threads, Pick(th)
  PROVE  Apart'
<1>1. PICK i \in DOMAIN tasks : cur' = [cur EXCEPT ![th] = tasks[i]] /\ tasks' = RemoveAt(tasks, i)
  BY DEF Pick
<1>2. wrapper' = wrapper /\ scheduled' = scheduled
  BY DEF Pick
<1>3. /\ \A j \in DOMAIN tasks' : Shift(i, j) \in DOMAIN tasks \ {i} /\ tasks'[j] = tasks[Shift(i, j)]
      /\ \A j, k \in DOMAIN tasks' : Shift(i, j) = Shift(i, k) => j = k
      /\ tasks[i] \in Entries
  BY <1>1, RemoveEntry DEF TypeOK
<1>4. \A u \in Threads : cur'[u] = IF u = th THEN tasks[i] ELSE cur[u]
  BY <1>1 DEF TypeOK
<1>5. \A u \in Threads : \A x : x \in Holds(u)' => x \in Holds(u) \/ (u = th /\ x = tasks[i].task)
  BY <1>2, <1>4 DEF Holds
<1>6. \A j \in DOMAIN tasks' : tasks'[j].task # tasks[i].task
  BY <1>3 DEF Apart
<1>7. \A j, k \in DOMAIN tasks' : tasks'[j].task = tasks'[k].task => j = k
  BY <1>3 DEF Apart
<1>8. \A j \in DOMAIN tasks', u \in Threads : tasks'[j].task \notin Holds(u)'
  BY <1>3, <1>5, <1>6 DEF Apart
<1>9. \A u, v \in Threads : u # v => Holds(u)' \intersect Holds(v)' = {}
  <2> SUFFICES ASSUME NEW u \in Threads, NEW v \in Threads, u # v, NEW x, x \in Holds(u)', x \in Holds(v)'
               PROVE  FALSE
    OBVIOUS
  <2>1. (x \in Holds(u) \/ (u = th /\ x = tasks[i].task)) /\ (x \in Holds(v) \/ (v = th /\ x = tasks[i].task))
    BY <1>5
  <2>2. tasks[i].task \notin Holds(u) /\ tasks[i].task \notin Holds(v)
    BY DEF Apart
  <2>3. QED
    BY <2>1, <2>2 DEF Apart
<1>10. \A t \in Tasks \ scheduled' :
         /\ \A j \in DOMAIN tasks' : tasks'[j].task # t
         /\ \A u \in Threads : t \notin Holds(u)'
  BY <1>2, <1>3, <1>5 DEF Apart
<1>11. \A u \in Threads : cur'[u].form = "fiber" => wrapper'[u] # cur'[u].task
  <2>1. wrapper[th] # tasks[i].task
    BY <1>3, NoThreadIsATask DEF Apart, Holds, Entries
  <2>2. QED
    BY <1>2, <1>4, <2>1 DEF Apart
<1>12. QED
  BY <1>7, <1>8, <1>9, <1>10, <1>11 DEF Apart

(* A thread puts the fiber that it has run back into the queue, and keeps  *)
(* no hold of it.                                                          *)
LEMMA ApartRequeue ==
  ASSUME TypeOK, HandsOK, Apart, NEW th \in Threads, pc[th] \in Busy, NEW f \in Tasks, f = Fiber(th),
         Requeue(f), cur' = [cur EXCEPT ![th] = NoEntry], UNCHANGED scheduled,
         \A u \in Threads \ {th} : wrapper'[u] = wrapper[u],
         wrapper'[th] = IF cur[th].form = "fiber" THEN wrapper[th] ELSE Nobody
  PROVE  Apart'
<1> DEFINE e == [task |-> f, form |-> "fiber", owner |-> Nobody]
<1>1. e \in Entries /\ e.task = f /\ tasks' = Append(tasks, e) /\ f # Nobody
  BY NoThreadIsATask DEF Entries, Requeue
<1>2. \A u \in Threads : cur'[u] = IF u = th THEN NoEntry ELSE cur[u]
  BY DEF TypeOK
<1>3. \A u \in Threads : Holds(u)' \subseteq Holds(u)
  BY <1>2 DEF Holds, NoEntry
<1>4. \A u \in Threads : cur'[u].form = "fiber" => wrapper'[u] # cur'[u].task
  BY <1>2 DEF Apart, NoEntry
<1>5. f \in Holds(th)
  BY <1>1 DEF Holds, Fiber
<1>6. f \notin Holds(th)'
  BY <1>1, <1>2 DEF Holds, NoEntry, Fiber, Apart
<1>7. \A u \in Threads \ {th} : f \notin Holds(u)'
  BY <1>3, <1>5 DEF Apart
<1>8. \A i \in DOMAIN tasks : tasks[i].task # f
  BY <1>5 DEF Apart
<1>9. f \in scheduled
  BY <1>5 DEF Apart
<1> HIDE DEF e
<1>10. QED
  BY <1>1, <1>3, <1>4, <1>6, <1>7, <1>8, <1>9, ApartAppended

LEMMA StepApart ==
  ASSUME TypeOK, HandsOK, Apart, [Next]_vars, \A f \in Tasks : ~Wake(f)
  PROVE  Apart'
<1>1. CASE UNCHANGED <<tasks, cur, wrapper, scheduled>>
  BY <1>1, ApartHeldShrinks DEF Holds, Apart
<1>2. CASE RootSchedules
  BY <1>2, ApartSchedule DEF RootSchedules
<1>3. ASSUME NEW th \in Threads, RunStep(th)
      PROVE  Apart'
  <2>1. ASSUME UNCHANGED <<tasks, wrapper, scheduled>>,
               cur' = cur \/ cur' = [cur EXCEPT ![th] = NoEntry]
        PROVE  Apart'
    <3>1. \A u \in Threads : cur'[u] \in {cur[u], NoEntry}
      BY <2>1 DEF TypeOK
    <3>2. \A u \in Threads : Holds(u)' \subseteq Holds(u)
      BY <2>1, <3>1 DEF Holds, NoEntry
    <3>3. \A u \in Threads : cur'[u].form = "fiber" => wrapper'[u] # cur'[u].task
      BY <2>1, <3>1 DEF Apart, NoEntry
    <3>4. QED
      BY <2>1, <3>2, <3>3, ApartHeldShrinks
  <2>2. CASE \/ PickNone(th) \/ Idle(th) \/ AcceptFiber(th) \/ RejectFiber(th) \/ ResetWrapper(th)
             \/ Resume(th) \/ BodyYields(th) \/ BodyEnds(th) \/ Back(th) \/ Decrement(th)
    BY <1>1, <2>2 DEF PickNone, Idle, AcceptFiber, RejectFiber, ResetWrapper, Resume, BodyYields, BodyEnds,
                      Back, Decrement
  <2>3. CASE CreateWrapper(th)
    <3>1. /\ UNCHANGED <<tasks, cur, scheduled>> /\ cur[th].form = "func"
          /\ \A u \in Threads : wrapper'[u] = IF u = th THEN cur[th].task ELSE wrapper[u]
      BY <2>3 DEF CreateWrapper, TypeOK
    <3>2. \A u \in Threads : Holds(u)' \subseteq Holds(u)
      BY <3>1 DEF Holds
    <3>3. \A u \in Threads : cur'[u].form = "fiber" => wrapper'[u] # cur'[u].task
      BY <3>1 DEF Apart
    <3>4. QED
      BY <3>1, <3>2, <3>3, ApartHeldShrinks
  <2>4. CASE SettleHold(th) \/ SettleOver(th) \/ SettleWrong(th)
    BY <2>1, <2>4 DEF SettleHold, SettleOver, SettleWrong, Drop
  <2>5. CASE SettleFiber(th)
    <3>1. Fiber(th) \in Tasks
      BY <2>5, HandProperties DEF SettleFiber, Busy
    <3>2. CASE Requeue(Fiber(th))
      BY <2>5, <3>1, <3>2, ApartRequeue DEF SettleFiber, Drop, Busy
    <3>3. CASE tasks' = tasks
      BY <2>1, <2>5, <3>3 DEF SettleFiber, Drop
    <3>4. QED
      BY <2>5, <3>2, <3>3 DEF SettleFiber
  <2>6. CASE SettleReady(th)
    <3>1. Fiber(th) \in Tasks /\ Fiber(th) = wrapper[th] /\ Requeue(Fiber(th))
      BY <2>6, HandProperties DEF SettleReady, Busy, Fiber
    <3>2. \A u \in Threads : wrapper'[u] = IF u = th THEN Nobody ELSE wrapper[u]
      BY <2>6 DEF SettleReady, TypeOK
    <3>3. pc[th] \in Busy /\ cur[th].form = "func" /\ cur' = [cur EXCEPT ![th] = NoEntry]
          /\ UNCHANGED scheduled
      BY <2>6 DEF SettleReady, Drop, Busy
    <3>4. QED
      BY <3>1, <3>2, <3>3, ApartRequeue
  <2>7. CASE BodySchedules(th)
    BY <2>7, ApartSchedule DEF BodySchedules
  <2>8. QED
    BY <1>3, <2>2, <2>3, <2>4, <2>5, <2>6, <2>7, ApartPick DEF RunStep, Body
<1>4. QED
  BY <1>1, <1>2, <1>3 DEF Next, RootStep, Start, Stop, StopReturn, vars, run

LEMMA InitApart == Init => Apart
<1> SUFFICES ASSUME Init PROVE Apart
  OBVIOUS
<1>1. DOMAIN tasks = {} /\ \A th \in Threads : Holds(th) = {} /\ cur[th].form = "none"
  BY DEF Init, Holds, NoEntry
<1>2. QED
  BY <1>1 DEF Apart
-----------------------------------------------------------------------------
(* Nobody is in Run before Start and Stop let him in.                      *)
LEMMA StepNotYetInRun ==
  ASSUME TypeOK, NotYetInRun, [Next]_vars
  PROVE  NotYetInRun'
<1>1. CASE UNCHANGED <<pc, rootPc>>
  BY <1>1 DEF NotYetInRun
<1>2. CASE Start \/ Stop \/ StopReturn
  BY <1>2 DEF Start, Stop, StopReturn, NotYetInRun
<1>3. ASSUME NEW th \in Threads, RunStep(th)
      PROVE  NotYetInRun'
  <2>1. CASE rootPc' = "dead"
    BY <2>1 DEF NotYetInRun
  <2>2. CASE rootPc' # "dead"
    <3>1. rootPc' = rootPc /\ (pc' = pc \/ \E place : Goto(th, place))
      BY <1>3, <2>2
      DEF RunStep, Body, Pick, PickNone, Idle, AcceptFiber, RejectFiber, CreateWrapper, ResetWrapper,
          Resume, BodySchedules, BodyYields, BodyEnds, Back, SettleFiber, Decrement, SettleReady,
          SettleHold, SettleOver, SettleWrong, Abort, run
    <3>2. pc[th] # "off"
      BY <1>3
      DEF RunStep, Body, Pick, PickNone, Idle, AcceptFiber, RejectFiber, CreateWrapper, ResetWrapper,
          Resume, BodySchedules, BodyYields, BodyEnds, Back, SettleFiber, Decrement, SettleReady,
          SettleHold, SettleOver, SettleWrong
    <3>3. \A u \in Threads \ {th} : pc'[u] = pc[u]
      BY <3>1 DEF Goto, TypeOK
    <3>4. rootPc # "constructed" /\ (rootPc = "started" => th \in Workers)
      BY <3>2 DEF NotYetInRun
    <3>5. QED
      BY <3>1, <3>3, <3>4 DEF NotYetInRun
  <2>3. QED
    BY <2>1, <2>2
<1>4. QED
  BY <1>1, <1>2, <1>3 DEF Next, RootStep, RootSchedules, Wake, vars, run

(* A thread that the step is not about, and whose fibers it leaves alone.  *)
LEMMA OtherFits ==
  ASSUME TypeOK, HandsOK, NEW u \in Threads, FitsThread(u),
         pc'[u] = pc[u], cur'[u] = cur[u], wrapper'[u] = wrapper[u],
         \A f \in Tasks : f \in Holds(u) => state'[f] = state[f]
  PROVE  FitsThread(u)'
<1>1. /\ pc[u] = "dispatch" => cur[u].task \in Tasks /\ cur[u].task \in Holds(u)
      /\ pc[u] \in Busy => Fiber(u) \in Tasks /\ Fiber(u) \in Holds(u)
  BY HandProperties, NoThreadIsATask DEF Holds, Fiber
<1>2. wrapper[u] # Nobody => wrapper[u] \in Tasks /\ wrapper[u] \in Holds(u)
  BY DEF TypeOK, Holds
<1>3. Fiber(u)' = Fiber(u)
  BY DEF Fiber
<1>4. pc[u] = "dispatch" => state'[cur[u].task] = state[cur[u].task]
  BY <1>1
<1>5. pc[u] \in Busy => state'[Fiber(u)] = state[Fiber(u)]
  BY <1>1
<1>6. wrapper[u] # Nobody => state'[wrapper[u]] = state[wrapper[u]]
  BY <1>2
<1>7. QED
  BY <1>3, <1>4, <1>5, <1>6 DEF FitsThread, Busy

(* A thread moves on, and changes the state of a fiber that it holds: the  *)
(* queue and the other threads do not notice.                              *)
LEMMA FitsMove ==
  ASSUME TypeOK, HandsOK, Apart, StatesFit, NEW th \in Threads, NEW place, Goto(th, place),
         NEW f \in Tasks, f \in Holds(th), NEW next, state' = [state EXCEPT ![f] = next],
         \A u \in Threads \ {th} : cur'[u] = cur[u] /\ wrapper'[u] = wrapper[u],
         UNCHANGED <<tasks, scheduled, rootPc>>, FitsThread(th)'
  PROVE  StatesFit'
<1>1. \A g \in Tasks \ {f} : state'[g] = state[g]
  BY DEF TypeOK
<1>2. \A u \in Threads \ {th} : pc'[u] = pc[u] /\ f \notin Holds(u)
  BY DEF Goto, TypeOK, Apart
<1>3. \A u \in Threads \ {th} : FitsThread(u)'
  BY <1>1, <1>2, OtherFits DEF StatesFit
<1>4. \A i \in DOMAIN tasks : tasks[i].task \in Tasks /\ tasks[i].task # f
  <2>1. \A i \in DOMAIN tasks : tasks[i] \in Entries
    BY DEF TypeOK
  <2>2. QED
    BY <2>1 DEF Entries, Apart
<1>5. \A t \in Tasks \ scheduled : t # f
  BY DEF Apart
<1>6. QED
  BY <1>1, <1>3, <1>4, <1>5 DEF StatesFit

(* A thread moves on and leaves all fibers in their states.                *)
LEMMA FitsStay ==
  ASSUME TypeOK, HandsOK, StatesFit, NEW th \in Threads, NEW place, Goto(th, place),
         UNCHANGED <<state, scheduled, rootPc>>,
         \A u \in Threads \ {th} : cur'[u] = cur[u] /\ wrapper'[u] = wrapper[u],
         \A i \in DOMAIN tasks' : state[tasks'[i].task] \in {"unused", "ready"},
         FitsThread(th)'
  PROVE  StatesFit'
<1>1. \A u \in Threads \ {th} : pc'[u] = pc[u]
  BY DEF Goto, TypeOK
<1>2. \A u \in Threads \ {th} : FitsThread(u)'
  BY <1>1, OtherFits DEF StatesFit
<1>3. QED
  BY <1>2 DEF StatesFit

(* A task that had not been scheduled goes into the queue.                 *)
LEMMA FitsSchedule ==
  ASSUME TypeOK, HandsOK, StatesFit, NEW t \in Tasks, NEW owner \in Owners, Schedule(t, owner),
         UNCHANGED <<run, state, rootPc>>
  PROVE  StatesFit'
<1> DEFINE e == [task |-> t, form |-> FormOf(t), owner |-> owner]
<1>1. e \in Entries /\ e.task = t
  BY ConstantsAssumption DEF Entries, FormOf
<1>2. tasks' = Append(tasks, e) /\ t \notin scheduled /\ scheduled' = scheduled \union {t}
  BY DEF Schedule
<1> HIDE DEF e
<1>3. \A i \in DOMAIN tasks' : (i \in DOMAIN tasks /\ tasks'[i] = tasks[i]) \/ tasks'[i] = e
  BY <1>1, <1>2, AppendEntry DEF TypeOK
<1>4. state[t] = "unused"
  BY <1>2 DEF StatesFit
<1>5. \A i \in DOMAIN tasks' : state[tasks'[i].task] \in {"unused", "ready"}
  BY <1>1, <1>3, <1>4 DEF StatesFit
<1>6. \A u \in Threads : FitsThread(u)'
  BY OtherFits DEF StatesFit, run
<1>7. QED
  BY <1>2, <1>5, <1>6 DEF StatesFit

(* A fiber that is ready goes into the queue.                              *)
LEMMA FitsRequeue ==
  ASSUME TypeOK, StatesFit, NEW f \in Tasks, state[f] = "ready", Requeue(f)
  PROVE  \A i \in DOMAIN tasks' : state[tasks'[i].task] \in {"unused", "ready"}
<1> DEFINE e == [task |-> f, form |-> "fiber", owner |-> Nobody]
<1>1. e \in Entries /\ e.task = f /\ tasks' = Append(tasks, e)
  BY DEF Entries, Requeue
<1> HIDE DEF e
<1>2. \A i \in DOMAIN tasks' : (i \in DOMAIN tasks /\ tasks'[i] = tasks[i]) \/ tasks'[i] = e
  BY <1>1, AppendEntry DEF TypeOK
<1>3. QED
  BY <1>1, <1>2 DEF StatesFit

(* A thread that goes on with the Fiber it runs, in the Fiber's new state. *)
LEMMA FitsHand ==
  ASSUME TypeOK, HandsOK, Apart, StatesFit, NEW th \in Threads, pc[th] \in Busy,
         NEW place \in {"run", "back"}, Goto(th, place),
         NEW next, state' = [state EXCEPT ![Fiber(th)] = next],
         place = "run" => next = "running",
         place = "back" => next \in {"ready", "hold", "term", "except"},
         UNCHANGED <<cur, wrapper, tasks, scheduled, rootPc>>
  PROVE  StatesFit'
<1>1. Fiber(th) \in Tasks /\ Fiber(th) \in Holds(th) /\ Fiber(th)' = Fiber(th)
  BY HandProperties, NoThreadIsATask DEF Holds, Fiber
<1>2. pc'[th] = place /\ place \in {"run", "back"}
  BY DEF Goto, TypeOK
<1>3. state'[Fiber(th)] = next /\ \A g \in Tasks \ {Fiber(th)} : state'[g] = state[g]
  BY <1>1 DEF TypeOK
<1>4. cur[th].form = "fiber" /\ wrapper[th] # Nobody =>
        wrapper[th] \in Tasks \ {Fiber(th)} /\ state[wrapper[th]] # "running"
  BY DEF Apart, Fiber, TypeOK, StatesFit, FitsThread
<1>5. FitsThread(th)'
  <2>1. (wrapper[th] # Nobody /\ (pc[th] \notin Busy \/ cur[th].form = "fiber")
           => state[wrapper[th]] # "running")'
    BY <1>2, <1>3, <1>4 DEF Busy
  <2>2. QED
    BY <1>1, <1>2, <1>3, <2>1 DEF FitsThread
<1> DEFINE f == Fiber(th)
<1>6. f \in Tasks /\ f \in Holds(th) /\ state' = [state EXCEPT ![f] = next]
  BY <1>1
<1> HIDE DEF f
<1>7. QED
  BY <1>5, <1>6, FitsMove

LEMMA StepStatesFit ==
  ASSUME TypeOK, HandsOK, NotYetInRun, Apart, StatesFit, [Next]_vars, \A f \in Tasks : ~Wake(f)
  PROVE  StatesFit'
<1>1. CASE UNCHANGED <<tasks, pc, cur, wrapper, state, scheduled, rootPc>>
  BY <1>1 DEF StatesFit, FitsThread, Fiber
<1>2. CASE RootSchedules
  BY <1>2, FitsSchedule DEF RootSchedules, fibers
<1>3. CASE Start \/ Stop \/ StopReturn
  <2>1. UNCHANGED <<tasks, cur, wrapper, state, scheduled>> /\ rootPc' # "dead"
    BY <1>3 DEF Start, Stop, StopReturn, run, fibers
  <2>2. \A u \in Threads : pc'[u] = pc[u] \/ (pc[u] = "off" /\ pc'[u] = "pick")
    BY <1>3, ConstantsAssumption DEF Start, Stop, StopReturn, Goto, NotYetInRun, TypeOK, run, Threads
  <2>3. \A u \in Threads : FitsThread(u)'
    BY <2>1, <2>2 DEF StatesFit, FitsThread, Fiber, Busy
  <2>4. QED
    BY <2>1, <2>3 DEF StatesFit
<1>4. ASSUME NEW th \in Threads, RunStep(th)
      PROVE  StatesFit'
  <2>fit. FitsThread(th) /\ \A i \in DOMAIN tasks : state[tasks[i].task] \in {"unused", "ready"}
    BY DEF StatesFit
  <2>1. CASE Pick(th)
    <3>1. PICK i \in DOMAIN tasks : cur' = [cur EXCEPT ![th] = tasks[i]] /\ tasks' = RemoveAt(tasks, i)
      BY <2>1 DEF Pick
    <3>2. \A j \in DOMAIN tasks' : Shift(i, j) \in DOMAIN tasks /\ tasks'[j] = tasks[Shift(i, j)]
      BY <3>1, RemoveEntry DEF TypeOK
    <3>3. \A u \in Threads : cur'[u] = IF u = th THEN tasks[i] ELSE cur[u]
      BY <3>1 DEF TypeOK
    <3>4. /\ Goto(th, "dispatch") /\ pc[th] = "pick" /\ pc'[th] = "dispatch"
          /\ UNCHANGED <<wrapper, state, scheduled, rootPc>>
      BY <2>1 DEF Pick, Goto, TypeOK, fibers
    <3>5. FitsThread(th)'
      BY <2>fit, <3>3, <3>4 DEF FitsThread, Busy
    <3>6. \A j \in DOMAIN tasks' : state[tasks'[j].task] \in {"unused", "ready"}
      BY <2>fit, <3>2
    <3>7. QED
      BY <3>3, <3>4, <3>5, <3>6, FitsStay
  <2>2. CASE PickNone(th) \/ Idle(th) \/ Decrement(th)
    <3>1. PICK place \in {"pick", "idle", "exited"} : Goto(th, place)
      BY <2>2 DEF PickNone, Idle, Decrement
    <3>2. UNCHANGED <<tasks, cur, wrapper, state, scheduled, rootPc>> /\ pc[th] \notin Busy
      BY <2>2 DEF PickNone, Idle, Decrement, fibers, Busy
    <3>3. pc'[th] = place
      BY <3>1 DEF Goto, TypeOK
    <3>4. FitsThread(th)'
      BY <2>fit, <3>2, <3>3 DEF FitsThread, Busy
    <3>5. QED
      BY <2>fit, <3>1, <3>2, <3>4, FitsStay
  <2>3. CASE AcceptFiber(th)
    <3>1. /\ Goto(th, "resume") /\ UNCHANGED <<tasks, cur, wrapper, state, scheduled, rootPc>>
          /\ pc[th] = "dispatch" /\ cur[th].form = "fiber" /\ pc'[th] = "resume"
      BY <2>3 DEF AcceptFiber, Goto, TypeOK, fibers
    <3>2. FitsThread(th)'
      BY <2>fit, <3>1 DEF FitsThread, Busy, Fiber
    <3>3. QED
      BY <2>fit, <3>1, <3>2, FitsStay
  <2>4. CASE RejectFiber(th)
    BY <2>fit, <2>4 DEF RejectFiber, FitsThread
  <2>5. CASE CreateWrapper(th)
    <3>1. /\ Goto(th, "resume") /\ UNCHANGED <<tasks, cur, state, scheduled, rootPc>>
          /\ pc[th] = "dispatch" /\ cur[th].form = "func" /\ pc'[th] = "resume"
          /\ \A u \in Threads : wrapper'[u] = IF u = th THEN cur[th].task ELSE wrapper[u]
      BY <2>5 DEF CreateWrapper, Goto, TypeOK, fibers
    <3>2. FitsThread(th)'
      BY <2>fit, <3>1 DEF FitsThread, Busy, Fiber
    <3>3. QED
      BY <2>fit, <3>1, <3>2, FitsStay
  <2>6. CASE ResetWrapper(th)
    <3>1. /\ pc[th] = "dispatch" /\ cur[th].form = "func" /\ wrapper[th] # Nobody
          /\ UNCHANGED <<tasks, cur, wrapper, scheduled>>
      BY <2>6 DEF ResetWrapper
    <3>2. state[wrapper[th]] # "running"
      BY <2>fit, <3>1 DEF FitsThread, Busy
    <3>3. state' = [state EXCEPT ![wrapper[th]] = "unused"] /\ Goto(th, "resume") /\ UNCHANGED rootPc
      BY <2>6, <3>2 DEF ResetWrapper
    <3>4. wrapper[th] \in Tasks /\ wrapper[th] \in Holds(th)
      BY <3>1 DEF TypeOK, Holds
    <3>5. pc'[th] = "resume" /\ state'[wrapper[th]] = "unused"
      BY <3>3, <3>4 DEF Goto, TypeOK
    <3>6. FitsThread(th)'
      BY <3>1, <3>5 DEF FitsThread, Busy, Fiber
    <3> DEFINE f == wrapper[th]
    <3>7. f \in Tasks /\ f \in Holds(th) /\ state' = [state EXCEPT ![f] = "unused"]
      BY <3>3, <3>4
    <3> HIDE DEF f
    <3>8. QED
      BY <3>1, <3>3, <3>6, <3>7, FitsMove
  <2>7. CASE Resume(th)
    <3>1. state[Fiber(th)] \in {"unused", "ready"} /\ pc[th] = "resume"
      BY <2>fit, <2>7 DEF Resume, FitsThread
    <3>2. /\ state' = [state EXCEPT ![Fiber(th)] = "running"] /\ Goto(th, "run")
          /\ UNCHANGED <<cur, wrapper, tasks, scheduled, rootPc>>
      BY <2>7, <3>1 DEF Resume
    <3>3. pc[th] \in Busy
      BY <3>1 DEF Busy
    <3>4. QED
      BY <3>1, <3>2, <3>3, FitsHand
  <2>8. CASE BodySchedules(th)
    BY <2>8, FitsSchedule DEF BodySchedules, fibers
  <2>9. CASE BodyYields(th) \/ BodyEnds(th)
    <3>1. PICK next \in {"ready", "hold", "term", "except"} : state' = [state EXCEPT ![Fiber(th)] = next]
      BY <2>9 DEF BodyYields, BodyEnds
    <3>2. /\ Goto(th, "back") /\ pc[th] = "run" /\ pc[th] \in Busy
          /\ UNCHANGED <<cur, wrapper, tasks, scheduled, rootPc>>
      BY <2>9 DEF BodyYields, BodyEnds, Busy
    <3>3. QED
      BY <3>1, <3>2, FitsHand
  <2>10. CASE Back(th)
    <3>1. /\ Goto(th, "settle") /\ UNCHANGED <<tasks, cur, wrapper, state, scheduled, rootPc>>
          /\ pc[th] = "back" /\ pc'[th] = "settle"
      BY <2>10 DEF Back, Goto, TypeOK, fibers
    <3>2. FitsThread(th)'
      BY <2>fit, <3>1 DEF FitsThread, Busy, Fiber
    <3>3. QED
      BY <2>fit, <3>1, <3>2, FitsStay
  <2>11. CASE SettleFiber(th)
    <3>1. /\ Goto(th, "dec") /\ UNCHANGED <<wrapper, state, scheduled, rootPc>>
          /\ pc[th] = "settle" /\ pc[th] \in Busy /\ pc'[th] = "dec" /\ cur[th].form = "fiber"
          /\ \A u \in Threads : cur'[u] = IF u = th THEN NoEntry ELSE cur[u]
      BY <2>11 DEF SettleFiber, Goto, Drop, TypeOK, fibers, Busy
    <3>2. Fiber(th) \in Tasks
      BY <3>1, HandProperties
    <3>3. \A i \in DOMAIN tasks' : state[tasks'[i].task] \in {"unused", "ready"}
      <4>1. CASE state[Fiber(th)] = "ready"
        BY <2>11, <3>2, <4>1, FitsRequeue DEF SettleFiber
      <4>2. CASE state[Fiber(th)] # "ready"
        BY <2>fit, <2>11, <4>2 DEF SettleFiber
      <4>3. QED
        BY <4>1, <4>2
    <3>4. FitsThread(th)'
      BY <2>fit, <3>1 DEF FitsThread, Busy
    <3>5. QED
      BY <3>1, <3>3, <3>4, FitsStay
  <2>12. CASE SettleReady(th)
    <3>1. /\ Goto(th, "pick") /\ UNCHANGED <<state, scheduled, rootPc>>
          /\ pc[th] \in Busy /\ pc'[th] = "pick" /\ Fiber(th) = wrapper[th] /\ wrapper'[th] = Nobody
          /\ \A u \in Threads \ {th} : cur'[u] = cur[u] /\ wrapper'[u] = wrapper[u]
      BY <2>12 DEF SettleReady, Goto, Drop, TypeOK, fibers, Busy, Fiber
    <3>2. wrapper[th] \in Tasks
      BY <3>1, HandProperties
    <3>3. \A i \in DOMAIN tasks' : state[tasks'[i].task] \in {"unused", "ready"}
      BY <2>12, <3>2, FitsRequeue DEF SettleReady
    <3>4. FitsThread(th)'
      BY <3>1 DEF FitsThread, Busy
    <3>5. QED
      BY <3>1, <3>3, <3>4, FitsStay
  <2>13. CASE SettleHold(th)
    <3>1. /\ Goto(th, "pick") /\ UNCHANGED <<tasks, wrapper, state, scheduled, rootPc>>
          /\ pc'[th] = "pick" /\ state[wrapper[th]] = "hold"
          /\ \A u \in Threads \ {th} : cur'[u] = cur[u]
      BY <2>13 DEF SettleHold, Goto, Drop, TypeOK, fibers
    <3>2. FitsThread(th)'
      BY <3>1 DEF FitsThread, Busy
    <3>3. QED
      BY <2>fit, <3>1, <3>2, FitsStay
  <2>14. CASE SettleOver(th)
    <3>1. /\ Goto(th, "pick") /\ UNCHANGED <<tasks, wrapper, scheduled, rootPc>>
          /\ pc'[th] = "pick" /\ pc[th] \in Busy /\ Fiber(th) = wrapper[th]
          /\ \A u \in Threads \ {th} : cur'[u] = cur[u]
      BY <2>14 DEF SettleOver, Goto, Drop, TypeOK, Busy, Fiber
    <3> DEFINE f == wrapper[th]
    <3>2. f \in Tasks /\ f \in Holds(th) /\ state' = [state EXCEPT ![f] = "unused"]
      BY <2>14, <3>1, HandProperties, NoThreadIsATask DEF SettleOver, Holds
    <3>3. state'[wrapper[th]] = "unused"
      BY <3>2 DEF TypeOK
    <3>4. FitsThread(th)'
      BY <3>1, <3>3 DEF FitsThread, Busy
    <3> HIDE DEF f
    <3>5. QED
      BY <3>1, <3>2, <3>4, FitsMove
  <2>15. CASE SettleWrong(th)
    BY <2>fit, <2>15 DEF SettleWrong, FitsThread
  <2>16. QED
    BY <1>4, <2>1, <2>2, <2>3, <2>4, <2>5, <2>6, <2>7, <2>8, <2>9, <2>10, <2>11, <2>12, <2>13, <2>14,
       <2>15 DEF RunStep, Body
<1>5. QED
  BY <1>1, <1>2, <1>3, <1>4 DEF Next, RootStep, vars, run, fibers

LEMMA InitSchedulerInv == Init => SchedulerInv
<1> SUFFICES ASSUME Init PROVE SchedulerInv
  OBVIOUS
<1>1. TypeOK /\ HandsOK /\ Apart
  BY InitTypeOK, InitApart
<1>2. NotYetInRun
  BY DEF Init, NotYetInRun
<1>3. StatesFit
  BY DEF Init, StatesFit, FitsThread, NoEntry, Busy
<1>4. QED
  BY <1>1, <1>2, <1>3 DEF SchedulerInv

(* A wake is never forgotten.                                              *)
LEMMA WakesStayZero ==
  ASSUME SchedulerInv, [Next]_vars, wakes' = 0
  PROVE  wakes = 0 /\ \A f \in Tasks : ~Wake(f)
<1>1. ASSUME NEW f \in Tasks, Wake(f)
      PROVE  FALSE
  BY <1>1, ConstantsAssumption DEF Wake, SchedulerInv, TypeOK
<1>2. ASSUME NEW th \in Threads, RunStep(th)
      PROVE  wakes' = wakes
  BY <1>2
  DEF RunStep, Body, Pick, PickNone, Idle, AcceptFiber, RejectFiber, CreateWrapper, ResetWrapper,
      Resume, BodySchedules, BodyYields, BodyEnds, Back, SettleFiber, Decrement, SettleReady,
      SettleHold, SettleOver, SettleWrong, bounds
<1>3. wakes' = wakes
  BY <1>1, <1>2 DEF Next, RootStep, RootSchedules, Start, Stop, StopReturn, vars, bounds
<1>4. QED
  BY <1>1, <1>3

LEMMA StepSchedulerInv ==
  ASSUME SchedulerInv, [Next]_vars
  PROVE  SchedulerInv'
<1>1. TypeOK' /\ HandsOK' /\ NotYetInRun'
  BY StepTypeOK, StepHandsOK, StepNotYetInRun DEF SchedulerInv
<1>2. wakes' = 0 => Apart' /\ StatesFit'
  BY WakesStayZero, StepApart, StepStatesFit DEF SchedulerInv
<1>3. QED
  BY <1>1, <1>2 DEF SchedulerInv

LEMMA SchedulerInvHolds == Spec => []SchedulerInv
BY InitSchedulerInv, StepSchedulerInv, PTL DEF Spec

(* No fiber is resumed, reset or found in a state that the code asserts    *)
(* against, unless an event from outside has scheduled a fiber.            *)
THEOREM WrongFiberNeedsWakeHolds == Spec => []WrongFiberNeedsWake
<1>1. SchedulerInv => WrongFiberNeedsWake
  BY ConstantsAssumption DEF SchedulerInv, TypeOK, StatesFit, WrongFiberNeedsWake
<1>2. QED
  BY <1>1, SchedulerInvHolds, PTL

(* As long as nothing but the scheduler queues fibers, a coroutine can be  *)
(* resumed from one place at most, however its threads interleave.         *)
THEOREM CoroutineInOnePlaceHolds == Spec => []CoroutineInOnePlace
<1>1. SchedulerInv => CoroutineInOnePlace
  <2> SUFFICES ASSUME TypeOK, Apart, NEW t \in Tasks
               PROVE  Cardinality(Places(t)) <= 1
    BY DEF SchedulerInv, CoroutineInOnePlace
  <2>1. t # Nobody
    BY NoThreadIsATask
  <2>2. ASSUME NEW p \in Places(t)
        PROVE  \/ \E i \in DOMAIN tasks : p = <<"queue", i>> /\ tasks[i].task = t
               \/ \E th \in Threads : p = <<"thread", th>> /\ cur[th].task = t /\ t \in Holds(th)
               \/ \E th \in Threads : /\ p = <<"wrapper", th>> /\ t \in Holds(th)
                                      /\ wrapper[th] = t /\ cur[th].task # t
    BY <2>1, <2>2 DEF Places, Holds
  <2>3. \A p, q \in Places(t) : p = q
    <3> SUFFICES ASSUME NEW p \in Places(t), NEW q \in Places(t) PROVE p = q
      OBVIOUS
    <3>1. CASE \E i \in DOMAIN tasks : p = <<"queue", i>> /\ tasks[i].task = t
      BY <2>2, <3>1 DEF Apart
    <3>2. CASE \E th \in Threads : p = <<"thread", th>> /\ cur[th].task = t /\ t \in Holds(th)
      BY <2>2, <3>2 DEF Apart
    <3>3. CASE \E th \in Threads : /\ p = <<"wrapper", th>> /\ t \in Holds(th)
                                  /\ wrapper[th] = t /\ cur[th].task # t
      BY <2>2, <3>3 DEF Apart
    <3>4. QED
      BY <2>2, <3>1, <3>2, <3>3
  <2>4. CASE Places(t) = {}
    BY <2>4, FS_EmptySet
  <2>5. ASSUME NEW p \in Places(t)
        PROVE  Cardinality(Places(t)) <= 1
    <3>1. Places(t) = {p}
      BY <2>3, <2>5
    <3>2. Cardinality({p}) = 1
      BY FS_Singleton
    <3>3. QED
      BY <3>1, <3>2
  <2>6. QED
    BY <2>4, <2>5
<1>2. QED
  BY <1>1, SchedulerInvHolds, PTL
-----------------------------------------------------------------------------
(* Functions only.                                                         *)

LEMMA ThreadsFinite == IsFiniteSet(Threads)
<1>1. IsFiniteSet({Root}) /\ IsFiniteSet({})
  BY FS_EmptySet, FS_Singleton
<1>2. QED
  BY <1>1, FS_Union, ConstantsAssumption DEF Threads

InCount(place) == place \in {"dispatch", "resume", "run", "back"}

(* The count of the threads that have a function, as one of them moves.    *)
LEMMA CountedMoves ==
  ASSUME TypeOK, NEW th \in Threads, NEW place, Goto(th, place)
  PROVE  /\ Cardinality(Counted) \in Nat
         /\ ~InCount(pc[th]) /\ InCount(place) => Cardinality(Counted') = Cardinality(Counted) + 1
         /\ InCount(pc[th]) /\ ~InCount(place) => Cardinality(Counted') = Cardinality(Counted) - 1
         /\ (InCount(pc[th]) <=> InCount(place)) => Cardinality(Counted') = Cardinality(Counted)
<1>1. IsFiniteSet(Counted)
  <2>1. IsFiniteSet(Threads)
    BY ThreadsFinite
  <2>2. Counted \subseteq Threads
    BY DEF Counted
  <2>3. QED
    BY <2>1, <2>2, FS_Subset
<1>2. \A u \in Threads : pc'[u] = IF u = th THEN place ELSE pc[u]
  BY DEF Goto, TypeOK
<1>3. CASE ~InCount(pc[th]) /\ InCount(place)
  <2>1. Counted' = Counted \union {th} /\ th \notin Counted
    BY <1>2, <1>3 DEF Counted, InCount
  <2>2. QED
    BY <1>1, <1>3, <2>1, FS_AddElement, FS_CardinalityType
<1>4. CASE InCount(pc[th]) /\ ~InCount(place)
  <2>1. Counted' = Counted \ {th} /\ th \in Counted
    BY <1>2, <1>4 DEF Counted, InCount
  <2>2. QED
    BY <1>1, <1>4, <2>1, FS_RemoveElement, FS_CardinalityType
<1>5. CASE InCount(pc[th]) <=> InCount(place)
  <2>1. Counted' = Counted
    BY <1>2, <1>5 DEF Counted, InCount
  <2>2. QED
    BY <1>1, <1>5, <2>1, FS_CardinalityType
<1>6. QED
  BY <1>3, <1>4, <1>5


(* A thread that the step is not about, and whose fibers it leaves alone.  *)
LEMMA OtherThread ==
  ASSUME TypeOK, HandsOK, NEW u \in Threads, ThreadWithFunction(u),
         pc'[u] = pc[u], cur'[u] = cur[u], wrapper'[u] = wrapper[u],
         idleOver \subseteq idleOver', scheduled \subseteq scheduled',
         cur[u].task \in finished' => cur[u].task \in finished,
         \A f \in Tasks : f \in Holds(u) => body'[f] = body[f]
  PROVE  ThreadWithFunction(u)'
<1>1. pc[u] = "dispatch" => cur[u].task \in Tasks /\ cur[u].task \in Holds(u)
  BY HandProperties, NoThreadIsATask DEF Holds
<1>2. pc[u] \in {"resume", "run"} => wrapper[u] \in Tasks /\ wrapper[u] \in Holds(u)
  <2>1. pc[u] \in {"resume", "run"} => cur[u].form = "func" /\ wrapper[u] # Nobody
    BY DEF ThreadWithFunction, HandsOK, Busy
  <2>2. QED
    BY <2>1 DEF TypeOK, Holds
<1>3. QED
  BY <1>1, <1>2 DEF ThreadWithFunction, FunctionFresh

(* The facts that one step of the functions starts from.                   *)
FunctionsNow ==
  TypeOK /\ HandsOK /\ NotYetInRun /\ Apart /\ StatesFit /\ Functions /\ FunctionsSoFar

(* A new function is queued by somebody while the scheduler is not over.   *)
LEMMA FunctionsSchedule ==
  ASSUME FunctionsNow, FunctionsSoFar', NEW t \in Tasks, NEW owner \in Owners, Schedule(t, owner),
         UNCHANGED <<active, stopping, rootPc, run, fibers, finished>>, idleOver = {}
  PROVE  Functions'
<1> DEFINE e == [task |-> t, form |-> "func", owner |-> owner]
<1> USE DEF FunctionsNow, Functions
<1>1. /\ tasks' = Append(tasks, e) /\ e \in Entries /\ e.task = t /\ e.form = "func"
      /\ scheduled' = scheduled \union {t} /\ t \notin scheduled
  BY ConstantsAssumption DEF Schedule, FormOf, FunctionsSoFar, Entries
<1> HIDE DEF e
<1>2. /\ \A i \in DOMAIN tasks : i \in DOMAIN tasks' /\ tasks'[i] = tasks[i] /\ tasks[i] \in Entries
      /\ \A i \in DOMAIN tasks' : (i \in DOMAIN tasks /\ tasks'[i] = tasks[i]) \/ tasks'[i] = e
      /\ \E i \in DOMAIN tasks' : tasks'[i] = e
  BY <1>1, AppendEntry DEF TypeOK
<1>3. t \notin finished /\ body[t] = t
  BY <1>1 DEF QueueOfFunctions
<1>4. QueueOfFunctions'
  BY <1>1, <1>2, <1>3 DEF QueueOfFunctions, FunctionFresh, fibers
<1>5. \A th \in Threads : ThreadWithFunction(th)'
  BY <1>1, OtherThread DEF run, fibers
<1>6. EveryTaskSomewhere'
  BY <1>1, <1>2 DEF EveryTaskSomewhere, run
<1>7. ActiveIsExact' /\ IdleOverMeansStopped'
  BY DEF ActiveIsExact, Counted, IdleOverMeansStopped, run
<1>8. QED
  BY <1>4, <1>5, <1>6, <1>7 DEF NoneSuspended, StopCalled, fibers

LEMMA StepFunctionsRoot ==
  ASSUME FunctionsNow, FunctionsSoFar', RootStep
  PROVE  Functions'
<1> USE DEF FunctionsNow, Functions
<1>1. CASE RootSchedules
  <2>1. idleOver = {}
    BY <1>1 DEF RootSchedules, StopCalled, IdleOverMeansStopped
  <2>2. QED
    BY <1>1, <2>1, FunctionsSchedule DEF RootSchedules
<1>2. CASE Start \/ Stop \/ StopReturn
  <2>1. UNCHANGED <<tasks, active, idleOver, cur, wrapper, state, body, scheduled, finished>>
    BY <1>2 DEF Start, Stop, StopReturn, run, fibers
  <2>2. \A u \in Threads : pc'[u] = pc[u] \/ (pc[u] = "off" /\ pc'[u] = "pick")
    BY <1>2, ConstantsAssumption DEF Start, Stop, StopReturn, Goto, NotYetInRun, TypeOK, run, Threads
  <2>3. Counted' = Counted
    BY <2>2 DEF Counted
  <2>4. \A th \in Threads : ThreadWithFunction(th)'
    BY <2>1, <2>2 DEF ThreadWithFunction, FunctionFresh, Busy
  <2>5. EveryTaskSomewhere'
    <3>1. \A u \in Threads : pc[u] \in {"dispatch", "resume", "run"} => pc'[u] = pc[u]
      BY <2>2
    <3>2. QED
      BY <2>1, <3>1 DEF EveryTaskSomewhere
  <2>6. StopCalled' /\ (stopping => stopping')
    BY <1>2 DEF Start, Stop, StopReturn, StopCalled, TypeOK
  <2>7. QueueOfFunctions' /\ IdleOverMeansStopped' /\ NoneSuspended'
    BY <2>1, <2>6 DEF IdleOverMeansStopped, QueueOfFunctions, FunctionFresh, NoneSuspended
  <2>8. QED
    BY <2>1, <2>3, <2>4, <2>5, <2>6, <2>7 DEF ActiveIsExact
<1>3. QED
  BY <1>1, <1>2 DEF RootStep

LEMMA StepFunctionsRun ==
  ASSUME FunctionsNow, FunctionsSoFar', NEW th \in Threads, RunStep(th)
  PROVE  Functions'
<1> USE DEF FunctionsNow, Functions
<1> DEFINE t == cur[th].task
<1>1. ThreadWithFunction(th) /\ FitsThread(th)
  BY DEF StatesFit
<1>2. /\ \A i \in DOMAIN tasks : tasks[i].task # t \/ t = Nobody
      /\ \A u \in Threads \ {th} : cur[u].task = t => t = Nobody
  BY DEF Apart, Holds
<1>3. ASSUME \E u \in Threads : pc[u] \in {"dispatch", "resume", "run"}
      PROVE  idleOver = {}
  BY <1>3 DEF ThreadWithFunction, FunctionFresh, IdleOverMeansStopped
<1>4. pc[th] \in Busy => cur[th].form = "func" /\ Fiber(th) = wrapper[th] /\ wrapper[th] \in Tasks
                         /\ wrapper[th] \in Holds(th)
  <2>1. pc[th] \in Busy => cur[th].form = "func" /\ Fiber(th) = wrapper[th]
    BY <1>1 DEF ThreadWithFunction, Fiber
  <2>2. QED
    BY <2>1, HandProperties, NoThreadIsATask DEF Holds
<1>5. pc[th] \in {"dispatch", "resume", "run"} => t \in Tasks /\ t # Nobody
  BY HandProperties, NoThreadIsATask DEF Busy
<1>6. CASE Pick(th)
  <2>1. PICK i \in DOMAIN tasks : cur' = [cur EXCEPT ![th] = tasks[i]] /\ tasks' = RemoveAt(tasks, i)
    BY <1>6 DEF Pick
  <2>2. /\ pc[th] = "pick" /\ Goto(th, "dispatch") /\ active' = active + 1
        /\ UNCHANGED <<stopping, rootPc, idleOver, wrapper, state, body, scheduled, finished>>
    BY <1>6 DEF Pick, fibers
  <2>3. /\ \A j \in DOMAIN tasks' : Shift(i, j) \in DOMAIN tasks \ {i} /\ tasks'[j] = tasks[Shift(i, j)]
        /\ \A k \in DOMAIN tasks \ {i} : \E j \in DOMAIN tasks' : Shift(i, j) = k
        /\ tasks[i] \in Entries
    BY <2>1, RemoveEntry DEF TypeOK
  <2>4. /\ \A u \in Threads : pc'[u] = IF u = th THEN "dispatch" ELSE pc[u]
        /\ \A u \in Threads : cur'[u] = IF u = th THEN tasks[i] ELSE cur[u]
    BY <2>1, <2>2 DEF Goto, TypeOK
  <2>5. tasks[i].form = "func" /\ FunctionFresh(tasks[i].task)
    BY DEF QueueOfFunctions
  <2>6. QueueOfFunctions'
    BY <2>2, <2>3 DEF QueueOfFunctions, FunctionFresh
  <2>7. ThreadWithFunction(th)'
    BY <2>2, <2>4, <2>5 DEF ThreadWithFunction, FunctionFresh
  <2>8. \A u \in Threads \ {th} : ThreadWithFunction(u)'
    BY <2>2, <2>4, OtherThread
  <2>9. EveryTaskSomewhere'
    <3> SUFFICES ASSUME NEW x \in scheduled \ finished
                 PROVE  \/ \E j \in DOMAIN tasks' : tasks'[j].task = x
                        \/ \E u \in Threads : pc'[u] \in {"dispatch", "resume", "run"} /\ cur'[u].task = x
      BY <2>2 DEF EveryTaskSomewhere
    <3>1. CASE \E k \in DOMAIN tasks : tasks[k].task = x
      BY <2>3, <2>4, <3>1
    <3>2. CASE \E u \in Threads : pc[u] \in {"dispatch", "resume", "run"} /\ cur[u].task = x
      BY <2>2, <2>4, <3>2
    <3>3. QED
      BY <3>1, <3>2 DEF EveryTaskSomewhere
  <2>10. ActiveIsExact'
    BY <2>2, CountedMoves DEF ActiveIsExact, InCount
  <2>11. QED
    BY <2>2, <2>4, <2>6, <2>7, <2>8, <2>9, <2>10 DEF IdleOverMeansStopped, StopCalled, NoneSuspended
<1>7. ASSUME NEW place, Goto(th, place), UNCHANGED <<tasks, cur, wrapper, fibers, scheduled, finished, active>>,
             idleOver \subseteq idleOver', ~InCount(pc[th]), ~InCount(place)
      PROVE  /\ NoneSuspended' /\ QueueOfFunctions' /\ EveryTaskSomewhere' /\ ActiveIsExact'
             /\ \A u \in Threads \ {th} : ThreadWithFunction(u)'
             /\ pc'[th] = place
  <2>1. \A u \in Threads : pc'[u] = IF u = th THEN place ELSE pc[u]
    BY <1>7 DEF Goto, TypeOK
  <2>2. \A u \in Threads \ {th} : ThreadWithFunction(u)'
    BY <1>7, <2>1, OtherThread DEF fibers
  <2>3. EveryTaskSomewhere'
    <3>1. \A u \in Threads : pc[u] \in {"dispatch", "resume", "run"} => pc'[u] = pc[u]
      BY <1>7, <2>1 DEF InCount
    <3>2. QED
      BY <1>7, <3>1 DEF EveryTaskSomewhere
  <2>4. ActiveIsExact'
    BY <1>7, CountedMoves DEF ActiveIsExact
  <2>5. QED
    BY <1>7, <2>1, <2>2, <2>3, <2>4 DEF QueueOfFunctions, FunctionFresh, NoneSuspended, fibers
<1>8. CASE PickNone(th)
  <2> DEFINE place == IF th \in idleOver THEN "exited" ELSE "idle"
  <2>1. /\ pc[th] = "pick" /\ Goto(th, place)
        /\ UNCHANGED <<tasks, cur, wrapper, fibers, scheduled, finished, active, stopping, rootPc, idleOver>>
    BY <1>8 DEF PickNone
  <2>2. ~InCount(place) /\ ~InCount(pc[th])
    BY <2>1 DEF InCount
  <2> HIDE DEF place
  <2>3. /\ NoneSuspended' /\ QueueOfFunctions' /\ EveryTaskSomewhere' /\ ActiveIsExact'
        /\ \A u \in Threads \ {th} : ThreadWithFunction(u)'
        /\ pc'[th] = place
    BY <1>7, <2>1, <2>2
  <2>4. ThreadWithFunction(th)'
    BY <2>1, <2>3 DEF ThreadWithFunction, Busy, place
  <2>5. QED
    BY <2>1, <2>3, <2>4 DEF IdleOverMeansStopped, StopCalled
<1>9. CASE Idle(th)
  <2>1. /\ pc[th] = "idle" /\ Goto(th, "pick")
        /\ idleOver' = IF Stopped THEN idleOver \union {th} ELSE idleOver
        /\ UNCHANGED <<tasks, cur, wrapper, fibers, scheduled, finished, active, stopping, rootPc>>
    BY <1>9 DEF Idle
  <2>2. /\ NoneSuspended' /\ QueueOfFunctions' /\ EveryTaskSomewhere' /\ ActiveIsExact'
        /\ \A u \in Threads \ {th} : ThreadWithFunction(u)'
        /\ pc'[th] = "pick"
    BY <1>7, <2>1 DEF InCount
  <2>3. ThreadWithFunction(th)'
    BY <2>1, <2>2 DEF ThreadWithFunction, Busy
  <2>4. IdleOverMeansStopped'
    <3>1. CASE Stopped
      <4>1. active = Cardinality(Counted) /\ active = 0
        BY <3>1 DEF ActiveIsExact, Stopped
      <4>2. IsFiniteSet(Counted)
        BY ThreadsFinite, FS_Subset DEF Counted
      <4>3. Counted = {}
        BY <4>1, <4>2, FS_EmptySet
      <4>4. \A u \in Threads : pc[u] \notin {"dispatch", "resume", "run"}
        BY <4>3 DEF Counted
      <4>5. DOMAIN tasks = {}
        BY <3>1 DEF Stopped
      <4>6. scheduled \subseteq finished
        BY <4>4, <4>5 DEF EveryTaskSomewhere
      <4>7. QED
        BY <2>1, <3>1, <4>6 DEF IdleOverMeansStopped, Stopped
    <3>2. CASE ~Stopped
      BY <2>1, <3>2 DEF IdleOverMeansStopped
    <3>3. QED
      BY <3>1, <3>2
  <2>5. QED
    BY <2>1, <2>2, <2>3, <2>4 DEF StopCalled
<1>10. CASE CreateWrapper(th)
  <2>1. /\ pc[th] = "dispatch" /\ Goto(th, "resume") /\ wrapper' = [wrapper EXCEPT ![th] = t]
        /\ UNCHANGED <<tasks, active, stopping, rootPc, idleOver, cur, state, body, scheduled, finished>>
    BY <1>10 DEF CreateWrapper, fibers
  <2>2. /\ \A u \in Threads : wrapper'[u] = IF u = th THEN t ELSE wrapper[u]
        /\ \A u \in Threads : pc'[u] = IF u = th THEN "resume" ELSE pc[u]
    BY <2>1 DEF Goto, TypeOK
  <2>3. ThreadWithFunction(th)'
    BY <1>1, <2>1, <2>2 DEF ThreadWithFunction, FunctionFresh, Busy
  <2>4. \A u \in Threads \ {th} : ThreadWithFunction(u)'
    BY <2>1, <2>2, OtherThread
  <2>5. EveryTaskSomewhere'
    BY <2>1, <2>2 DEF EveryTaskSomewhere
  <2>6. ActiveIsExact'
    BY <2>1, CountedMoves DEF ActiveIsExact, InCount
  <2>7. QED
    BY <2>1, <2>3, <2>4, <2>5, <2>6
       DEF QueueOfFunctions, FunctionFresh, IdleOverMeansStopped, StopCalled, NoneSuspended
(* A thread gives its wrapper another coroutine, or none.                  *)
<1>11. ASSUME wrapper[th] \in Tasks, wrapper[th] \in Holds(th), UNCHANGED <<tasks, scheduled, finished>>,
              NEW b, body' = [body EXCEPT ![wrapper[th]] = b], state' = [state EXCEPT ![wrapper[th]] = "unused"]
       PROVE  /\ QueueOfFunctions' /\ NoneSuspended' /\ body'[wrapper[th]] = b
              /\ \A u \in Threads \ {th} : \A f \in Tasks : f \in Holds(u) => body'[f] = body[f]
  <2>1. \A f \in Tasks : body'[f] = IF f = wrapper[th] THEN b ELSE body[f]
    BY <1>11 DEF TypeOK
  <2>2. \A f \in Tasks : state'[f] = IF f = wrapper[th] THEN "unused" ELSE state[f]
    BY <1>11 DEF TypeOK
  <2>3. \A u \in Threads \ {th} : wrapper[th] \notin Holds(u)
    BY <1>11 DEF Apart
  <2>4. /\ \A i \in DOMAIN tasks : tasks[i].task \in Tasks /\ tasks[i].task # wrapper[th]
        /\ wrapper[th] \notin Tasks \ scheduled
    <3>1. \A i \in DOMAIN tasks : tasks[i] \in Entries
      BY DEF TypeOK
    <3>2. QED
      BY <1>11, <3>1 DEF Apart, Entries
  <2>5. QueueOfFunctions'
    BY <1>11, <2>1, <2>4 DEF QueueOfFunctions, FunctionFresh
  <2>6. QED
    BY <1>11, <2>1, <2>2, <2>3, <2>5 DEF NoneSuspended
<1>12. CASE ResetWrapper(th)
  <2>1. /\ pc[th] = "dispatch" /\ wrapper[th] # Nobody
        /\ UNCHANGED <<tasks, active, stopping, idleOver, cur, wrapper, scheduled, finished>>
    BY <1>12 DEF ResetWrapper
  <2>2. wrapper[th] \in Tasks /\ wrapper[th] \in Holds(th)
    BY <2>1 DEF TypeOK, Holds
  <2>3. state[wrapper[th]] # "running"
    BY <1>1, <2>1 DEF FitsThread, Busy
  <2>4. /\ state' = [state EXCEPT ![wrapper[th]] = "unused"] /\ body' = [body EXCEPT ![wrapper[th]] = t]
        /\ Goto(th, "resume") /\ UNCHANGED rootPc
    BY <1>12, <2>3 DEF ResetWrapper
  <2>5. \A u \in Threads : pc'[u] = IF u = th THEN "resume" ELSE pc[u]
    BY <2>4 DEF Goto, TypeOK
  <2>6. /\ QueueOfFunctions' /\ NoneSuspended' /\ body'[wrapper[th]] = t
        /\ \A u \in Threads \ {th} : \A f \in Tasks : f \in Holds(u) => body'[f] = body[f]
    BY <1>11, <2>1, <2>2, <2>4
  <2>7. ThreadWithFunction(th)'
    BY <1>1, <2>1, <2>5, <2>6 DEF ThreadWithFunction, FunctionFresh, Busy
  <2>8. \A u \in Threads \ {th} : ThreadWithFunction(u)'
    BY <2>1, <2>5, <2>6, OtherThread
  <2>9. EveryTaskSomewhere'
    BY <2>1, <2>5 DEF EveryTaskSomewhere
  <2>10. ActiveIsExact'
    BY <2>1, <2>4, CountedMoves DEF ActiveIsExact, InCount
  <2>11. QED
    BY <2>1, <2>4, <2>6, <2>7, <2>8, <2>9, <2>10 DEF IdleOverMeansStopped, StopCalled
<1>13. CASE SettleOver(th)
  <2>1. /\ pc[th] = "settle" /\ pc[th] \in Busy /\ Goto(th, "pick") /\ cur' = [cur EXCEPT ![th] = NoEntry]
        /\ state' = [state EXCEPT ![wrapper[th]] = "unused"] /\ body' = [body EXCEPT ![wrapper[th]] = Nobody]
        /\ UNCHANGED <<tasks, active, stopping, rootPc, idleOver, wrapper, scheduled, finished>>
    BY <1>13 DEF SettleOver, Drop, Busy
  <2>2. /\ \A u \in Threads : cur'[u] = IF u = th THEN NoEntry ELSE cur[u]
        /\ \A u \in Threads : pc'[u] = IF u = th THEN "pick" ELSE pc[u]
    BY <2>1 DEF Goto, TypeOK
  <2>3. /\ QueueOfFunctions' /\ NoneSuspended'
        /\ \A u \in Threads \ {th} : \A f \in Tasks : f \in Holds(u) => body'[f] = body[f]
    BY <1>4, <1>11, <2>1
  <2>4. ThreadWithFunction(th)'
    BY <2>2 DEF ThreadWithFunction, Busy
  <2>5. \A u \in Threads \ {th} : ThreadWithFunction(u)'
    BY <2>1, <2>2, <2>3, OtherThread
  <2>6. EveryTaskSomewhere'
    <3>1. \A u \in Threads : pc[u] \in {"dispatch", "resume", "run"} => pc'[u] = pc[u] /\ cur'[u] = cur[u]
      BY <2>1, <2>2
    <3>2. QED
      BY <2>1, <3>1 DEF EveryTaskSomewhere
  <2>7. ActiveIsExact'
    BY <2>1, CountedMoves DEF ActiveIsExact, InCount
  <2>8. QED
    BY <2>1, <2>3, <2>4, <2>5, <2>6, <2>7 DEF IdleOverMeansStopped, StopCalled
<1>14. CASE Resume(th)
  <2>1. /\ pc[th] = "resume" /\ pc[th] \in Busy /\ state[Fiber(th)] \in {"unused", "ready"}
        /\ UNCHANGED <<tasks, active, stopping, idleOver, cur, wrapper, body, scheduled, finished>>
    BY <1>1, <1>14 DEF Resume, FitsThread, Busy
  <2>2. state' = [state EXCEPT ![wrapper[th]] = "running"] /\ Goto(th, "run") /\ UNCHANGED rootPc
    BY <1>4, <1>14, <2>1 DEF Resume
  <2>3. /\ \A u \in Threads : pc'[u] = IF u = th THEN "run" ELSE pc[u]
        /\ \A f \in Tasks : state'[f] = IF f = wrapper[th] THEN "running" ELSE state[f]
    BY <2>2 DEF Goto, TypeOK
  <2>4. ThreadWithFunction(th)'
    BY <1>1, <2>1, <2>3 DEF ThreadWithFunction, Busy
  <2>5. \A u \in Threads \ {th} : ThreadWithFunction(u)'
    BY <2>1, <2>3, OtherThread
  <2>6. EveryTaskSomewhere'
    BY <2>1, <2>3 DEF EveryTaskSomewhere
  <2>7. ActiveIsExact'
    BY <2>1, <2>2, CountedMoves DEF ActiveIsExact, InCount
  <2>8. QED
    BY <2>1, <2>2, <2>3, <2>4, <2>5, <2>6, <2>7
       DEF QueueOfFunctions, FunctionFresh, IdleOverMeansStopped, StopCalled, NoneSuspended
<1>15. CASE BodySchedules(th)
  <2>1. idleOver = {}
    BY <1>3, <1>15 DEF BodySchedules
  <2>2. QED
    BY <1>15, <2>1, FunctionsSchedule DEF BodySchedules
<1>16. CASE BodyEnds(th)
  <2>1. /\ pc[th] = "run" /\ pc[th] \in Busy /\ Goto(th, "back")
        /\ UNCHANGED <<tasks, active, stopping, rootPc, idleOver, cur, wrapper, body, scheduled>>
    BY <1>16 DEF BodyEnds, Busy
  <2>2. PICK next \in {"term", "except"} : state' = [state EXCEPT ![wrapper[th]] = next]
    BY <1>4, <1>16, <2>1 DEF BodyEnds
  <2>3. body[wrapper[th]] = t /\ t \in scheduled \ finished
    BY <1>1, <2>1 DEF ThreadWithFunction
  <2>4. finished' = finished \union {t} /\ t \in Tasks /\ t # Nobody
    BY <1>4, <1>5, <1>16, <2>1, <2>3 DEF BodyEnds
  <2>5. /\ \A u \in Threads : pc'[u] = IF u = th THEN "back" ELSE pc[u]
        /\ \A f \in Tasks : state'[f] = IF f = wrapper[th] THEN next ELSE state[f]
    BY <2>1, <2>2 DEF Goto, TypeOK
  <2>6. idleOver = {}
    BY <1>3, <2>1
  <2>7. ThreadWithFunction(th)'
    BY <1>1, <2>1, <2>5 DEF ThreadWithFunction, Busy
  <2>8. \A u \in Threads \ {th} : ThreadWithFunction(u)'
    BY <1>2, <2>1, <2>4, <2>5, OtherThread
  <2>9. QueueOfFunctions'
    BY <1>2, <2>1, <2>3, <2>4 DEF QueueOfFunctions, FunctionFresh
  <2>10. EveryTaskSomewhere'
    <3>1. \A u \in Threads : pc[u] \in {"dispatch", "resume", "run"} =>
            (pc'[u] = pc[u] \/ (u = th /\ cur[u].task = t))
      BY <2>5
    <3>2. QED
      BY <2>1, <2>4, <3>1 DEF EveryTaskSomewhere
  <2>11. ActiveIsExact'
    BY <2>1, CountedMoves DEF ActiveIsExact, InCount
  <2>12. QED
    BY <2>1, <2>5, <2>6, <2>7, <2>8, <2>9, <2>10, <2>11 DEF IdleOverMeansStopped, StopCalled, NoneSuspended
<1>17. CASE Back(th)
  <2>1. /\ pc[th] = "back" /\ Goto(th, "settle") /\ active' = active - 1
        /\ UNCHANGED <<tasks, stopping, rootPc, idleOver, cur, wrapper, state, body, scheduled, finished>>
    BY <1>17 DEF Back, fibers
  <2>2. \A u \in Threads : pc'[u] = IF u = th THEN "settle" ELSE pc[u]
    BY <2>1 DEF Goto, TypeOK
  <2>3. ThreadWithFunction(th)'
    BY <1>1, <2>1, <2>2 DEF ThreadWithFunction, Busy
  <2>4. \A u \in Threads \ {th} : ThreadWithFunction(u)'
    BY <2>1, <2>2, OtherThread
  <2>5. EveryTaskSomewhere'
    BY <2>1, <2>2 DEF EveryTaskSomewhere
  <2>6. ActiveIsExact'
    BY <2>1, CountedMoves DEF ActiveIsExact, InCount
  <2>7. QED
    BY <2>1, <2>3, <2>4, <2>5, <2>6
       DEF QueueOfFunctions, FunctionFresh, IdleOverMeansStopped, StopCalled, NoneSuspended
<1>18. ~AcceptFiber(th) /\ ~RejectFiber(th) /\ ~SettleFiber(th) /\ ~Decrement(th)
  BY <1>1 DEF AcceptFiber, RejectFiber, SettleFiber, Decrement, ThreadWithFunction, Busy
<1>19. ~SettleReady(th) /\ ~SettleHold(th)
  BY <1>4 DEF SettleReady, SettleHold, NoneSuspended, Busy
<1>20. ~SettleWrong(th) /\ ~BodyYields(th)
  BY <1>1 DEF SettleWrong, FitsThread, BodyYields, FunctionsSoFar
<1>21. QED
  BY <1>6, <1>8, <1>9, <1>10, <1>12, <1>13, <1>14, <1>15, <1>16, <1>17, <1>18, <1>19, <1>20 DEF RunStep, Body

LEMMA StepFunctionsInv ==
  ASSUME FunctionsInv, [Next]_vars
  PROVE  FunctionsInv'
<1>1. SchedulerInv'
  BY StepSchedulerInv DEF FunctionsInv
<1>2. ASSUME FunctionsSoFar'
      PROVE  Functions'
  <2>1. wakes = 0 /\ \A f \in Tasks : ~Wake(f)
    BY <1>2, WakesStayZero DEF FunctionsSoFar, FunctionsInv
  <2>2. yields = 0 /\ scheduled \subseteq scheduled'
    <3>1. yields \in Nat
      BY ConstantsAssumption DEF FunctionsInv, SchedulerInv, TypeOK
    <3>2. yields' = 0
      BY <1>2 DEF FunctionsSoFar
    <3>3. ASSUME NEW th \in Threads, RunStep(th)
          PROVE  yields = 0 /\ scheduled \subseteq scheduled'
      <4>1. ~BodyYields(th)
        BY <3>1, <3>2 DEF BodyYields
      <4>2. QED
        BY <3>2, <3>3, <4>1
        DEF RunStep, Body, Pick, PickNone, Idle, AcceptFiber, RejectFiber, CreateWrapper, ResetWrapper,
            Resume, BodySchedules, Schedule, BodyEnds, Back, SettleFiber, Decrement, SettleReady,
            SettleHold, SettleOver, SettleWrong, bounds
    <3>4. QED
      BY <2>1, <3>2, <3>3 DEF Next, RootStep, RootSchedules, Schedule, Start, Stop, StopReturn, vars, bounds
  <2>3. FunctionsSoFar
    BY <1>2, <2>1, <2>2 DEF FunctionsSoFar
  <2>4. FunctionsNow
    BY <2>1, <2>3 DEF FunctionsNow, FunctionsInv, SchedulerInv
  <2>5. CASE UNCHANGED vars
    BY <2>4, <2>5 DEF FunctionsNow, Functions, NoneSuspended, QueueOfFunctions, FunctionFresh,
                      ThreadWithFunction, EveryTaskSomewhere, StopCalled, ActiveIsExact, FunctionsSoFar,
                      Counted, IdleOverMeansStopped, vars, run, fibers, bounds
  <2>6. QED
    BY <1>2, <2>1, <2>4, <2>5, StepFunctionsRoot, StepFunctionsRun DEF Next
<1>3. QED
  BY <1>1, <1>2 DEF FunctionsInv

LEMMA InitFunctionsInv == Init => FunctionsInv
<1> SUFFICES ASSUME Init PROVE FunctionsInv
  OBVIOUS
<1>1. DOMAIN tasks = {} /\ Counted = {} /\ Cardinality({}) = 0
  BY FS_EmptySet DEF Init, Counted
<1>2. NoneSuspended /\ QueueOfFunctions /\ EveryTaskSomewhere /\ StopCalled
  BY <1>1 DEF Init, NoneSuspended, QueueOfFunctions, EveryTaskSomewhere, StopCalled
<1>3. \A th \in Threads : ThreadWithFunction(th)
  BY DEF Init, ThreadWithFunction, Busy
<1>4. ActiveIsExact /\ IdleOverMeansStopped
  BY <1>1 DEF Init, ActiveIsExact, IdleOverMeansStopped
<1>5. QED
  BY <1>2, <1>3, <1>4, InitSchedulerInv DEF FunctionsInv, Functions

(* Entries and hands hold different objects in fitting states unless an    *)
(* event schedules a fiber, and functions alone are each in one place,     *)
(* counted exactly, until they are done.                                   *)
THEOREM FunctionsInvHolds == Spec => []FunctionsInv
BY InitFunctionsInv, StepFunctionsInv, PTL DEF Spec

(* Without fibers and yields active_thread_count_ is the number of threads *)
(* that have a function, for any threads and tasks.                        *)
THEOREM ActiveIsExactHolds == Spec => []ActiveIsExact
<1>1. FunctionsInv => ActiveIsExact
  BY DEF FunctionsInv, Functions, ActiveIsExact
<1>2. QED
  BY <1>1, FunctionsInvHolds, PTL

(* Then an idle fiber ends only when the scheduler has been told to stop   *)
(* and every function that was scheduled has come to its end.              *)
THEOREM IdleOverMeansStoppedHolds == Spec => []IdleOverMeansStopped
<1>1. FunctionsInv => IdleOverMeansStopped
  BY DEF FunctionsInv, Functions, IdleOverMeansStopped
<1>2. QED
  BY <1>1, FunctionsInvHolds, PTL

(* So when Stop returns no function is left behind, if there was a thread. *)
THEOREM NoTaskStrandedHolds == Spec => []NoTaskStranded
<1>1. FunctionsInv => NoTaskStranded
  BY DEF FunctionsInv, Functions, NoTaskStranded, ThreadWithFunction, IdleOverMeansStopped
<1>2. QED
  BY <1>1, FunctionsInvHolds, PTL
=============================================================================
