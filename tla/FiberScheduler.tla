--------------------------- MODULE FiberScheduler ---------------------------
(***************************************************************************)
(* Scheduler (srcs/fiber/scheduler.cpp): worker threads, and on request    *)
(* the thread that built the scheduler, take functions and fibers from one *)
(* queue, run each as a coroutine until it yields or ends, and leave when  *)
(* the scheduler is stopped and its work is done.                          *)
(*                                                                         *)
(* A task is a function or a fiber that is scheduled once.  A coroutine    *)
(* lives in a Fiber object, which is named after a task: after the task    *)
(* that is this fiber, or after the function that it was created to wrap.  *)
(* A wrapper fiber is given to the next function by Reset, and then holds  *)
(* another coroutine under the old name.  A queue entry holds a function   *)
(* or a Fiber: a function that yields goes back into the queue as the      *)
(* Fiber it runs in.  Fiber, ScheduleTask and the header of Scheduler are  *)
(* not in the repository and are modelled from their use; what a body does *)
(* between two switches is any of the steps of Body.                       *)
(***************************************************************************)
EXTENDS Integers, Sequences, FiniteSets, SequencesExt

CONSTANTS
  Tasks,       \* what may be scheduled; also the names of the Fiber objects
  FiberTasks,  \* those of them that are scheduled as fibers
  Workers,     \* the threads of thread_pool_
  Root,        \* the thread that constructs and stops the scheduler
  UseRoot,     \* use_root_thread_
  Nobody,      \* c_NonOwner; also: no task, no Fiber
  Owners,      \* the owners that tasks are scheduled with
  MaxYields,   \* bound: how often bodies yield
  MaxWakes     \* bound: how often a yielding coroutine is scheduled from outside

Threads == Workers \union (IF UseRoot THEN {Root} ELSE {})

ASSUME ConstantsAssumption ==
  /\ FiberTasks \subseteq Tasks
  /\ IsFiniteSet(Workers) /\ Root \notin Workers
  /\ UseRoot \in BOOLEAN
  /\ Nobody \notin Tasks \union Workers \union {Root}
  /\ Owners \subseteq Threads \union {Nobody}
  /\ MaxYields \in Nat /\ MaxWakes \in Nat

VARIABLES
  tasks,     \* tasks_
  active,    \* active_thread_count_
  stopping,  \* stopping_
  rootPc,    \* where the root thread is outside of Run
  pc,        \* where each thread is in Run
  idleOver,  \* threads whose idle fiber has reached TERM
  cur,       \* the entry each thread is executing
  wrapper,   \* func_wrapper_fiber, or Nobody when it is null
  state,     \* the state of each Fiber object
  body,      \* the task whose coroutine is in it, or Nobody after Reset(nullptr)
  scheduled, \* tasks that have been scheduled
  finished,  \* tasks that have returned or thrown
  asserts,   \* assert() is compiled in: either build, for good
  yields,    \* yields so far
  wakes      \* wakes so far

fibers == <<state, body>>
bounds == <<yields, wakes, asserts>>
run    == <<pc, idleOver, cur, wrapper>>
vars   == <<tasks, active, stopping, rootPc, run, fibers, scheduled, finished, bounds>>

Entries == [task : Tasks, form : {"func", "fiber"}, owner : Threads \union {Nobody}]
NoEntry == [task |-> Nobody, form |-> "none", owner |-> Nobody]

FormOf(t) == IF t \in FiberTasks THEN "fiber" ELSE "func"

StoppedIgnoresQueue == stopping /\ active = 0

StoppedIgnoresActive == stopping /\ tasks = << >>

(* Stopped(), under the lock.                                              *)
Stopped == stopping /\ tasks = << >> /\ active = 0

Goto(th, place) == pc' = [pc EXCEPT ![th] = place]

(* The Fiber that thread th has to do with.                                *)
Fiber(th) == IF cur[th].form = "fiber" THEN cur[th].task ELSE wrapper[th]

(* A failed assertion ends every thread of the process.                    *)
Abort == rootPc' = "dead" /\ pc' = [th \in Threads |-> "dead"]

Init ==
  /\ tasks = << >> /\ active = 0 /\ stopping = FALSE
  /\ rootPc = "constructed"
  /\ pc = [th \in Threads |-> "off"]
  /\ idleOver = {}
  /\ cur = [th \in Threads |-> NoEntry]
  /\ wrapper = [th \in Threads |-> Nobody]
  /\ state = [f \in Tasks |-> "unused"] /\ body = [f \in Tasks |-> f]
  /\ scheduled = {} /\ finished = {}
  /\ asserts \in BOOLEAN
  /\ yields = 0 /\ wakes = 0
-----------------------------------------------------------------------------
(* The root thread: Start, Stop, and Schedule from outside the pool.       *)

(* Schedule(t) with an owner, for a task that has not been scheduled.  The *)
(* id of a pool thread is known once Start has made the thread.            *)
Schedule(t, owner) ==
  /\ t \notin scheduled
  /\ owner \in Workers => pc[owner] # "off"
  /\ tasks' = Append(tasks, [task |-> t, form |-> FormOf(t), owner |-> owner])
  /\ scheduled' = scheduled \union {t}

RootSchedules ==
  /\ rootPc \in {"constructed", "started"}
  /\ \E t \in Tasks, owner \in Owners : Schedule(t, owner)
  /\ UNCHANGED <<active, stopping, rootPc, run, fibers, finished, bounds>>

(* The pool is made once; a second Start finds it non-empty and returns.   *)
Start ==
  /\ rootPc = "constructed"
  /\ pc' = [th \in Threads |-> IF th \in Workers THEN "pick" ELSE pc[th]]
  /\ rootPc' = "started"
  /\ UNCHANGED <<tasks, active, stopping, idleOver, cur, wrapper, fibers, scheduled, finished, bounds>>

(* The flag is set; with use_root_thread_ the root thread then enters Run, *)
(* and when it is back it joins the threads of the pool, if there are any. *)
Stop ==
  /\ rootPc \in {"constructed", "started"}
  /\ stopping' = TRUE
  /\ IF UseRoot THEN Goto(Root, "pick") ELSE UNCHANGED pc
  /\ rootPc' = "join"
  /\ UNCHANGED <<tasks, active, idleOver, cur, wrapper, fibers, scheduled, finished, bounds>>

StopReturn ==
  /\ rootPc = "join"
  /\ \A th \in Threads : pc[th] \in {"exited", "off"}
  /\ rootPc' = "stopped"
  /\ UNCHANGED <<tasks, active, stopping, run, fibers, scheduled, finished, bounds>>
-----------------------------------------------------------------------------
(* Run, by thread th.                                                      *)

Takes(th, i) ==
  /\ tasks[i].owner \in {Nobody, th}
  /\ \A j \in 1 .. i - 1 : tasks[j].owner \notin {Nobody, th}

(* The first task that this thread may run, under the lock.                *)
Pick(th) ==
  /\ pc[th] = "pick"
  /\ \E i \in DOMAIN tasks :
       /\ Takes(th, i)
       /\ cur' = [cur EXCEPT ![th] = tasks[i]]
       /\ tasks' = RemoveAt(tasks, i)
  /\ active' = active + 1
  /\ Goto(th, "dispatch")
  /\ UNCHANGED <<stopping, rootPc, idleOver, wrapper, fibers, scheduled, finished, bounds>>

(* There is none: the idle fiber is resumed, or is over and so is Run.     *)
PickNone(th) ==
  /\ pc[th] = "pick"
  /\ \A i \in DOMAIN tasks : ~Takes(th, i)
  /\ Goto(th, IF th \in idleOver THEN "exited" ELSE "idle")
  /\ UNCHANGED <<tasks, active, stopping, rootPc, idleOver, cur, wrapper, fibers, scheduled, finished, bounds>>

(* Idle tests Stopped() once per resume, and ends or yields.               *)
Idle(th) ==
  /\ pc[th] = "idle"
  /\ idleOver' = IF Stopped THEN idleOver \union {th} ELSE idleOver
  /\ Goto(th, "pick")
  /\ UNCHANGED <<tasks, active, stopping, rootPc, cur, wrapper, fibers, scheduled, finished, bounds>>

(* The state of a fiber is read, and it is resumed a step later if it can  *)
(* be, whatever other threads have done to it in between.                  *)
AcceptFiber(th) ==
  /\ pc[th] = "dispatch"
  /\ cur[th].form = "fiber"
  /\ state[cur[th].task] \in {"unused", "ready"}
  /\ Goto(th, "resume")
  /\ UNCHANGED <<tasks, active, stopping, rootPc, idleOver, cur, wrapper, fibers, scheduled, finished, bounds>>

(* Any other state is an error: assert(false), or on to the second switch. *)
RejectFiber(th) ==
  /\ pc[th] = "dispatch"
  /\ cur[th].form = "fiber"
  /\ state[cur[th].task] \notin {"unused", "ready"}
  /\ \/ asserts /\ Abort
     \/ ~asserts /\ Goto(th, "settle") /\ UNCHANGED rootPc
  /\ UNCHANGED <<tasks, active, stopping, idleOver, cur, wrapper, fibers, scheduled, finished, bounds>>

(* A function goes into a new Fiber ...                                    *)
CreateWrapper(th) ==
  /\ pc[th] = "dispatch"
  /\ cur[th].form = "func"
  /\ wrapper[th] = Nobody
  /\ wrapper' = [wrapper EXCEPT ![th] = cur[th].task]
  /\ Goto(th, "resume")
  /\ UNCHANGED <<tasks, active, stopping, rootPc, idleOver, cur, fibers, scheduled, finished, bounds>>

(* ... or into the one the thread has kept, which loses whatever coroutine *)
(* is still suspended in it, but not its place in the queue.  A coroutine  *)
(* cannot be taken off the stack it is running on.                         *)
ResetWrapper(th) ==
  /\ pc[th] = "dispatch"
  /\ cur[th].form = "func"
  /\ wrapper[th] # Nobody
  /\ IF state[wrapper[th]] = "running" THEN Abort /\ UNCHANGED fibers
     ELSE /\ state' = [state EXCEPT ![wrapper[th]] = "unused"]
          /\ body' = [body EXCEPT ![wrapper[th]] = cur[th].task]
          /\ Goto(th, "resume")
          /\ UNCHANGED rootPc
  /\ UNCHANGED <<tasks, active, stopping, idleOver, cur, wrapper, scheduled, finished, bounds>>

(* A fiber that has come to run elsewhere, or to its end, cannot be        *)
(* resumed.                                                                *)
Resume(th) ==
  /\ pc[th] = "resume"
  /\ IF state[Fiber(th)] \in {"unused", "ready", "hold"}
     THEN /\ state' = [state EXCEPT ![Fiber(th)] = "running"]
          /\ Goto(th, "run")
          /\ UNCHANGED rootPc
     ELSE Abort /\ UNCHANGED state
  /\ UNCHANGED <<tasks, active, stopping, idleOver, cur, wrapper, body, scheduled, finished, bounds>>

(* The body schedules another task ...                                     *)
BodySchedules(th) ==
  /\ pc[th] = "run"
  /\ body[Fiber(th)] # Nobody
  /\ \E t \in Tasks, owner \in Owners : Schedule(t, owner)
  /\ UNCHANGED <<active, stopping, rootPc, run, fibers, finished, bounds>>

(* ... or yields ...                                                       *)
BodyYields(th) ==
  /\ pc[th] = "run"
  /\ body[Fiber(th)] # Nobody
  /\ yields < MaxYields
  /\ yields' = yields + 1
  /\ \E next \in {"ready", "hold"} : state' = [state EXCEPT ![Fiber(th)] = next]
  /\ Goto(th, "back")
  /\ UNCHANGED <<tasks, active, stopping, rootPc, idleOver, cur, wrapper, body, scheduled, finished,
                 wakes, asserts>>

(* ... or returns, or throws, as does an empty function.                   *)
BodyEnds(th) ==
  /\ pc[th] = "run"
  /\ \E next \in {"term", "except"} : state' = [state EXCEPT ![Fiber(th)] = next]
  /\ finished' = finished \union ({body[Fiber(th)]} \ {Nobody})
  /\ Goto(th, "back")
  /\ UNCHANGED <<tasks, active, stopping, rootPc, idleOver, cur, wrapper, body, scheduled,
                 bounds>>

BackKeepsCount(th) ==
  /\ pc[th] = "back"
  /\ Goto(th, "settle")
  /\ UNCHANGED <<tasks, active, stopping, rootPc, idleOver, cur, wrapper, fibers, scheduled, finished, bounds>>

(* Back in Run, the thread no longer counts as active.                     *)
Back(th) ==
  /\ pc[th] = "back"
  /\ active' = active - 1
  /\ Goto(th, "settle")
  /\ UNCHANGED <<tasks, stopping, rootPc, idleOver, cur, wrapper, fibers, scheduled, finished, bounds>>

Requeue(f) == tasks' = Append(tasks, [task |-> f, form |-> "fiber", owner |-> Nobody])

Drop(th) == cur' = [cur EXCEPT ![th] = NoEntry]

(* The second switch for a fiber, by the state its Fiber has now.  One     *)
(* that yielded goes back into the queue, without its owner; then          *)
(* active_thread_count_ goes down once more.                               *)
SettleFiber(th) ==
  /\ pc[th] = "settle"
  /\ cur[th].form = "fiber"
  /\ state[Fiber(th)] \in {"ready", "hold", "term", "except"}
  /\ IF state[Fiber(th)] = "ready" THEN Requeue(Fiber(th)) ELSE UNCHANGED tasks
  /\ Drop(th)
  /\ Goto(th, "dec")
  /\ UNCHANGED <<active, stopping, rootPc, idleOver, wrapper, fibers, scheduled, finished, bounds>>

Decrement(th) ==
  /\ pc[th] = "dec"
  /\ active' = active - 1
  /\ Goto(th, "pick")
  /\ UNCHANGED <<tasks, stopping, rootPc, idleOver, cur, wrapper, fibers, scheduled, finished, bounds>>

SettleReadyResetFirst(th) ==
  /\ pc[th] = "settle"
  /\ cur[th].form = "func"
  /\ state[wrapper[th]] = "ready"
  /\ wrapper' = [wrapper EXCEPT ![th] = Nobody]
  /\ Requeue(wrapper'[th])
  /\ Drop(th)
  /\ Goto(th, "pick")
  /\ UNCHANGED <<active, stopping, rootPc, idleOver, fibers, scheduled, finished, bounds>>

SettleReadyKeepsWrapper(th) ==
  /\ pc[th] = "settle"
  /\ cur[th].form = "func"
  /\ state[wrapper[th]] = "ready"
  /\ Requeue(wrapper[th])
  /\ Drop(th)
  /\ Goto(th, "pick")
  /\ UNCHANGED <<active, stopping, rootPc, idleOver, wrapper, fibers, scheduled, finished, bounds>>

(* The switch for a function that yielded: its wrapper becomes a task of   *)
(* its own, or keeps the suspended coroutine.                              *)
SettleReady(th) ==
  /\ pc[th] = "settle"
  /\ cur[th].form = "func"
  /\ state[wrapper[th]] = "ready"
  /\ Requeue(wrapper[th])
  /\ wrapper' = [wrapper EXCEPT ![th] = Nobody]
  /\ Drop(th)
  /\ Goto(th, "pick")
  /\ UNCHANGED <<active, stopping, rootPc, idleOver, fibers, scheduled, finished, bounds>>

SettleHoldSchedules(th) ==
  /\ pc[th] = "settle"
  /\ cur[th].form = "func"
  /\ state[wrapper[th]] = "hold"
  /\ Requeue(wrapper[th])
  /\ Drop(th)
  /\ Goto(th, "pick")
  /\ UNCHANGED <<active, stopping, rootPc, idleOver, wrapper, fibers, scheduled, finished, bounds>>

SettleHold(th) ==
  /\ pc[th] = "settle"
  /\ cur[th].form = "func"
  /\ state[wrapper[th]] = "hold"
  /\ Drop(th)
  /\ Goto(th, "pick")
  /\ UNCHANGED <<tasks, active, stopping, rootPc, idleOver, wrapper, fibers, scheduled, finished, bounds>>

(* After a function that has ended the wrapper is emptied and kept.        *)
SettleOver(th) ==
  /\ pc[th] = "settle"
  /\ cur[th].form = "func"
  /\ state[wrapper[th]] \in {"term", "except"}
  /\ state' = [state EXCEPT ![wrapper[th]] = "unused"]
  /\ body' = [body EXCEPT ![wrapper[th]] = Nobody]
  /\ Drop(th)
  /\ Goto(th, "pick")
  /\ UNCHANGED <<tasks, active, stopping, rootPc, idleOver, wrapper, scheduled, finished, bounds>>

(* Somebody else has resumed the Fiber in the meantime, or reset it; then  *)
(* nothing is counted down.                                                *)
SettleWrong(th) ==
  /\ pc[th] = "settle"
  /\ state[Fiber(th)] \in {"running", "unused"}
  /\ \/ asserts /\ Abort /\ UNCHANGED cur
     \/ ~asserts /\ Drop(th) /\ Goto(th, "pick") /\ UNCHANGED rootPc
  /\ UNCHANGED <<tasks, active, stopping, idleOver, wrapper, fibers, scheduled, finished, bounds>>
-----------------------------------------------------------------------------
(* An event that a coroutine waits for schedules its Fiber, perhaps before *)
(* the coroutine has yielded.                                              *)
Wake(f) ==
  /\ state[f] \in {"running", "hold"}
  /\ rootPc # "dead"
  /\ wakes < MaxWakes
  /\ wakes' = wakes + 1
  /\ Requeue(f)
  /\ UNCHANGED <<active, stopping, rootPc, run, fibers, scheduled, finished, yields, asserts>>

RootStep == RootSchedules \/ Start \/ Stop \/ StopReturn

Body(th) == BodySchedules(th) \/ BodyYields(th) \/ BodyEnds(th)

RunStep(th) ==
  \/ Pick(th)
  \/ PickNone(th)
  \/ Idle(th)
  \/ AcceptFiber(th)
  \/ RejectFiber(th)
  \/ CreateWrapper(th)
  \/ ResetWrapper(th)
  \/ Resume(th)
  \/ Body(th)
  \/ Back(th)
  \/ SettleFiber(th)
  \/ Decrement(th)
  \/ SettleReady(th)
  \/ SettleHold(th)
  \/ SettleOver(th)
  \/ SettleWrong(th)

Next ==
  \/ RootStep
  \/ \E th \in Threads : RunStep(th)
  \/ \E f \in Tasks : Wake(f)

(* Threads are scheduled, bodies end, and Stop goes on once it was called. *)
Fairness ==
  /\ WF_vars(StopReturn)
  /\ \A th \in Threads : WF_vars(RunStep(th))

Spec     == Init /\ [][Next]_vars
FairSpec == Spec /\ Fairness
-----------------------------------------------------------------------------
TypeOK ==
  /\ tasks \in Seq(Entries)
  /\ active \in Int
  /\ stopping \in BOOLEAN
  /\ rootPc \in {"constructed", "started", "join", "stopped", "dead"}
  /\ pc \in [Threads -> {"off", "pick", "idle", "dispatch", "resume", "run", "back", "settle",
                         "dec", "exited", "dead"}]
  /\ idleOver \subseteq Threads
  /\ cur \in [Threads -> Entries \union {NoEntry}]
  /\ wrapper \in [Threads -> Tasks \union {Nobody}]
  /\ state \in [Tasks -> {"unused", "ready", "running", "hold", "term", "except"}]
  /\ body \in [Tasks -> Tasks \union {Nobody}]
  /\ scheduled \subseteq Tasks /\ finished \subseteq Tasks
  /\ asserts \in BOOLEAN /\ yields \in 0 .. MaxYields /\ wakes \in 0 .. MaxWakes

(* Where t, a function or a Fiber, can be resumed from: the queue, a       *)
(* thread that has it in hand, a wrapper fiber between two functions.      *)
Places(t) ==
  {<<"queue", i>> : i \in {j \in DOMAIN tasks : tasks[j].task = t}}
    \union {<<"thread", th>> : th \in {u \in Threads : cur[u].task = t}}
    \union {<<"wrapper", th>> : th \in {u \in Threads : wrapper[u] = t /\ cur[u].task # t}}

(* As long as nothing but the scheduler puts fibers into the queue, a      *)
(* coroutine is in one place: no two threads can come to run it, and no    *)
(* function is put into a fiber that waits in the queue to be resumed.     *)
CoroutineInOnePlace == wakes = 0 => \A t \in Tasks : Cardinality(Places(t)) <= 1

(* ... and none of the assertions on the state of a fiber fails, nor is a  *)
(* fiber resumed or reset that is running or over: whoever finds a fiber   *)
(* in a wrong state owes it to an event that scheduled it from outside.    *)
WrongFiberNeedsWake == rootPc = "dead" => wakes > 0

Counted == {th \in Threads : pc[th] \in {"dispatch", "resume", "run", "back"}}

(* So far nothing but functions that run to their end.                     *)
FunctionsSoFar == yields = 0 /\ wakes = 0 /\ scheduled \intersect FiberTasks = {}

(* Without fibers and yields active_thread_count_ counts the threads that  *)
(* are between taking a function and coming back from it.                  *)
ActiveIsExact == FunctionsSoFar => active = Cardinality(Counted)

(* An idle fiber ends only when the scheduler is told to stop and no task  *)
(* is left that is queued or running.                                      *)
IdleOverMeansStopped ==
  FunctionsSoFar /\ idleOver # {} => stopping /\ scheduled \subseteq finished

(* When Stop returns, every task that was scheduled has been executed to   *)
(* its end, if there was a thread to do so at all.                         *)
NoTaskStranded ==
  FunctionsSoFar /\ rootPc = "stopped" /\ (\E th \in Threads : pc[th] = "exited")
    => scheduled \subseteq finished

(* Stop returns once the bodies of the tasks have.                         *)
StopReturns == rootPc = "join" ~> rootPc = "stopped"

(* It does so as long as there is nothing but functions.                   *)
FunctionsStop == rootPc = "join" ~> (rootPc = "stopped" \/ ~FunctionsSoFar)
-----------------------------------------------------------------------------
(* The inductive invariant behind CoroutineInOnePlace: what a thread holds *)
(* is neither in the queue nor with another thread.                        *)
Holds(th) == {cur[th].task, wrapper[th]} \ {Nobody}

Apart ==
  /\ \A i, j \in DOMAIN tasks : tasks[i].task = tasks[j].task => i = j
  /\ \A i \in DOMAIN tasks, th \in Threads : tasks[i].task \notin Holds(th)
  /\ \A th, u \in Threads : th # u => Holds(th) \intersect Holds(u) = {}
  /\ \A t \in Tasks \ scheduled :
       /\ \A i \in DOMAIN tasks : tasks[i].task # t
       /\ \A th \in Threads : t \notin Holds(th)
  /\ \A th \in Threads : cur[th].form = "fiber" => wrapper[th] # cur[th].task

(* A thread that has taken an entry has something to run.                  *)
Busy == {"resume", "run", "back", "settle"}

HandsOK ==
  \A th \in Threads :
    /\ pc[th] \in Busy \union {"dispatch"} => cur[th] # NoEntry
    /\ pc[th] \in Busy /\ cur[th].form = "func" => wrapper[th] # Nobody

NotYetInRun ==
  /\ rootPc = "constructed" => \A th \in Threads : pc[th] = "off"
  /\ rootPc = "started" => \A th \in Threads \ Workers : pc[th] = "off"

(* Behind WrongFiberNeedsWake: each Fiber is in the state that its place   *)
(* calls for.                                                              *)
FitsThread(th) ==
  /\ pc[th] # "dead"
  /\ pc[th] = "dispatch" => state[cur[th].task] \in {"unused", "ready"}
  /\ pc[th] = "resume" => state[Fiber(th)] \in {"unused", "ready"}
  /\ pc[th] = "run" => state[Fiber(th)] = "running"
  /\ pc[th] \in {"back", "settle"} => state[Fiber(th)] \in {"ready", "hold", "term", "except"}
  /\ wrapper[th] # Nobody /\ (pc[th] \notin Busy \/ cur[th].form = "fiber")
       => state[wrapper[th]] # "running"

StatesFit ==
  /\ rootPc # "dead"
  /\ \A t \in Tasks \ scheduled : state[t] = "unused"
  /\ \A i \in DOMAIN tasks : state[tasks[i].task] \in {"unused", "ready"}
  /\ \A th \in Threads : FitsThread(th)

SchedulerInv == TypeOK /\ HandsOK /\ NotYetInRun /\ (wakes = 0 => Apart /\ StatesFit)

(* With nothing but functions, each of them is where its thread is, and    *)
(* the count is exact.                                                     *)
FunctionFresh(t) == t \in scheduled \ finished /\ body[t] = t

QueueOfFunctions ==
  /\ \A t \in Tasks \ scheduled : t \notin finished /\ body[t] = t
  /\ \A i \in DOMAIN tasks : tasks[i].form = "func" /\ FunctionFresh(tasks[i].task)

ThreadWithFunction(th) ==
  /\ pc[th] # "dec"
  /\ pc[th] \in Busy \union {"dispatch"} => cur[th].form = "func"
  /\ pc[th] = "dispatch" => FunctionFresh(cur[th].task)
  /\ pc[th] \in {"resume", "run"} =>
       cur[th].task \in scheduled \ finished /\ body[wrapper[th]] = cur[th].task
  /\ pc[th] = "exited" => th \in idleOver

EveryTaskSomewhere ==
  \A t \in scheduled \ finished :
    \/ \E i \in DOMAIN tasks : tasks[i].task = t
    \/ \E th \in Threads : pc[th] \in {"dispatch", "resume", "run"} /\ cur[th].task = t

NoneSuspended == \A f \in Tasks : state[f] \notin {"ready", "hold"}

StopCalled == stopping <=> rootPc \in {"join", "stopped"}

Functions ==
  /\ NoneSuspended
  /\ QueueOfFunctions
  /\ \A th \in Threads : ThreadWithFunction(th)
  /\ EveryTaskSomewhere
  /\ StopCalled
  /\ ActiveIsExact
  /\ IdleOverMeansStopped

FunctionsInv == SchedulerInv /\ (FunctionsSoFar => Functions)
=============================================================================
