---------------------------- MODULE TimerManager ----------------------------
(***************************************************************************)
(* TimerManager and Timer (srcs/timer/timer.cpp): client threads add,      *)
(* cancel, refresh and reset timers; poller threads ask how long they may  *)
(* sleep, sleep, collect the callbacks that are due and run them.  timers_ *)
(* and the fields of every Timer are guarded by one RWMutex.               *)
(*                                                                         *)
(* A critical section is one step; what the code does before it takes the  *)
(* mutex, or after it releases it, is a step of its own.  timers_ is the   *)
(* set of the pairs <<key, timer>> that were inserted: Timer::Comparator   *)
(* orders them, and an entry stays where its key was at insertion even if  *)
(* the timer's expired_time_ changes later.  A timer's number stands for   *)
(* its address, which breaks ties.                                         *)
(*                                                                         *)
(* The pollers, the sleep and OnTimerInsertedAtFront belong to a class     *)
(* derived from TimerManager, which is not in the repository: they are     *)
(* modelled from what timer.cpp asks of them.                              *)
(***************************************************************************)
EXTENDS Integers

CONSTANTS
  Timers,     \* the Timer objects, numbered by address
  Clients,    \* threads that call AddTimer, Refresh, Reset, Cancel
  Pollers,    \* threads that sleep and run callbacks
  Intervals,  \* the intervals that are asked for, in milliseconds
  W,          \* uint64_t counts modulo W, 2^64 in the code
  Hour,       \* 60 * 60 * 1000
  BootTime,   \* GetElapseMs() when the manager is constructed
  MaxDelay,   \* bound: how long a poller is held up before it has the lock
  MaxTime     \* bound: the clock stops here

ASSUME ConstantsAssumption ==
  /\ Timers \subseteq Nat
  /\ W \in Nat \ {0}
  /\ Intervals \subseteq 0 .. W - 1
  /\ Hour \in Nat
  /\ BootTime \in Nat /\ MaxTime \in Nat /\ MaxDelay \in Nat
  /\ BootTime <= MaxTime /\ MaxTime < W

VARIABLES
  now,        \* what GetElapseMs() returns
  \* the Timer objects
  born,       \* timers constructed so far
  known,      \* timers whose handle AddTimer has returned
  armed,      \* timers whose callback_ is not null
  recurring,  \* timers whose recurring_ is true
  expired,    \* expired_time_
  interval,   \* interval_
  \* the TimerManager
  timers,     \* timers_
  tickled,    \* tickled_
  preTime,    \* pre_time_
  wedged,     \* a call has returned without releasing the write lock
  \* the threads
  call,       \* what each client is in the middle of
  ppc,        \* where each poller is
  held,       \* the time it holds: when its sleep ends, or now_ms
  cbs,        \* the timers whose callbacks it has collected
  woken,      \* a wake-up is waiting for a poller
  \* history
  handed,     \* how often a one-shot callback has been handed out, up to 2
  cancelled   \* timers for which Cancel returned true

objects == <<born, known, armed, recurring, expired, interval>>
manager == <<timers, tickled, preTime, wedged>>
poller  == <<ppc, held, cbs>>
history == <<handed, cancelled>>
vars == <<now, objects, manager, call, poller, woken, history>>

Unbounded(x) == x

(* uint64_t arithmetic. *)
Word(x) == x % W
Time    == 0 .. W - 1

Idle  == [op |-> "idle"]
Calls == {Idle}
           \union [op : {"insert", "front"}, timer : Timers]
           \union [op : {"reset"}, timer : Timers, interval : Intervals, fromNow : BOOLEAN]

(* Timer::Comparator on entries: expiry first, then address.               *)
Before(e, f) == e[1] < f[1] \/ (e[1] = f[1] /\ e[2] < f[2])
First(e, entries) == \A f \in entries : ~Before(f, e)

Entry(t)  == <<expired[t], t>>
FrontKey  == CHOOSE k \in {e[1] : e \in timers} : \A e \in timers : k <= e[1]

(* GetIntervalToNextTimer without its side effect; ~0ull is W - 1.         *)
IntervalToNextTimer ==
  IF timers = {} THEN W - 1
  ELSE IF now >= FrontKey THEN 0 ELSE FrontKey - now

(* DetectClockRollover_ without its side effect.                           *)
ClockRolledOver(t) == t < preTime /\ t < Word(preTime - Hour)

Init ==
  /\ now = BootTime
  /\ born = {} /\ known = {} /\ armed = {} /\ recurring = {}
  /\ expired = [t \in Timers |-> 0] /\ interval = [t \in Timers |-> 0]
  /\ timers = {} /\ tickled = FALSE /\ preTime = BootTime /\ wedged = FALSE
  /\ call = [c \in Clients |-> Idle]
  /\ ppc = [p \in Pollers |-> "awake"]
  /\ held = [p \in Pollers |-> BootTime]
  /\ cbs = [p \in Pollers |-> {}]
  /\ woken = FALSE
  /\ handed = [t \in Timers |-> 0] /\ cancelled = {}

(* Time does not pass while a poller that has read the clock is as late as *)
(* it may be; with MaxDelay = MaxTime none is ever too late.               *)
Tick ==
  /\ now < MaxTime
  /\ \A p \in Pollers : ppc[p] = "list" => now - held[p] < MaxDelay
  /\ now' = now + 1
  /\ UNCHANGED <<objects, manager, call, poller, woken, history>>
-----------------------------------------------------------------------------
(* The second half of AddTimer and of Reset: timer t goes into the rest of *)
(* the queue, the lock is released, and whoever made it the first entry    *)
(* calls OnTimerInsertedAtFront unless somebody has since the last         *)
(* GetIntervalToNextTimer.                                                 *)
InsertAndUnlock(c, t, key, rest) ==
  LET atFront == First(<<key, t>>, rest) /\ ~tickled
  IN  /\ timers' = rest \union {<<key, t>>}
      /\ tickled' = (tickled \/ atFront)
      /\ call' = [call EXCEPT ![c] =
                    IF atFront THEN [op |-> "front", timer |-> t] ELSE Idle]
      /\ known' = IF atFront THEN known ELSE known \union {t}

(* The Timer is constructed, its expiry computed, before the lock is taken. *)
AddTimerCall(c, t, ms, recur) ==
  /\ call[c] = Idle
  /\ t \notin born
  /\ born' = born \union {t}
  /\ armed' = armed \union {t}
  /\ recurring' = IF recur THEN recurring \union {t} ELSE recurring
  /\ expired' = [expired EXCEPT ![t] = Word(now + ms)]
  /\ interval' = [interval EXCEPT ![t] = ms]
  /\ call' = [call EXCEPT ![c] = [op |-> "insert", timer |-> t]]
  /\ UNCHANGED <<now, known, manager, poller, woken, history>>

AddTimerLocked(c) ==
  /\ call[c].op = "insert"
  /\ ~wedged
  /\ InsertAndUnlock(c, call[c].timer, expired[call[c].timer], timers)
  /\ UNCHANGED <<now, born, armed, recurring, expired, interval, preTime, wedged,
                 poller, woken, history>>

(* OnTimerInsertedAtFront leaves a wake-up; then AddTimer or Reset returns. *)
OnTimerInsertedAtFront(c) ==
  /\ call[c].op = "front"
  /\ woken' = TRUE
  /\ known' = known \union {call[c].timer}
  /\ call' = [call EXCEPT ![c] = Idle]
  /\ UNCHANGED <<now, born, armed, recurring, expired, interval, manager, poller, history>>

CancelLeavesEntry(t) ==
  /\ t \in known /\ ~wedged
  /\ t \in armed
  /\ armed' = armed \ {t}
  /\ cancelled' = cancelled \union {t}
  /\ UNCHANGED <<now, born, known, recurring, expired, interval, manager, call, poller,
                 woken, handed>>

Cancel(t) ==
  /\ t \in known /\ ~wedged
  /\ t \in armed
  /\ armed' = armed \ {t}
  /\ timers' = timers \ {Entry(t)}
  /\ cancelled' = cancelled \union {t}
  /\ UNCHANGED <<now, born, known, recurring, expired, interval, tickled, preTime,
                 wedged, call, poller, woken, handed>>

RefreshKeyFirst(t) ==
  /\ t \in known /\ ~wedged
  /\ t \in armed
  /\ Entry(t) \in timers
  /\ expired' = [expired EXCEPT ![t] = Word(now + interval[t])]
  /\ timers' = timers \union {<<expired'[t], t>>}
  /\ UNCHANGED <<now, born, known, armed, recurring, interval, tickled, preTime,
                 wedged, call, poller, woken, history>>

RefreshKeepsLock(t) ==
  /\ t \in known /\ ~wedged
  /\ t \in armed
  /\ wedged' = TRUE
  /\ UNCHANGED <<now, objects, timers, tickled, preTime, call, poller, woken, history>>

Refresh(t) ==
  /\ t \in known /\ ~wedged
  /\ t \in armed
  /\ Entry(t) \in timers
  /\ expired' = [expired EXCEPT ![t] = Word(now + interval[t])]
  /\ timers' = (timers \ {Entry(t)}) \union {<<expired'[t], t>>}
  /\ UNCHANGED <<now, born, known, armed, recurring, interval, tickled, preTime,
                 wedged, call, poller, woken, history>>

(* interval_ is read without the lock.                                     *)
ResetCall(c, t, ms, fromNow) ==
  /\ call[c] = Idle
  /\ t \in known
  /\ ms # interval[t] \/ fromNow
  /\ call' = [call EXCEPT ![c] =
                [op |-> "reset", timer |-> t, interval |-> ms, fromNow |-> fromNow]]
  /\ UNCHANGED <<now, objects, manager, poller, woken, history>>

(* A timer that has fired or was cancelled: Reset returns false and leaves *)
(* the write lock held.                                                    *)
ResetFails(c) ==
  /\ call[c].op = "reset"
  /\ ~wedged
  /\ LET t == call[c].timer IN t \notin armed \/ Entry(t) \notin timers
  /\ wedged' = TRUE
  /\ call' = [call EXCEPT ![c] = Idle]
  /\ UNCHANGED <<now, objects, timers, tickled, preTime, poller, woken, history>>

ResetLocked(c) ==
  /\ call[c].op = "reset"
  /\ ~wedged
  /\ LET t     == call[c].timer
         ms    == call[c].interval
         start == IF call[c].fromNow THEN now ELSE Word(expired[t] - interval[t])
     IN  /\ t \in armed /\ Entry(t) \in timers
         /\ interval' = [interval EXCEPT ![t] = ms]
         /\ expired' = [expired EXCEPT ![t] = Word(start + ms)]
         /\ InsertAndUnlock(c, t, Word(start + ms), timers \ {Entry(t)})
  /\ UNCHANGED <<now, born, armed, recurring, preTime, wedged, poller, woken, history>>
-----------------------------------------------------------------------------
GetIntervalKeepsTickled(p) ==
  /\ ppc[p] = "awake"
  /\ ~wedged
  /\ held' = [held EXCEPT ![p] = now + IntervalToNextTimer]
  /\ ppc' = [ppc EXCEPT ![p] = "asleep"]
  /\ UNCHANGED <<now, objects, manager, call, cbs, woken, history>>

(* The sleep lasts as long as GetIntervalToNextTimer says.                 *)
GetIntervalToNextTimer(p) ==
  /\ ppc[p] = "awake"
  /\ ~wedged
  /\ tickled' = FALSE
  /\ held' = [held EXCEPT ![p] = now + IntervalToNextTimer]
  /\ ppc' = [ppc EXCEPT ![p] = "asleep"]
  /\ UNCHANGED <<now, objects, timers, preTime, wedged, call, cbs, woken, history>>

WakeUp(p) ==
  /\ ppc[p] = "asleep"
  /\ woken
  /\ woken' = FALSE
  /\ held' = [held EXCEPT ![p] = BootTime]
  /\ ppc' = [ppc EXCEPT ![p] = "read"]
  /\ UNCHANGED <<now, objects, manager, call, cbs, history>>

SleepEnds(p) ==
  /\ ppc[p] = "asleep"
  /\ now >= held[p]
  /\ held' = [held EXCEPT ![p] = BootTime]
  /\ ppc' = [ppc EXCEPT ![p] = "read"]
  /\ UNCHANGED <<now, objects, manager, call, cbs, woken, history>>

(* now_ms is read before the lock is taken.                                *)
ListExpiredCall(p) ==
  /\ ppc[p] = "read"
  /\ held' = [held EXCEPT ![p] = now]
  /\ ppc' = [ppc EXCEPT ![p] = "list"]
  /\ UNCHANGED <<now, objects, manager, call, cbs, woken, history>>

(* Nothing is queued, or nothing is due.                                   *)
ListExpiredNone(p) ==
  /\ ppc[p] = "list"
  /\ ~wedged
  /\ \/ timers = {} /\ UNCHANGED preTime
     \/ /\ timers # {}
        /\ ~ClockRolledOver(held[p])
        /\ FrontKey > held[p]
        /\ preTime' = held[p]
  /\ ppc' = [ppc EXCEPT ![p] = "awake"]
  /\ held' = [held EXCEPT ![p] = BootTime]
  /\ UNCHANGED <<now, objects, timers, tickled, wedged, call, cbs,
                 woken, history>>

DueOneTooSoon(p) ==
  IF ClockRolledOver(held[p]) THEN timers ELSE {e \in timers : e[1] <= held[p] + 1}

DueEntries(p) ==
  IF ClockRolledOver(held[p]) THEN timers ELSE {e \in timers : e[1] <= held[p]}

ListExpiredKeepsCallback(p) ==
  /\ ppc[p] = "list"
  /\ ~wedged
  /\ DueEntries(p) # {}
  /\ LET due == {e[2] : e \in DueEntries(p)}
     IN  /\ cbs' = [cbs EXCEPT ![p] = due]
         /\ timers' = timers \ DueEntries(p)
         /\ handed' = [t \in Timers |->
                         IF t \in due \ recurring /\ handed[t] < 2
                         THEN handed[t] + 1 ELSE handed[t]]
  /\ ppc' = [ppc EXCEPT ![p] = "run"]
  /\ UNCHANGED <<now, objects, tickled, preTime, wedged, call, held, woken, cancelled>>

(* The due entries leave the queue and their callbacks are collected;      *)
(* recurring timers go back in, one-shot timers lose their callback.       *)
ListExpired(p) ==
  /\ ppc[p] = "list"
  /\ ~wedged
  /\ DueEntries(p) # {}
  /\ LET due    == {e[2] : e \in DueEntries(p)}
         again  == due \intersect recurring
         key(t) == Word(held[p] + interval[t])
     IN  /\ cbs' = [cbs EXCEPT ![p] = due]
         /\ timers' = (timers \ DueEntries(p)) \union {<<key(t), t>> : t \in again}
         /\ expired' = [t \in Timers |-> IF t \in again THEN key(t) ELSE expired[t]]
         /\ armed' = armed \ (due \ recurring)
         /\ handed' = [t \in Timers |->
                         IF t \in due \ recurring /\ handed[t] < 2
                         THEN handed[t] + 1 ELSE handed[t]]
  /\ preTime' = held[p]
  /\ ppc' = [ppc EXCEPT ![p] = "run"]
  /\ held' = [held EXCEPT ![p] = BootTime]
  /\ UNCHANGED <<now, born, known, recurring, interval, tickled, wedged, call, woken,
                 cancelled>>

(* The callbacks run without the lock.                                     *)
RunCallbacks(p) ==
  /\ ppc[p] = "run"
  /\ cbs' = [cbs EXCEPT ![p] = {}]
  /\ ppc' = [ppc EXCEPT ![p] = "awake"]
  /\ UNCHANGED <<now, objects, manager, call, held, woken, history>>
-----------------------------------------------------------------------------
Finish(c) ==
  \/ AddTimerLocked(c)
  \/ OnTimerInsertedAtFront(c)
  \/ ResetFails(c)
  \/ ResetLocked(c)

ClientStep(c) ==
  \/ \E t \in Timers, ms \in Intervals, recur \in BOOLEAN : AddTimerCall(c, t, ms, recur)
  \/ \E t \in Timers, ms \in Intervals, fromNow \in BOOLEAN : ResetCall(c, t, ms, fromNow)
  \/ Finish(c)

PollerStep(p) ==
  \/ GetIntervalToNextTimer(p)
  \/ WakeUp(p)
  \/ SleepEnds(p)
  \/ ListExpiredCall(p)
  \/ ListExpiredNone(p)
  \/ ListExpired(p)
  \/ RunCallbacks(p)

Next ==
  \/ Tick
  \/ \E c \in Clients : ClientStep(c)
  \/ \E t \in Timers : Cancel(t) \/ Refresh(t)
  \/ \E p \in Pollers : PollerStep(p)

(* Time passes, pollers keep polling, and a call that was begun goes on.   *)
Fairness ==
  /\ WF_vars(Tick)
  /\ \A c \in Clients : WF_vars(Finish(c))
  /\ \A p \in Pollers : WF_vars(PollerStep(p))

Spec     == Init /\ [][Next]_vars
FairSpec == Spec /\ Fairness
-----------------------------------------------------------------------------
ObjectsOK ==
  /\ now \in BootTime .. MaxTime
  /\ born \subseteq Timers /\ known \subseteq born
  /\ armed \subseteq born /\ recurring \subseteq born
  /\ expired \in [Timers -> Time] /\ interval \in [Timers -> Time]

QueueOK   == timers \subseteq Time \X Timers /\ preTime \in BootTime .. now
FlagsOK   == tickled \in BOOLEAN /\ wedged \in BOOLEAN /\ woken \in BOOLEAN
CallsOK   == call \in [Clients -> Calls]
HistoryOK == handed \in [Timers -> 0 .. 2] /\ cancelled \subseteq born

PollersOK ==
  /\ ppc \in [Pollers -> {"awake", "asleep", "read", "list", "run"}]
  /\ held \in [Pollers -> Nat]
  /\ cbs \in [Pollers -> SUBSET Timers]
  /\ \A p \in Pollers : ppc[p] = "list" => held[p] \in BootTime .. now

TypeOK == ObjectsOK /\ QueueOK /\ FlagsOK /\ CallsOK /\ PollersOK /\ HistoryOK

(* Timers that were constructed but not yet inserted.                      *)
Inserting == {call[c].timer : c \in {d \in Clients : call[d].op = "insert"}}

(* timers_ holds each armed timer exactly once, filed under the expiry it  *)
(* has now, and no timer without a callback: an entry under a stale key    *)
(* could not be found by Cancel, Refresh or Reset, and an empty function   *)
(* would be handed out to be called.                                       *)
QueueHoldsArmed == timers = {Entry(t) : t \in armed \ Inserting}

(* The callback of a one-shot timer is handed out, or Cancel returns true  *)
(* for it, but never both and neither twice.                               *)
OneShotSettledOnce ==
  \A t \in born \ recurring : handed[t] + (IF t \in cancelled THEN 1 ELSE 0) <= 1

(* The pollers do not sleep past the first expiry: one is up, or will wake *)
(* in time, or a wake-up is on its way.  Skipping OnTimerInsertedAtFront   *)
(* while tickled_ is set, and not calling it from Refresh, are sound only  *)
(* because of this.                                                        *)
NoOversleep ==
  timers # {} =>
    \/ woken
    \/ \E c \in Clients : call[c].op = "front"
    \/ \E p \in Pollers : ppc[p] # "asleep" \/ held[p] <= FrontKey \/ held[p] <= now

(* "Going back in time should not be possible", says the comment at        *)
(* timer.cpp:160 of a monotonic clock: DetectClockRollover_ never says     *)
(* that it happened, although two pollers may take the lock in the         *)
(* opposite order to that in which they read the clock.  It is so under    *)
(* ClockAssumption, and not in the first hour after the machine has booted.*)
NoRollover == \A p \in Pollers : ppc[p] = "list" => ~ClockRolledOver(held[p])

(* No callback is handed out before its timer has expired.                 *)
NoEarlyCallback ==
  [][\A p \in Pollers : \A t \in cbs'[p] \ cbs[p] : expired[t] <= now]_vars

(* The lock is lost for good only where a timer has fired or was cancelled *)
(* behind the back of a caller of Reset.                                   *)
WedgeNeedsDeadTimer == wedged => \E t \in known : t \notin armed

(* To its clients this is a timer service: a timer is pending from the     *)
(* moment it is queued, falls due at the time its object says, fires when  *)
(* that time has come and not before, and a one-shot timer is settled      *)
(* once.  The critical sections of several threads and the times that were *)
(* read before them add up to nothing else.                                *)
Queued == {e[2] : e \in timers}

TS == INSTANCE TimerService
        WITH Deadlines <- Time,
             pending   <- [t \in Queued |-> expired[t]],
             fired     <- {t \in Timers : handed[t] > 0}

ImplementsTimerService == TS!Spec

(* A timer whose expiry the clock reaches leaves its place in the queue:   *)
(* some poller comes for it, unless a call has left the lock held.  It is  *)
(* claimed for SteadyIntervals only: where now + interval_ begins to wrap  *)
(* while timers wait, Refresh can put one in front of them and wake nobody.*)
DueTimerTaken ==
  \A t \in Timers : \A k \in BootTime .. MaxTime :
    <<k, t>> \in timers ~> (<<k, t>> \notin timers \/ wedged \/ \E p \in Pollers : t \in cbs[p])
-----------------------------------------------------------------------------
(* The inductive invariant behind QueueHoldsArmed and OneShotSettledOnce.  *)

(* A timer under construction belongs to one call of AddTimer, and nobody  *)
(* else has a handle to it; Reset works on a handle.                       *)
FreshTimers ==
  /\ \A c \in Clients : call[c].op = "insert" => call[c].timer \in armed \ known
  /\ \A c \in Clients : call[c].op = "front" => call[c].timer \in born
  /\ \A c \in Clients : call[c].op = "reset" => call[c].timer \in known
  /\ \A c, d \in Clients :
       c # d /\ call[c].op \in {"insert", "front"} /\ call[d].op = "insert"
         => call[c].timer # call[d].timer

(* An armed timer has neither fired for the last time nor been cancelled,  *)
(* and neither has one that does not exist yet.                            *)
Unsettled ==
  \A t \in Timers : t \in armed \/ t \notin born => handed[t] = 0 /\ t \notin cancelled

(* Whatever the calls and the pollers do, in any order, the queue holds    *)
(* the armed timers and a one-shot timer is settled once.                  *)
QueueInv ==
  /\ TypeOK
  /\ FreshTimers
  /\ QueueHoldsArmed
  /\ Unsettled
  /\ OneShotSettledOnce

(* Behind NoOversleep: an expiry is a moment that has come plus the         *)
(* interval, so that Refresh can only move it back; and while tickled_     *)
(* suppresses the wake-up, one is on its way or somebody is up.            *)
Anchored ==
  \A t \in born :
    interval[t] \in Intervals /\ interval[t] <= expired[t] /\ expired[t] - interval[t] <= now

SomebodyUp ==
  \/ woken
  \/ \E c \in Clients : call[c].op = "front"
  \/ \E p \in Pollers : ppc[p] # "asleep"

WakeInv == QueueInv /\ Anchored /\ (tickled => SomebodyUp) /\ NoOversleep

(* No expiry wraps around.  (Refresh could move one that does to the front *)
(* of the queue, and calls nobody.)                                        *)
IntervalsAssumption == \A ms \in Intervals : MaxTime + ms < W

(* An interval wraps around whenever it is asked for, or never.            *)
SteadyIntervals == \A ms \in Intervals : MaxTime + ms < W \/ BootTime + ms >= W

(* Behind NoRollover: no poller is later than MaxDelay.                    *)
Prompt == \A p \in Pollers : ppc[p] = "list" => now - held[p] <= MaxDelay

(* What it takes that a clock that does not go back never looks like one   *)
(* that did: the machine has been up for an hour, or pre_time_ - 3600000   *)
(* is below zero, and no poller is held up for more than an hour between   *)
(* reading the clock and taking the lock.  How long the program runs does  *)
(* not matter.                                                             *)
ClockAssumption == Hour <= BootTime /\ MaxDelay <= Hour
=============================================================================
