------------------------ MODULE TimerManagerProofs ------------------------
(***************************************************************************)
(* Theorems about TimerManager, for any number of timers, clients and      *)
(* pollers, any word size and any clock.                                   *)
(***************************************************************************)
EXTENDS TimerManager, WellFoundedInduction, TLAPS

LEMMA WordType == \A x \in Int : Word(x) \in Time
  BY ConstantsAssumption DEF Word, Time

(* A set of times with a member has a least one.                           *)
LEMMA LeastTime ==
  ASSUME NEW S \in SUBSET Nat, S # {}
  PROVE  \E k \in S : \A j \in S : k <= j
<1>1. PICK k \in S : \A j \in S : ~ (<<j, k>> \in OpToRel(<, Nat))
  BY WFMin, NatLessThanWellFounded
<1>2. \A j \in S : ~ (j < k)
  BY <1>1 DEF OpToRel
<1>3. QED
  BY <1>2

(* The least of the keys of some entries is the key of one of them.        *)
LEMMA LeastKey ==
  ASSUME NEW S \in SUBSET (Time \X Timers), S # {},
         NEW k, k = CHOOSE j \in {e[1] : e \in S} : \A e \in S : j <= e[1]
  PROVE  k \in Time /\ (\E e \in S : e[1] = k) /\ (\A e \in S : k <= e[1])
<1> DEFINE keys == {e[1] : e \in S}
<1>1. keys \in SUBSET Time /\ keys # {}
  OBVIOUS
<1>2. keys \in SUBSET Nat
  BY <1>1, ConstantsAssumption DEF Time
<1>3. \E j \in keys : \A i \in keys : j <= i
  BY <1>1, <1>2, LeastTime
<1>4. \E j \in keys : \A e \in S : j <= e[1]
  BY <1>3
<1>5. k \in keys /\ \A e \in S : k <= e[1]
  BY <1>4
<1>6. QED
  BY <1>1, <1>5

(* The first key of a queue with entries is the key of one of them.        *)
LEMMA FrontKeyProperties ==
  ASSUME QueueOK, timers # {}
  PROVE  /\ FrontKey \in Time
         /\ \E e \in timers : e[1] = FrontKey
         /\ \A e \in timers : FrontKey <= e[1]
BY LeastKey DEF QueueOK, FrontKey

(* A sleep ends at a time, not before the present.                         *)
LEMMA IntervalType ==
  ASSUME ObjectsOK, QueueOK
  PROVE  now + IntervalToNextTimer \in Nat
<1>1. now \in Nat
  BY ConstantsAssumption DEF ObjectsOK
<1>2. CASE timers = {}
  BY <1>1, <1>2, ConstantsAssumption DEF IntervalToNextTimer
<1>3. CASE timers # {}
  <2>1. FrontKey \in Nat
    BY <1>3, FrontKeyProperties, ConstantsAssumption DEF Time
  <2>2. QED
    BY <1>1, <1>3, <2>1 DEF IntervalToNextTimer
<1>4. QED
  BY <1>2, <1>3
(* What a call in progress carries.                                        *)
LEMMA CallProperties ==
  ASSUME CallsOK, NEW c \in Clients
  PROVE  /\ call[c].op \in {"insert", "front", "reset"} => call[c].timer \in Timers
         /\ call[c].op = "reset" => call[c].interval \in Intervals
<1>1. call[c] \in Calls
  BY DEF CallsOK
<1>2. CASE call[c] = Idle
  BY <1>2 DEF Idle
<1>3. CASE call[c] \in [op : {"insert", "front"}, timer : Timers]
  BY <1>3
<1>4. CASE call[c] \in [op : {"reset"}, timer : Timers, interval : Intervals, fromNow : BOOLEAN]
  BY <1>4
<1>5. QED
  BY <1>1, <1>2, <1>3, <1>4 DEF Calls

(* Every step keeps the types.                                             *)
LEMMA StepKeepsTypeOK ==
  ASSUME TypeOK, FreshTimers, [Next]_vars
  PROVE  TypeOK'
<1> USE ConstantsAssumption DEF TypeOK, objects, manager, poller, history
<1>1. CASE UNCHANGED vars
  <2>1. FlagsOK'
    BY <1>1, Zenon DEF FlagsOK, vars
  <2>2. QED
    BY <1>1, <2>1 DEF vars, ObjectsOK, QueueOK, CallsOK, PollersOK, HistoryOK
<1>2. CASE Tick
  <2> USE <1>2 DEF Tick
  <2>20. ObjectsOK'
    BY DEF ObjectsOK
  <2>21. QueueOK'
    BY DEF QueueOK, ObjectsOK, PollersOK
  <2>22. FlagsOK'
    BY Zenon DEF FlagsOK
  <2>23. CallsOK'
    BY DEF CallsOK
  <2>24. PollersOK'
    BY DEF PollersOK, ObjectsOK, PollersOK
  <2>25. HistoryOK'
    BY DEF HistoryOK, ObjectsOK, PollersOK
  <2>30. QED
    BY <2>20, <2>21, <2>22, <2>23, <2>24, <2>25
<1>3. ASSUME NEW c \in Clients, NEW t \in Timers, NEW ms \in Intervals, NEW recur \in BOOLEAN, AddTimerCall(c, t, ms, recur)
      PROVE  TypeOK'
  <2> USE <1>3 DEF AddTimerCall
  <2>1. ms \in Time /\ Word(now + ms) \in Time
    BY WordType DEF Time, ObjectsOK
  <2>20. ObjectsOK'
    BY <2>1 DEF ObjectsOK
  <2>21. QueueOK'
    BY DEF QueueOK, ObjectsOK, PollersOK
  <2>22. FlagsOK'
    BY Zenon DEF FlagsOK
  <2>23. CallsOK'
    BY DEF CallsOK, Calls, Idle
  <2>24. PollersOK'
    BY DEF PollersOK, ObjectsOK, PollersOK
  <2>25. HistoryOK'
    BY DEF HistoryOK, ObjectsOK, PollersOK
  <2>30. QED
    BY <2>20, <2>21, <2>22, <2>23, <2>24, <2>25
<1>4. ASSUME NEW c \in Clients, AddTimerLocked(c)
      PROVE  TypeOK'
  <2> USE <1>4 DEF AddTimerLocked, InsertAndUnlock
  <2>1. call[c].timer \in armed /\ expired[call[c].timer] \in Time
    BY DEF FreshTimers, ObjectsOK
  <2>20. ObjectsOK'
    BY <2>1 DEF ObjectsOK
  <2>21. QueueOK'
    BY <2>1 DEF QueueOK, ObjectsOK, PollersOK
  <2>22. FlagsOK'
    BY Zenon DEF FlagsOK
  <2>23. CallsOK'
    BY DEF CallsOK, Calls, Idle
  <2>24. PollersOK'
    BY DEF PollersOK, ObjectsOK, PollersOK
  <2>25. HistoryOK'
    BY DEF HistoryOK, ObjectsOK, PollersOK
  <2>30. QED
    BY <2>20, <2>21, <2>22, <2>23, <2>24, <2>25
<1>5. ASSUME NEW c \in Clients, OnTimerInsertedAtFront(c)
      PROVE  TypeOK'
  <2> USE <1>5 DEF OnTimerInsertedAtFront
  <2>1. call[c].timer \in born
    BY DEF FreshTimers
  <2>20. ObjectsOK'
    BY <2>1 DEF ObjectsOK
  <2>21. QueueOK'
    BY DEF QueueOK, ObjectsOK, PollersOK
  <2>22. FlagsOK'
    BY Zenon DEF FlagsOK
  <2>23. CallsOK'
    BY DEF CallsOK, Calls, Idle
  <2>24. PollersOK'
    BY DEF PollersOK, ObjectsOK, PollersOK
  <2>25. HistoryOK'
    BY DEF HistoryOK, ObjectsOK, PollersOK
  <2>30. QED
    BY <2>20, <2>21, <2>22, <2>23, <2>24, <2>25
<1>6. ASSUME NEW c \in Clients, NEW t \in Timers, NEW ms \in Intervals, NEW fromNow \in BOOLEAN, ResetCall(c, t, ms, fromNow)
      PROVE  TypeOK'
  <2> USE <1>6 DEF ResetCall
  <2>20. ObjectsOK'
    BY DEF ObjectsOK
  <2>21. QueueOK'
    BY DEF QueueOK, ObjectsOK, PollersOK
  <2>22. FlagsOK'
    BY Zenon DEF FlagsOK
  <2>23. CallsOK'
    BY DEF CallsOK, Calls, Idle
  <2>24. PollersOK'
    BY DEF PollersOK, ObjectsOK, PollersOK
  <2>25. HistoryOK'
    BY DEF HistoryOK, ObjectsOK, PollersOK
  <2>30. QED
    BY <2>20, <2>21, <2>22, <2>23, <2>24, <2>25
<1>7. ASSUME NEW c \in Clients, ResetFails(c)
      PROVE  TypeOK'
  <2> USE <1>7 DEF ResetFails
  <2>20. ObjectsOK'
    BY DEF ObjectsOK
  <2>21. QueueOK'
    BY DEF QueueOK, ObjectsOK, PollersOK
  <2>22. FlagsOK'
    BY Zenon DEF FlagsOK
  <2>23. CallsOK'
    BY DEF CallsOK, Calls, Idle
  <2>24. PollersOK'
    BY DEF PollersOK, ObjectsOK, PollersOK
  <2>25. HistoryOK'
    BY DEF HistoryOK, ObjectsOK, PollersOK
  <2>30. QED
    BY <2>20, <2>21, <2>22, <2>23, <2>24, <2>25
<1>8. ASSUME NEW c \in Clients, ResetLocked(c)
      PROVE  TypeOK'
  <2> USE <1>8 DEF ResetLocked, InsertAndUnlock
  <2> DEFINE t == call[c].timer
             ms == call[c].interval
  <2>0. ms \in Time /\ t \in Timers /\ t \in known
    BY CallProperties DEF FreshTimers, Time
  <2>1. Word(now + ms) \in Time /\ Word(Word(expired[t] - interval[t]) + ms) \in Time
    BY <2>0, WordType DEF Time, ObjectsOK
  <2>20. ObjectsOK'
    BY <2>0, <2>1 DEF ObjectsOK
  <2>21. QueueOK'
    BY <2>0, <2>1 DEF QueueOK, ObjectsOK, PollersOK
  <2>22. FlagsOK'
    BY Zenon DEF FlagsOK
  <2>23. CallsOK'
    BY DEF CallsOK, Calls, Idle
  <2>24. PollersOK'
    BY DEF PollersOK, ObjectsOK, PollersOK
  <2>25. HistoryOK'
    BY DEF HistoryOK, ObjectsOK, PollersOK
  <2>30. QED
    BY <2>20, <2>21, <2>22, <2>23, <2>24, <2>25
<1>9. ASSUME NEW t \in Timers, Cancel(t)
      PROVE  TypeOK'
  <2> USE <1>9 DEF Cancel
  <2>20. ObjectsOK'
    BY DEF ObjectsOK
  <2>21. QueueOK'
    BY DEF QueueOK, ObjectsOK, PollersOK
  <2>22. FlagsOK'
    BY Zenon DEF FlagsOK
  <2>23. CallsOK'
    BY DEF CallsOK
  <2>24. PollersOK'
    BY DEF PollersOK, ObjectsOK, PollersOK
  <2>25. HistoryOK'
    BY DEF HistoryOK, ObjectsOK, PollersOK
  <2>30. QED
    BY <2>20, <2>21, <2>22, <2>23, <2>24, <2>25
<1>10. ASSUME NEW t \in Timers, Refresh(t)
      PROVE  TypeOK'
  <2> USE <1>10 DEF Refresh
  <2>1. Word(now + interval[t]) \in Time
    BY WordType DEF Time, ObjectsOK
  <2>20. ObjectsOK'
    BY <2>1 DEF ObjectsOK
  <2>21. QueueOK'
    BY <2>1 DEF QueueOK, ObjectsOK, PollersOK
  <2>22. FlagsOK'
    BY Zenon DEF FlagsOK
  <2>23. CallsOK'
    BY DEF CallsOK
  <2>24. PollersOK'
    BY DEF PollersOK, ObjectsOK, PollersOK
  <2>25. HistoryOK'
    BY DEF HistoryOK, ObjectsOK, PollersOK
  <2>30. QED
    BY <2>20, <2>21, <2>22, <2>23, <2>24, <2>25
<1>11. ASSUME NEW p \in Pollers, GetIntervalToNextTimer(p)
      PROVE  TypeOK'
  <2> USE <1>11 DEF GetIntervalToNextTimer
  <2>1. now + IntervalToNextTimer \in Nat
    BY IntervalType
  <2>20. ObjectsOK'
    BY DEF ObjectsOK
  <2>21. QueueOK'
    BY DEF QueueOK, ObjectsOK, PollersOK
  <2>22. FlagsOK'
    BY Zenon DEF FlagsOK
  <2>23. CallsOK'
    BY DEF CallsOK
  <2>24. PollersOK'
    BY <2>1 DEF PollersOK, ObjectsOK, PollersOK
  <2>25. HistoryOK'
    BY DEF HistoryOK, ObjectsOK, PollersOK
  <2>30. QED
    BY <2>20, <2>21, <2>22, <2>23, <2>24, <2>25
<1>12. ASSUME NEW p \in Pollers, WakeUp(p)
      PROVE  TypeOK'
  <2> USE <1>12 DEF WakeUp
  <2>20. ObjectsOK'
    BY DEF ObjectsOK
  <2>21. QueueOK'
    BY DEF QueueOK, ObjectsOK, PollersOK
  <2>22. FlagsOK'
    BY Zenon DEF FlagsOK
  <2>23. CallsOK'
    BY DEF CallsOK
  <2>24. PollersOK'
    BY DEF PollersOK, ObjectsOK, PollersOK
  <2>25. HistoryOK'
    BY DEF HistoryOK, ObjectsOK, PollersOK
  <2>30. QED
    BY <2>20, <2>21, <2>22, <2>23, <2>24, <2>25
<1>13. ASSUME NEW p \in Pollers, SleepEnds(p)
      PROVE  TypeOK'
  <2> USE <1>13 DEF SleepEnds
  <2>20. ObjectsOK'
    BY DEF ObjectsOK
  <2>21. QueueOK'
    BY DEF QueueOK, ObjectsOK, PollersOK
  <2>22. FlagsOK'
    BY Zenon DEF FlagsOK
  <2>23. CallsOK'
    BY DEF CallsOK
  <2>24. PollersOK'
    BY DEF PollersOK, ObjectsOK, PollersOK
  <2>25. HistoryOK'
    BY DEF HistoryOK, ObjectsOK, PollersOK
  <2>30. QED
    BY <2>20, <2>21, <2>22, <2>23, <2>24, <2>25
<1>14. ASSUME NEW p \in Pollers, ListExpiredCall(p)
      PROVE  TypeOK'
  <2> USE <1>14 DEF ListExpiredCall
  <2>20. ObjectsOK'
    BY DEF ObjectsOK
  <2>21. QueueOK'
    BY DEF QueueOK, ObjectsOK, PollersOK
  <2>22. FlagsOK'
    BY Zenon DEF FlagsOK
  <2>23. CallsOK'
    BY DEF CallsOK
  <2>24. PollersOK'
    BY DEF PollersOK, ObjectsOK, PollersOK
  <2>25. HistoryOK'
    BY DEF HistoryOK, ObjectsOK, PollersOK
  <2>30. QED
    BY <2>20, <2>21, <2>22, <2>23, <2>24, <2>25
<1>15. ASSUME NEW p \in Pollers, ListExpiredNone(p)
      PROVE  TypeOK'
  <2> USE <1>15 DEF ListExpiredNone
  <2>20. ObjectsOK'
    BY DEF ObjectsOK
  <2>21. QueueOK'
    BY DEF QueueOK, ObjectsOK, PollersOK
  <2>22. FlagsOK'
    BY Zenon DEF FlagsOK
  <2>23. CallsOK'
    BY DEF CallsOK
  <2>24. PollersOK'
    BY DEF PollersOK, ObjectsOK, PollersOK
  <2>25. HistoryOK'
    BY DEF HistoryOK, ObjectsOK, PollersOK
  <2>30. QED
    BY <2>20, <2>21, <2>22, <2>23, <2>24, <2>25
<1>16. ASSUME NEW p \in Pollers, ListExpired(p)
      PROVE  TypeOK'
  <2> USE <1>16 DEF ListExpired
  <2> DEFINE key(t) == Word(held[p] + interval[t])
             again == {e[2] : e \in DueEntries(p)} \intersect recurring
  <2>1. \A t \in Timers : key(t) \in Time
    <3>1. held[p] \in Nat
      BY DEF PollersOK
    <3>2. \A t \in Timers : interval[t] \in Int
      BY DEF ObjectsOK, Time
    <3>3. \A t \in Timers : held[p] + interval[t] \in Int
      BY <3>1, <3>2
    <3>4. QED
      BY <3>3, WordType
  <2>2. DueEntries(p) \subseteq timers
    BY DEF DueEntries
  <2>3. {e[2] : e \in DueEntries(p)} \subseteq Timers
    BY <2>2 DEF QueueOK
  <2>4. {<<key(t), t>> : t \in again} \subseteq Time \X Timers
    <3>1. again \subseteq Timers
      BY <2>3
    <3> HIDE DEF key, again
    <3>2. QED
      BY <3>1, <2>1
  <2>5. timers' \subseteq Time \X Timers
    BY <2>4 DEF QueueOK
  <2>6. preTime' \in BootTime .. now'
    BY DEF PollersOK
  <2>20. ObjectsOK'
    BY <2>1, <2>3 DEF ObjectsOK
  <2>21. QueueOK'
    BY <2>5, <2>6 DEF QueueOK, ObjectsOK, PollersOK
  <2>22. FlagsOK'
    BY Zenon DEF FlagsOK
  <2>23. CallsOK'
    BY DEF CallsOK
  <2>24. PollersOK'
    BY <2>3 DEF PollersOK, ObjectsOK, PollersOK
  <2>25. HistoryOK'
    BY DEF HistoryOK, ObjectsOK, PollersOK
  <2>30. QED
    BY <2>20, <2>21, <2>22, <2>23, <2>24, <2>25
<1>17. ASSUME NEW p \in Pollers, RunCallbacks(p)
      PROVE  TypeOK'
  <2> USE <1>17 DEF RunCallbacks
  <2>20. ObjectsOK'
    BY DEF ObjectsOK
  <2>21. QueueOK'
    BY DEF QueueOK, ObjectsOK, PollersOK
  <2>22. FlagsOK'
    BY Zenon DEF FlagsOK
  <2>23. CallsOK'
    BY DEF CallsOK
  <2>24. PollersOK'
    BY DEF PollersOK, ObjectsOK, PollersOK
  <2>25. HistoryOK'
    BY DEF HistoryOK, ObjectsOK, PollersOK
  <2>30. QED
    BY <2>20, <2>21, <2>22, <2>23, <2>24, <2>25
<1>18. QED
  BY <1>1, <1>2, <1>3, <1>4, <1>5, <1>6, <1>7, <1>8, <1>9, <1>10, <1>11, <1>12, <1>13, <1>14, <1>15, <1>16, <1>17, Zenon DEF Next, ClientStep, Finish, PollerStep
-----------------------------------------------------------------------------
(* An entry in the queue is that of an armed timer under its own expiry.   *)
LEMMA EntryProperties ==
  ASSUME QueueHoldsArmed, NEW e \in timers
  PROVE  /\ e = <<expired[e[2]], e[2]>>
         /\ e[2] \in armed \ Inserting
  BY DEF QueueHoldsArmed, Entry

(* Every step keeps construction private.                                  *)
LEMMA StepKeepsFreshTimers ==
  ASSUME TypeOK, FreshTimers, QueueHoldsArmed, [Next]_vars
  PROVE  FreshTimers'
<1> USE DEF TypeOK, ObjectsOK, objects, manager, poller, history
<1>1. CASE UNCHANGED <<call, born, known, armed>>
  BY <1>1 DEF FreshTimers
<1>2. ASSUME NEW c \in Clients, NEW t \in Timers, NEW ms \in Intervals,
             NEW recur \in BOOLEAN, AddTimerCall(c, t, ms, recur)
      PROVE  FreshTimers'
  <2>1. \A d \in Clients : call'[d] = IF d = c THEN [op |-> "insert", timer |-> t] ELSE call[d]
    BY <1>2 DEF AddTimerCall, CallsOK
  <2>2. born' = born \union {t} /\ armed' = armed \union {t} /\ known' = known /\ t \notin born
    BY <1>2 DEF AddTimerCall
  <2>3. QED
    BY <2>1, <2>2 DEF FreshTimers
<1>3. ASSUME NEW c \in Clients, AddTimerLocked(c)
      PROVE  FreshTimers'
  <2> DEFINE t == call[c].timer
  <2>1. \A d \in Clients \ {c} : call'[d] = call[d]
    BY <1>3 DEF AddTimerLocked, InsertAndUnlock, CallsOK
  <2>2. call'[c] = Idle \/ call'[c] = [op |-> "front", timer |-> t]
    BY <1>3 DEF AddTimerLocked, InsertAndUnlock, CallsOK
  <2>3. armed' = armed /\ born' = born /\ known' \in {known, known \union {t}}
    BY <1>3 DEF AddTimerLocked, InsertAndUnlock
  <2>4. call[c].op = "insert"
    BY <1>3 DEF AddTimerLocked
  <2>5. \A d \in Clients \ {c} : call[d].op = "insert" => call[d].timer # t
    BY <2>4 DEF FreshTimers
  <2>6. t \in born
    BY <2>4 DEF FreshTimers
  <2> HIDE DEF t
  <2>7. QED
    BY <2>1, <2>2, <2>3, <2>5, <2>6 DEF FreshTimers, Idle
<1>4. ASSUME NEW c \in Clients, OnTimerInsertedAtFront(c)
      PROVE  FreshTimers'
  <2>1. \A d \in Clients : call'[d] = IF d = c THEN Idle ELSE call[d]
    BY <1>4 DEF OnTimerInsertedAtFront, CallsOK
  <2>2. armed' = armed /\ born' = born /\ known' = known \union {call[c].timer}
    BY <1>4 DEF OnTimerInsertedAtFront
  <2>3. \A d \in Clients \ {c} : call[d].op = "insert" => call[d].timer # call[c].timer
    BY <1>4 DEF OnTimerInsertedAtFront, FreshTimers
  <2>4. QED
    BY <2>1, <2>2, <2>3 DEF FreshTimers, Idle
<1>5. ASSUME NEW c \in Clients, NEW t \in Timers, NEW ms \in Intervals,
             NEW fromNow \in BOOLEAN, ResetCall(c, t, ms, fromNow)
      PROVE  FreshTimers'
  <2>1. \A d \in Clients : call'[d] =
          IF d = c THEN [op |-> "reset", timer |-> t, interval |-> ms, fromNow |-> fromNow]
                   ELSE call[d]
    BY <1>5 DEF ResetCall, CallsOK
  <2>2. UNCHANGED <<born, armed, known>> /\ t \in known
    BY <1>5 DEF ResetCall
  <2>3. QED
    BY <2>1, <2>2 DEF FreshTimers
<1>6. ASSUME NEW c \in Clients, ResetFails(c)
      PROVE  FreshTimers'
  <2>1. \A d \in Clients : call'[d] = IF d = c THEN Idle ELSE call[d]
    BY <1>6 DEF ResetFails, CallsOK
  <2>2. UNCHANGED <<born, armed, known>>
    BY <1>6 DEF ResetFails
  <2>3. QED
    BY <2>1, <2>2 DEF FreshTimers, Idle
<1>7. ASSUME NEW c \in Clients, ResetLocked(c)
      PROVE  FreshTimers'
  <2> DEFINE t == call[c].timer
  <2>1. \A d \in Clients \ {c} : call'[d] = call[d]
    BY <1>7 DEF ResetLocked, InsertAndUnlock, CallsOK
  <2>2. call'[c] = Idle \/ call'[c] = [op |-> "front", timer |-> t]
    BY <1>7 DEF ResetLocked, InsertAndUnlock, CallsOK
  <2>3. t \in known
    BY <1>7 DEF ResetLocked, FreshTimers
  <2>4. armed' = armed /\ born' = born /\ known' = known
    BY <1>7, <2>3 DEF ResetLocked, InsertAndUnlock
  <2> HIDE DEF t
  <2>5. QED
    BY <2>1, <2>2, <2>3, <2>4 DEF FreshTimers, Idle
<1>8. ASSUME NEW t \in Timers, Cancel(t)
      PROVE  FreshTimers'
  BY <1>8 DEF Cancel, FreshTimers
<1>9. ASSUME NEW p \in Pollers, ListExpired(p)
      PROVE  FreshTimers'
  <2> DEFINE due == {e[2] : e \in DueEntries(p)}
  <2>1. \A t \in due : t \notin Inserting
    BY EntryProperties DEF DueEntries
  <2>2. UNCHANGED <<call, born, known>> /\ armed' = armed \ (due \ recurring)
    BY <1>9 DEF ListExpired
  <2>3. \A c \in Clients : call[c].op = "insert" => call[c].timer \in Inserting
    BY DEF Inserting
  <2> HIDE DEF due
  <2>4. QED
    BY <2>1, <2>2, <2>3 DEF FreshTimers
<1>10. QED
  BY <1>1, <1>2, <1>3, <1>4, <1>5, <1>6, <1>7, <1>8, <1>9
  DEF Next, Tick, ClientStep, Finish, Refresh, PollerStep, GetIntervalToNextTimer, WakeUp,
      SleepEnds, ListExpiredCall, ListExpiredNone, RunCallbacks, vars
-----------------------------------------------------------------------------
(* Every step keeps the queue in agreement with the timers: whatever       *)
(* changes an expiry or takes a callback away also moves the entry.        *)
LEMMA StepKeepsQueueHoldsArmed ==
  ASSUME TypeOK, FreshTimers, QueueHoldsArmed, [Next]_vars
  PROVE  QueueHoldsArmed'
<1> USE DEF TypeOK, ObjectsOK, objects, manager, poller, history
<1>1. CASE UNCHANGED <<call, armed, expired, timers>>
  BY <1>1 DEF QueueHoldsArmed, Inserting, Entry
<1>2. ASSUME NEW c \in Clients, NEW t \in Timers, NEW ms \in Intervals,
             NEW recur \in BOOLEAN, AddTimerCall(c, t, ms, recur)
      PROVE  QueueHoldsArmed'
  <2>1. \A d \in Clients : call'[d] = IF d = c THEN [op |-> "insert", timer |-> t] ELSE call[d]
    BY <1>2 DEF AddTimerCall, CallsOK
  <2>2. call[c].op # "insert"
    BY <1>2 DEF AddTimerCall, Idle
  <2>3. Inserting' = Inserting \union {t}
    BY <2>1, <2>2 DEF Inserting
  <2>4. armed' = armed \union {t} /\ t \notin armed
    BY <1>2 DEF AddTimerCall
  <2>5. \A u \in Timers \ {t} : expired'[u] = expired[u]
    BY <1>2 DEF AddTimerCall
  <2>6. armed' \ Inserting' = armed \ Inserting /\ t \notin armed' \ Inserting'
    BY <2>3, <2>4
  <2>7. timers' = timers
    BY <1>2 DEF AddTimerCall
  <2>8. \A u \in armed \ Inserting : expired'[u] = expired[u]
    BY <2>5, <2>6
  <2>9. QED
    BY <2>6, <2>7, <2>8 DEF QueueHoldsArmed, Entry
<1>3. ASSUME NEW c \in Clients, AddTimerLocked(c)
      PROVE  QueueHoldsArmed'
  <2> DEFINE t == call[c].timer
  <2>1. \A d \in Clients \ {c} : call'[d] = call[d]
    BY <1>3 DEF AddTimerLocked, InsertAndUnlock, CallsOK
  <2>2. call'[c].op # "insert" /\ call[c].op = "insert"
    BY <1>3 DEF AddTimerLocked, InsertAndUnlock, CallsOK, Idle
  <2>3. \A d \in Clients \ {c} : call[d].op = "insert" => call[d].timer # t
    BY <2>2 DEF FreshTimers
  <2>4. Inserting' = Inserting \ {t}
    BY <2>1, <2>2, <2>3 DEF Inserting
  <2>5. t \in armed /\ armed' = armed /\ expired' = expired
    BY <1>3 DEF AddTimerLocked, FreshTimers
  <2>6. timers' = timers \union {Entry(t)}
    BY <1>3 DEF AddTimerLocked, InsertAndUnlock, Entry
  <2>7. armed' \ Inserting' = (armed \ Inserting) \union {t}
    BY <2>4, <2>5
  <2>8. QED
    BY <2>5, <2>6, <2>7 DEF QueueHoldsArmed, Entry
<1>4. ASSUME NEW c \in Clients, OnTimerInsertedAtFront(c)
      PROVE  QueueHoldsArmed'
  <2>1. \A d \in Clients : call'[d] = IF d = c THEN Idle ELSE call[d]
    BY <1>4 DEF OnTimerInsertedAtFront, CallsOK
  <2>2. Inserting' = Inserting
    BY <1>4, <2>1 DEF Inserting, Idle, OnTimerInsertedAtFront
  <2>3. QED
    BY <1>4, <2>2 DEF QueueHoldsArmed, Entry, OnTimerInsertedAtFront
<1>5. ASSUME NEW c \in Clients, NEW t \in Timers, NEW ms \in Intervals,
             NEW fromNow \in BOOLEAN, ResetCall(c, t, ms, fromNow)
      PROVE  QueueHoldsArmed'
  <2>1. \A d \in Clients : call'[d] =
          IF d = c THEN [op |-> "reset", timer |-> t, interval |-> ms, fromNow |-> fromNow]
                   ELSE call[d]
    BY <1>5 DEF ResetCall, CallsOK
  <2>2. call[c].op # "insert"
    BY <1>5 DEF ResetCall, Idle
  <2>3. Inserting' = Inserting
    BY <2>1, <2>2 DEF Inserting
  <2>4. QED
    BY <1>5, <2>3 DEF QueueHoldsArmed, Entry, ResetCall
<1>6. ASSUME NEW c \in Clients, ResetFails(c)
      PROVE  QueueHoldsArmed'
  <2>1. \A d \in Clients : call'[d] = IF d = c THEN Idle ELSE call[d]
    BY <1>6 DEF ResetFails, CallsOK
  <2>2. Inserting' = Inserting
    BY <1>6, <2>1 DEF Inserting, Idle, ResetFails
  <2>3. QED
    BY <1>6, <2>2 DEF QueueHoldsArmed, Entry, ResetFails
<1>7. ASSUME NEW c \in Clients, ResetLocked(c)
      PROVE  QueueHoldsArmed'
  <2> DEFINE t == call[c].timer
             k == Word((IF call[c].fromNow THEN now ELSE Word(expired[t] - interval[t]))
                          + call[c].interval)
  <2>1. \A d \in Clients \ {c} : call'[d] = call[d]
    BY <1>7 DEF ResetLocked, InsertAndUnlock, CallsOK
  <2>2. call'[c].op # "insert" /\ call[c].op # "insert"
    BY <1>7 DEF ResetLocked, InsertAndUnlock, CallsOK, Idle
  <2>3. Inserting' = Inserting
    BY <2>1, <2>2 DEF Inserting
  <2>4. t \in armed /\ armed' = armed /\ Entry(t) \in timers
    BY <1>7 DEF ResetLocked
  <2>5. expired' = [expired EXCEPT ![t] = k]
    BY <1>7 DEF ResetLocked
  <2>6. timers' = (timers \ {Entry(t)}) \union {<<k, t>>}
    BY <1>7 DEF ResetLocked, InsertAndUnlock
  <2> HIDE DEF t, k
  <2>7. t \in armed \ Inserting
    BY <2>4, EntryProperties DEF Entry
  <2>8. expired'[t] = k /\ \A u \in Timers \ {t} : expired'[u] = expired[u]
    BY <2>4, <2>5
  <2>9. timers' = {<<expired'[u], u>> : u \in armed \ Inserting}
    BY <2>6, <2>7, <2>8 DEF QueueHoldsArmed, Entry
  <2>10. QED
    BY <2>3, <2>4, <2>9 DEF QueueHoldsArmed, Entry
<1>8. ASSUME NEW t \in Timers, Cancel(t)
      PROVE  QueueHoldsArmed'
  <2>1. Inserting' = Inserting
    BY <1>8 DEF Cancel, Inserting
  <2>2. timers' = timers \ {Entry(t)} /\ armed' = armed \ {t} /\ expired' = expired
    BY <1>8 DEF Cancel
  <2>3. timers' = {Entry(u) : u \in armed' \ Inserting}
    BY <2>2 DEF QueueHoldsArmed, Entry
  <2>4. QED
    BY <2>1, <2>2, <2>3 DEF QueueHoldsArmed, Entry
<1>9. ASSUME NEW t \in Timers, Refresh(t)
      PROVE  QueueHoldsArmed'
  <2> DEFINE k == Word(now + interval[t])
  <2>1. Inserting' = Inserting
    BY <1>9 DEF Refresh, Inserting
  <2>2. armed' = armed /\ Entry(t) \in timers
    BY <1>9 DEF Refresh
  <2>3. expired' = [expired EXCEPT ![t] = k]
    BY <1>9 DEF Refresh
  <2>4. timers' = (timers \ {Entry(t)}) \union {<<expired'[t], t>>}
    BY <1>9 DEF Refresh
  <2> HIDE DEF k
  <2>5. t \in armed \ Inserting
    BY <2>2, EntryProperties DEF Entry
  <2>6. expired'[t] = k /\ \A u \in Timers \ {t} : expired'[u] = expired[u]
    BY <2>3
  <2>7. timers' = {<<expired'[u], u>> : u \in armed \ Inserting}
    BY <2>4, <2>5, <2>6 DEF QueueHoldsArmed, Entry
  <2>8. QED
    BY <2>1, <2>2, <2>7 DEF QueueHoldsArmed, Entry
<1>10. ASSUME NEW p \in Pollers, ListExpired(p)
      PROVE  QueueHoldsArmed'
  <2> DEFINE due == {e[2] : e \in DueEntries(p)}
             again == due \intersect recurring
             key(t) == Word(held[p] + interval[t])
  <2>1. Inserting' = Inserting
    BY <1>10 DEF ListExpired, Inserting
  <2>2. armed' = armed \ (due \ recurring)
    BY <1>10 DEF ListExpired
  <2>3. expired' = [t \in Timers |-> IF t \in again THEN key(t) ELSE expired[t]]
    BY <1>10 DEF ListExpired
  <2>4. timers' = (timers \ DueEntries(p)) \union {<<key(t), t>> : t \in again}
    BY <1>10 DEF ListExpired
  <2>5. DueEntries(p) \subseteq timers
    BY DEF DueEntries
  <2>6. DueEntries(p) = {Entry(t) : t \in due}
    BY <2>5, EntryProperties DEF Entry
  <2>7. due \subseteq armed \ Inserting
    BY <2>5, EntryProperties
  <2> HIDE DEF due, key
  <2>8. timers \ DueEntries(p) = {Entry(t) : t \in (armed \ Inserting) \ due}
    BY <2>6, <2>7 DEF QueueHoldsArmed, Entry
  <2>9. \A t \in Timers : expired'[t] = IF t \in again THEN key(t) ELSE expired[t]
    BY <2>3
  <2>10. armed' \ Inserting = ((armed \ Inserting) \ due) \union again
    BY <2>2, <2>7
  <2>11. timers' = {<<expired'[t], t>> : t \in armed' \ Inserting}
    BY <2>4, <2>7, <2>8, <2>9, <2>10 DEF Entry
  <2>12. QED
    BY <2>1, <2>11 DEF QueueHoldsArmed, Entry
<1>11. QED
  BY <1>1, <1>2, <1>3, <1>4, <1>5, <1>6, <1>7, <1>8, <1>9, <1>10
  DEF Next, Tick, ClientStep, Finish, PollerStep, GetIntervalToNextTimer, WakeUp,
      SleepEnds, ListExpiredCall, ListExpiredNone, RunCallbacks, vars
-----------------------------------------------------------------------------
(* Cancel takes the callback away as it counts the timer as cancelled, and *)
(* ListExpiredTimerCallbacks as it hands it out: nothing is left for a     *)
(* second one.                                                             *)
LEMMA StepKeepsSettled ==
  ASSUME TypeOK, QueueHoldsArmed, Unsettled, OneShotSettledOnce, [Next]_vars
  PROVE  Unsettled' /\ OneShotSettledOnce'
<1> USE DEF TypeOK, ObjectsOK, HistoryOK, objects, manager, poller, history
<1>1. CASE UNCHANGED <<born, recurring, armed, handed, cancelled>>
  BY <1>1 DEF Unsettled, OneShotSettledOnce
<1>2. ASSUME NEW c \in Clients, NEW t \in Timers, NEW ms \in Intervals,
             NEW recur \in BOOLEAN, AddTimerCall(c, t, ms, recur)
      PROVE  Unsettled' /\ OneShotSettledOnce'
  <2>1. /\ t \notin born /\ born' = born \union {t} /\ armed' = armed \union {t}
        /\ recurring \subseteq recurring' /\ recurring' \subseteq recurring \union {t}
        /\ handed' = handed /\ cancelled' = cancelled
    BY <1>2 DEF AddTimerCall
  <2>2. QED
    BY <2>1 DEF Unsettled, OneShotSettledOnce
<1>3. ASSUME NEW t \in Timers, Cancel(t)
      PROVE  Unsettled' /\ OneShotSettledOnce'
  BY <1>3 DEF Cancel, Unsettled, OneShotSettledOnce
<1>4. ASSUME NEW p \in Pollers, ListExpired(p)
      PROVE  Unsettled' /\ OneShotSettledOnce'
  <2> DEFINE due == {e[2] : e \in DueEntries(p)}
  <2>1. due \subseteq armed
    BY EntryProperties DEF DueEntries
  <2>2. /\ armed' = armed \ (due \ recurring)
        /\ UNCHANGED <<born, recurring, cancelled>>
    BY <1>4 DEF ListExpired
  <2>3. handed' = [t \in Timers |-> IF t \in due \ recurring /\ handed[t] < 2
                                    THEN handed[t] + 1 ELSE handed[t]]
    BY <1>4 DEF ListExpired
  <2> HIDE DEF due
  <2>4. \A t \in Timers \ (due \ recurring) : handed'[t] = handed[t]
    BY <2>3
  <2>5. \A t \in due \ recurring : handed'[t] = 1 /\ t \notin cancelled
    BY <2>1, <2>3 DEF Unsettled
  <2>6. Unsettled'
    BY <2>1, <2>2, <2>4 DEF Unsettled
  <2>7. OneShotSettledOnce'
    BY <2>2, <2>4, <2>5 DEF OneShotSettledOnce
  <2>8. QED
    BY <2>6, <2>7
<1>5. QED
  BY <1>1, <1>2, <1>3, <1>4
  DEF Next, Tick, ClientStep, Finish, AddTimerLocked, OnTimerInsertedAtFront, ResetCall,
      ResetFails, ResetLocked, Refresh, PollerStep, GetIntervalToNextTimer, WakeUp,
      SleepEnds, ListExpiredCall, ListExpiredNone, RunCallbacks, vars

LEMMA InitQueueInv == Init => QueueInv
<1> SUFFICES ASSUME Init PROVE QueueInv
  OBVIOUS
<1> USE ConstantsAssumption DEF Init
<1>1. ObjectsOK /\ QueueOK
  BY DEF ObjectsOK, QueueOK, Time
<1>2. FlagsOK
  BY Zenon DEF FlagsOK
<1>3. CallsOK
  BY DEF CallsOK, Calls
<1>4. PollersOK /\ HistoryOK
  BY DEF PollersOK, HistoryOK
<1>5. FreshTimers
  BY DEF FreshTimers, Idle
<1>6. QueueHoldsArmed /\ Unsettled /\ OneShotSettledOnce
  BY DEF QueueHoldsArmed, Unsettled, OneShotSettledOnce
<1>7. QED
  BY <1>1, <1>2, <1>3, <1>4, <1>5, <1>6 DEF QueueInv, TypeOK

(* Calls and pollers interleave as they like: the queue holds the armed    *)
(* timers under their own expiries, all along.                             *)
THEOREM QueueInvHolds == Spec => []QueueInv
<1>1. Init => QueueInv
  BY InitQueueInv
<1>2. QueueInv /\ [Next]_vars => QueueInv'
  BY StepKeepsTypeOK, StepKeepsFreshTimers, StepKeepsQueueHoldsArmed, StepKeepsSettled
  DEF QueueInv
<1>3. QED
  BY <1>1, <1>2, PTL DEF Spec

(* Every variable keeps its type; in particular no poller holds a time     *)
(* from before the manager or after the present.                           *)
THEOREM TypeOKHolds == Spec => []TypeOK
<1>1. QueueInv => TypeOK
  BY DEF QueueInv
<1>2. QED
  BY <1>1, QueueInvHolds, PTL

(* An armed timer has one entry, under its present expiry, and nobody else *)
(* has one.                                                                *)
THEOREM QueueHoldsArmedHolds == Spec => []QueueHoldsArmed
<1>1. QueueInv => QueueHoldsArmed
  BY DEF QueueInv
<1>2. QED
  BY <1>1, QueueInvHolds, PTL

(* A one-shot callback is handed out at most once, and not at all once     *)
(* Cancel has returned true.                                               *)
THEOREM OneShotSettledOnceHolds == Spec => []OneShotSettledOnce
<1>1. QueueInv => OneShotSettledOnce
  BY DEF QueueInv
<1>2. QED
  BY <1>1, QueueInvHolds, PTL
-----------------------------------------------------------------------------
(* No step makes a poller that has read the clock later than MaxDelay.     *)
LEMMA StepKeepsPrompt ==
  ASSUME TypeOK, Prompt, [Next]_vars
  PROVE  Prompt'
<1> USE DEF objects, manager, poller, history
<1> SUFFICES ASSUME NEW p \in Pollers, ppc'[p] = "list"
             PROVE  now' - held'[p] <= MaxDelay
  BY DEF Prompt
<1>0. /\ now \in Nat /\ MaxDelay \in Nat /\ held[p] \in Nat
      /\ ppc \in [Pollers -> {"awake", "asleep", "read", "list", "run"}]
      /\ held \in [Pollers -> Nat]
  BY ConstantsAssumption DEF TypeOK, ObjectsOK, PollersOK
<1>1. CASE now' = now /\ ppc'[p] = ppc[p] /\ held'[p] = held[p]
  BY <1>1 DEF Prompt
<1>2. CASE UNCHANGED <<now, ppc, held>>
  BY <1>1, <1>2
<1>3. CASE Tick
  <2>1. now' = now + 1 /\ held'[p] = held[p] /\ now - held[p] < MaxDelay
    BY <1>3 DEF Tick
  <2>2. QED
    BY <1>0, <2>1
<1>4. ASSUME NEW q \in Pollers, PollerStep(q)
      PROVE  now' - held'[p] <= MaxDelay
  <2>1. CASE p = q /\ ListExpiredCall(q)
    <3>1. now' = now /\ held'[p] = now
      BY <1>0, <2>1 DEF ListExpiredCall
    <3>2. QED
      BY <1>0, <3>1
  <2>2. CASE p # q
    BY <1>0, <1>1, <1>4, <2>2
    DEF PollerStep, GetIntervalToNextTimer, WakeUp, SleepEnds, ListExpiredCall,
        ListExpiredNone, ListExpired, RunCallbacks
  <2>3. CASE p = q /\ ~ListExpiredCall(q)
    <3>1. ppc'[p] # "list"
      BY <1>0, <1>4, <2>3
      DEF PollerStep, GetIntervalToNextTimer, WakeUp, SleepEnds, ListExpiredNone,
          ListExpired, RunCallbacks
    <3>2. QED
      BY <3>1
  <2>4. QED
    BY <2>1, <2>2, <2>3
<1>5. QED
  BY <1>2, <1>3, <1>4
  DEF vars, Next, ClientStep, Finish, AddTimerCall, AddTimerLocked, OnTimerInsertedAtFront,
      ResetCall, ResetFails, ResetLocked, Cancel, Refresh

LEMMA PromptHolds == Spec => []Prompt
<1>1. Init => Prompt
  BY DEF Init, Prompt
<1>2. TypeOK /\ Prompt /\ [Next]_vars => Prompt'
  BY StepKeepsPrompt
<1>3. QED
  BY <1>1, <1>2, TypeOKHolds, PTL DEF Spec

(* A poller holds a time that is at most an hour old; preTime is not in    *)
(* the future, and an hour can be subtracted from it without wrapping.     *)
LEMMA NoRolloverInvariant ==
  ASSUME ClockAssumption, TypeOK, Prompt
  PROVE  NoRollover
<1> SUFFICES ASSUME NEW p \in Pollers, ppc[p] = "list"
             PROVE  ~ClockRolledOver(held[p])
  BY DEF NoRollover
<1>1. preTime \in BootTime .. now /\ held[p] \in BootTime .. now
  BY DEF TypeOK, QueueOK, PollersOK
<1>2. now \in Nat /\ now < W /\ Hour <= BootTime /\ now - held[p] <= Hour
  BY <1>1, ConstantsAssumption DEF ClockAssumption, Prompt, TypeOK, ObjectsOK
<1>3. Word(preTime - Hour) = preTime - Hour
  <2>1. preTime - Hour \in 0 .. W - 1
    BY <1>1, <1>2, ConstantsAssumption
  <2>2. QED
    BY <2>1, ConstantsAssumption DEF Word
<1>4. QED
  BY <1>1, <1>2, <1>3, ConstantsAssumption DEF ClockRolledOver

(* A clock that does not go back is never taken for one that did, however  *)
(* long the program runs, once the machine has been up for an hour and     *)
(* while no poller waits for the lock longer than that.                    *)
THEOREM NoRolloverHolds ==
  ASSUME ClockAssumption
  PROVE  Spec => []NoRollover
<1>1. TypeOK /\ Prompt => NoRollover
  BY NoRolloverInvariant
<1>2. QED
  BY <1>1, TypeOKHolds, PromptHolds, PTL

(* ... so no callback is handed out before its timer has expired.          *)
THEOREM NoEarlyCallbackHolds ==
  ASSUME ClockAssumption
  PROVE  Spec => NoEarlyCallback
<1> DEFINE Punctual == \A p \in Pollers : \A t \in cbs'[p] \ cbs[p] : expired[t] <= now
<1>1. QueueInv /\ Prompt /\ [Next]_vars => [Punctual]_vars
  <2> SUFFICES ASSUME QueueInv, Prompt, Next
               PROVE  Punctual
    BY Zenon
  <2> USE DEF objects, manager, poller, history
  <2>1. CASE UNCHANGED cbs
    BY <2>1
  <2>2. ASSUME NEW q \in Pollers, RunCallbacks(q)
        PROVE  Punctual
    <3>1. \A p \in Pollers : cbs'[p] \subseteq cbs[p]
      BY <2>2 DEF RunCallbacks, QueueInv, TypeOK, PollersOK
    <3>2. QED
      BY <3>1
  <2>3. ASSUME NEW q \in Pollers, ListExpired(q)
        PROVE  Punctual
    <3>1. \A p \in Pollers \ {q} : cbs'[p] = cbs[p]
      BY <2>3 DEF ListExpired, QueueInv, TypeOK, PollersOK
    <3>2. cbs'[q] = {e[2] : e \in DueEntries(q)}
      BY <2>3 DEF ListExpired, QueueInv, TypeOK, PollersOK
    <3>3. ~ClockRolledOver(held[q]) /\ held[q] \in BootTime .. now
      BY <2>3, NoRolloverInvariant
      DEF ListExpired, NoRollover, QueueInv, TypeOK, PollersOK
    <3>4. \A e \in DueEntries(q) : e \in timers /\ e[1] <= held[q]
      BY <3>3 DEF DueEntries
    <3>5. \A e \in DueEntries(q) : expired[e[2]] <= held[q]
      BY <3>4, EntryProperties DEF QueueInv
    <3>6. \A e \in DueEntries(q) : expired[e[2]] \in Nat /\ now \in Nat
      <4>1. \A e \in DueEntries(q) : e[2] \in Timers
        BY <3>4 DEF QueueInv, TypeOK, QueueOK
      <4>2. now \in Nat /\ \A t \in Timers : expired[t] \in Nat
        BY ConstantsAssumption DEF QueueInv, TypeOK, ObjectsOK, Time
      <4>3. QED
        BY <4>1, <4>2
    <3>7. QED
      BY <3>1, <3>2, <3>3, <3>5, <3>6, ConstantsAssumption
  <2>4. QED
    BY <2>1, <2>2, <2>3
    DEF Next, Tick, ClientStep, Finish, AddTimerCall, AddTimerLocked,
        OnTimerInsertedAtFront, ResetCall, ResetFails, ResetLocked, Cancel, Refresh,
        PollerStep, GetIntervalToNextTimer, WakeUp, SleepEnds, ListExpiredCall,
        ListExpiredNone
<1>2. QED
  BY <1>1, QueueInvHolds, PromptHolds, PTL DEF Spec, NoEarlyCallback
-----------------------------------------------------------------------------
(* Only Reset keeps the lock, of a timer that has no callback: had it one, *)
(* the timer would be queued, as its handle is known.  No step arms a      *)
(* timer again.                                                            *)
LEMMA StepKeepsWedge ==
  ASSUME QueueInv, WedgeNeedsDeadTimer, [Next]_vars
  PROVE  WedgeNeedsDeadTimer'
<1> USE DEF objects, manager, poller, history
<1>1. known \ armed \subseteq known' \ armed'
  <2>1. known \subseteq born
    BY DEF QueueInv, TypeOK, ObjectsOK
  <2>2. CASE UNCHANGED vars \/ Tick
    BY <2>2 DEF vars, Tick
  <2>3. ASSUME NEW c \in Clients, ClientStep(c)
        PROVE  known \ armed \subseteq known' \ armed'
    <3>1. CASE Finish(c)
      BY <3>1 DEF Finish, AddTimerLocked, InsertAndUnlock, OnTimerInsertedAtFront, ResetFails,
                  ResetLocked
    <3>2. CASE \E t \in Timers, ms \in Intervals, recur \in BOOLEAN : AddTimerCall(c, t, ms, recur)
      BY <2>1, <3>2 DEF AddTimerCall
    <3>3. CASE \E t \in Timers, ms \in Intervals, fromNow \in BOOLEAN : ResetCall(c, t, ms, fromNow)
      BY <3>3 DEF ResetCall
    <3>4. QED
      BY <2>3, <3>1, <3>2, <3>3 DEF ClientStep
  <2>4. ASSUME NEW t \in Timers, Cancel(t) \/ Refresh(t)
        PROVE  known \ armed \subseteq known' \ armed'
    BY <2>4 DEF Cancel, Refresh
  <2>5. ASSUME NEW p \in Pollers, PollerStep(p)
        PROVE  known \ armed \subseteq known' \ armed'
    BY <2>5 DEF PollerStep, GetIntervalToNextTimer, WakeUp, SleepEnds, ListExpiredCall,
                ListExpiredNone, ListExpired, RunCallbacks
  <2>6. QED
    BY <2>2, <2>3, <2>4, <2>5 DEF Next
<1>2. ASSUME NEW c \in Clients, ResetFails(c)
      PROVE  \E t \in known : t \notin armed
  <2> DEFINE t == call[c].timer
  <2>1. t \in known /\ (t \notin armed \/ Entry(t) \notin timers)
    BY <1>2 DEF ResetFails, QueueInv, FreshTimers
  <2>2. t \notin Inserting
    BY <2>1 DEF Inserting, QueueInv, FreshTimers
  <2>3. t \notin armed
    BY <2>1, <2>2 DEF QueueInv, QueueHoldsArmed
  <2>4. QED
    BY <2>1, <2>3
<1>3. CASE \E c \in Clients : ResetFails(c)
  BY <1>1, <1>2, <1>3 DEF WedgeNeedsDeadTimer
<1>4. CASE UNCHANGED wedged
  BY <1>1, <1>4 DEF WedgeNeedsDeadTimer
<1>5. QED
  BY <1>3, <1>4, Zenon
  DEF Next, vars, Tick, ClientStep, Finish, AddTimerCall, AddTimerLocked,
      OnTimerInsertedAtFront, ResetCall, ResetLocked, Cancel, Refresh, PollerStep,
      GetIntervalToNextTimer, WakeUp, SleepEnds, ListExpiredCall, ListExpiredNone,
      ListExpired, RunCallbacks

(* The lock is lost only where a timer has fired or was cancelled.         *)
THEOREM WedgeNeedsDeadTimerHolds == Spec => []WedgeNeedsDeadTimer
<1>1. Init => WedgeNeedsDeadTimer
  BY DEF Init, WedgeNeedsDeadTimer
<1>2. QueueInv /\ WedgeNeedsDeadTimer /\ [Next]_vars => WedgeNeedsDeadTimer'
  BY StepKeepsWedge
<1>3. QED
  BY <1>1, <1>2, QueueInvHolds, PTL DEF Spec
-----------------------------------------------------------------------------
(* A queue whose keys are not below those it had has no earlier front.     *)
LEMMA FrontMonotone ==
  ASSUME QueueOK, QueueOK', timers' # {},
         \A e \in timers' : \E f \in timers : f[1] <= e[1]
  PROVE  timers # {} /\ FrontKey <= FrontKey'
<1>1. PICK e \in timers' : e[1] = FrontKey'
  BY LeastKey DEF QueueOK, FrontKey
<1>2. PICK f \in timers : f[1] <= e[1]
  OBVIOUS
<1>3. f[1] \in Nat /\ e[1] \in Nat
  BY ConstantsAssumption DEF QueueOK, Time
<1>4. FrontKey <= f[1] /\ FrontKey \in Nat
  BY FrontKeyProperties, ConstantsAssumption DEF Time
<1>5. QED
  BY <1>1, <1>2, <1>3, <1>4

(* ... so whoever would have woken in time still does.                     *)
LEMMA FrontMovesBack ==
  ASSUME TypeOK, TypeOK', NoOversleep, UNCHANGED <<now, ppc, held, woken>>,
         \A c \in Clients : call[c].op = "front" => call'[c].op = "front",
         \A e \in timers' : \E f \in timers : f[1] <= e[1]
  PROVE  NoOversleep'
<1> SUFFICES ASSUME timers' # {}
             PROVE  \/ woken'
                    \/ \E c \in Clients : call'[c].op = "front"
                    \/ \E p \in Pollers : \/ ppc'[p] # "asleep"
                                          \/ held'[p] <= FrontKey'
                                          \/ held'[p] <= now'
  BY DEF NoOversleep
<1>1. timers # {} /\ FrontKey <= FrontKey'
  BY FrontMonotone DEF TypeOK
<1>2. FrontKey \in Nat /\ FrontKey' \in Nat
  <2>1. FrontKey \in Time
    BY <1>1, FrontKeyProperties DEF TypeOK
  <2>2. FrontKey' \in Time
    BY LeastKey DEF TypeOK, QueueOK, FrontKey
  <2>3. QED
    BY <2>1, <2>2, ConstantsAssumption DEF Time
<1>3. CASE woken \/ \E c \in Clients : call[c].op = "front"
  BY <1>3
<1>4. ASSUME NEW p \in Pollers, ppc[p] # "asleep" \/ held[p] <= FrontKey \/ held[p] <= now
      PROVE  ppc'[p] # "asleep" \/ held'[p] <= FrontKey' \/ held'[p] <= now'
  <2>1. held[p] \in Nat
    BY DEF TypeOK, PollersOK
  <2>2. QED
    BY <1>1, <1>2, <1>4, <2>1
<1>5. QED
  BY <1>1, <1>3, <1>4 DEF NoOversleep

(* An entry that goes in: its client calls OnTimerInsertedAtFront, or one  *)
(* that did so is not forgotten, or an entry before it stays.              *)
LEMMA InsertKeepsWake ==
  ASSUME QueueInv, QueueInv', NoOversleep, tickled => SomebodyUp,
         NEW c \in Clients, NEW t \in Timers, NEW key \in Time,
         NEW rest \in SUBSET timers, InsertAndUnlock(c, t, key, rest),
         call[c].op # "front", UNCHANGED <<now, ppc, held, woken>>
  PROVE  (tickled' => SomebodyUp') /\ NoOversleep'
<1>0. \A d \in Clients \ {c} : call'[d] = call[d]
  BY DEF InsertAndUnlock, QueueInv, TypeOK, CallsOK
<1>1. CASE First(<<key, t>>, rest) /\ ~tickled
  <2>1. call'[c].op = "front"
    BY <1>1 DEF InsertAndUnlock, QueueInv, TypeOK, CallsOK
  <2>2. QED
    BY <2>1 DEF SomebodyUp, NoOversleep
<1>2. CASE tickled
  <2>1. SomebodyUp'
    BY <1>0, <1>2 DEF SomebodyUp
  <2>2. QED
    BY <2>1 DEF SomebodyUp, NoOversleep
<1>3. CASE ~tickled /\ ~First(<<key, t>>, rest)
  <2>1. ~tickled'
    BY <1>3, Zenon DEF InsertAndUnlock
  <2>2. PICK f \in rest : Before(f, <<key, t>>)
    BY <1>3 DEF First
  <2>3. f \in timers /\ f[1] <= key
    BY <2>2, ConstantsAssumption DEF Before, QueueInv, TypeOK, QueueOK, Time
  <2>4. timers' = rest \union {<<key, t>>}
    BY DEF InsertAndUnlock
  <2>5. \A e \in timers : e[1] <= e[1]
    BY ConstantsAssumption DEF QueueInv, TypeOK, QueueOK, Time
  <2>6. \A e \in timers' : \E g \in timers : g[1] <= e[1]
    BY <2>3, <2>4, <2>5
  <2>7. QED
    BY <1>0, <2>1, <2>6, FrontMovesBack DEF QueueInv
<1>4. QED
  BY <1>1, <1>2, <1>3

(* A moment that has come plus an interval is a time that does not wrap.   *)
LEMMA NoWrap ==
  ASSUME IntervalsAssumption, NEW s \in Nat, NEW m \in Nat, s <= m, m <= MaxTime,
         NEW ms \in Intervals
  PROVE  Word(s + ms) = s + ms
<1>1. ms \in Nat /\ s + ms \in 0 .. W - 1
  BY ConstantsAssumption DEF IntervalsAssumption
<1>2. QED
  BY <1>1, ConstantsAssumption DEF Word

(* Expiries stay moments that have come, plus the interval.                *)
LEMMA StepKeepsAnchored ==
  ASSUME IntervalsAssumption, QueueInv, Anchored, [Next]_vars
  PROVE  Anchored'
<1> USE ConstantsAssumption DEF QueueInv, TypeOK, ObjectsOK, Time, objects, manager, poller, history
<1>0. now \in Nat /\ MaxTime \in Nat /\ now <= MaxTime /\ now <= now /\ Intervals \subseteq Nat
  OBVIOUS
<1>1. CASE UNCHANGED <<now, born, expired, interval>>
  BY <1>1 DEF Anchored
<1>2. CASE Tick
  <2>1. now' = now + 1 /\ UNCHANGED <<born, expired, interval>>
    BY <1>2 DEF Tick
  <2>2. QED
    BY <1>0, <2>1 DEF Anchored
<1>3. ASSUME NEW c \in Clients, NEW t \in Timers, NEW ms \in Intervals,
             NEW recur \in BOOLEAN, AddTimerCall(c, t, ms, recur)
      PROVE  Anchored'
  <2>1. Word(now + ms) = now + ms /\ ms \in Nat
    BY <1>0, NoWrap
  <2>2. \A u \in born : expired'[u] = expired[u] /\ interval'[u] = interval[u]
    BY <1>3 DEF AddTimerCall
  <2>3. expired'[t] = now + ms /\ interval'[t] = ms /\ born' = born \union {t} /\ now' = now
    BY <1>3, <2>1 DEF AddTimerCall
  <2>4. QED
    BY <1>0, <2>1, <2>2, <2>3 DEF Anchored
<1>4. ASSUME NEW c \in Clients, ResetLocked(c)
      PROVE  Anchored'
  <2> DEFINE t     == call[c].timer
             ms    == call[c].interval
             start == IF call[c].fromNow THEN now ELSE Word(expired[t] - interval[t])
  <2>1. t \in born /\ ms \in Intervals
    BY <1>4, CallProperties DEF ResetLocked
  <2>2. start \in Nat /\ start <= now
    <3>1. expired[t] - interval[t] \in 0 .. W - 1 /\ expired[t] - interval[t] <= now
      <4>1. /\ expired[t] \in Nat /\ expired[t] < W /\ interval[t] \in Nat
            /\ interval[t] <= expired[t] /\ expired[t] - interval[t] <= now
        <5>1. expired[t] \in Time /\ interval[t] \in Time
          BY <2>1
        <5>2. interval[t] <= expired[t] /\ expired[t] - interval[t] <= now
          BY <2>1 DEF Anchored
        <5>3. QED
          BY <5>1, <5>2
      <4> HIDE DEF t
      <4>2. QED
        BY <4>1
    <3>2. QED
      BY <1>0, <3>1 DEF Word
  <2>3. /\ expired' = [expired EXCEPT ![t] = Word(start + ms)]
        /\ interval' = [interval EXCEPT ![t] = ms]
        /\ born' = born /\ now' = now
    BY <1>4 DEF ResetLocked
  <2> HIDE DEF t, ms, start
  <2>4. Word(start + ms) = start + ms /\ ms \in Nat
    BY <1>0, <2>1, <2>2, NoWrap
  <2>5. QED
    BY <1>0, <2>1, <2>2, <2>3, <2>4 DEF Anchored
<1>5. ASSUME NEW t \in Timers, Refresh(t)
      PROVE  Anchored'
  <2>1. t \in born /\ interval[t] \in Intervals /\ interval[t] \in Nat
    BY <1>5 DEF Refresh, Anchored
  <2>2. Word(now + interval[t]) = now + interval[t]
    BY <1>0, <2>1, NoWrap
  <2>3. expired' = [expired EXCEPT ![t] = now + interval[t]]
    BY <1>5, <2>2 DEF Refresh
  <2>4. UNCHANGED <<now, born, interval>>
    BY <1>5 DEF Refresh
  <2>5. QED
    BY <1>0, <2>1, <2>3, <2>4 DEF Anchored
<1>6. ASSUME NEW p \in Pollers, ListExpired(p)
      PROVE  Anchored'
  <2> DEFINE again == {e[2] : e \in DueEntries(p)} \intersect recurring
  <2>1. held[p] \in Nat /\ held[p] <= now
    BY <1>6 DEF ListExpired, PollersOK
  <2>2. expired' = [t \in Timers |-> IF t \in again THEN Word(held[p] + interval[t])
                                    ELSE expired[t]]
    BY <1>6 DEF ListExpired
  <2>3. UNCHANGED <<now, born, interval>>
    BY <1>6 DEF ListExpired
  <2> HIDE DEF again
  <2>4. ASSUME NEW t \in born
        PROVE  /\ interval'[t] \in Intervals /\ interval'[t] <= expired'[t]
               /\ expired'[t] - interval'[t] <= now'
    <3>1. interval[t] \in Intervals /\ interval[t] \in Nat /\ t \in Timers
      BY <2>4 DEF Anchored
    <3>2. Word(held[p] + interval[t]) = held[p] + interval[t]
      BY <1>0, <2>1, <3>1, NoWrap
    <3>3. expired'[t] = IF t \in again THEN held[p] + interval[t] ELSE expired[t]
      BY <2>2, <3>1, <3>2
    <3>4. QED
      BY <1>0, <2>1, <2>3, <3>1, <3>3 DEF Anchored
  <2>5. QED
    BY <2>3, <2>4 DEF Anchored
<1>7. QED
  BY <1>1, <1>2, <1>3, <1>4, <1>5, <1>6
  DEF Next, ClientStep, Finish, AddTimerLocked, OnTimerInsertedAtFront, ResetCall,
      ResetFails, Cancel, PollerStep, GetIntervalToNextTimer, WakeUp, SleepEnds,
      ListExpiredCall, ListExpiredNone, RunCallbacks, vars

(* No step lets the pollers sleep past the first expiry, and while the     *)
(* wake-up is suppressed there is no need of one.                          *)
LEMMA StepKeepsWake ==
  ASSUME IntervalsAssumption, WakeInv, QueueInv', [Next]_vars
  PROVE  (tickled' => SomebodyUp') /\ NoOversleep'
<1> USE DEF WakeInv, objects, manager, poller, history
<1>0. /\ TypeOK /\ TypeOK' /\ QueueInv
      /\ \A e \in timers : e[1] <= e[1]
  BY ConstantsAssumption DEF QueueInv, TypeOK, QueueOK, Time
<1>a. ASSUME UNCHANGED <<now, ppc, held, woken, tickled>>,
             \A c \in Clients : call[c].op = "front" => call'[c].op = "front",
             \A e \in timers' : \E f \in timers : f[1] <= e[1]
      PROVE  (tickled' => SomebodyUp') /\ NoOversleep'
  <2>1. NoOversleep'
    BY <1>0, <1>a, FrontMovesBack
  <2>2. SomebodyUp => SomebodyUp'
    BY <1>a DEF SomebodyUp
  <2>3. QED
    BY <1>a, <2>1, <2>2
<1>b. ASSUME SomebodyUp'
      PROVE  (tickled' => SomebodyUp') /\ NoOversleep'
  BY <1>b DEF SomebodyUp, NoOversleep
<1>1. CASE UNCHANGED vars
  BY <1>0, <1>1, <1>a DEF vars
<1>2. CASE Tick
  <2>1. UNCHANGED <<timers, FrontKey, call, ppc, held, woken, tickled>> /\ now' = now + 1
    BY <1>2 DEF Tick, FrontKey
  <2>2. SomebodyUp => SomebodyUp'
    BY <2>1 DEF SomebodyUp
  <2>3. \A p \in Pollers : held[p] <= now => held'[p] <= now'
    BY <1>0, <2>1, ConstantsAssumption DEF TypeOK, PollersOK, ObjectsOK
  <2>4. NoOversleep'
    BY <2>1, <2>3 DEF NoOversleep
  <2>5. QED
    BY <2>1, <2>2, <2>4
<1>3. ASSUME NEW c \in Clients,
             \/ \E t \in Timers, ms \in Intervals, recur \in BOOLEAN : AddTimerCall(c, t, ms, recur)
             \/ \E t \in Timers, ms \in Intervals, fromNow \in BOOLEAN : ResetCall(c, t, ms, fromNow)
             \/ ResetFails(c)
      PROVE  (tickled' => SomebodyUp') /\ NoOversleep'
  <2>1. UNCHANGED <<now, timers, ppc, held, woken, tickled>>
    BY <1>3 DEF AddTimerCall, ResetCall, ResetFails
  <2>2. call[c].op # "front" /\ \A d \in Clients \ {c} : call'[d] = call[d]
    BY <1>0, <1>3 DEF AddTimerCall, ResetCall, ResetFails, Idle, TypeOK, CallsOK
  <2>3. QED
    BY <1>0, <1>a, <2>1, <2>2
<1>4. ASSUME NEW c \in Clients, AddTimerLocked(c)
      PROVE  (tickled' => SomebodyUp') /\ NoOversleep'
  <2> DEFINE t == call[c].timer
  <2>1. t \in Timers /\ expired[t] \in Time /\ call[c].op # "front"
    BY <1>0, <1>4, CallProperties DEF AddTimerLocked, TypeOK, ObjectsOK
  <2>2. InsertAndUnlock(c, t, expired[t], timers) /\ UNCHANGED <<now, ppc, held, woken>>
    BY <1>4 DEF AddTimerLocked
  <2> HIDE DEF t
  <2>3. QED
    BY <1>0, <2>1, <2>2, InsertKeepsWake
<1>5. ASSUME NEW c \in Clients, ResetLocked(c)
      PROVE  (tickled' => SomebodyUp') /\ NoOversleep'
  <2> DEFINE t     == call[c].timer
             start == IF call[c].fromNow THEN now ELSE Word(expired[t] - interval[t])
             key   == Word(start + call[c].interval)
             rest  == timers \ {Entry(t)}
  <2>1. t \in Timers /\ call[c].op # "front" /\ rest \in SUBSET timers
    BY <1>0, <1>5, CallProperties DEF ResetLocked, TypeOK
  <2>2. key \in Time
    <3>1. call[c].interval \in Int /\ now \in Int /\ expired[t] - interval[t] \in Int
      <4>1. call[c].interval \in Intervals
        BY <1>0, <1>5, CallProperties DEF ResetLocked, TypeOK
      <4>2. expired[t] \in Time /\ interval[t] \in Time /\ now \in Nat
        <5>1. expired \in [Timers -> Time] /\ interval \in [Timers -> Time] /\ now \in Nat
          BY <1>0, ConstantsAssumption DEF TypeOK, ObjectsOK
        <5>2. t \in Timers
          BY <2>1
        <5> HIDE DEF t
        <5>3. QED
          BY <5>1, <5>2
      <4>3. Intervals \subseteq Int /\ Time \subseteq Int
        BY ConstantsAssumption DEF Time
      <4>4. call[c].interval \in Int /\ expired[t] \in Int /\ interval[t] \in Int
        BY <4>1, <4>2, <4>3, Zenon
      <4> HIDE DEF t
      <4>5. QED
        BY <4>2, <4>4
    <3>2. start \in Int
      BY <3>1, WordType DEF Time
    <3> HIDE DEF start
    <3>3. QED
      BY <3>1, <3>2, WordType
  <2>3. InsertAndUnlock(c, t, key, rest) /\ UNCHANGED <<now, ppc, held, woken>>
    BY <1>5 DEF ResetLocked
  <2> HIDE DEF t, key, rest
  <2>4. QED
    BY <1>0, <2>1, <2>2, <2>3, InsertKeepsWake
<1>6. ASSUME NEW c \in Clients, OnTimerInsertedAtFront(c)
      PROVE  (tickled' => SomebodyUp') /\ NoOversleep'
  BY <1>6, <1>b DEF OnTimerInsertedAtFront, SomebodyUp
<1>7. ASSUME NEW t \in Timers, Cancel(t)
      PROVE  (tickled' => SomebodyUp') /\ NoOversleep'
  <2>1. UNCHANGED <<now, ppc, held, woken, tickled, call>> /\ timers' \subseteq timers
    BY <1>7 DEF Cancel
  <2>2. QED
    BY <1>0, <1>a, <2>1
<1>8. ASSUME NEW t \in Timers, Refresh(t)
      PROVE  (tickled' => SomebodyUp') /\ NoOversleep'
  <2>1. UNCHANGED <<now, ppc, held, woken, tickled, call>>
    BY <1>8 DEF Refresh
  <2>2. /\ Entry(t) \in timers /\ t \in born
        /\ timers' = (timers \ {Entry(t)}) \union {<<Word(now + interval[t]), t>>}
    BY <1>0, <1>8 DEF Refresh, TypeOK, ObjectsOK
  <2>3. now \in Nat /\ now <= MaxTime /\ interval[t] \in Intervals
    BY <2>2, <1>0, ConstantsAssumption DEF Anchored, TypeOK, ObjectsOK
  <2>4. Word(now + interval[t]) = now + interval[t]
    BY <2>3, NoWrap
  <2>5. Entry(t)[1] <= now + interval[t]
    BY <1>0, <2>2, <2>3, ConstantsAssumption DEF Anchored, Entry, TypeOK, ObjectsOK, Time
  <2>6. \A e \in timers' : \E f \in timers : f[1] <= e[1]
    BY <1>0, <2>2, <2>4, <2>5
  <2>7. QED
    BY <1>a, <2>1, <2>6
<1>9. ASSUME NEW p \in Pollers, GetIntervalToNextTimer(p)
      PROVE  (tickled' => SomebodyUp') /\ NoOversleep'
  <2>1. ~tickled' /\ UNCHANGED <<now, timers, FrontKey>>
    BY <1>9, Zenon DEF GetIntervalToNextTimer, FrontKey
  <2>2. held'[p] = now + IntervalToNextTimer
    BY <1>0, <1>9 DEF GetIntervalToNextTimer, TypeOK, PollersOK
  <2>3. ASSUME timers # {}
        PROVE  held'[p] <= FrontKey \/ held'[p] <= now
    <3>1. FrontKey \in Nat /\ now \in Nat
      BY <1>0, <2>3, FrontKeyProperties, ConstantsAssumption DEF TypeOK, ObjectsOK, Time
    <3>2. QED
      BY <2>2, <2>3, <3>1 DEF IntervalToNextTimer
  <2>4. QED
    BY <2>1, <2>3 DEF NoOversleep
<1>10. ASSUME NEW p \in Pollers,
              \/ WakeUp(p) \/ SleepEnds(p) \/ ListExpiredCall(p) \/ ListExpiredNone(p)
              \/ ListExpired(p) \/ RunCallbacks(p)
       PROVE  (tickled' => SomebodyUp') /\ NoOversleep'
  <2>1. ppc'[p] # "asleep"
    BY <1>0, <1>10
    DEF WakeUp, SleepEnds, ListExpiredCall, ListExpiredNone, ListExpired, RunCallbacks,
        TypeOK, PollersOK
  <2>2. QED
    BY <1>b, <2>1 DEF SomebodyUp
<1>11. QED
  BY <1>1, <1>2, <1>3, <1>4, <1>5, <1>6, <1>7, <1>8, <1>9, <1>10
  DEF Next, ClientStep, Finish, PollerStep

(* No poller sleeps past the first expiry, although Refresh wakes nobody   *)
(* and tickled_ keeps others from doing so.                                *)
THEOREM NoOversleepHolds ==
  ASSUME IntervalsAssumption
  PROVE  Spec => []NoOversleep
<1>1. Init => WakeInv
  BY InitQueueInv DEF Init, WakeInv, Anchored, NoOversleep
<1>2. WakeInv /\ [Next]_vars => WakeInv'
  <2> SUFFICES ASSUME WakeInv, [Next]_vars PROVE WakeInv'
    OBVIOUS
  <2>1. QueueInv'
    BY StepKeepsTypeOK, StepKeepsFreshTimers, StepKeepsQueueHoldsArmed, StepKeepsSettled
    DEF QueueInv, WakeInv
  <2>2. QED
    BY <2>1, StepKeepsAnchored, StepKeepsWake DEF WakeInv
<1>3. WakeInv => NoOversleep
  BY DEF WakeInv
<1>4. QED
  BY <1>1, <1>2, <1>3, PTL DEF Spec
=============================================================================
