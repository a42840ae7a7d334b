-------------------------- MODULE TimerServiceProofs --------------------------
(* The timer manager implements the timer service: initial states map to   *)
(* initial states and every step maps to a step or to a stutter, under the *)
(* assumption on the clock that excludes a rollover.                       *)
EXTENDS TimerManagerProofs

(* What is queued is what is armed and not under construction.             *)
LEMMA QueuedIsArmed ==
  ASSUME QueueInv
  PROVE  /\ Queued = armed \ Inserting
         /\ Queued \subseteq Timers /\ Queued \subseteq born
<1>1. Queued \subseteq armed \ Inserting
  BY EntryProperties DEF QueueInv, Queued
<1>2. \A t \in armed \ Inserting : Entry(t) \in timers /\ Entry(t)[2] = t
  BY DEF QueueInv, QueueHoldsArmed, Entry
<1>3. \A t \in armed \ Inserting : t \in Queued
  BY <1>2 DEF Queued
<1>4. armed \subseteq Timers /\ armed \subseteq born
  BY DEF QueueInv, TypeOK, ObjectsOK
<1>5. QED
  BY <1>1, <1>3, <1>4

(* The same of the next state.                                             *)
LEMMA QueuedIsArmedNext ==
  ASSUME QueueInv'
  PROVE  Queued' = armed' \ Inserting'
<1>1. \A e \in timers' : \E t \in armed' \ Inserting' : e = <<expired'[t], t>>
  BY DEF QueueInv, QueueHoldsArmed, Entry
<1>2. Queued' \subseteq armed' \ Inserting'
  BY <1>1 DEF Queued
<1>3. \A t \in armed' \ Inserting' : <<expired'[t], t>> \in timers' /\ <<expired'[t], t>>[2] = t
  BY DEF QueueInv, QueueHoldsArmed, Entry
<1>4. \A t \in armed' \ Inserting' : t \in Queued'
  BY <1>3 DEF Queued
<1>5. QED
  BY <1>2, <1>4

(* A timer that somebody has a handle to is not under construction.        *)
LEMMA KnownNotInserting ==
  ASSUME QueueInv, NEW t \in known
  PROVE  t \notin Inserting
  BY DEF QueueInv, FreshTimers, Inserting

(* What the service cannot see.                                            *)
LEMMA Unseen ==
  ASSUME Queued' = Queued, \A t \in Queued : expired'[t] = expired[t],
         UNCHANGED <<now, handed, cancelled>>
  PROVE  UNCHANGED TS!vars
  BY DEF TS!vars

(* An armed timer is neither fired nor cancelled.                          *)
LEMMA ArmedUnsettled ==
  ASSUME QueueInv, NEW t \in Timers, t \in armed
  PROVE  t \notin {u \in Timers : handed[u] > 0} /\ t \notin cancelled
<1>1. handed[t] = 0 /\ t \notin cancelled
  BY DEF QueueInv, Unsettled
<1>2. QED
  BY <1>1

(* AddTimer: the timer becomes pending when it is queued.                  *)
LEMMA AddTimerLockedAdds ==
  ASSUME QueueInv, NEW c \in Clients, AddTimerLocked(c)
  PROVE  TS!Next
<1>0. call[c].timer \in armed /\ call[c].timer \in Inserting
  BY DEF AddTimerLocked, QueueInv, FreshTimers, Inserting
<1>1. PICK t \in armed : t = call[c].timer /\ t \in Inserting
  BY <1>0
<1>2. t \in Timers
  BY <1>1 DEF QueueInv, TypeOK, ObjectsOK
<1>3. t \notin Queued
  BY <1>1, QueuedIsArmed
<1>4. timers' = timers \union {<<expired[t], t>>}
  BY <1>1 DEF AddTimerLocked, InsertAndUnlock
<1>5. Queued' = Queued \union {t}
  <2>1. \A e \in timers' : e \in timers \/ e[2] = t
    BY <1>4
  <2>2. Queued' \subseteq Queued \union {t}
    BY <2>1 DEF Queued
  <2>3. <<expired[t], t>> \in timers' /\ <<expired[t], t>>[2] = t
    BY <1>4
  <2>4. t \in Queued'
    BY <2>3 DEF Queued
  <2>5. Queued \subseteq Queued'
    BY <1>4 DEF Queued
  <2>6. QED
    BY <2>2, <2>4, <2>5
<1>6. PICK d \in Time : d = expired[t]
  BY <1>2 DEF QueueInv, TypeOK, ObjectsOK
<1>7. UNCHANGED <<now, expired, handed, cancelled>>
  BY DEF AddTimerLocked, history
<1>8. [u \in Queued |-> expired[u]]' =
         [u \in Queued \union {t} |->
            IF u = t THEN d ELSE [v \in Queued |-> expired[v]][u]]
  BY <1>5, <1>6, <1>7
<1>9. TS!Add(t)
  BY <1>1, <1>2, <1>3, <1>7, <1>8, ArmedUnsettled DEF TS!Add
<1>10. QED
  BY <1>2, <1>9 DEF TS!Next

(* Cancel.                                                                 *)
LEMMA CancelCancels ==
  ASSUME QueueInv, QueueInv', NEW t \in Timers, Cancel(t)
  PROVE  TS!Next
<1>1. t \in Queued
  BY QueuedIsArmed, KnownNotInserting DEF Cancel
<1>2. armed' = armed \ {t} /\ Inserting' = Inserting
  BY DEF Cancel, Inserting
<1>3. Queued' = Queued \ {t}
  <2>1. Queued' = armed' \ Inserting'
    BY QueuedIsArmedNext
  <2>2. QED
    BY <1>2, <2>1, QueuedIsArmed
<1>4. UNCHANGED <<now, expired, handed>> /\ cancelled' = cancelled \union {t}
  BY DEF Cancel
<1>5. [u \in Queued |-> expired[u]]' =
         [u \in Queued \ {t} |-> [v \in Queued |-> expired[v]][u]]
  BY <1>3, <1>4
<1>6. TS!Cancel(t)
  BY <1>1, <1>4, <1>5 DEF TS!Cancel
<1>7. QED
  BY <1>6 DEF TS!Next

(* Refresh and Reset: the timer stays where it is, with another expiry.    *)
LEMMA NewExpiryMoves ==
  ASSUME QueueInv, QueueInv', NEW t \in Timers, t \in Queued,
         armed' = armed, Inserting' = Inserting,
         NEW k \in Time, expired' = [expired EXCEPT ![t] = k],
         UNCHANGED <<now, handed, cancelled>>
  PROVE  TS!Next
<1>1. Queued' = Queued
  <2>1. Queued' = armed' \ Inserting'
    BY QueuedIsArmedNext
  <2>2. QED
    BY <2>1, QueuedIsArmed
<1>2. \A u \in Queued : expired'[u] = IF u = t THEN k ELSE expired[u]
  BY QueuedIsArmed DEF QueueInv, TypeOK, ObjectsOK
<1>3. [u \in Queued |-> expired[u]]' = [[u \in Queued |-> expired[u]] EXCEPT ![t] = k]
  BY <1>1, <1>2
<1>4. TS!Move(t)
  BY <1>3 DEF TS!Move
<1>5. QED
  BY <1>4 DEF TS!Next

LEMMA RefreshMoves ==
  ASSUME QueueInv, QueueInv', NEW t \in Timers, Refresh(t)
  PROVE  TS!Next
<1>1. t \in Queued
  BY QueuedIsArmed, KnownNotInserting DEF Refresh
<1>2. Inserting' = Inserting
  BY DEF Refresh, Inserting
<1>3. Word(now + interval[t]) \in Time
  BY WordType, ConstantsAssumption DEF QueueInv, TypeOK, ObjectsOK, Time
<1>4. QED
  BY <1>1, <1>2, <1>3, NewExpiryMoves DEF Refresh, history

LEMMA ResetLockedMoves ==
  ASSUME QueueInv, QueueInv', NEW c \in Clients, ResetLocked(c)
  PROVE  TS!Next
<1> DEFINE t     == call[c].timer
           ms    == call[c].interval
           start == IF call[c].fromNow THEN now ELSE Word(expired[t] - interval[t])
<1>1. t \in Timers /\ ms \in Intervals
  BY CallProperties DEF ResetLocked, QueueInv, TypeOK
<1>2. t \in known
  BY DEF ResetLocked, QueueInv, FreshTimers
<1>3. t \in Queued
  BY <1>2, QueuedIsArmed, KnownNotInserting DEF ResetLocked
<1>4. Inserting' = Inserting
  <2>1. call[c].op # "insert"
    BY DEF ResetLocked
  <2>2. \E next \in {Idle, [op |-> "front", timer |-> t]} : call' = [call EXCEPT ![c] = next]
    BY DEF ResetLocked, InsertAndUnlock
  <2>3. \A d \in Clients : call'[d].op = "insert" \/ call[d].op = "insert" => call'[d] = call[d]
    BY <2>1, <2>2 DEF QueueInv, TypeOK, CallsOK, Idle
  <2>4. QED
    BY <2>3 DEF Inserting
<1>5. start + ms \in Int
  <2>1. now \in Int /\ expired[t] - interval[t] \in Int /\ ms \in Int
    <3>1. expired[t] \in Time /\ interval[t] \in Time
      BY <1>1 DEF QueueInv, TypeOK, ObjectsOK
    <3>2. now \in Int
      BY ConstantsAssumption DEF QueueInv, TypeOK, ObjectsOK
    <3>3. ms \in 0 .. W - 1
      BY <1>1, ConstantsAssumption
    <3>4. QED
      BY <3>1, <3>2, <3>3, ConstantsAssumption DEF Time
  <2>2. start \in Int
    BY <2>1, WordType DEF Time
  <2>3. QED
    BY <2>1, <2>2
<1>6. Word(start + ms) \in Time
  BY <1>5, WordType
<1>7. expired' = [expired EXCEPT ![t] = Word(start + ms)] /\ armed' = armed
      /\ UNCHANGED <<now, handed, cancelled>>
  BY DEF ResetLocked, InsertAndUnlock, history
<1>8. QED
  BY <1>1, <1>3, <1>4, <1>6, <1>7, NewExpiryMoves

(* ListExpiredTimerCallbacks: what is due at the time that was read fires. *)
LEMMA ListExpiredFires ==
  ASSUME ClockAssumption, Prompt, QueueInv, QueueInv', NEW p \in Pollers, ListExpired(p)
  PROVE  TS!Next
<1>1. PICK m \in Time : m = held[p] /\ m \in BootTime .. now
  BY ConstantsAssumption DEF ListExpired, QueueInv, TypeOK, PollersOK, ObjectsOK, Time
<1> DEFINE due == {e[2] : e \in DueEntries(p)}
<1>2. DueEntries(p) = {e \in timers : e[1] <= m}
  BY <1>1, NoRolloverInvariant DEF DueEntries, ListExpired, NoRollover, QueueInv
<1>3. due = {t \in Queued : expired[t] <= m}
  BY <1>2, EntryProperties DEF Queued, QueueInv
<1>4. due = TS!Due(m)
  BY <1>3 DEF TS!Due
<1>5. due \subseteq Queued /\ due \subseteq Timers /\ due \subseteq armed
  BY <1>3, QueuedIsArmed
<1>5a. PICK again \in SUBSET Timers : again = due \intersect recurring
  BY <1>5
<1>6. armed' = armed \ (due \ again) /\ Inserting' = Inserting
  BY <1>5a DEF ListExpired, Inserting
<1>7. Queued' = Queued \ (due \ again)
  <2>1. Queued' = armed' \ Inserting'
    BY QueuedIsArmedNext
  <2>2. QED
    BY <1>6, <2>1, QueuedIsArmed
<1>8. \A t \in Queued : expired'[t] = IF t \in again THEN Word(m + interval[t]) ELSE expired[t]
  BY <1>5a, <1>1, QueuedIsArmed DEF ListExpired
<1> DEFINE anew == [t \in again |-> Word(m + interval[t])]
<1>9. anew \in [again -> Time]
  <2>1. \A t \in again : m + interval[t] \in Int
    BY <1>1 DEF QueueInv, TypeOK, ObjectsOK, Time
  <2>2. QED
    BY <2>1, WordType
<1>10. [t \in Queued |-> expired[t]]' =
          [t \in Queued \ (due \ again) |->
             IF t \in again THEN anew[t] ELSE [u \in Queued |-> expired[u]][t]]
  BY <1>7, <1>8
<1>11. {t \in Timers : handed[t] > 0}' = {t \in Timers : handed[t] > 0} \union (due \ again)
  <2>1. \A t \in Timers : handed[t] \in 0 .. 2
    BY DEF QueueInv, TypeOK, HistoryOK
  <2>2. \A t \in due : handed[t] = 0
    BY <1>5 DEF QueueInv, Unsettled
  <2>3. \A t \in Timers : handed'[t] = IF t \in due \ recurring /\ handed[t] < 2
                                       THEN handed[t] + 1 ELSE handed[t]
    BY DEF ListExpired
  <2>4. \A t \in Timers : handed'[t] > 0 <=> handed[t] > 0 \/ t \in due \ again
    BY <1>5a, <2>1, <2>2, <2>3
  <2>5. QED
    BY <1>5, <2>4
<1>12. UNCHANGED <<now, cancelled>> /\ m <= now
  BY <1>1, ConstantsAssumption DEF ListExpired, QueueInv, TypeOK, ObjectsOK
<1>13. DOMAIN [t \in Queued |-> expired[t]] = Queued
  OBVIOUS
<1>14. again \subseteq due
  BY <1>5a
<1>15. due # {}
  <2>1. PICK e \in DueEntries(p) : TRUE
    BY DEF ListExpired
  <2>2. QED
    BY <2>1
<1> HIDE DEF due, anew
<1>16. TS!Fire(m)
  BY <1>4, <1>9, <1>10, <1>11, <1>12, <1>13, <1>14, <1>15 DEF TS!Fire, anew
<1>17. QED
  BY <1>16 DEF TS!Next

LEMMA StepImplements ==
  ASSUME ClockAssumption, Prompt, QueueInv, QueueInv', [Next]_vars
  PROVE  [TS!Next]_(TS!vars)
<1> USE DEF objects, manager, poller, history
<1>1. CASE UNCHANGED <<now, timers, expired, handed, cancelled>>
  BY <1>1, Unseen DEF Queued
<1>2. CASE Tick
  BY <1>2 DEF Tick, TS!Next, TS!Tick, Queued
<1>3. ASSUME NEW c \in Clients, NEW t \in Timers, NEW ms \in Intervals,
             NEW recur \in BOOLEAN, AddTimerCall(c, t, ms, recur)
      PROVE  UNCHANGED TS!vars
  <2>1. t \notin Queued /\ \A u \in Queued : u \in Timers
    BY <1>3, QueuedIsArmed DEF AddTimerCall
  <2>2. \A u \in Queued : expired'[u] = expired[u]
    BY <1>3, <2>1 DEF AddTimerCall, QueueInv, TypeOK, ObjectsOK
  <2>3. QED
    BY <1>3, <2>2, Unseen DEF AddTimerCall, Queued
<1>4. ASSUME NEW c \in Clients, AddTimerLocked(c)
      PROVE  TS!Next
  BY <1>4, AddTimerLockedAdds
<1>5. ASSUME NEW c \in Clients, ResetLocked(c)
      PROVE  TS!Next
  BY <1>5, ResetLockedMoves
<1>6. ASSUME NEW t \in Timers, Cancel(t) \/ Refresh(t)
      PROVE  TS!Next
  BY <1>6, CancelCancels, RefreshMoves
<1>7. ASSUME NEW p \in Pollers, ListExpired(p)
      PROVE  TS!Next
  BY <1>7, ListExpiredFires
<1>8. QED
  BY <1>1, <1>2, <1>3, <1>4, <1>5, <1>6, <1>7
  DEF vars, Next, ClientStep, Finish, OnTimerInsertedAtFront, ResetCall, ResetFails,
      PollerStep, GetIntervalToNextTimer, WakeUp, SleepEnds, ListExpiredCall,
      ListExpiredNone, RunCallbacks

LEMMA InitImplements == Init => TS!Init
<1> SUFFICES ASSUME Init PROVE TS!Init
  OBVIOUS
<1>1. now \in Time
  BY ConstantsAssumption DEF Init, Time
<1>2. Queued = {}
  BY DEF Init, Queued
<1>3. [t \in Queued |-> expired[t]] \in [{} -> Time]
  BY <1>2
<1>4. {t \in Timers : handed[t] > 0} = {} /\ cancelled = {}
  BY DEF Init
<1>5. QED
  BY <1>1, <1>3, <1>4 DEF TS!Init

(* The queue, the lock and the threads implement the timer service, for    *)
(* any timers, clients, pollers, intervals and word width.                 *)
THEOREM ImplementsTimerServiceHolds ==
  ASSUME ClockAssumption
  PROVE  Spec => ImplementsTimerService
<1>1. Prompt /\ QueueInv /\ QueueInv' /\ [Next]_vars => [TS!Next]_(TS!vars)
  BY StepImplements
<1>2. QED
  BY <1>1, InitImplements, QueueInvHolds, PromptHolds, PTL DEF Spec, ImplementsTimerService, TS!Spec
=============================================================================
