---------------------------- MODULE TimerService ----------------------------
(***************************************************************************)
(* What a timer manager promises its clients, with no queue, no lock and   *)
(* no threads.  A pending timer has a deadline, which may be moved until   *)
(* the timer is cancelled or fires.  Timers fire together: all those that  *)
(* are due at some moment which has come, and nothing else.  A recurring   *)
(* timer stays pending with a new deadline; another one is over, and a     *)
(* timer that has fired or was cancelled never comes back.                 *)
(***************************************************************************)
EXTENDS Integers

CONSTANTS
  Timers,     \* what can be timed
  Deadlines   \* the moments at which a timer can fall due

VARIABLES
  now,        \* the time
  pending,    \* the deadline of each pending timer
  fired,      \* timers that have fired for the last time
  cancelled   \* timers that were cancelled before that

vars == <<now, pending, fired, cancelled>>

Init ==
  /\ now \in Deadlines
  /\ pending \in [{} -> Deadlines] /\ fired = {} /\ cancelled = {}

Tick ==
  /\ now' = now + 1
  /\ UNCHANGED <<pending, fired, cancelled>>

Add(t) ==
  /\ UNCHANGED <<now, fired, cancelled>>
  /\ t \notin DOMAIN pending \union fired \union cancelled
  /\ \E d \in Deadlines :
       pending' = [u \in DOMAIN pending \union {t} |-> IF u = t THEN d ELSE pending[u]]

Move(t) ==
  /\ UNCHANGED <<now, fired, cancelled>>
  /\ t \in DOMAIN pending
  /\ \E d \in Deadlines : pending' = [pending EXCEPT ![t] = d]

Cancel(t) ==
  /\ t \in DOMAIN pending
  /\ pending' = [u \in DOMAIN pending \ {t} |-> pending[u]]
  /\ cancelled' = cancelled \union {t}
  /\ UNCHANGED <<now, fired>>

Due(m) == {t \in DOMAIN pending : pending[t] <= m}

(* All timers that are due at m fire; those in again start anew.           *)
Fire(m) ==
  /\ UNCHANGED <<now, cancelled>>
  /\ m <= now
  /\ Due(m) # {}
  /\ \E again \in SUBSET Due(m) :
       /\ fired' = fired \union (Due(m) \ again)
       /\ \E anew \in [again -> Deadlines] :
            pending' = [t \in DOMAIN pending \ (Due(m) \ again) |->
                          IF t \in again THEN anew[t] ELSE pending[t]]

Next ==
  \/ Tick
  \/ \E t \in Timers : Add(t) \/ Move(t) \/ Cancel(t)
  \/ \E m \in Deadlines : Fire(m)

Spec == Init /\ [][Next]_vars
=============================================================================
