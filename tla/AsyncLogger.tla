---------------------------- MODULE AsyncLogger ----------------------------
(***************************************************************************)
(* AsyncLogger (srcs/logger/AsyncLogger.h): application threads append     *)
(* events to a double buffer under a mutex; one background thread takes    *)
(* the filled buffers every flush_interval_ seconds, or when it is told    *)
(* that one is full, and writes them out without holding the mutex.        *)
(*                                                                         *)
(* An event is its acceptance number.  A buffer is the sequence of the     *)
(* events it holds; a unique_ptr is such a sequence, or NoBuffer when it   *)
(* is null.  A critical section of mutex_ is one step.  Dereferencing a    *)
(* null unique_ptr ends the process: nothing happens once crashed.         *)
(***************************************************************************)
EXTENDS Integers, Sequences, SequencesExt

CONSTANTS
  Capacity,       \* DEFAULT_EVENT_MAX_SIZE, 64 in the code
  DropThreshold,  \* more buffers than this in one batch and the rest is shed, 25 in the code
  MaxEvents,      \* bound: events appended
  MaxStarts,      \* bound: calls of start()
  NoBuffer        \* the null unique_ptr

(* EventFixedBuffer holds at least one event, and null is not a buffer.    *)
ASSUME ConstantsAssumption ==
  /\ Capacity \in Nat \ {0}
  /\ DropThreshold \in Nat
  /\ MaxEvents \in Nat
  /\ MaxStarts \in Nat
  /\ NoBuffer \notin Seq(Nat)

VARIABLES
  \* guarded by mutex_
  current,    \* current_buffer_
  next,       \* next_buffer_
  toWrite,    \* buffers_to_write_
  \* local to threadFunc_
  new1,       \* new_buffer1
  new2,       \* new_buffer2
  process,    \* buffers_to_process
  written,    \* how many of process the loop over it has written
  tpc,        \* where the log thread is
  \* start() and stop()
  running,    \* running_
  latch,      \* latch_, the counter of the one-shot latch
  mpc,        \* where the controlling thread is
  starts,     \* how often start() was called
  \* condition variable and process
  notified,   \* cond_ has been notified while the log thread waits
  crashed,    \* the process died on a null pointer
  \* what the outside sees
  accepted,   \* events appended so far
  logged,     \* events given to log(), in order
  dropped,    \* events in buffers erased from an overlong batch
  passes      \* how often the log thread has exchanged the buffers

shared  == <<current, next, toWrite>>
local   == <<new1, new2, process, written>>
control == <<running, latch, mpc, starts>>
output  == <<accepted, logged, dropped>>
vars == <<shared, local, tpc, control, notified, crashed, output, passes>>

(* EventFixedBuffer: an array of Capacity events and a count.              *)
Buffers == {b \in Seq(1 .. MaxEvents) : Len(b) <= Capacity}
Slots   == Buffers \union {NoBuffer}

EventsIn(slot)   == IF slot = NoBuffer THEN {} ELSE Range(slot)
EventsInAll(seq) == UNION {EventsIn(seq[i]) : i \in DOMAIN seq}

(* EventFixedBuffer::append: a full buffer takes no event and says so with *)
(* a result its caller ignores.                                            *)
Put(buffer, e) == IF Len(buffer) < Capacity THEN Append(buffer, e) ELSE buffer

(* begin() + 2 .. end() is erased, and resize(2) keeps as many.            *)
KeptBuffers == 2
Kept(batch) == IF Len(batch) > KeptBuffers THEN SubSeq(batch, 1, KeptBuffers) ELSE batch

(* notify_one() reaches the log thread only while it waits.                *)
Notify == notified' = (notified \/ tpc = "wait")

Crash == crashed' = TRUE

Init ==
  /\ current = << >> /\ next = << >> /\ toWrite = << >>
  /\ new1 = NoBuffer /\ new2 = NoBuffer /\ process = << >> /\ written = 0
  /\ tpc = "none"
  /\ running = FALSE /\ latch = 1 /\ mpc = "idle" /\ starts = 0
  /\ notified = FALSE /\ crashed = FALSE
  /\ accepted = 0 /\ logged = << >> /\ dropped = {}
  /\ passes = 0
-----------------------------------------------------------------------------
(* append(), called by any application thread at any time.                 *)

AppendWithoutNotify ==
  /\ ~crashed
  /\ current # NoBuffer /\ Len(current) = Capacity /\ accepted < MaxEvents
  /\ toWrite' = Append(toWrite, current)
  /\ current' = Put(IF next = NoBuffer THEN << >> ELSE next, accepted + 1)
  /\ next' = NoBuffer
  /\ accepted' = accepted + 1
  /\ UNCHANGED <<local, tpc, control, notified, crashed, logged, dropped, passes>>

AppendToNull ==
  /\ ~crashed
  /\ accepted < MaxEvents
  /\ current = NoBuffer
  /\ Crash
  /\ UNCHANGED <<shared, local, tpc, control, notified, output, passes>>

AppendOneTooMany ==
  /\ ~crashed
  /\ accepted < MaxEvents
  /\ current # NoBuffer
  /\ Len(current) <= Capacity
  /\ current' = Append(current, accepted + 1)
  /\ accepted' = accepted + 1
  /\ UNCHANGED <<next, toWrite, local, tpc, control, notified, crashed, logged, dropped, passes>>

AppendWithRoom ==
  /\ ~crashed
  /\ accepted < MaxEvents
  /\ current # NoBuffer
  /\ Len(current) < Capacity
  /\ current' = Append(current, accepted + 1)
  /\ accepted' = accepted + 1
  /\ UNCHANGED <<next, toWrite, local, tpc, control, notified, crashed, logged, dropped, passes>>

AppendToFull ==
  /\ ~crashed
  /\ accepted < MaxEvents
  /\ current # NoBuffer
  /\ Len(current) >= Capacity
  /\ toWrite' = Append(toWrite, current)
  /\ current' = Put(IF next = NoBuffer THEN << >> ELSE next, accepted + 1)
  /\ next' = NoBuffer
  /\ accepted' = accepted + 1
  /\ Notify
  /\ UNCHANGED <<local, tpc, control, crashed, logged, dropped, passes>>
-----------------------------------------------------------------------------
(* start() and stop(), called by the thread that owns the logger.  The     *)
(* destructor is stop() of a running logger.                               *)

Start ==
  /\ ~crashed
  /\ mpc = "idle"
  /\ starts < MaxStarts
  /\ running' = TRUE
  /\ tpc' = "boot"
  /\ starts' = starts + 1
  /\ mpc' = "latch"
  /\ UNCHANGED <<shared, local, latch, notified, crashed, output, passes>>

StartReturn ==
  /\ ~crashed
  /\ mpc = "latch"
  /\ latch = 0
  /\ mpc' = "up"
  /\ UNCHANGED <<shared, local, tpc, running, latch, starts, notified, crashed, output, passes>>

StopFlag ==
  /\ ~crashed
  /\ mpc = "up"
  /\ running' = FALSE
  /\ mpc' = "notify"
  /\ UNCHANGED <<shared, local, tpc, latch, starts, notified, crashed, output, passes>>

StopNotify ==
  /\ ~crashed
  /\ mpc = "notify"
  /\ Notify
  /\ mpc' = "join"
  /\ UNCHANGED <<shared, local, tpc, running, latch, starts, crashed, output, passes>>

StopJoin ==
  /\ ~crashed
  /\ mpc = "join"
  /\ tpc = "done"
  /\ tpc' = "none"
  /\ mpc' = "idle"
  /\ UNCHANGED <<shared, local, running, latch, starts, notified, crashed, output, passes>>
-----------------------------------------------------------------------------
(* threadFunc_(), the log thread.                                          *)

ThreadBootWithoutSpare ==
  /\ ~crashed
  /\ tpc = "boot"
  /\ latch' = latch - 1
  /\ new1' = NoBuffer /\ new2' = << >>
  /\ process' = << >> /\ written' = 0
  /\ tpc' = "loop"
  /\ UNCHANGED <<shared, running, mpc, starts, notified, crashed, output, passes>>

(* count_down() subtracts 1 whatever the counter: a second log thread of   *)
(* the same logger takes it below 0, which the standard leaves undefined   *)
(* and the libraries implement as a plain subtraction.                     *)
ThreadBoot ==
  /\ ~crashed
  /\ tpc = "boot"
  /\ latch' = latch - 1
  /\ new1' = << >> /\ new2' = << >>
  /\ process' = << >> /\ written' = 0
  /\ tpc' = "loop"
  /\ UNCHANGED <<shared, running, mpc, starts, notified, crashed, output, passes>>

(* while (running_), read without the mutex.                               *)
ThreadLoop ==
  /\ ~crashed
  /\ tpc = "loop"
  /\ tpc' = IF running THEN "enter" ELSE "done"
  /\ UNCHANGED <<shared, local, control, notified, crashed, output, passes>>

ExchangeCurrentFirst ==
  /\ process' = <<current>> \o toWrite
  /\ toWrite' = << >>
  /\ current' = new1 /\ new1' = NoBuffer
  /\ next' = IF next = NoBuffer THEN new2 ELSE next
  /\ new2' = IF next = NoBuffer THEN NoBuffer ELSE new2
  /\ written' = 0
  /\ notified' = FALSE
  /\ passes' = passes + 1
  /\ tpc' = "shed"
  /\ UNCHANGED <<control, crashed, output>>

(* Steps 1 to 4 of the loop, under the mutex.  swap() leaves in            *)
(* buffers_to_write_ what buffers_to_process held, which clear() emptied.  *)
Exchange ==
  /\ process' = Append(toWrite, current)
  /\ toWrite' = process
  /\ current' = new1 /\ new1' = NoBuffer
  /\ next' = IF next = NoBuffer THEN new2 ELSE next
  /\ new2' = IF next = NoBuffer THEN NoBuffer ELSE new2
  /\ written' = 0
  /\ notified' = FALSE
  /\ passes' = passes + 1
  /\ tpc' = "shed"
  /\ UNCHANGED <<control, crashed, output>>

(* The mutex is taken; with a full buffer at hand there is no waiting.     *)
ThreadEnter ==
  /\ ~crashed
  /\ tpc = "enter"
  /\ \/ /\ toWrite = << >>
        /\ tpc' = "wait"
        /\ UNCHANGED <<shared, local, control, notified, crashed, output, passes>>
     \/ /\ toWrite # << >>
        /\ Exchange

(* wait_for() without a predicate ends on a notification ...               *)
ThreadNotified ==
  /\ ~crashed
  /\ tpc = "wait"
  /\ notified
  /\ Exchange

UntimedWait == ~crashed /\ tpc = "wait" /\ notified /\ Exchange

(* ... and after flush_interval_ seconds, or spuriously, without one.      *)
ThreadTimeout ==
  /\ ~crashed
  /\ tpc = "wait"
  /\ Exchange

(* More than DropThreshold buffers in the batch: all but the two oldest go.*)
ThreadShed ==
  /\ ~crashed
  /\ tpc = "shed"
  /\ tpc' = "write"
  /\ IF Len(process) > DropThreshold
     THEN /\ process' = Kept(process)
          /\ dropped' = dropped \union
                EventsInAll(SubSeq(process, KeptBuffers + 1, Len(process)))
     ELSE UNCHANGED <<process, dropped>>
  /\ UNCHANGED <<shared, new1, new2, written, control, notified, crashed, accepted, logged, passes>>

(* One buffer of the batch is written.                                     *)
ThreadWrite ==
  /\ ~crashed
  /\ tpc = "write"
  /\ written < Len(process)
  /\ LET buffer == process[written + 1]
     IN  IF buffer = NoBuffer
         THEN Crash /\ UNCHANGED <<written, logged>>
         ELSE /\ logged' = logged \o buffer
              /\ written' = written + 1
              /\ UNCHANGED crashed
  /\ UNCHANGED <<shared, new1, new2, process, tpc, control, notified, accepted, dropped, passes>>

ThreadRecycleEarly ==
  /\ ~crashed
  /\ tpc = "write"
  /\ process' = << >> /\ written' = 0
  /\ tpc' = "loop"
  /\ UNCHANGED <<shared, new1, new2, control, notified, crashed, output, passes>>

(* Steps 6 and 7.  A spare pointer is overwritten by the last buffer of the *)
(* batch when it is not null; the buffer is not reset().                    *)
ThreadRecycle ==
  /\ ~crashed
  /\ tpc = "write"
  /\ written = Len(process)
  /\ LET kept   == Kept(process)
         second == IF new1 # NoBuffer THEN Front(kept) ELSE kept
     IN  /\ new1' = IF new1 # NoBuffer THEN Last(kept) ELSE new1
         /\ new2' = IF new2 # NoBuffer THEN Last(second) ELSE new2
  /\ process' = << >> /\ written' = 0
  /\ tpc' = "loop"
  /\ UNCHANGED <<shared, control, notified, crashed, output, passes>>
-----------------------------------------------------------------------------
AppendStep  == AppendToNull \/ AppendWithRoom \/ AppendToFull
ControlStep == Start \/ StartReturn \/ StopFlag \/ StopNotify \/ StopJoin
ThreadStep  ==
  \/ ThreadBoot
  \/ ThreadLoop
  \/ ThreadEnter
  \/ ThreadNotified
  \/ ThreadTimeout
  \/ ThreadShed
  \/ ThreadWrite
  \/ ThreadRecycle

Next == AppendStep \/ ControlStep \/ ThreadStep

(* The log thread is scheduled and its wait is timed; start() and stop()   *)
(* are code that runs to its end.  Nobody has to append, start or stop.    *)
Fairness ==
  /\ WF_vars(ThreadStep)
  /\ WF_vars(StartReturn \/ StopNotify \/ StopJoin)

Spec     == Init /\ [][Next]_vars
FairSpec == Spec /\ Fairness
-----------------------------------------------------------------------------
BuffersOK ==
  /\ current \in Slots /\ next \in Slots /\ toWrite \in Seq(Slots)
  /\ new1 \in Slots /\ new2 \in Slots /\ process \in Seq(Slots)
  /\ written \in Nat

ControlOK ==
  /\ tpc \in {"none", "boot", "loop", "enter", "wait", "shed", "write", "done"}
  /\ mpc \in {"idle", "latch", "up", "notify", "join"}
  /\ latch \in Int
  /\ starts \in 0 .. MaxStarts

FlagsOK == running \in BOOLEAN /\ notified \in BOOLEAN /\ crashed \in BOOLEAN

OutputOK ==
  /\ accepted \in 0 .. MaxEvents
  /\ logged \in Seq(1 .. MaxEvents)
  /\ dropped \in SUBSET (1 .. MaxEvents)
  /\ passes \in Nat

TypeOK == BuffersOK /\ ControlOK /\ FlagsOK /\ OutputOK

LP == INSTANCE LogPipe WITH accepted <- accepted, logged <- logged, dropped <- dropped

(* The buffers of the batch that the write loop has still to visit.        *)
Unwritten ==
  IF tpc \in {"shed", "write"} THEN SubSeq(process, written + 1, Len(process)) ELSE << >>

HasNull(seq) == \E i \in DOMAIN seq : seq[i] = NoBuffer

(* No event falls between the buffers: one that append() accepted is in a  *)
(* buffer some thread will still write, in the log, or was shed.  Only when *)
(* the log thread has a null pointer in hand and is about to die can       *)
(* append() have put an event into a full buffer, which ignores it.        *)
NoEventLost ==
  ~HasNull(process) =>
    1 .. accepted \subseteq
       LP!Settled \union EventsIn(current)
                  \union EventsInAll(toWrite) \union EventsInAll(Unwritten)

(* The log thread never sleeps on a full buffer without being told of it:  *)
(* testing buffers_to_write_ and starting to wait are one critical section *)
(* and append() notifies in another.                                       *)
NoLostWakeup == tpc = "wait" /\ toWrite # << >> => notified

(* Two exchanges use up the spare buffers that a log thread starts with;   *)
(* no null pointer is dereferenced before that, whatever the threads do.   *)
CrashOnlyAfterTwoPasses == crashed => passes >= 2

(* While the logger runs, whatever was accepted before the first exchange  *)
(* is written or shed in the end; later events may find the process dead.  *)
FirstBatchSettled ==
  \A e \in 1 .. MaxEvents :
     (e <= accepted /\ passes = 0 /\ running) ~> (e \in LP!Settled \/ ~running)

(* stop() returns although its notification may go unheard: the log thread *)
(* waits for flush_interval_ seconds at most.                              *)
StopReturns == mpc \in {"notify", "join"} ~> (mpc = "idle" \/ crashed)

(* The double buffer is a log: events are accepted, then written in order  *)
(* or shed, and no step does anything else.                                *)
ImplementsLogPipe == LP!Spec
-----------------------------------------------------------------------------
(* The inductive invariant behind CrashOnlyAfterTwoPasses, in parts.       *)

(* There is one log thread, and none while start() may be called.          *)
OneThread == mpc = "idle" => tpc = "none"

(* A pass has a batch, of at least the buffer it took from the appenders,  *)
(* and has given new_buffer1 away: the test of :151 always fails.          *)
BatchInHand ==
  tpc \in {"shed", "write"} => process # << >> /\ passes >= 1 /\ new1 = NoBuffer

(* The spare buffer that the log thread was born with is there for the     *)
(* first exchange.                                                         *)
SpareInHand == tpc \in {"loop", "enter", "wait"} /\ passes = 0 => new1 # NoBuffer

(* No null pointer is where it would be dereferenced before two passes.    *)
NoNullYet ==
  current = NoBuffer \/ HasNull(toWrite) \/ HasNull(process) => passes >= 2

(* With the null pointers kept track of, the process dies only after two   *)
(* exchanges: this is preserved by every step.                             *)
CrashInv ==
  /\ TypeOK
  /\ OneThread
  /\ BatchInHand
  /\ SpareInHand
  /\ NoNullYet
  /\ CrashOnlyAfterTwoPasses
-----------------------------------------------------------------------------
(* The inductive invariant behind NoEventLost and ImplementsLogPipe, in    *)
(* parts.  Once the log thread has a null pointer in hand it is about to   *)
(* die, and what append() does in the meantime does not matter.            *)

Clean(slot) == slot \in {NoBuffer, << >>}

(* There is a batch only during a pass, and the part that is written holds *)
(* no null pointer.                                                        *)
BatchInPass ==
  /\ tpc \notin {"shed", "write"} => process = << >>
  /\ tpc = "shed" => written = 0
  /\ written <= Len(process)
  /\ \A i \in 1 .. written : process[i] # NoBuffer

(* A null pointer in the batch is current_buffer_ as it was, and then it   *)
(* is all there is.                                                        *)
NullIsAlone ==
  /\ ~HasNull(toWrite)
  /\ current = NoBuffer => toWrite = << >>
  /\ HasNull(process) => Len(process) = 1

(* A spare that still holds written events can become next_buffer_ only    *)
(* when current_buffer_ becomes null.                                      *)
StaleSpareUnused ==
  /\ Clean(new1)
  /\ Clean(new2) \/ new1 = NoBuffer
  /\ Clean(next) \/ current = NoBuffer \/ HasNull(process)

Older(events, others) == \A e \in events, f \in others : e < f

InOrder(slot)  == slot # NoBuffer => LP!Increasing(slot)
Ordered(batch) ==
  /\ \A i \in DOMAIN batch : InOrder(batch[i])
  /\ \A i, j \in DOMAIN batch : i < j => Older(EventsIn(batch[i]), EventsIn(batch[j]))

(* From the log over the batch and the full buffers to the current one,    *)
(* the events get younger; none in a buffer was shed, and all are there.   *)
InFlow(inLog, inBatch, inFull, inLast, shed, n) ==
  /\ Older(inLog, inBatch \union inFull \union inLast)
  /\ Older(inBatch, inFull \union inLast)
  /\ Older(inFull, inLast)
  /\ (inBatch \union inFull \union inLast) \intersect shed = {}
  /\ 1 .. n = inLog \union shed \union inBatch \union inFull \union inLast

FlowsInOrder ==
  ~HasNull(process) =>
    /\ LP!Increasing(logged) /\ Ordered(Unwritten) /\ Ordered(toWrite) /\ InOrder(current)
    /\ InFlow(Range(logged), EventsInAll(Unwritten), EventsInAll(toWrite), EventsIn(current),
              dropped, accepted)

(* Nothing is lost and nothing overtakes, up to the moment the log thread  *)
(* takes a null pointer: this is preserved by every step.                  *)
FlowInv ==
  /\ CrashInv
  /\ BatchInPass
  /\ NullIsAlone
  /\ StaleSpareUnused
  /\ FlowsInOrder
-----------------------------------------------------------------------------
(* What a comment of AsyncLogger.h says and the code does not do.          *)

(* :92, the main loop runs until stop() is called.                         *)
LoopUntilStop == running => ~crashed
=============================================================================
