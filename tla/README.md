# CotWeb in TLA+

CotWeb is a C++ server framework in the making: an asynchronous logger with
double buffering, loggers with appenders and a pattern formatter, a timer queue,
a fiber scheduler and a YAML configuration loader. The repository holds the
core of each; several headers they include (`Fiber`, `ScheduleTask`, `RWMutex`,
`timer.h`, `scheduler.h`, the event loop) are not in it, and some files do not
compile as they stand (`Logger::setLogLevel` calls `Impl::setLevel`, which is
declared and never defined; the loggers' `Logger` and the base class of
`AsyncLogger` differ). The specifications model what the sources say, and mark
what is taken from the use of a missing part as external.

Paths below are relative to the repository; line numbers are those of the
sources the definitions were translated from.

## The system

| Component | State it keeps | Operations | Interacts through |
| --- | --- | --- | --- |
| `AsyncLogger` (`srcs/logger/AsyncLogger.h`, `EventFixedBuffer.hpp`) | two current buffers, the list of full ones, `running_`, a latch, a condition variable; the log thread's two spare buffers and its batch | `append`, `start`, `stop`, destructor, `threadFunc_` | a mutex and a condition variable between the appending threads and one log thread |
| `TimerManager`, `Timer` (`srcs/timer/timer.cpp`) | an ordered set of timers, `tickled_`, `pre_time_`; per timer its expiry, interval, callback | `AddTimer`, `AddConditionTimer`, `Cancel`, `Refresh`, `Reset`, `GetIntervalToNextTimer`, `ListExpiredTimerCallbacks`, `HasTimer` | an RWMutex; a virtual call `OnTimerInsertedAtFront`; callbacks handed to an event loop |
| `Scheduler` (`srcs/fiber/scheduler.cpp`) | task list, `active_thread_count_`, `stopping_`, the thread pool; per thread an idle fiber and a wrapper fiber | `Start`, `Stop`, `Schedule`, `Run`, `Stopped`, `Idle`, `Tickle` | a mutex; fibers that switch back into `Run`; threads joined by `Stop` |
| `RollingFileAppender` (`srcs/logger/LogAppenderImpl.hpp`) | the stream and its error bits, `offset_`, times of open and flush, a counter | `append`, `rollFile_`, `openFile_`, `flush` | a mutex; the file system |
| `Logger::Impl`, `LoggerManager` (`srcs/logger/LoggerImpl.hpp`, `LogManager.hpp`, `Logger.cpp`) | level, appender list, formatter, root logger; the name table | `submit`, `shouldLog`, setters, `getLogger` | a shared mutex per logger, calls up to the root logger |
| `LogFormatter`, format items (`srcs/logger/LogFormatter.cpp`, `FormatItemImpl.hpp`) | the parsed pattern; a per-thread cached second | `parsePattern_`, `format` | called under the logger's shared lock |
| `Config` (`srcs/config/config.cpp`) | variables by name; modification times of files | `LoadFromConfDir`, `LoadFromYaml`, `LookupBase`, `Visit` | two locks; YAML and the file system |
| `InlineBuffer`, `LogLevel`, `LogService`, utilities | none that is shared | pure functions and plumbing | |

What makes these hard, component by component:

* **AsyncLogger.** Buffers change hands between the appenders and the log
  thread, and a pointer that was moved from is null. A wake-up can be lost
  between a test and a wait; `stop()` signals without the mutex; overload sheds
  buffers; the latch works once. Correct means: events are logged in order and
  once, none disappears between two buffers, nobody sleeps beside a full
  buffer, `stop()` returns, no null buffer is dereferenced.
* **TimerManager.** The set is ordered by a field that the operations change;
  the clock is read outside of the lock; `Reset` locks by hand; `tickled_`
  suppresses wake-ups; expiries are unsigned. Correct means: the set holds the
  armed timers under their current keys, a one-shot timer fires or is
  cancelled and not both, nothing fires early, the poller never sleeps past
  the first expiry.
* **Scheduler.** A thread leaves on a decision that combines three variables,
  while coroutines are between "not counted" and "queued again". Correct
  means: a coroutine is in one place, the idle fiber ends only when all work is
  done, `Stop` returns and has lost no task.
* **RollingFileAppender.** A failure between close, rename and open leaves the
  appender in a state the next append must cope with.
* **Loggers.** Lists of appenders change while other threads walk them, the
  walk goes on to the root without a lock, and the level test is written twice,
  in `shouldLog` and in `submit`. Correct means: a record goes to the appenders
  of one list as it was at one moment, `submit` does what `shouldLog` says, a
  name has one logger.
* **LogFormatter.** A hand-written parser with positions at both ends of the
  pattern, a buffer that moves from an array to the heap, a date that is cached
  for all formats of a thread. Correct means: no character of a pattern is lost
  or read into the wrong item, the buffer holds the items' output in order, no
  record is printed with the date of another second.
* **Config.** The modification time that makes the next load skip a file is
  recorded before the file is read, while the file is edited and other threads
  load it. Correct means: no edit is forgotten, the variables have the values of
  the file that would be skipped, and a forced load repairs what went wrong.

## Modules

| Module | What it is |
| --- | --- |
| `LogPipe` | what an asynchronous logger promises: accept, write the oldest in order, or shed |
| `AsyncLogger` | the double buffer and its log thread; implements `LogPipe` |
| `TimerService` | what a timer manager promises: add, move, cancel, and fire together what is due |
| `TimerManager` | timers, clients, pollers, the clock; implements `TimerService` |
| `FiberScheduler` | worker threads, the root thread, functions and fibers |
| `RollingFileAppender` | the rolling file and a file system that may fail |
| `LoggerTree` | loggers with their levels and lists, the manager, and threads that call them |
| `PatternParser` | `parsePattern_` and the factory of the items |
| `InlineBuffer` | the buffer, as operators on a record |
| `LogFormatter` | the parser, the items and the date cache, composed with `InlineBuffer` |
| `ConfigLoader` | loaders of a directory whose files change |
| `MC...` | the instances for TLC: sets of values and symmetry |
| `...Proofs` | theorems; `TimerServiceProofs` has the refinement of `TimerService` |

Each module starts with what it abstracts. A critical section is one step; what
the code does outside of the lock is a step of its own. The operators just
before an action, with names such as `AppendWithoutNotify` or `RefreshKeyFirst`,
are that action with a plausible mistake in it: they are in no specification,
and show that the properties would notice.

### AsyncLogger

Events are their acceptance numbers; a buffer is a sequence of at most
`Capacity` of them, and `NoBuffer` is a null `unique_ptr`. `append()` is three
actions for its three outcomes: there is room, the buffer is full, or
`current_buffer_` is null and the process dies. `start()` and `stop()` are split
where they block. `threadFunc_` is split at the mutex and, in the write loop,
per buffer: `ThreadLoop` (`while (running_)`), `ThreadEnter` (lock, test,
wait), `ThreadNotified` and `ThreadTimeout` (the end of `wait_for`, with
`Exchange` as its steps 1 to 4), `ThreadShed`, `ThreadWrite`, `ThreadRecycle`.
`notified` is the condition variable: a notification counts only while the log
thread waits.

The run `AsyncLogger` uses buffers of 2 events, 8 events, a shedding threshold
of 3 buffers and 2 starts, which is enough for an overlong batch, for the spare
buffers to run out and for the logger to be restarted with a used-up latch. It
checks under fairness that

* none falls between the buffers (`NoEventLost`),
* the log thread does not sleep beside a full buffer (`NoLostWakeup`),
* no null buffer is dereferenced before two exchanges
  (`CrashOnlyAfterTwoPasses`),
* what was accepted before the first exchange is settled (`FirstBatchSettled`),
* `stop()` returns, although its notification may go unheard (`StopReturns`),
* and the logger implements `LogPipe` (`ImplementsLogPipe`): events are written
  in the order of their acceptance, once, and never after they were shed.

`AsyncLoggerLoop` is a counterexample: the log thread refills its spare buffer
only if it is *not* null (:151), so from the second exchange on
`current_buffer_` is null and the process dies. The properties above are
therefore about the first passes of a log thread; they do not become vacuous,
since up to 8 events go through up to three passes before that.

Met on the way, and visible in the model: the buffer that becomes `next_buffer_`
is not reset and may still hold written events (:113 calls it empty); `stop()`
clears `running_` and notifies without the mutex, so that the thread may sleep
out its interval (:75 says that it is woken); the constructor's comment (:17)
says that it starts the log thread, which `start()` does; a second `start()`
may block for ever, as the latch has gone below zero; events that are appended
after the last exchange stay in the buffer when the loop ends.

### TimerManager

`timers` is the set of the pairs `<<key, timer>>` that were inserted: an entry
stays under the key it was inserted with, whatever happens to the timer's
`expired_time_`. Calls that work outside of the lock are split: `AddTimerCall`
(the `Timer` is constructed, its expiry computed) and `AddTimerLocked`;
`ResetCall` (the unlocked read of `interval_`) and `ResetLocked` or
`ResetFails`, which returns without unlocking and sets `wedged`;
`OnTimerInsertedAtFront` after the lock is released; `ListExpiredCall` (reads
the clock) and `ListExpired` or `ListExpiredNone`. The event loop that sleeps
for `GetIntervalToNextTimer` milliseconds and runs the callbacks is external.

`uint64_t` is arithmetic modulo `W`. Two timers are enough for every ordering of
keys and for ties. The clock makes one or two steps: times matter only relative
to expiries. `Tick` waits for a poller that has read the clock `MaxDelay` ago and
has not got the lock yet: this is the bound on how late a poller is.

* `TimerManagerWrap` has one client, one poller and the intervals 1 and 15, so
  that expiries wrap, and checks types and, under fairness, that every due timer
  is taken (`DueTimerTaken`), the liveness of the queue. The claim is made for
  `SteadyIntervals`: an interval wraps whenever it is asked for, or never. It does
  not hold without that. With the intervals 1 and 13 in this run a timer is armed
  for the last moment before the wrap, 15, and the poller sleeps until then.
  While a second timer is under construction the first is refreshed: its expiry
  wraps to 0, its entry moves to the front, and `Refresh` (:72-75), unlike
  `AddTimer` (:197-199), calls nobody. The second timer is then inserted behind
  the front and calls nobody either: it becomes due and is never taken.
* `TimerManagerThreads` has two clients, whose calls overlap, and two pollers,
  which may take the lock in the opposite order to that of their clock readings;
  some 540,000 states. `QueueHoldsArmed` is why `Cancel` and `Refresh` find the
  entry they look for; `OneShotSettledOnce` settles the race of `Cancel` and the
  poller; `NoOversleep` is why suppressing the wake-up with `tickled_` is sound;
  `WedgeNeedsDeadTimer` bounds the damage of `Reset`, which loses the write
  lock: that takes a timer that has fired or was cancelled. `NoEarlyCallback`
  says that no callback is early, whoever changes the queue between a poller's
  reading of the clock and its lock. There is one interval, so `Reset` with
  `from_now = false` is left to `TimerManagerWrap` and to the proofs.
* The same run checks that the manager implements `TimerService`. There a timer
  is pending with a deadline, fires with all others that are due, or is
  cancelled. The mapping takes the queued timers, each with its expiry, for the
  pending ones; a timer fires when the poller collects its callback; one that a
  client has constructed and not yet queued is not there yet. Every critical
  section is one step of the service or none.
* `TimerManagerBoot` is a counterexample. The comment at :160 says that with
  CLOCK_MONOTONIC_RAW time should not be able to go back. In the first hour after
  the machine has booted (`Hour = 5`, `BootTime = 2`) `pre_time_ - 60 * 60 * 1000`
  (:205) wraps to a large number, and two pollers that overtake each other by one
  millisecond look like a clock that went back by more than an hour:
  `DetectClockRollover_` makes every timer fire at once. It violates `NoRollover`.

`NoEarlyCallback` and the refinement rest on no rollover being detected. In
`TimerManagerThreads` the clock is within an hour of `BootTime`, so none can be;
for runs of any length this is proved (`NoRolloverHolds`) under `ClockAssumption`:
the machine has been up for an hour, and no poller is held up for more than an
hour between reading the clock and taking the lock.

### FiberScheduler

A task is a function or a fiber that is scheduled once. A coroutine runs in a
`Fiber` object, named after the fiber or after the function it was created for
(`CreateFiber`, :294). The thread keeps this wrapper and puts its next function
into it with `Reset` (:298): then `body` of the object is another task and its
`state` starts anew, while an entry of the queue that names the object still
does. So the switches at :248 and :270 read what the object holds by then,
whoever put it there. Nothing is counted down where the second one finds a state
it does not expect (:282, `SettleWrong`).

`Run` is split wherever another thread can come in between: `Pick` and
`PickNone` (under the lock), `Idle` (one call of `Stopped()`), `AcceptFiber` or
`RejectFiber` (the state is read), `CreateWrapper` or `ResetWrapper`, `Resume`,
`Back` (the count goes down), the `Settle...` actions for the cases of the
second switch, and `Decrement` (the count goes down again for a fiber). `Body` is
what a task does: schedule others, yield to READY or HOLD, end. `Wake` is an event
that schedules a `Fiber` from outside, perhaps before it has yielded. `asserts`
chooses a build with or without `assert`. `Fiber` is not in the repository: that
resuming a fiber which is running or over, or resetting one which is running,
ends the process is taken for granted in either build.

The run `FiberScheduler` has three functions on one worker and the root thread,
pinned to the root thread or not, one yield and one wake. It checks what the
scheduler gets right:

* a coroutine is in one place (`CoroutineInOnePlace`) and no thread meets a fiber
  in a wrong state (`WrongFiberNeedsWake`) unless an event has scheduled one from
  outside. That exception is real: the test that would skip a RUNNING fiber
  (:192) is commented out;
* as long as there have been only functions that run to their end,
  `active_thread_count_` is exact (`ActiveIsExact`), an idle fiber ends only when
  all is done (`IdleOverMeansStopped`), and `Stop` returns (`FunctionsStop`) with no
  task lost (`NoTaskStranded`). Tasks are not pinned to a root thread that is not
  used: they would never be taken, and `Stop` would not return.

`FiberSchedulerStop` is a counterexample: a fiber is counted down twice (:264 and
:274), and `Stop` waits for a zero that has gone by (:397). A function that
yields breaks the second group too, which is why it is claimed for functions
only: its entry comes back as a fiber and is counted down twice, and before that
it is neither counted nor queued for a moment (:311-316), in which an idle fiber
ends although the comment at :219 says that it does so only when all is done. No
bound on the count is claimed with fibers: it leaves 0 in both directions, down
by the second decrement and up where a fiber in a wrong state is not counted
down at all.

### RollingFileAppender

`append()` is one critical section, split by its outcome: no roll, a roll that
succeeds, a rename that fails, an open that fails, an open that is refused
because the stream still has the failbit of an earlier failure
(`exceptions()` at :127 throws before anything is tried; the comment at :124
says that the errors are cleared). `lastFlush` starts as `Never`:
`now - time_point::min()` overflows, and the comparison may go either way.

`RollingFileAppender` uses a limit of 3 bytes, messages of 1 and 2, a file found
empty or already too large, and 6 seconds with a roll interval of 3, and checks
that the accounts stay right through failures: no file is charged more than its
limit and one message (`OffsetBounded`), and no message is charged to a file
older than the interval (`ChargedToYoungFile`). `ClosedOnlyByFailure` holds the
appender against the history of the file system, which two variables keep: what
was refused last since the file was opened (`fault`), and how many appends that
has failed (`faults`). The stream is closed if and only if something was refused,
has its failbit if and only if that was an open, and the name of the file is
missing only then; an append to a closed stream that reports success needs two
failures in a row, because after one the file is still due to be rolled. What the
accounts are of is another matter: `append` never writes the message
(:219-226, where the comment says that it does), so a model of what is in the
file would hold nothing.

### LoggerTree

A change of a list needs the mutex alone and is one step, possible while no
thread is in that list (`Free`). A call is a step per level test, per mutex
taken, per appender and per move to the root, in which everything else may
happen. `logLevel_` is read and written without the mutex. `Construct` makes a
logger with any root at hand; `GetLogger` is the manager, under its own mutex.
An appender may throw: the rest of the list is skipped, and `submit` swallows it.
The list is walked while the mutex is held, and `setRoot`, which would write
`rootLogger_` without it, is called nowhere; `setFormatter` takes the mutex and
assigns nothing. Asking for the name of the root logger makes a second logger
of that name: the map never has the first.

The run `LoggerTree` has two threads that make two calls, two loggers and ROOT
(chains of three), two appenders, two levels and two changes, which is enough
for both sides of every test and for a list that changes between two loggers of
a chain. It checks

* `WholeListServed`: what a call has served, in order, is one list as it was at
  one moment, a proper beginning of it if an appender failed, or nothing;
* `SubmitAsShouldLog`: of a call during which nothing changes, `submit` delivers
  just if `shouldLog` said so, along the chain. What a change in between does to
  the answer is left open, as the code leaves it open;
* `OneLoggerPerName`: threads that ask for a name get the same logger, those
  that ask for different names different ones, and all end at ROOT.

### PatternParser, InlineBuffer, LogFormatter

A pattern is a sequence of characters. A step of the parser is one pass through
the `switch` of its loop; `pos` is `i + 1`. A key that the factory does not know
dereferences `end()`: the result is `"undefined"` from there on. `asserts`
chooses a build with or without `assert`, which decides what becomes of a
pattern that breaks off behind a `%` or an opening brace.

What is printed is a sequence of tokens: characters of literals and messages, a
token per field, and a date token made of a second and a format. The item for
the level computes its text and appends nothing (`FormatItemImpl.hpp:56-63`), and
so does the model. `lastSec` and `cached` are the thread's cache; a date that
does not fit into 32 bytes leaves it unspecified.

The run `LogFormatter` parses every pattern of up to five characters over `% { }
d m x`, which has everything the parser tells apart, and five longer ones: two
date formats, one that does not fit, `%%{`. It then formats records of two
seconds and two messages, in a buffer of 3 tokens, so that most patterns move to
the heap and some fill the array exactly. It checks

* `NothingLost`: the items spell what has been read, one behind the other. A
  literal is everything up to the next `%` and has none in it, a key is one of the
  table with the braces that follow it, so each pattern has one reading;
* `AcceptsWellFormed`: what is accepted is what the comment of `LogFormatter.h`
  allows, up to the first place at which code and comment differ, see below;
* `ParseEnds`: the parser's loop comes to an end;
* `OutputAsPattern`: the buffer holds the output of the items in order, if all
  dates have one format;
* `DateOfThisSecond`: whatever the formats, no date of another second is
  printed. With two formats the second prints the text of the first, as the
  warning at `FormatItemImpl.hpp:193` says.

The reference grammar is that of the comment (`LogFormatter.h:22-36`): the
directives of the table and `%F`, and a pair of braces behind `%d` only. The code
departs from it in two places, where the verdict on a pattern is "disputed" and
nothing is claimed. It does not know `%F`. And it takes a brace behind any
directive for the beginning of a text (`LogFormatter.cpp:65`): by the comment
`%m{x` is the message and two more characters, but the parser returns -1, and
`%m{` fails the assertion or is accepted without the message; of `%m{x}` it
drops the text, as `createSimpleFormatItem` (`FormatItemImpl.hpp:236-241`) ignores
it. `NothingLost` excepts just that text.

`LogFormatterDefault` is a counterexample: the pattern that every logger is
constructed with has the directive `%F`, which the table of the factory has not
(`FormatItemImpl.hpp:277`).

### ConfigLoader

A file has a version, numbered as files are written, and a modification time in
seconds; all its entries say its version. Others write and remove files at any
time. A call of `LoadFromConfDir` lists the files, then goes through them in any
order: `Lstat`, then, under `s_Mtx`, `Skip` or `Record`, then `LoadFile` or
`LoadFails`, then an `ApplyVar` per entry, which may throw. Whether loads fail is
left open: `ListAllMember` hands the iterator's value on as a `Node`, of which
`IsMap` may throw for maps that are not empty, and the variables' `FromString`
is not in the repository.

The run `ConfigLoader` has two loaders, two files with two variables and an
entry without one, two versions and two seconds, so that a file may be written
twice within a second or in different ones. It checks

* `NeverForgotten`: a file that would be skipped has been read in its present
  version, although its time is recorded first, unless it was written twice
  within a second;
* `UpToDate`: the variables then have its values, unless that load has failed
  or two loads of the file overlapped;
* `ForcedLoadRepairs`: a forced load that nothing disturbs brings every file up
  to date, after any of these.

Deadlock is checked here: a loader can always go on.

Met on the way: `configvarbase.cpp:10-11` lower-cases the parameter it has moved
from and not `name_`, while the keys of a file are lower-cased; how variables
are entered in the table is not in the repository, and in the model a key either
goes with a variable or does not.

## Fairness

* `AsyncLogger`: weak fairness of the log thread, whose wait is timed, and of
  `start()` and `stop()` once called. None for `append`, `Start` or `StopFlag`:
  nobody has to call them.
* `TimerManager`: time passes, pollers poll, and a call that was begun goes on;
  nobody has to call anything.
* `FiberScheduler`: each thread in `Run` is scheduled (its idle loop is busy
  waiting), bodies end, and `Stop` goes on once called.
* `LogFormatter`: the constructor runs to its end; nobody has to format.
* `RollingFileAppender`, `LoggerTree` and `ConfigLoader` have no liveness
  property: their calls are loops over a list that nobody else can lengthen.

Deadlock is not checked where the program may stop for good: a logger that is
stopped or dead, a scheduler after `Stop` or an abort, timers when the clock
has reached its bound or the lock is lost, a pattern that was refused, loggers
when all calls and changes are made.

## Proofs

The theorems hold for every value of the constants under the modules'
`ConstantsAssumption`, which asks for no more than the types of the constants
(a capacity is positive, null is not a buffer, a word has at least one value).

* `AsyncLoggerProofs`: `CrashInv` is inductive. `CrashOnlyAfterTwoPasses` alone
  is not: one must know that the spare buffer is there before the first pass
  (`SpareInHand`), that a batch in hand means a pass was made and the spare is
  gone (`BatchInHand`), that a null pointer anywhere means two passes were made
  (`NoNullYet`), and that there is one log thread (`OneThread`). It gives
  `TypeOK` and `CrashOnlyAfterTwoPasses`; `NoLostWakeup` is inductive by itself.
  `FlowInv` adds what `NoEventLost` and the refinement of `LogPipe` need: log,
  unwritten batch, full buffers and current buffer hold the accepted events that
  were not shed, each older than those behind it (`FlowsInOrder`); a null
  pointer in a batch is all that the batch has (`NullIsAlone`); and a spare that
  still holds written events, which are never reset, is not appended to before
  the process is about to die (`StaleSpareUnused`).
* `TimerManagerProofs`: `QueueInv` is inductive: `QueueHoldsArmed` and
  `OneShotSettledOnce` need to know that a timer under construction is known to
  one call only (`FreshTimers`) and that an armed timer has no history
  (`Unsettled`). `WedgeNeedsDeadTimer` follows from it step by step. `NoRollover`
  and `NoEarlyCallback` are proved under `ClockAssumption`: the machine has been
  up for an hour, and `MaxDelay`, by which a poller is held up at most between
  reading the clock and taking the lock, is no more than an hour. `Prompt` says
  that it never is, whatever the run's length. `NoOversleep` is proved under
  `IntervalsAssumption`, that no expiry wraps around. Its invariant `WakeInv`
  says why `tickled_` is safe: while it is set some poller or client is up, or
  the wake-up is delivered (`SomebodyUp`); and an expiry is a past moment and
  its interval (`Anchored`), so a timer that is refreshed never becomes the
  first one sooner.
* `TimerServiceProofs`: under `ClockAssumption` every step maps to a step of
  `TimerService` or a stutter, so that the manager implements it for any number
  of timers, clients and pollers.
* `FiberSchedulerProofs`: all theorems are about `Spec` as it is, with fibers,
  yields and wakes. `SchedulerInv` says that as long as nothing was scheduled from
  outside, no two of the queue's entries and the threads' hands name the same
  object (`Apart`), and that each object is in the state its place calls for
  (`StatesFit`): a fiber in the queue is UNUSED or READY, one in a thread's hands is
  what the thread's place in `Run` says. The two need each other, as a thread that
  resumes an object changes the state that its other holders rely on. They give
  `CoroutineInOnePlace` and `WrongFiberNeedsWake`. `FunctionsInv` adds where each
  function is while there have been only functions (`EveryTaskSomewhere`), with a
  count that is exact, and gives `ActiveIsExact`, `IdleOverMeansStopped` and
  `NoTaskStranded`.
* `RollingFileAppenderProofs`: `AppenderInv` is inductive; what
  `OffsetBounded` needs is that a file opened again is empty or as it was found
  (`FileAsFound`); what `ClosedOnlyByFailure` needs is that after a single failure
  the file is still due to be rolled (`StillDue`), so that the next append tries
  again and cannot report success.
* `LoggerTreeProofs`: `ListInv` (a thread in a list sees the list it found, as
  nobody changes it meanwhile) gives `WholeListServed`; `MapInv` (what was
  handed out is what the map has) gives `OneLoggerPerName`. `AnswerInv` gives
  `SubmitAsShouldLog`: as long as nothing is changed, what `ShouldLog` answered is
  what the rest of the chain of roots still has to say, from wherever `Submit`
  has come to; and roots are made before their loggers (`RootsMade`), so a new
  logger is on no chain that a thread follows. `ShouldLog` is defined as a
  fixpoint along the roots. That there is one (`AnswersExist`) is the least one
  of a monotonic function on sets of loggers, which needs no induction.
* `LogFormatterProofs`: `ParserInv` knows the characters behind the position
  (`pattern_[i - 2]` is a key between `%` and `{`), which types the items;
  `append` of the buffer is concatenation and never overruns the array, for
  every capacity; `DateInv` (the cached date is of `lastSec`) gives
  `DateOfThisSecond`. `ParserMovesOn` says that every pass moves forward or
  returns, which is what `ParseEnds` rests on. The properties about the pattern
  hold in state NORMAL and are not inductive: the proofs carry them through the
  other states for the part of the pattern that is `Settled`, without the `%`,
  key and brace that no item stands for yet. `SpelledInv` (the items spell that
  part) gives `NothingLost`; `AcceptInv` (the verdict on the pattern is that on
  what comes behind that part) gives `AcceptsWellFormed`; `OutputInv`
  (nothing is formatted before the items are complete, and then the cache holds
  the date of every item, if they have one format) gives `OutputAsPattern`. The
  references are recursive functions. Where a proof needs what they compute, it
  shows that there is a function with that equation and follows it number by
  number, with a least counterexample in place of induction (`UpTo`).
* `ConfigLoaderProofs`: `LoadInv` (a file with its time recorded was read in its
  version, or some loader is about to) gives `NeverForgotten` and `UpToDate`;
  `CalmInv` (an undisturbed call is the only one and has dealt with what is not
  on its list) gives `ForcedLoadRepairs`.

Every invariant and every action property of the passing runs has a theorem,
and so have both refinements. Only model-checked is liveness
(`FirstBatchSettled`, `StopReturns`, `FunctionsStop`, `DueTimerTaken`,
`ParseEnds`), which is out of the prover's reach. The theorems under
`ClockAssumption` and `IntervalsAssumption` hold for the values of the constants
that satisfy them, as those of the runs that check these properties do;
`NoRollover` is proved under the first and violated in `TimerManagerBoot` without.

## What remains

* The composition of `AsyncLogger` with `RollingFileAppender`: `log()` is
  declared and the code that would hand a buffer to an appender is not in the
  repository.
* An account of `FiberScheduler`'s count with fibers: that it is exact is proved
  for functions, which is where the code is right; with fibers nothing is claimed
  of it.
* `DueTimerTaken` and `NoOversleep` where expiries begin to wrap while timers
  wait: the code does not keep them, as the intervals 1 and 13 show.

## Not modelled

* `LogService` and `LogRecordView` build a record and pass it on. The message is
  formatted with `std::format`, a second time if it is longer than the buffer;
  what it says is not looked at. A record's views into the caller's strings,
  which may be gone when the log thread reads them, are abstracted with the
  record.
* `LogLevel` is compared as in the code; its conversions from and to strings
  keep no state.
* `util.cpp` is used for its clock only; backtraces, thread names, singletons
  and size literals have no behaviour of their own to check.
* The command line is one declaration; the build files describe a build.
* `StdoutAppender` and `AppenderProxy` have no state: they are the calls of
  `LoggerTree`.
* The headers that are missing from the repository are external.
