----------------------------- MODULE LoggerTree -----------------------------
(***************************************************************************)
(* Loggers (srcs/logger/LoggerImpl.hpp), the manager that hands them out   *)
(* by name (srcs/logger/LogManager.hpp) and the calls of LogService:       *)
(* threads submit records to loggers, or flush them, while others change   *)
(* their levels and appenders.  A logger without an appender passes the    *)
(* call on to its root, and so on.                                         *)
(*                                                                         *)
(* The list of appenders is guarded by a shared_mutex.  A change is one    *)
(* step, possible while no thread is in the list; submit() and flush()     *)
(* stay in the list from one appender to the next, a step each.            *)
(* sync() is flush() but for the method it calls.                          *)
(*                                                                         *)
(* Nothing in the repository calls Impl::setRoot: rootLogger_ is what the  *)
(* constructor was given.  setFormatter takes the mutex and does nothing.  *)
(***************************************************************************)
EXTENDS Integers, Sequences, FiniteSets, SequencesExt

CONSTANTS
  Threads,
  Loggers,       \* Logger objects, the root logger of the manager apart
  Root,          \* the logger called ROOT
  Null,          \* no logger
  Names,         \* the names that are asked for
  Appenders,
  Stdout,        \* the appender that ROOT starts with
  Levels,        \* LogLevel, as its underlying numbers
  Debug,         \* LogLevel::DEBUG
  MaxAppenders,  \* bound: length of a list of appenders
  MaxChanges,    \* bound: changes of a level or of a list
  MaxCalls       \* bound: calls of submit() and flush()

All == Loggers \union {Root}

ASSUME ConstantsAssumption ==
  /\ Root \notin Loggers /\ Null \notin All
  /\ Stdout \in Appenders
  /\ Levels \subseteq Nat /\ Debug \in Levels
  /\ MaxAppenders \in Nat /\ MaxChanges \in Nat /\ MaxCalls \in Nat

VARIABLES
  \* the manager and the Logger objects
  made,       \* loggers constructed
  loggerMap,  \* loggerMap_, Null where a name has no logger
  root,       \* rootLogger_
  level,      \* logLevel_
  list,       \* logAppenderList_
  \* the threads
  pc,         \* where each thread is
  op,         \* whether it submits or flushes
  rec,        \* the level of its record
  at,         \* the logger it has got to
  given,      \* the appenders that have been called, in order
  result,     \* what became of its last call
  \* history
  snap,       \* the list as it was when the thread took the mutex
  asked,      \* what shouldLog() answered just before the call
  changed,    \* some level or list has changed since
  got,        \* pairs of a name and what getLogger() returned for it
  changes,    \* changes made so far
  calls       \* calls made so far

objects == <<made, loggerMap, root, level, list>>
thread  == <<pc, op, rec, at, given, result>>
perCall == <<snap, asked, changed>>
totals  == <<got, changes, calls>>
vars == <<objects, thread, perCall, totals>>

(* operator< of LogLevel, by way of the others.                            *)
LessEq(l, r)    == l <= r
Greater(l, r)   == ~LessEq(l, r)
GreaterEq(l, r) == Greater(l, r) \/ l = r
Less(l, r)      == ~GreaterEq(l, r)

Init ==
  /\ made = {Root}
  /\ loggerMap = [n \in Names |-> Null]
  /\ root = [o \in All |-> Null]
  /\ level = [o \in All |-> Debug]
  /\ list = [o \in All |-> IF o = Root THEN <<Stdout>> ELSE << >>]
  /\ pc = [t \in Threads |-> "idle"]
  /\ op = [t \in Threads |-> "none"]
  /\ rec = [t \in Threads |-> Debug]
  /\ at = [t \in Threads |-> Root]
  /\ given = [t \in Threads |-> << >>]
  /\ result = [t \in Threads |-> "none"]
  /\ snap = [t \in Threads |-> << >>]
  /\ asked = [t \in Threads |-> FALSE]
  /\ changed = [t \in Threads |-> FALSE]
  /\ got = {} /\ changes = 0 /\ calls = 0
-----------------------------------------------------------------------------
(* The constructor of Logger, which the program may call with any root it  *)
(* has at hand.                                                            *)
Construct(o, r) ==
  /\ o \in Loggers \ made
  /\ r \in made \union {Null}
  /\ made' = made \union {o}
  /\ root' = [root EXCEPT ![o] = r]
  /\ UNCHANGED <<loggerMap, level, list, thread, perCall, totals>>

GetLoggerWithoutFind(name, o) ==
  /\ o \in Loggers \ made
  /\ made' = made \union {o}
  /\ root' = [root EXCEPT ![o] = Root]
  /\ loggerMap' = IF loggerMap[name] = Null THEN [loggerMap EXCEPT ![name] = o] ELSE loggerMap
  /\ got' = got \union {<<name, o>>}
  /\ UNCHANGED <<level, list, thread, perCall, changes, calls>>

(* LoggerManager::getLogger, which holds the mutex of the manager: what    *)
(* the map has, or a new logger.                                           *)
GetLogger(name, o) ==
  /\ \/ /\ loggerMap[name] # Null
        /\ o = loggerMap[name]
        /\ UNCHANGED <<made, root, loggerMap>>
     \/ /\ loggerMap[name] = Null
        /\ o \in Loggers \ made
        /\ made' = made \union {o}
        /\ root' = [root EXCEPT ![o] = Root]
        /\ loggerMap' = [loggerMap EXCEPT ![name] = o]
  /\ got' = got \union {<<name, o>>}
  /\ UNCHANGED <<level, list, thread, perCall, changes, calls>>
-----------------------------------------------------------------------------
InList(t) == pc[t] = "append"

(* Nobody holds the mutex of o.                                            *)
Free(o) == \A t \in Threads : InList(t) => at[t] # o

(* A call that changes nothing is left out.                                *)
Change ==
  /\ changes < MaxChanges
  /\ level' # level \/ list' # list
  /\ changes' = changes + 1
  /\ changed' = [t \in Threads |-> pc[t] # "idle"]
  /\ UNCHANGED <<made, loggerMap, root, thread, snap, asked, got, calls>>

SetLogLevel(o, l) ==
  /\ o \in made
  /\ level' = [level EXCEPT ![o] = l]
  /\ UNCHANGED list
  /\ Change

AddAppenderUnlocked(o, a) ==
  /\ o \in made
  /\ Len(list[o]) < MaxAppenders
  /\ list' = [list EXCEPT ![o] = Append(@, a)]
  /\ UNCHANGED level
  /\ Change

AddAppender(o, a) ==
  /\ o \in made /\ Free(o)
  /\ Len(list[o]) < MaxAppenders
  /\ list' = [list EXCEPT ![o] = Append(@, a)]
  /\ UNCHANGED level
  /\ Change

(* std::erase takes away every appender that is equal to a; the others keep *)
(* their order.                                                            *)
Without(s, a) ==
  LET kept    == {i \in DOMAIN s : s[i] # a}
      rank(i) == Cardinality({j \in kept : j <= i})
  IN  [k \in 1 .. Cardinality(kept) |-> s[CHOOSE i \in kept : rank(i) = k]]

RemoveAppender(o, a) ==
  /\ o \in made /\ Free(o)
  /\ list' = [list EXCEPT ![o] = Without(@, a)]
  /\ UNCHANGED level
  /\ Change

ClearAppenders(o) ==
  /\ o \in made /\ Free(o)
  /\ list' = [list EXCEPT ![o] = << >>]
  /\ UNCHANGED level
  /\ Change
-----------------------------------------------------------------------------
(* shouldLog(), at a moment at which nobody changes anything: of a logger   *)
(* that the level does not stop, what its root answers, if it has no       *)
(* appender.                                                               *)
ShouldLog(o, l) ==
  \E should \in [All -> BOOLEAN] :
    /\ \A p \in All :
         should[p] <=> /\ ~Less(l, level[p])
                       /\ list[p] # << >> \/ (root[p] # Null /\ should[root[p]])
    /\ should[o]

Submit(t, o, l) ==
  /\ pc[t] = "idle" /\ calls < MaxCalls
  /\ o \in made
  /\ pc' = [pc EXCEPT ![t] = "level"]
  /\ op' = [op EXCEPT ![t] = "submit"]
  /\ rec' = [rec EXCEPT ![t] = l]
  /\ at' = [at EXCEPT ![t] = o]
  /\ result' = [result EXCEPT ![t] = "none"]
  /\ asked' = [asked EXCEPT ![t] = ShouldLog(o, l)]
  /\ calls' = calls + 1
  /\ UNCHANGED <<objects, given, snap, changed, got, changes>>

Flush(t, o) ==
  /\ pc[t] = "idle" /\ calls < MaxCalls
  /\ o \in made
  /\ pc' = [pc EXCEPT ![t] = "lock"]
  /\ op' = [op EXCEPT ![t] = "flush"]
  /\ at' = [at EXCEPT ![t] = o]
  /\ result' = [result EXCEPT ![t] = "none"]
  /\ calls' = calls + 1
  /\ UNCHANGED <<objects, rec, given, perCall, got, changes>>

(* The call is over, and its arguments with it.                            *)
Return(t, r) ==
  /\ pc' = [pc EXCEPT ![t] = "idle"]
  /\ result' = [result EXCEPT ![t] = r]
  /\ op' = [op EXCEPT ![t] = "none"]
  /\ rec' = [rec EXCEPT ![t] = Debug]
  /\ at' = [at EXCEPT ![t] = Root]
  /\ given' = [given EXCEPT ![t] = << >>]
  /\ snap' = [snap EXCEPT ![t] = << >>]
  /\ asked' = [asked EXCEPT ![t] = FALSE]
  /\ changed' = [changed EXCEPT ![t] = FALSE]

(* submit() looks at the level of every logger it comes to.                *)
TestLevel(t) ==
  /\ pc[t] = "level"
  /\ IF Less(rec[t], level[at[t]])
     THEN Return(t, "filtered")
     ELSE pc' = [pc EXCEPT ![t] = "lock"] /\ UNCHANGED <<op, rec, at, given, result, perCall>>
  /\ UNCHANGED <<objects, totals>>

(* The mutex is taken, and given up at once if the list is empty.          *)
TakeLock(t) ==
  /\ pc[t] = "lock"
  /\ pc' = [pc EXCEPT ![t] = IF list[at[t]] = << >> THEN "root" ELSE "append"]
  /\ snap' = [snap EXCEPT ![t] = list[at[t]]]
  /\ UNCHANGED <<objects, op, rec, at, given, result, asked, changed, totals>>

GoToRootUnchecked(t) ==
  /\ pc[t] = "root"
  /\ at' = [at EXCEPT ![t] = root[at[t]]]
  /\ pc' = [pc EXCEPT ![t] = IF op[t] = "submit" THEN "level" ELSE "lock"]
  /\ UNCHANGED <<op, rec, given, result, perCall>>
  /\ UNCHANGED <<objects, totals>>

GoToRootSkipsLevel(t) ==
  /\ pc[t] = "root"
  /\ IF root[at[t]] = Null
     THEN Return(t, "nowhere")
     ELSE /\ at' = [at EXCEPT ![t] = root[at[t]]]
          /\ pc' = [pc EXCEPT ![t] = "lock"]
          /\ UNCHANGED <<op, rec, given, result, perCall>>
  /\ UNCHANGED <<objects, totals>>

(* The call is passed on to the root, if there is one.                     *)
GoToRoot(t) ==
  /\ pc[t] = "root"
  /\ IF root[at[t]] = Null
     THEN Return(t, "nowhere")
     ELSE /\ at' = [at EXCEPT ![t] = root[at[t]]]
          /\ pc' = [pc EXCEPT ![t] = IF op[t] = "submit" THEN "level" ELSE "lock"]
          /\ UNCHANGED <<op, rec, given, result, perCall>>
  /\ UNCHANGED <<objects, totals>>

(* The next appender of the list takes the record, or is flushed.          *)
CallAppender(t) ==
  /\ InList(t)
  /\ Len(given[t]) < Len(list[at[t]])
  /\ given' = [given EXCEPT ![t] = Append(@, list[at[t]][Len(@) + 1])]
  /\ UNCHANGED <<objects, pc, op, rec, at, result, perCall, totals>>

(* Formatting runs out of memory, or an appender cannot roll or flush its  *)
(* file: the exception ends the loop, and submit() does not let it out.    *)
AppenderThrows(t) ==
  /\ InList(t)
  /\ Len(given[t]) < Len(list[at[t]])
  /\ Return(t, "failed")
  /\ UNCHANGED <<objects, totals>>

EndOfList(t) ==
  /\ InList(t)
  /\ Len(given[t]) >= Len(list[at[t]])
  /\ Return(t, "all")
  /\ UNCHANGED <<objects, totals>>
-----------------------------------------------------------------------------
ManagerStep ==
  \/ \E o \in Loggers, r \in All \union {Null} : Construct(o, r)
  \/ \E name \in Names, o \in Loggers : GetLogger(name, o)

ChangeStep ==
  \E o \in All :
    \/ \E l \in Levels : SetLogLevel(o, l)
    \/ \E a \in Appenders : AddAppender(o, a) \/ RemoveAppender(o, a)
    \/ ClearAppenders(o)

CallStep(t) ==
  \/ TestLevel(t)
  \/ TakeLock(t)
  \/ GoToRoot(t)
  \/ CallAppender(t)
  \/ AppenderThrows(t)
  \/ EndOfList(t)

Next ==
  \/ ManagerStep
  \/ ChangeStep
  \/ \E t \in Threads, o \in All, l \in Levels : Submit(t, o, l)
  \/ \E t \in Threads, o \in All : Flush(t, o)
  \/ \E t \in Threads : CallStep(t)

Spec == Init /\ [][Next]_vars
-----------------------------------------------------------------------------
ObjectsOK ==
  /\ made \subseteq All /\ Root \in made
  /\ loggerMap \in [Names -> Loggers \union {Null}]
  /\ root \in [All -> All \union {Null}]
  /\ level \in [All -> Levels]
  /\ list \in [All -> Seq(Appenders)]

ThreadsOK ==
  /\ pc \in [Threads -> {"idle", "level", "lock", "root", "append"}]
  /\ op \in [Threads -> {"none", "submit", "flush"}]
  /\ rec \in [Threads -> Levels]
  /\ at \in [Threads -> All]
  /\ given \in [Threads -> Seq(Appenders)]
  /\ result \in [Threads -> {"none", "filtered", "nowhere", "failed", "all"}]

HistoryOK ==
  /\ snap \in [Threads -> Seq(Appenders)]
  /\ asked \in [Threads -> BOOLEAN] /\ changed \in [Threads -> BOOLEAN]
  /\ got \subseteq Names \X Loggers
  /\ changes \in Nat /\ calls \in Nat

TypeOK == ObjectsOK /\ ThreadsOK /\ HistoryOK

Returns(t) == pc[t] # "idle" /\ pc'[t] = "idle"

(* A record goes to the appenders that were on one list at one moment of   *)
(* the call, in their order and no other, or to the first few of them if   *)
(* one fails, however the lists change meanwhile; so does a flush.         *)
WholeListServed ==
  [][\A t \in Threads : Returns(t) =>
       /\ result'[t] = "all" => given[t] = snap[t] /\ given[t] # << >>
       /\ result'[t] = "failed" => IsStrictPrefix(given[t], snap[t])
       /\ result'[t] \in {"filtered", "nowhere"} => given[t] = << >>]_vars

(* submit() does what shouldLog() says, if nothing is changed between the  *)
(* two: along the chain of roots both see the same levels and lists.       *)
SubmitAsShouldLog ==
  [][\A t \in Threads : Returns(t) /\ op[t] = "submit" /\ ~changed[t] =>
       (asked[t] <=> result'[t] \in {"all", "failed"})]_vars

(* Whoever asks for a name gets the same logger, of which there are not    *)
(* two, and it ends at ROOT.                                               *)
OneLoggerPerName ==
  \A p, q \in got :
    /\ (p[1] = q[1]) <=> (p[2] = q[2])
    /\ root[p[2]] = Root
-----------------------------------------------------------------------------
(* The inductive invariants behind WholeListServed, SubmitAsShouldLog and   *)
(* OneLoggerPerName.                                                       *)

(* While a thread is in a list, the list is the one it found.              *)
ListHeld ==
  \A t \in Threads :
    /\ InList(t) =>
         /\ snap[t] = list[at[t]] /\ snap[t] # << >>
         /\ Len(given[t]) <= Len(snap[t])
         /\ \A i \in 1 .. Len(given[t]) : given[t][i] = snap[t][i]
    /\ ~InList(t) => given[t] = << >>

ListInv == TypeOK /\ ListHeld

(* What a submit() that nothing has disturbed has come to know of what     *)
(* shouldLog() answered at its start: the rest of the answer is that of    *)
(* the logger it looks at next.  Roots were made before their loggers, so  *)
(* a new logger is on no chain that a thread follows.                      *)
RootAnswers(o, l) == root[o] # Null /\ ShouldLog(root[o], l)

AnswerAhead(t) ==
  /\ pc[t] = "level"  => (asked[t] <=> ShouldLog(at[t], rec[t]))
  /\ pc[t] = "lock"   => (asked[t] <=> list[at[t]] # << >> \/ RootAnswers(at[t], rec[t]))
  /\ pc[t] = "root"   => (asked[t] <=> RootAnswers(at[t], rec[t]))
  /\ pc[t] = "append" => asked[t]

RootsMade ==
  /\ \A o \in All : root[o] \in made \union {Null}
  /\ \A t \in Threads : at[t] \in made

AnswerInv ==
  /\ TypeOK /\ RootsMade
  /\ \A t \in Threads : op[t] = "submit" /\ ~changed[t] => AnswerAhead(t)

(* What was handed out is what the map has.                                *)
MapInv ==
  /\ TypeOK
  /\ \A p \in got : loggerMap[p[1]] = p[2]
  /\ \A n, m \in Names : loggerMap[n] = loggerMap[m] /\ loggerMap[n] # Null => n = m
  /\ \A n \in Names : loggerMap[n] # Null =>
       loggerMap[n] \in made /\ root[loggerMap[n]] = Root
=============================================================================
