------------------------ MODULE RollingFileAppender ------------------------
(***************************************************************************)
(* RollingFileAppender (srcs/logger/LogAppenderImpl.hpp): appends go to a  *)
(* file that is closed, renamed after the time of day and opened anew when *)
(* it has become too large or too old, and is flushed every so often.      *)
(*                                                                         *)
(* append() is one critical section.  flush() takes no lock, but finds     *)
(* nothing to flush, because append() never writes to the stream.  Time is *)
(* counted in seconds, the precision of the names of the rolled files; a   *)
(* file is the number of bytes in it.  The file system may refuse to       *)
(* rename or to open a file: the call throws where the code does.          *)
(***************************************************************************)
EXTENDS Integers

CONSTANTS
  FileMaxSize,       \* fileMaxSize_
  RollInterval,      \* rollInterval_
  FlushInterval,     \* FLUSH_INTERVAL_SECONDS
  FlushMaxAppends,   \* FLUSH_MAX_APPENDS
  Sizes,             \* the sizes of messages
  LargestMessage,    \* the largest of them
  FoundSizes,        \* how large a file the constructor may find, 0 for none
  MaxTime,           \* bound: the clock stops here
  NoFile,            \* there is no file of this name
  Never              \* time_point::min()

ASSUME ConstantsAssumption ==
  /\ FileMaxSize \in Nat /\ RollInterval \in Nat /\ FlushInterval \in Nat
  /\ FlushMaxAppends \in Nat \ {0}
  /\ LargestMessage \in Nat /\ Sizes \subseteq 0 .. LargestMessage
  /\ FoundSizes \subseteq Nat
  /\ MaxTime \in Nat
  /\ NoFile \notin Nat /\ Never \notin Nat

VARIABLES
  now,         \* the clock
  \* the appender
  open,        \* filestream_.is_open()
  failed,      \* failbit of filestream_
  offset,      \* offset_
  lastOpen,    \* lastOpenTime_
  lastFlush,   \* lastFlushTime_
  flushCount,  \* flush_count_
  result,      \* how the last append() ended
  \* the file system
  file,        \* the file filename_
  rolled,      \* the file that was rolled away at each second
  \* history, since the file was last opened for appends
  fault,       \* what the file system refused last, "none" for nothing
  faults       \* how many appends it has failed, up to 2

stream == <<open, failed>>
flushing == <<lastFlush, flushCount>>
disk   == <<file, rolled>>
history == <<fault, faults>>
vars   == <<now, stream, offset, lastOpen, flushing, result, disk, history>>

(* The constructor has opened the file.                                    *)
Init ==
  /\ now = 0
  /\ open = TRUE /\ failed = FALSE
  /\ file \in FoundSizes
  /\ offset = file
  /\ lastOpen = 0 /\ lastFlush = Never /\ flushCount = 0
  /\ result = "none"
  /\ rolled = [s \in 0 .. MaxTime |-> NoFile]
  /\ fault = "none" /\ faults = 0

Tick ==
  /\ now < MaxTime
  /\ now' = now + 1
  /\ UNCHANGED <<stream, offset, lastOpen, flushing, result, disk, history>>

ShouldRoll == offset > FileMaxSize \/ now - lastOpen > RollInterval

(* Opening for append creates the file if there is none.                   *)
Opened == IF file = NoFile THEN 0 ELSE file

(* now - time_point::min() overflows: the comparison may go either way.    *)
TimeToFlush ==
  IF lastFlush = Never THEN BOOLEAN ELSE {now - lastFlush > FlushInterval}

AccountForgetsReset(size, n) ==
  /\ offset' = size + n
  /\ flushCount' = flushCount + 1
  /\ \E due \in TimeToFlush :
       lastFlush' = IF due \/ flushCount + 1 >= FlushMaxAppends THEN now ELSE lastFlush

(* Steps 4 to 7 of append(): a message of n bytes is accounted for.        *)
Account(size, n) ==
  /\ offset' = size + n
  /\ \E due \in TimeToFlush :
       IF due \/ flushCount + 1 >= FlushMaxAppends
       THEN lastFlush' = now /\ flushCount' = 0
       ELSE flushCount' = flushCount + 1 /\ UNCHANGED lastFlush

(* What the history has of a file that is open, and of the file system's   *)
(* refusal to rename or to open one.                                       *)
OpenForAppends == fault' = "none" /\ faults' = 0

Refuses(what) == fault' = what /\ faults' = IF faults < 2 THEN faults + 1 ELSE 2

AppendHere(n) ==
  /\ ~ShouldRoll
  /\ Account(offset, n)
  /\ result' = "ok"
  /\ UNCHANGED <<now, stream, lastOpen, disk, history>>

RollKeepsOffset(n) ==
  /\ ShouldRoll /\ ~failed
  /\ rolled' = [rolled EXCEPT ![now] = Opened]
  /\ file' = 0
  /\ open' = TRUE
  /\ lastOpen' = now
  /\ Account(offset, n)
  /\ OpenForAppends
  /\ result' = "ok"
  /\ UNCHANGED <<now, failed>>

RollKeepsAge(n) ==
  /\ ShouldRoll /\ ~failed
  /\ rolled' = [rolled EXCEPT ![now] = Opened]
  /\ file' = 0
  /\ open' = TRUE
  /\ Account(0, n)
  /\ OpenForAppends
  /\ result' = "ok"
  /\ UNCHANGED <<now, failed, lastOpen>>

RollStaysClosed(n) ==
  /\ ShouldRoll /\ ~failed
  /\ rolled' = [rolled EXCEPT ![now] = Opened]
  /\ file' = NoFile
  /\ open' = FALSE
  /\ lastOpen' = now
  /\ Account(0, n)
  /\ OpenForAppends
  /\ result' = "ok"
  /\ UNCHANGED <<now, failed>>

(* rollFile_ opens the file if it is closed, closes it, renames it and     *)
(* opens a new one.  A file of the new name is replaced.                   *)
AppendAfterRoll(n) ==
  /\ ShouldRoll /\ ~failed
  /\ rolled' = [rolled EXCEPT ![now] = Opened]
  /\ file' = 0
  /\ open' = TRUE
  /\ lastOpen' = now
  /\ Account(0, n)
  /\ OpenForAppends
  /\ result' = "ok"
  /\ UNCHANGED <<now, failed>>

(* A file that was closed has been opened before the failure.              *)
OpenedBefore ==
  IF open THEN UNCHANGED <<offset, lastOpen>> ELSE offset' = Opened /\ lastOpen' = now

RenameFails ==
  /\ ShouldRoll /\ ~failed
  /\ OpenedBefore
  /\ file' = Opened
  /\ open' = FALSE
  /\ Refuses("rename")
  /\ result' = "threw"
  /\ UNCHANGED <<now, failed, flushing, rolled>>

(* The open after the rename fails, and the stream keeps its failbit.      *)
ReopenFails ==
  /\ ShouldRoll /\ ~failed
  /\ OpenedBefore
  /\ rolled' = [rolled EXCEPT ![now] = Opened]
  /\ file' = NoFile
  /\ open' = FALSE /\ failed' = TRUE
  /\ Refuses("open")
  /\ result' = "threw"
  /\ UNCHANGED <<now, flushing>>

(* So does the open of a file that an earlier failure left closed.         *)
OpenFails ==
  /\ ShouldRoll /\ ~failed
  /\ ~open
  /\ failed' = TRUE
  /\ Refuses("open")
  /\ result' = "threw"
  /\ UNCHANGED <<now, open, offset, lastOpen, flushing, disk>>

(* With the failbit set, exceptions() throws before openFile_ tries.       *)
OpenRefused ==
  /\ ShouldRoll /\ failed
  /\ result' = "refused"
  /\ UNCHANGED <<now, stream, offset, lastOpen, flushing, disk, history>>

append ==
  \/ \E n \in Sizes : AppendHere(n) \/ AppendAfterRoll(n)
  \/ RenameFails
  \/ ReopenFails
  \/ OpenFails
  \/ OpenRefused

Next == Tick \/ append

Spec == Init /\ [][Next]_vars
-----------------------------------------------------------------------------
TypeOK ==
  /\ now \in 0 .. MaxTime
  /\ open \in BOOLEAN /\ failed \in BOOLEAN
  /\ offset \in Nat
  /\ lastOpen \in 0 .. now /\ lastFlush \in (0 .. now) \union {Never}
  /\ flushCount \in 0 .. FlushMaxAppends - 1
  /\ result \in {"none", "ok", "threw", "refused"}
  /\ file \in Nat \union {NoFile}
  /\ rolled \in [0 .. MaxTime -> Nat \union {NoFile}]
  /\ fault \in {"none", "rename", "open"} /\ faults \in 0 .. 2

(* A file is charged for no more than the limit and the one message that   *)
(* crosses it, unless it was found larger than that.                       *)
OffsetBounded == offset <= FileMaxSize + LargestMessage \/ offset \in FoundSizes

(* No message is charged to a file that is older than rollInterval_,       *)
(* whatever failures came before.                                          *)
ChargedToYoungFile ==
  [][offset' # offset => now - lastOpen' <= RollInterval]_vars

(* The stream is closed between two appends only if the file system has    *)
(* refused something since it was last open for appends, and has the       *)
(* failbit, which bars every retry, only if that was an open.  An append   *)
(* is accepted on a closed stream, as if it had been written, only after   *)
(* two failures in a row: after one the file is still due to be rolled.    *)
ClosedOnlyByFailure ==
  /\ ~open <=> fault # "none"
  /\ failed <=> fault = "open"
  /\ file = NoFile \/ result = "refused" => fault = "open"
  /\ result = "ok" => open \/ faults = 2
-----------------------------------------------------------------------------
(* The inductive invariant behind these.                                   *)

(* Nothing is ever written, so a file is empty or as it was found.         *)
FileAsFound == file \in FoundSizes \union {0, NoFile}

(* After a single failure the file that was to be rolled still is.         *)
StillDue == faults = 1 => ShouldRoll

Failing == fault = "none" <=> faults = 0

(* Whatever fails and in what order, the accounts of the file stay right.  *)
AppenderInv ==
  /\ TypeOK
  /\ FileAsFound
  /\ Failing /\ StillDue
  /\ OffsetBounded
  /\ ClosedOnlyByFailure
=============================================================================
