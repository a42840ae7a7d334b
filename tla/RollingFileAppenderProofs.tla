--------------------- MODULE RollingFileAppenderProofs ---------------------
(***************************************************************************)
(* Theorems about RollingFileAppender, for every limit and every size.     *)
(***************************************************************************)
EXTENDS RollingFileAppender, TLAPS

LEMMA InitInv == Init => AppenderInv
<1> SUFFICES ASSUME Init PROVE AppenderInv
  OBVIOUS
<1> USE ConstantsAssumption DEF Init
<1>1. file \in Nat /\ file \in FoundSizes /\ offset = file
  OBVIOUS
<1>2. TypeOK
  <2>1. now \in 0 .. MaxTime /\ lastOpen \in 0 .. now /\ flushCount \in 0 .. FlushMaxAppends - 1
    OBVIOUS
  <2>2. offset \in Nat /\ file \in Nat \union {NoFile} /\ lastFlush \in (0 .. now) \union {Never}
    BY <1>1
  <2>3. open \in BOOLEAN /\ failed \in BOOLEAN /\ result \in {"none", "ok", "threw", "refused"}
    BY Zenon
  <2>4. rolled \in [0 .. MaxTime -> Nat \union {NoFile}]
    OBVIOUS
  <2>5. fault \in {"none", "rename", "open"} /\ faults \in 0 .. 2
    OBVIOUS
  <2>6. QED
    BY <2>1, <2>2, <2>3, <2>4, <2>5 DEF TypeOK
<1>3. FileAsFound /\ Failing /\ StillDue /\ OffsetBounded /\ ClosedOnlyByFailure
  BY <1>1 DEF FileAsFound, Failing, StillDue, OffsetBounded, ClosedOnlyByFailure
<1>4. QED
  BY <1>2, <1>3 DEF AppenderInv

(* Opening yields a file that is empty or as it was found.                 *)
LEMMA OpenedType ==
  ASSUME AppenderInv
  PROVE  Opened \in FoundSizes \union {0} /\ Opened \in Nat
  BY ConstantsAssumption DEF AppenderInv, FileAsFound, Opened

(* Accounting keeps the counters in their range, from any starting size.   *)
LEMMA AccountKeepsRange ==
  ASSUME AppenderInv, NEW size \in Nat, NEW n \in Sizes, Account(size, n), now' = now
  PROVE  /\ offset' = size + n /\ offset' \in Nat
         /\ n \in Nat /\ n <= LargestMessage
         /\ lastFlush' \in (0 .. now') \union {Never}
         /\ flushCount' \in 0 .. FlushMaxAppends - 1
<1>1. n \in Nat /\ n <= LargestMessage
  BY ConstantsAssumption
<1>2. PICK due \in TimeToFlush :
        IF due \/ flushCount + 1 >= FlushMaxAppends
        THEN lastFlush' = now /\ flushCount' = 0
        ELSE flushCount' = flushCount + 1 /\ UNCHANGED lastFlush
  BY DEF Account
<1>3. CASE due \/ flushCount + 1 >= FlushMaxAppends
  BY <1>1, <1>2, <1>3, ConstantsAssumption DEF Account, AppenderInv, TypeOK
<1>4. CASE ~(due \/ flushCount + 1 >= FlushMaxAppends)
  BY <1>1, <1>2, <1>4, ConstantsAssumption DEF Account, AppenderInv, TypeOK
<1>5. QED
  BY <1>3, <1>4

(* A new file has been opened: the step that the roll and the two failures *)
(* that open a closed file have in common.                                 *)
LEMMA OpenedBeforeKeepsInv ==
  ASSUME AppenderInv, OpenedBefore, now' = now
  PROVE  offset' \in Nat /\ lastOpen' \in 0 .. now' /\ OffsetBounded'
<1>1. CASE open
  BY <1>1 DEF OpenedBefore, AppenderInv, TypeOK, OffsetBounded
<1>2. CASE ~open
  BY <1>2, OpenedType, ConstantsAssumption DEF OpenedBefore, AppenderInv, TypeOK, OffsetBounded
<1>3. QED
  BY <1>1, <1>2

(* A failed append adds to the history, and an open that follows the roll  *)
(* wipes it out.                                                           *)
LEMMA RefusesKeepsFailing ==
  ASSUME AppenderInv, NEW what \in {"rename", "open"}, Refuses(what)
  PROVE  /\ fault' = what /\ faults' \in 1 .. 2 /\ Failing'
         /\ faults' = 1 => fault = "none"
  BY DEF AppenderInv, TypeOK, Failing, Refuses

(* A file that was open is as large and as old after the failure: it is    *)
(* still due.                                                              *)
LEMMA FirstFailureKeepsDue ==
  ASSUME AppenderInv, ShouldRoll, OpenedBefore, now' = now,
         NEW what \in {"rename", "open"}, Refuses(what)
  PROVE  StillDue'
<1> SUFFICES ASSUME faults' = 1 PROVE ShouldRoll'
  BY DEF StillDue
<1>1. open
  BY RefusesKeepsFailing DEF AppenderInv, ClosedOnlyByFailure
<1>2. QED
  BY <1>1 DEF OpenedBefore, ShouldRoll

LEMMA StepInv == AppenderInv /\ [Next]_vars => AppenderInv'
<1> SUFFICES ASSUME AppenderInv, [Next]_vars PROVE AppenderInv'
  OBVIOUS
<1> USE DEF AppenderInv, stream, flushing, disk, history
<1>1. CASE UNCHANGED vars
  BY <1>1
  DEF vars, TypeOK, FileAsFound, Failing, StillDue, ShouldRoll, OffsetBounded, ClosedOnlyByFailure
<1>2. CASE Tick
  <2>1. TypeOK' /\ FileAsFound' /\ Failing' /\ OffsetBounded' /\ ClosedOnlyByFailure'
    BY <1>2, ConstantsAssumption
    DEF Tick, TypeOK, FileAsFound, Failing, OffsetBounded, ClosedOnlyByFailure
  <2>2. StillDue'
    BY <1>2, ConstantsAssumption DEF Tick, TypeOK, StillDue, ShouldRoll
  <2>3. QED
    BY <2>1, <2>2
<1>3. ASSUME NEW n \in Sizes, AppendHere(n)
      PROVE  AppenderInv'
  <2> USE <1>3 DEF AppendHere
  <2>1. /\ offset' = offset + n /\ offset' \in Nat /\ n \in Nat /\ n <= LargestMessage
        /\ lastFlush' \in (0 .. now') \union {Never}
        /\ flushCount' \in 0 .. FlushMaxAppends - 1
    BY AccountKeepsRange DEF TypeOK
  <2>2. TypeOK'
    BY <2>1 DEF TypeOK
  <2>3. OffsetBounded'
    BY <2>1, ConstantsAssumption DEF TypeOK, ShouldRoll, OffsetBounded
  <2>4. FileAsFound' /\ Failing' /\ StillDue' /\ ClosedOnlyByFailure'
    BY DEF FileAsFound, TypeOK, Failing, StillDue, ClosedOnlyByFailure
  <2>5. QED
    BY <2>2, <2>3, <2>4
<1>4. ASSUME NEW n \in Sizes, AppendAfterRoll(n)
      PROVE  AppenderInv'
  <2> USE <1>4 DEF AppendAfterRoll, OpenForAppends
  <2>1. /\ offset' = 0 + n /\ offset' \in Nat /\ n \in Nat /\ n <= LargestMessage
        /\ lastFlush' \in (0 .. now') \union {Never}
        /\ flushCount' \in 0 .. FlushMaxAppends - 1
    BY AccountKeepsRange
  <2>2. TypeOK'
    BY <2>1, OpenedType DEF TypeOK
  <2>3. OffsetBounded'
    BY <2>1, ConstantsAssumption DEF OffsetBounded
  <2>4. FileAsFound' /\ Failing' /\ StillDue' /\ ClosedOnlyByFailure'
    BY ConstantsAssumption DEF FileAsFound, Failing, StillDue, ClosedOnlyByFailure
  <2>5. QED
    BY <2>2, <2>3, <2>4
<1>5. CASE RenameFails
  <2> USE <1>5 DEF RenameFails
  <2>1. offset' \in Nat /\ lastOpen' \in 0 .. now' /\ OffsetBounded'
    BY OpenedBeforeKeepsInv
  <2>2. fault' = "rename" /\ faults' \in 1 .. 2 /\ Failing' /\ StillDue'
    BY RefusesKeepsFailing, FirstFailureKeepsDue
  <2>3. TypeOK'
    <3>1. fault' \in {"none", "rename", "open"} /\ faults' \in 0 .. 2
      BY <2>2
    <3>2. QED
      BY <2>1, <3>1, OpenedType DEF TypeOK
  <2>4. FileAsFound' /\ ClosedOnlyByFailure'
    BY <2>2, OpenedType, ConstantsAssumption DEF FileAsFound, ClosedOnlyByFailure
  <2>5. QED
    BY <2>1, <2>2, <2>3, <2>4
<1>6. CASE ReopenFails
  <2> USE <1>6 DEF ReopenFails
  <2>1. offset' \in Nat /\ lastOpen' \in 0 .. now' /\ OffsetBounded'
    BY OpenedBeforeKeepsInv
  <2>2. fault' = "open" /\ faults' \in 1 .. 2 /\ Failing' /\ StillDue'
    BY RefusesKeepsFailing, FirstFailureKeepsDue
  <2>3. TypeOK'
    <3>1. fault' \in {"none", "rename", "open"} /\ faults' \in 0 .. 2
      BY <2>2
    <3>2. QED
      BY <2>1, <3>1, OpenedType DEF TypeOK
  <2>4. FileAsFound' /\ ClosedOnlyByFailure'
    BY <2>2 DEF FileAsFound, ClosedOnlyByFailure
  <2>5. QED
    BY <2>1, <2>2, <2>3, <2>4
<1>7. CASE OpenFails
  <2> USE <1>7 DEF OpenFails
  <2>1. fault' = "open" /\ faults' \in 1 .. 2 /\ Failing' /\ (faults' = 1 => fault = "none")
    BY RefusesKeepsFailing
  <2>2. StillDue'
    BY <2>1 DEF StillDue, ShouldRoll
  <2>3. QED
    BY <2>1, <2>2 DEF TypeOK, FileAsFound, OffsetBounded, ClosedOnlyByFailure
<1>8. CASE OpenRefused
  BY <1>8
  DEF OpenRefused, TypeOK, FileAsFound, Failing, StillDue, ShouldRoll, OffsetBounded, ClosedOnlyByFailure
<1>9. QED
  BY <1>1, <1>2, <1>3, <1>4, <1>5, <1>6, <1>7, <1>8, Zenon DEF Next, append
-----------------------------------------------------------------------------
(* Whatever fails and in what order, the appender's accounts stay right.   *)
THEOREM AppenderInvHolds == Spec => []AppenderInv
<1>1. Init => AppenderInv
  BY InitInv
<1>2. AppenderInv /\ [Next]_vars => AppenderInv'
  BY StepInv
<1>3. QED
  BY <1>1, <1>2, PTL DEF Spec

(* Every variable keeps its type, through failures and refusals.           *)
THEOREM TypeOKHolds == Spec => []TypeOK
<1>1. AppenderInv => TypeOK
  BY DEF AppenderInv
<1>2. QED
  BY <1>1, AppenderInvHolds, PTL

(* A file is charged for one message more than the limit at most.          *)
THEOREM OffsetBoundedHolds == Spec => []OffsetBounded
<1>1. AppenderInv => OffsetBounded
  BY DEF AppenderInv
<1>2. QED
  BY <1>1, AppenderInvHolds, PTL

(* The stream is closed between appends only after a failure of the file   *)
(* system, and an append is accepted on it only after two.                 *)
THEOREM ClosedOnlyByFailureHolds == Spec => []ClosedOnlyByFailure
<1>1. AppenderInv => ClosedOnlyByFailure
  BY DEF AppenderInv
<1>2. QED
  BY <1>1, AppenderInvHolds, PTL

(* No message is charged to a file older than the roll interval.           *)
THEOREM ChargedToYoungFileHolds == Spec => ChargedToYoungFile
<1>1. AppenderInv /\ [Next]_vars
        => [offset' # offset => now - lastOpen' <= RollInterval]_vars
  <2> SUFFICES ASSUME AppenderInv, [Next]_vars, offset' # offset
               PROVE  now - lastOpen' <= RollInterval
    OBVIOUS
  <2> USE DEF stream, flushing, disk, history
  <2>1. CASE \E n \in Sizes : AppendHere(n)
    BY <2>1, ConstantsAssumption DEF AppendHere, ShouldRoll, AppenderInv, TypeOK
  <2>2. CASE \E n \in Sizes : AppendAfterRoll(n)
    BY <2>2, ConstantsAssumption DEF AppendAfterRoll, AppenderInv, TypeOK
  <2>3. CASE RenameFails \/ ReopenFails
    BY <2>3, ConstantsAssumption DEF RenameFails, ReopenFails, OpenedBefore, AppenderInv, TypeOK
  <2>4. CASE Tick \/ OpenFails \/ OpenRefused \/ UNCHANGED vars
    BY <2>4 DEF Tick, OpenFails, OpenRefused, vars
  <2>5. QED
    BY <2>1, <2>2, <2>3, <2>4 DEF Next, append
<1>2. QED
  BY <1>1, AppenderInvHolds, PTL DEF Spec, ChargedToYoungFile
=============================================================================
