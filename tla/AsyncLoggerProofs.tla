------------------------ MODULE AsyncLoggerProofs ------------------------
(***************************************************************************)
(* Theorems about AsyncLogger, for every capacity, threshold and bound.    *)
(***************************************************************************)
EXTENDS AsyncLogger, TLAPS, SequenceTheorems

LEMMA EventsInType ==
  ASSUME NEW seq \in Seq(Slots)
  PROVE  EventsInAll(seq) \subseteq 1 .. MaxEvents
<1>1. ASSUME NEW slot \in Slots
      PROVE  EventsIn(slot) \subseteq 1 .. MaxEvents
  <2>1. CASE slot = NoBuffer
    BY <2>1 DEF EventsIn
  <2>2. CASE slot # NoBuffer
    <3>1. slot \in Seq(1 .. MaxEvents)
      BY <2>2 DEF Slots, Buffers
    <3>2. Range(slot) \subseteq 1 .. MaxEvents
      BY <3>1, RangeOfSeq
    <3>3. QED
      BY <2>2, <3>2 DEF EventsIn
  <2>3. QED
    BY <2>1, <2>2
<1>2. \A i \in DOMAIN seq : seq[i] \in Slots
  BY LenProperties, ElementOfSeq
<1>3. QED
  BY <1>1, <1>2 DEF EventsInAll

(* Shedding and resizing keep a batch of pointers, and keep it non-empty. *)
LEMMA KeptType ==
  ASSUME NEW batch \in Seq(Slots), batch # << >>
  PROVE  /\ Kept(batch) \in Seq(Slots)
         /\ Kept(batch) # << >>
         /\ Len(Kept(batch)) <= Len(batch)
         /\ \A i \in 1 .. Len(Kept(batch)) : Kept(batch)[i] = batch[i]
  BY EmptySeq, LenProperties, SubSeqProperties DEF Kept, KeptBuffers

LEMMA FrontLastType ==
  ASSUME NEW batch \in Seq(Slots), batch # << >>
  PROVE  Last(batch) \in Slots /\ Front(batch) \in Seq(Slots)
  BY EmptySeq, LenProperties, SubSeqProperties, ElementOfSeq DEF Last, Front

LEMMA PutType ==
  ASSUME NEW buffer \in Buffers, NEW e \in 1 .. MaxEvents
  PROVE  Put(buffer, e) \in Buffers
  BY AppendProperties, LenProperties, ConstantsAssumption DEF Put, Buffers
-----------------------------------------------------------------------------
LEMMA EmptyBuffer == << >> \in Buffers /\ << >> # NoBuffer
<1>1. << >> \in Seq(Nat)
  BY EmptySeq
<1>2. << >> \in Buffers
  BY EmptySeq, ConstantsAssumption DEF Buffers
<1>3. QED
  BY <1>1, <1>2, ConstantsAssumption

LEMMA InitCrashInv == Init => CrashInv
<1> SUFFICES ASSUME Init PROVE CrashInv
  OBVIOUS
<1> USE DEF Init
<1>1. TypeOK
  <2>1. BuffersOK
    BY EmptySeq, EmptyBuffer DEF BuffersOK, Slots
  <2>2. ControlOK
    BY ConstantsAssumption DEF ControlOK
  <2>3. FlagsOK
    BY Zenon DEF FlagsOK
  <2>4. OutputOK
    BY ConstantsAssumption, EmptySeq DEF OutputOK
  <2>5. QED
    BY <2>1, <2>2, <2>3, <2>4 DEF TypeOK
<1>2. ~HasNull(<< >>)
  BY LenProperties, EmptySeq DEF HasNull
<1>3. NoNullYet
  BY <1>2, EmptyBuffer DEF NoNullYet
<1>4. OneThread /\ BatchInHand /\ SpareInHand /\ CrashOnlyAfterTwoPasses
  BY DEF OneThread, BatchInHand, SpareInHand, CrashOnlyAfterTwoPasses
<1>5. QED
  BY <1>1, <1>3, <1>4 DEF CrashInv

(* The exchange under the mutex hands the spare to the appenders: as long  *)
(* as there was one, no null pointer gets in.                              *)
LEMMA ExchangeKeepsCrashInv ==
  ASSUME CrashInv, tpc \in {"enter", "wait"}, Exchange
  PROVE  CrashInv'
<1> USE DEF Exchange, local, shared, control, output
<1>1. TypeOK'
  <2>1. BuffersOK'
    <3>1. Append(toWrite, current) \in Seq(Slots)
      BY AppendProperties DEF CrashInv, TypeOK, BuffersOK
    <3>2. NoBuffer \in Slots
      BY DEF Slots
    <3>3. QED
      BY <3>1, <3>2 DEF CrashInv, TypeOK, BuffersOK
  <2>2. ControlOK'
    BY DEF CrashInv, TypeOK, ControlOK
  <2>3. FlagsOK'
    BY Zenon DEF CrashInv, TypeOK, FlagsOK
  <2>4. OutputOK'
    BY DEF CrashInv, TypeOK, OutputOK
  <2>5. QED
    BY <2>1, <2>2, <2>3, <2>4 DEF TypeOK
<1>2. OneThread'
  BY DEF CrashInv, OneThread
<1>3. BatchInHand'
  BY AppendProperties, EmptySeq DEF BatchInHand, CrashInv, TypeOK, BuffersOK, OutputOK
<1>4. SpareInHand'
  BY DEF SpareInHand
<1>5. NoNullYet'
  <2>1. CASE passes = 0
    <3>1. current' # NoBuffer
      BY <2>1 DEF CrashInv, SpareInHand
    <3>2. ~HasNull(toWrite')
      BY <2>1 DEF CrashInv, NoNullYet
    <3>3. \A i \in DOMAIN Append(toWrite, current) :
             Append(toWrite, current)[i] # NoBuffer
      BY <2>1, AppendProperties, LenProperties
      DEF CrashInv, NoNullYet, HasNull, TypeOK, BuffersOK
    <3>4. QED
      BY <3>1, <3>2, <3>3 DEF NoNullYet, HasNull
  <2>2. CASE passes >= 1
    BY <2>2 DEF NoNullYet, CrashInv, TypeOK, OutputOK
  <2>3. QED
    BY <2>1, <2>2 DEF CrashInv, TypeOK, OutputOK
<1>6. CrashOnlyAfterTwoPasses'
  BY DEF CrashOnlyAfterTwoPasses, CrashInv, TypeOK, OutputOK
<1>7. QED
  BY <1>1, <1>2, <1>3, <1>4, <1>5, <1>6 DEF CrashInv

(* A buffer in use is never mistaken for a null pointer.                   *)
LEMMA BufferNotNull == NoBuffer \notin Buffers
<1>1. Buffers \subseteq Seq(Nat)
  <2> SUFFICES ASSUME NEW b \in Buffers PROVE b \in Seq(Nat)
    OBVIOUS
  <2>1. b \in Seq(1 .. MaxEvents)
    BY DEF Buffers
  <2>2. QED
    BY <2>1, SeqMonotonic, ConstantsAssumption
<1>2. QED
  BY <1>1, ConstantsAssumption

(* Every other step leaves the null pointers where they are.               *)
LEMMA StepKeepsCrashInv ==
  ASSUME CrashInv, [Next]_vars
  PROVE  CrashInv'
<1> USE DEF shared, local, control, output, CrashInv, TypeOK
<1>1. CASE UNCHANGED vars
  <2> USE <1>1 DEF vars
  <2>1. BuffersOK' /\ ControlOK' /\ OutputOK'
    BY DEF BuffersOK, ControlOK, OutputOK
  <2>2. FlagsOK'
    BY Zenon DEF FlagsOK
  <2>3. OneThread' /\ BatchInHand' /\ SpareInHand' /\ NoNullYet'
    BY DEF OneThread, BatchInHand, SpareInHand, NoNullYet
  <2>4. CrashOnlyAfterTwoPasses'
    BY DEF CrashOnlyAfterTwoPasses
  <2>5. QED
    BY <2>1, <2>2, <2>3, <2>4
<1>2. CASE AppendToNull
  <2> USE <1>2 DEF AppendToNull
  <2>20. BuffersOK'
    BY DEF BuffersOK
  <2>21. ControlOK'
    BY DEF ControlOK
  <2>22. FlagsOK'
    BY Zenon DEF FlagsOK, Crash
  <2>23. OutputOK'
    BY DEF OutputOK
  <2>24. OneThread' /\ BatchInHand' /\ SpareInHand'
    BY DEF OneThread, BatchInHand, SpareInHand, ControlOK
  <2>25. NoNullYet'
    BY DEF NoNullYet
  <2>26. CrashOnlyAfterTwoPasses'
    BY DEF NoNullYet, OutputOK, CrashOnlyAfterTwoPasses, Crash
  <2>30. QED
    BY <2>20, <2>21, <2>22, <2>23, <2>24, <2>25, <2>26
<1>3. CASE AppendWithRoom
  <2> USE <1>3 DEF AppendWithRoom
  <2>1. Append(current, accepted + 1) \in Slots /\ Append(current, accepted + 1) # NoBuffer
    <3>1. current \in Buffers /\ accepted + 1 \in 1 .. MaxEvents
      BY ConstantsAssumption DEF BuffersOK, OutputOK, Slots
    <3>2. Append(current, accepted + 1) \in Buffers
      BY <3>1, AppendProperties, LenProperties, ConstantsAssumption DEF Buffers
    <3>3. QED
      BY <3>2, BufferNotNull DEF Slots
  <2>2. accepted + 1 \in 0 .. MaxEvents
    BY ConstantsAssumption DEF OutputOK
  <2>20. BuffersOK'
    BY <2>1 DEF BuffersOK
  <2>21. ControlOK'
    BY DEF ControlOK
  <2>22. FlagsOK'
    BY Zenon DEF FlagsOK
  <2>23. OutputOK'
    BY <2>2 DEF OutputOK
  <2>24. OneThread' /\ BatchInHand' /\ SpareInHand'
    BY DEF OneThread, BatchInHand, SpareInHand, ControlOK
  <2>25. NoNullYet'
    BY <2>1 DEF NoNullYet
  <2>26. CrashOnlyAfterTwoPasses'
    BY DEF CrashOnlyAfterTwoPasses, Crash
  <2>30. QED
    BY <2>20, <2>21, <2>22, <2>23, <2>24, <2>25, <2>26
<1>4. CASE AppendToFull
  <2> USE <1>4 DEF AppendToFull
  <2>1. current' \in Buffers /\ current' # NoBuffer
    BY PutType, BufferNotNull, EmptyBuffer, ConstantsAssumption DEF BuffersOK, OutputOK, Slots
  <2>2. accepted + 1 \in 0 .. MaxEvents
    BY ConstantsAssumption DEF OutputOK
  <2>3. Append(toWrite, current) \in Seq(Slots)
    BY AppendProperties DEF BuffersOK
  <2>4. Buffers \subseteq Slots /\ NoBuffer \in Slots
    BY DEF Slots
  <2>5. HasNull(Append(toWrite, current)) => HasNull(toWrite)
    BY AppendProperties, LenProperties DEF HasNull, BuffersOK
  <2>20. BuffersOK'
    BY <2>1, <2>3, <2>4 DEF BuffersOK
  <2>21. ControlOK'
    BY DEF ControlOK
  <2>22. FlagsOK'
    BY Zenon DEF FlagsOK, Notify
  <2>23. OutputOK'
    BY <2>2 DEF OutputOK
  <2>24. OneThread' /\ BatchInHand' /\ SpareInHand'
    BY DEF OneThread, BatchInHand, SpareInHand, ControlOK
  <2>25. NoNullYet'
    BY <2>1, <2>5 DEF NoNullYet
  <2>26. CrashOnlyAfterTwoPasses'
    BY DEF CrashOnlyAfterTwoPasses, Crash
  <2>30. QED
    BY <2>20, <2>21, <2>22, <2>23, <2>24, <2>25, <2>26
<1>5. CASE Start
  <2> USE <1>5 DEF Start
  <2>20. BuffersOK'
    BY DEF BuffersOK
  <2>21. ControlOK'
    BY ConstantsAssumption DEF ControlOK
  <2>22. FlagsOK'
    BY Zenon DEF FlagsOK
  <2>23. OutputOK'
    BY DEF OutputOK
  <2>24. OneThread' /\ BatchInHand' /\ SpareInHand'
    BY DEF OneThread, BatchInHand, SpareInHand, ControlOK
  <2>25. NoNullYet'
    BY DEF NoNullYet
  <2>26. CrashOnlyAfterTwoPasses'
    BY DEF CrashOnlyAfterTwoPasses, Crash
  <2>30. QED
    BY <2>20, <2>21, <2>22, <2>23, <2>24, <2>25, <2>26
<1>6. CASE StartReturn
  <2> USE <1>6 DEF StartReturn
  <2>20. BuffersOK'
    BY DEF BuffersOK
  <2>21. ControlOK'
    BY DEF ControlOK
  <2>22. FlagsOK'
    BY Zenon DEF FlagsOK
  <2>23. OutputOK'
    BY DEF OutputOK
  <2>24. OneThread' /\ BatchInHand' /\ SpareInHand'
    BY DEF OneThread, BatchInHand, SpareInHand, ControlOK
  <2>25. NoNullYet'
    BY DEF NoNullYet
  <2>26. CrashOnlyAfterTwoPasses'
    BY DEF CrashOnlyAfterTwoPasses, Crash
  <2>30. QED
    BY <2>20, <2>21, <2>22, <2>23, <2>24, <2>25, <2>26
<1>7. CASE StopFlag
  <2> USE <1>7 DEF StopFlag
  <2>20. BuffersOK'
    BY DEF BuffersOK
  <2>21. ControlOK'
    BY DEF ControlOK
  <2>22. FlagsOK'
    BY Zenon DEF FlagsOK
  <2>23. OutputOK'
    BY DEF OutputOK
  <2>24. OneThread' /\ BatchInHand' /\ SpareInHand'
    BY DEF OneThread, BatchInHand, SpareInHand, ControlOK
  <2>25. NoNullYet'
    BY DEF NoNullYet
  <2>26. CrashOnlyAfterTwoPasses'
    BY DEF CrashOnlyAfterTwoPasses, Crash
  <2>30. QED
    BY <2>20, <2>21, <2>22, <2>23, <2>24, <2>25, <2>26
<1>8. CASE StopNotify
  <2> USE <1>8 DEF StopNotify
  <2>20. BuffersOK'
    BY DEF BuffersOK
  <2>21. ControlOK'
    BY DEF ControlOK
  <2>22. FlagsOK'
    BY Zenon DEF FlagsOK, Notify
  <2>23. OutputOK'
    BY DEF OutputOK
  <2>24. OneThread' /\ BatchInHand' /\ SpareInHand'
    BY DEF OneThread, BatchInHand, SpareInHand, ControlOK
  <2>25. NoNullYet'
    BY DEF NoNullYet
  <2>26. CrashOnlyAfterTwoPasses'
    BY DEF CrashOnlyAfterTwoPasses, Crash
  <2>30. QED
    BY <2>20, <2>21, <2>22, <2>23, <2>24, <2>25, <2>26
<1>9. CASE StopJoin
  <2> USE <1>9 DEF StopJoin
  <2>20. BuffersOK'
    BY DEF BuffersOK
  <2>21. ControlOK'
    BY DEF ControlOK
  <2>22. FlagsOK'
    BY Zenon DEF FlagsOK
  <2>23. OutputOK'
    BY DEF OutputOK
  <2>24. OneThread' /\ BatchInHand' /\ SpareInHand'
    BY DEF OneThread, BatchInHand, SpareInHand, ControlOK
  <2>25. NoNullYet'
    BY DEF NoNullYet
  <2>26. CrashOnlyAfterTwoPasses'
    BY DEF CrashOnlyAfterTwoPasses, Crash
  <2>30. QED
    BY <2>20, <2>21, <2>22, <2>23, <2>24, <2>25, <2>26
<1>10. CASE ThreadBoot
  <2> USE <1>10 DEF ThreadBoot
  <2>1. ~HasNull(<< >>)
    BY LenProperties, EmptySeq DEF HasNull
  <2>20. BuffersOK'
    BY EmptySeq, EmptyBuffer DEF BuffersOK, Slots
  <2>21. ControlOK'
    BY DEF ControlOK
  <2>22. FlagsOK'
    BY Zenon DEF FlagsOK
  <2>23. OutputOK'
    BY DEF OutputOK
  <2>24. OneThread' /\ BatchInHand' /\ SpareInHand'
    BY EmptyBuffer DEF OneThread, BatchInHand, SpareInHand, ControlOK
  <2>25. NoNullYet'
    BY <2>1 DEF NoNullYet
  <2>26. CrashOnlyAfterTwoPasses'
    BY DEF CrashOnlyAfterTwoPasses, Crash
  <2>30. QED
    BY <2>20, <2>21, <2>22, <2>23, <2>24, <2>25, <2>26
<1>11. CASE ThreadLoop
  <2> USE <1>11 DEF ThreadLoop
  <2>20. BuffersOK'
    BY DEF BuffersOK
  <2>21. ControlOK'
    BY DEF ControlOK
  <2>22. FlagsOK'
    BY Zenon DEF FlagsOK
  <2>23. OutputOK'
    BY DEF OutputOK
  <2>24. OneThread' /\ BatchInHand' /\ SpareInHand'
    BY DEF OneThread, BatchInHand, SpareInHand, ControlOK
  <2>25. NoNullYet'
    BY DEF NoNullYet
  <2>26. CrashOnlyAfterTwoPasses'
    BY DEF CrashOnlyAfterTwoPasses, Crash
  <2>30. QED
    BY <2>20, <2>21, <2>22, <2>23, <2>24, <2>25, <2>26
<1>12. CASE ThreadEnter
  <2>1. CASE toWrite # << >>
    BY <1>12, <2>1, ExchangeKeepsCrashInv, Zenon DEF ThreadEnter
  <2>2. CASE toWrite = << >>
    <3> USE <1>12, <2>2 DEF ThreadEnter
    <3>1. BuffersOK' /\ OutputOK'
      BY DEF BuffersOK, OutputOK
    <3>2. ControlOK'
      BY DEF ControlOK
    <3>3. FlagsOK'
      BY Zenon DEF FlagsOK
    <3>4. OneThread' /\ BatchInHand' /\ SpareInHand'
      BY DEF OneThread, BatchInHand, SpareInHand
    <3>5. NoNullYet' /\ CrashOnlyAfterTwoPasses'
      BY DEF NoNullYet, CrashOnlyAfterTwoPasses
    <3>6. QED
      BY <3>1, <3>2, <3>3, <3>4, <3>5
  <2>3. QED
    BY <2>1, <2>2
<1>13. CASE ThreadNotified
  BY <1>13, ExchangeKeepsCrashInv, Zenon DEF ThreadNotified
<1>14. CASE ThreadTimeout
  BY <1>14, ExchangeKeepsCrashInv, Zenon DEF ThreadTimeout
<1>15. CASE ThreadShed
  <2> USE <1>15 DEF ThreadShed
  <2> DEFINE rest == SubSeq(process, KeptBuffers + 1, Len(process))
  <2>0. process \in Seq(Slots) /\ process # << >>
    BY DEF BuffersOK, BatchInHand
  <2>1. process' \in Seq(Slots) /\ process' # << >>
    BY <2>0, KeptType
  <2>2. HasNull(process') => HasNull(process)
    BY <2>0, <2>1, KeptType, LenProperties DEF HasNull
  <2>3. EventsInAll(rest) \subseteq 1 .. MaxEvents
    <3>1. rest \in Seq(Slots)
      BY <2>0, SubSeqProperties, LenProperties DEF KeptBuffers
    <3>2. QED
      BY <3>1, EventsInType
  <2>20. BuffersOK'
    BY <2>1 DEF BuffersOK
  <2>21. ControlOK'
    BY DEF ControlOK
  <2>22. FlagsOK'
    BY Zenon DEF FlagsOK
  <2>23. OutputOK'
    BY <2>3 DEF OutputOK
  <2>24. OneThread' /\ BatchInHand' /\ SpareInHand'
    BY <2>1 DEF OneThread, BatchInHand, SpareInHand, ControlOK
  <2>25. NoNullYet'
    BY <2>2 DEF NoNullYet
  <2>26. CrashOnlyAfterTwoPasses'
    BY DEF CrashOnlyAfterTwoPasses, Crash
  <2>30. QED
    BY <2>20, <2>21, <2>22, <2>23, <2>24, <2>25, <2>26
<1>16. CASE ThreadWrite
  <2> USE <1>16 DEF ThreadWrite
  <2>0. written + 1 \in 1 .. Len(process) /\ process[written + 1] \in Slots
    BY ElementOfSeq, LenProperties DEF BuffersOK
  <2>1. logged' \in Seq(1 .. MaxEvents)
    <3>1. CASE process[written + 1] = NoBuffer
      BY <3>1 DEF OutputOK
    <3>2. CASE process[written + 1] # NoBuffer
      <4>1. process[written + 1] \in Seq(1 .. MaxEvents)
        BY <2>0, <3>2 DEF Slots, Buffers
      <4>2. QED
        BY <3>2, <4>1, ConcatProperties DEF OutputOK
    <3>3. QED
      BY <3>1, <3>2
  <2>2. process[written + 1] = NoBuffer => passes >= 2
    BY <2>0, LenProperties DEF NoNullYet, HasNull, BuffersOK
  <2>20. BuffersOK'
    BY DEF BuffersOK
  <2>21. ControlOK'
    BY DEF ControlOK
  <2>22. FlagsOK'
    BY Zenon DEF FlagsOK, Crash
  <2>23. OutputOK'
    BY <2>1 DEF OutputOK
  <2>24. OneThread' /\ BatchInHand' /\ SpareInHand'
    BY DEF OneThread, BatchInHand, SpareInHand, ControlOK
  <2>25. NoNullYet'
    BY DEF NoNullYet
  <2>26. CrashOnlyAfterTwoPasses'
    BY <2>2 DEF CrashOnlyAfterTwoPasses, Crash
  <2>30. QED
    BY <2>20, <2>21, <2>22, <2>23, <2>24, <2>25, <2>26
<1>17. CASE ThreadRecycle
  <2> USE <1>17 DEF ThreadRecycle
  <2>1. new1' \in Slots /\ new2' \in Slots
    <3>1. Kept(process) \in Seq(Slots) /\ Kept(process) # << >>
      BY KeptType DEF BuffersOK, BatchInHand
    <3>2. new1 = NoBuffer
      BY DEF BatchInHand
    <3>3. QED
      BY <3>1, <3>2, FrontLastType DEF BuffersOK
  <2>2. ~HasNull(<< >>)
    BY LenProperties, EmptySeq DEF HasNull
  <2>20. BuffersOK'
    BY <2>1, EmptySeq DEF BuffersOK
  <2>21. ControlOK'
    BY DEF ControlOK
  <2>22. FlagsOK'
    BY Zenon DEF FlagsOK
  <2>23. OutputOK'
    BY DEF OutputOK
  <2>24. OneThread' /\ BatchInHand' /\ SpareInHand'
    BY DEF OneThread, BatchInHand, SpareInHand, ControlOK
  <2>25. NoNullYet'
    BY <2>2 DEF NoNullYet
  <2>26. CrashOnlyAfterTwoPasses'
    BY DEF CrashOnlyAfterTwoPasses, Crash
  <2>30. QED
    BY <2>20, <2>21, <2>22, <2>23, <2>24, <2>25, <2>26
<1>18. QED
  BY <1>1, <1>2, <1>3, <1>4, <1>5, <1>6, <1>7, <1>8, <1>9, <1>10, <1>11, <1>12, <1>13, <1>14, <1>15, <1>16, <1>17, Zenon DEF Next, AppendStep, ControlStep, ThreadStep
-----------------------------------------------------------------------------
(* Every variable keeps its type and no null pointer is dereferenced before *)
(* the second exchange, along every behaviour of the logger.               *)
THEOREM CrashInvHolds == Spec => []CrashInv
<1>1. Init => CrashInv
  BY InitCrashInv
<1>2. CrashInv /\ [Next]_vars => CrashInv'
  BY StepKeepsCrashInv
<1>3. QED
  BY <1>1, <1>2, PTL DEF Spec

(* The process survives until two exchanges have used up the spare buffers. *)
THEOREM CrashOnlyAfterTwoPassesHolds == Spec => []CrashOnlyAfterTwoPasses
<1>1. CrashInv => CrashOnlyAfterTwoPasses
  BY DEF CrashInv
<1>2. QED
  BY <1>1, CrashInvHolds, PTL

(* The variables keep their types. *)
THEOREM TypeOKHolds == Spec => []TypeOK
<1>1. CrashInv => TypeOK
  BY DEF CrashInv
<1>2. QED
  BY <1>1, CrashInvHolds, PTL

(* The log thread never waits beside a full buffer without a notification   *)
(* on its way: no append() is lost between its test and its wait.           *)
THEOREM NoLostWakeupHolds == Spec => []NoLostWakeup
<1> USE DEF NoLostWakeup
<1>1. Init => NoLostWakeup
  BY DEF Init
<1>2. ASSUME NoLostWakeup, [Next]_vars
      PROVE  NoLostWakeup'
  <2> USE NoLostWakeup DEF shared, local, control, output
  <2>1. CASE UNCHANGED vars
    BY <2>1 DEF vars
  <2>2. CASE AppendStep
    BY <2>2, Zenon DEF AppendStep, AppendToNull, AppendWithRoom, AppendToFull, Notify
  <2>3. CASE ControlStep
    BY <2>3, Zenon
    DEF ControlStep, Start, StartReturn, StopFlag, StopNotify, StopJoin, Notify
  <2>4. CASE ThreadBoot \/ ThreadLoop
    BY <2>4 DEF ThreadBoot, ThreadLoop
  <2>5. CASE ThreadEnter \/ ThreadNotified \/ ThreadTimeout
    BY <2>5 DEF ThreadEnter, ThreadNotified, ThreadTimeout, Exchange
  <2>6. CASE ThreadShed \/ ThreadWrite \/ ThreadRecycle
    BY <2>6 DEF ThreadShed, ThreadWrite, ThreadRecycle
  <2>7. QED
    BY <1>2, <2>1, <2>2, <2>3, <2>4, <2>5, <2>6 DEF Next, ThreadStep
<1>3. QED
  BY <1>1, <1>2, PTL DEF Spec
-----------------------------------------------------------------------------
(* Events in buffers, and buffers in batches.                              *)
LEMMA NoEvents == EventsInAll(<< >>) = {} /\ EventsIn(<< >>) = {} /\ EventsIn(NoBuffer) = {}
<1>1. EventsIn(NoBuffer) = {}
  BY DEF EventsIn
<1>2. DOMAIN << >> = {}
  BY LenProperties, EmptySeq
<1>3. Range(<< >>) = {}
  BY <1>2 DEF Range
<1>4. QED
  BY <1>1, <1>2, <1>3 DEF EventsInAll, EventsIn

(* A buffer more in a batch.                                               *)
LEMMA EventsOfAppend ==
  ASSUME NEW seq \in Seq(Slots), NEW slot \in Slots
  PROVE  EventsInAll(Append(seq, slot)) = EventsInAll(seq) \union EventsIn(slot)
<1> DEFINE longer == Append(seq, slot)
<1>1. longer \in Seq(Slots) /\ Len(longer) = Len(seq) + 1 /\ Len(seq) \in Nat
  BY AppendProperties, LenProperties
<1>2. DOMAIN longer = DOMAIN seq \union {Len(seq) + 1}
  BY <1>1, LenProperties
<1>3. (\A i \in DOMAIN seq : longer[i] = seq[i]) /\ longer[Len(seq) + 1] = slot
  BY AppendProperties, LenProperties
<1> HIDE DEF longer
<1>4. QED
  BY <1>2, <1>3 DEF EventsInAll, longer

LEMMA OrderedAppend ==
  ASSUME NEW seq \in Seq(Slots), NEW slot \in Slots,
         Ordered(seq), InOrder(slot), Older(EventsInAll(seq), EventsIn(slot))
  PROVE  Ordered(Append(seq, slot))
<1> DEFINE longer == Append(seq, slot)
           n == Len(seq)
<1>1. longer \in Seq(Slots) /\ Len(longer) = n + 1 /\ n \in Nat
  BY AppendProperties, LenProperties
<1>2. DOMAIN longer = 1 .. n + 1 /\ DOMAIN seq = 1 .. n
  BY <1>1, LenProperties
<1>3. (\A i \in 1 .. n : longer[i] = seq[i]) /\ longer[n + 1] = slot
  BY AppendProperties, LenProperties
<1> HIDE DEF longer, n
<1>4. \A i \in 1 .. n + 1 : InOrder(longer[i])
  BY <1>1, <1>2, <1>3 DEF Ordered
<1>5. ASSUME NEW i \in 1 .. n + 1, NEW j \in 1 .. n + 1, i < j
      PROVE  Older(EventsIn(longer[i]), EventsIn(longer[j]))
  <2>1. i \in 1 .. n
    BY <1>1, <1>5
  <2>2. CASE j \in 1 .. n
    BY <1>2, <1>3, <1>5, <2>1, <2>2 DEF Ordered
  <2>3. CASE j = n + 1
    BY <1>2, <1>3, <2>1, <2>3 DEF Older, EventsInAll
  <2>4. QED
    BY <1>1, <2>2, <2>3
<1>6. QED
  BY <1>2, <1>4, <1>5 DEF Ordered, longer

(* A batch is what comes first and the rest.                               *)
Upto(seq, k) == SubSeq(seq, 1, k)
From(seq, m) == SubSeq(seq, m, Len(seq))

LEMMA BatchSplit ==
  ASSUME NEW seq \in Seq(Slots), NEW k \in 0 .. Len(seq), NEW m, m = k + 1
  PROVE  /\ EventsInAll(seq) = EventsInAll(Upto(seq, k)) \union EventsInAll(From(seq, m))
         /\ Ordered(seq) =>
              /\ Ordered(Upto(seq, k)) /\ Ordered(From(seq, m))
              /\ Older(EventsInAll(Upto(seq, k)), EventsInAll(From(seq, m)))
<1> DEFINE first == Upto(seq, k)
           rest  == From(seq, m)
<1> DEFINE n == Len(seq)
<1>1. n \in Nat /\ k \in Nat /\ k <= n /\ DOMAIN seq = 1 .. n /\ \A i \in 1 .. n : seq[i] \in Slots
  BY LenProperties, ElementOfSeq
<1>2. first \in Seq(Slots) /\ Len(first) = k /\ \A i \in 1 .. k : first[i] = seq[i]
  BY <1>1, SubSeqProperties DEF Upto
<1>3. rest \in Seq(Slots) /\ Len(rest) = n - k /\ \A i \in 1 .. n - k : rest[i] = seq[k + i]
  <2>1. m \in Int /\ n \in Int /\ \A i \in m .. n : seq[i] \in Slots
    BY <1>1
  <2>2. /\ rest \in Seq(Slots) /\ Len(rest) = IF m <= n THEN n - m + 1 ELSE 0
        /\ \A i \in 1 .. n - m + 1 : rest[i] = seq[m + i - 1]
    BY <2>1, SubSeqProperties DEF From
  <2> HIDE DEF n, rest
  <2>3. n - m + 1 = n - k /\ (m <= n \/ n - k = 0)
    BY <1>1
  <2>4. \A i \in 1 .. n - k : m + i - 1 = k + i
    BY <1>1
  <2>5. QED
    BY <2>2, <2>3, <2>4
<1>4. DOMAIN first = 1 .. k /\ DOMAIN rest = 1 .. n - k
  BY <1>2, <1>3, LenProperties
<1> HIDE DEF n, first, rest
<1>5. \A i \in k + 1 .. n : i - k \in 1 .. n - k /\ seq[i] = rest[i - k]
  BY <1>1, <1>3
<1>6. EventsInAll(seq) \subseteq EventsInAll(first) \union EventsInAll(rest)
  <2>1. ASSUME NEW i \in 1 .. n
        PROVE  EventsIn(seq[i]) \subseteq EventsInAll(first) \union EventsInAll(rest)
    <3>1. CASE i \in 1 .. k
      BY <1>2, <1>4, <3>1 DEF EventsInAll
    <3>2. CASE i \in k + 1 .. n
      BY <1>4, <1>5, <3>2 DEF EventsInAll
    <3>3. QED
      BY <1>1, <3>1, <3>2
  <2>2. QED
    BY <1>1, <2>1 DEF EventsInAll
<1>7. EventsInAll(first) \subseteq EventsInAll(seq)
  BY <1>1, <1>2, <1>4 DEF EventsInAll
<1>8. EventsInAll(rest) \subseteq EventsInAll(seq)
  <2>1. \A i \in 1 .. n - k : k + i \in 1 .. n /\ rest[i] = seq[k + i]
    BY <1>1, <1>3
  <2>2. QED
    BY <1>1, <1>4, <2>1 DEF EventsInAll
<1>9. ASSUME Ordered(seq)
      PROVE  Ordered(first) /\ Ordered(rest) /\ Older(EventsInAll(first), EventsInAll(rest))
  <2>1. Ordered(first)
    BY <1>1, <1>2, <1>4, <1>9 DEF Ordered
  <2>2. \A i \in 1 .. n - k : k + i \in 1 .. n /\ rest[i] = seq[k + i]
    BY <1>1, <1>3
  <2>3. \A i, j \in 1 .. n - k : i < j => k + i < k + j
    BY <1>1
  <2>4. Ordered(rest)
    BY <1>1, <1>4, <1>9, <2>2, <2>3 DEF Ordered
  <2>5. \A i \in 1 .. k, j \in 1 .. n - k : Older(EventsIn(first[i]), EventsIn(rest[j]))
    <3> SUFFICES ASSUME NEW i \in 1 .. k, NEW j \in 1 .. n - k
                 PROVE  Older(EventsIn(first[i]), EventsIn(rest[j]))
      OBVIOUS
    <3> DEFINE b == k + j
    <3>1. i \in 1 .. n /\ b \in 1 .. n /\ i < b
      BY <1>1
    <3>2. first[i] = seq[i] /\ rest[j] = seq[b]
      BY <1>2, <2>2
    <3> HIDE DEF b
    <3>3. Older(EventsIn(seq[i]), EventsIn(seq[b]))
      BY <1>1, <1>9, <3>1 DEF Ordered
    <3>4. QED
      BY <3>2, <3>3
  <2>6. Older(EventsInAll(first), EventsInAll(rest))
    <3> SUFFICES ASSUME NEW e \in EventsInAll(first), NEW f \in EventsInAll(rest)
                 PROVE  e < f
      BY DEF Older
    <3>1. PICK i \in 1 .. k : e \in EventsIn(first[i])
      BY <1>4 DEF EventsInAll
    <3>2. PICK j \in 1 .. n - k : f \in EventsIn(rest[j])
      BY <1>4 DEF EventsInAll
    <3>3. QED
      BY <2>5, <3>1, <3>2 DEF Older
  <2>7. QED
    BY <2>1, <2>4, <2>6
<1>10. QED
  BY <1>6, <1>7, <1>8, <1>9 DEF first, rest

(* One buffer and the batch after it.                                      *)
LEMMA BatchHead ==
  ASSUME NEW seq \in Seq(Slots), NEW m \in 1 .. Len(seq), NEW l, l = m + 1
  PROVE  /\ EventsInAll(From(seq, m)) = EventsIn(seq[m]) \union EventsInAll(From(seq, l))
         /\ Ordered(From(seq, m)) =>
              /\ InOrder(seq[m]) /\ Ordered(From(seq, l))
              /\ Older(EventsIn(seq[m]), EventsInAll(From(seq, l)))
<1> DEFINE all   == From(seq, m)
           n     == Len(all)
           first == Upto(all, 1)
<1>1. Len(seq) \in Nat /\ m \in Nat /\ \A i \in m .. Len(seq) : seq[i] \in Slots
  BY LenProperties, ElementOfSeq
<1>2. all \in Seq(Slots) /\ n = Len(seq) - m + 1 /\ \A i \in 1 .. n : all[i] = seq[m + i - 1]
  BY <1>1, SubSeqProperties DEF From
<1>3. n \in Nat /\ 1 \in 0 .. n /\ all[1] = seq[m] /\ DOMAIN all = 1 .. n
  BY <1>1, <1>2, LenProperties
<1>4. From(seq, l) = From(all, 2)
  <2> DEFINE rest == From(seq, l)
  <2>1. rest \in Seq(Slots) /\ Len(rest) = n - 1 /\ \A i \in 1 .. n - 1 : rest[i] = seq[m + i]
    BY <1>1, <1>2, SubSeqProperties DEF From
  <2>2. \A i \in 2 .. n : all[i] \in Slots
    BY <1>2, <1>3, ElementOfSeq
  <2>3. /\ SubSeq(all, 2, n) \in Seq(Slots) /\ Len(SubSeq(all, 2, n)) = n - 1
        /\ \A i \in 1 .. n - 1 : SubSeq(all, 2, n)[i] = all[i + 1]
    BY <1>3, <2>2, SubSeqProperties
  <2>4. \A i \in 1 .. n - 1 : all[i + 1] = seq[m + i]
    BY <1>1, <1>2
  <2>5. rest = SubSeq(all, 2, n)
    BY <2>1, <2>3, <2>4, SeqEqual
  <2>6. QED
    BY <2>5 DEF From
<1>5. Len(first) = 1 /\ first \in Seq(Slots) /\ first[1] = seq[m]
  BY <1>2, <1>3, ElementOfSeq, SubSeqProperties DEF Upto
<1>6. DOMAIN first = {1}
  BY <1>5, LenProperties
<1> HIDE DEF all, n, first
<1>7. EventsInAll(first) = EventsIn(seq[m]) /\ (Ordered(first) => InOrder(seq[m]))
  BY <1>5, <1>6 DEF EventsInAll, Ordered
<1>8. /\ EventsInAll(all) = EventsInAll(first) \union EventsInAll(From(all, 2))
      /\ Ordered(all) =>
           /\ Ordered(first) /\ Ordered(From(all, 2))
           /\ Older(EventsInAll(first), EventsInAll(From(all, 2)))
  BY <1>2, <1>3, BatchSplit DEF n, first
<1>9. QED
  BY <1>4, <1>7, <1>8 DEF all

(* Growing sequences of events.                                            *)
LEMMA IncreasingAppend ==
  ASSUME NEW s \in Seq(Nat), NEW e \in Nat, LP!Increasing(s), \A f \in Range(s) : f < e
  PROVE  LP!Increasing(Append(s, e)) /\ Range(Append(s, e)) = Range(s) \union {e}
<1> DEFINE n == Len(s)
           t == Append(s, e)
<1>1. n \in Nat /\ DOMAIN s = 1 .. n /\ t \in Seq(Nat) /\ Len(t) = n + 1
  BY LenProperties, AppendProperties
<1>2. DOMAIN t = 1 .. n + 1
  BY <1>1, LenProperties
<1>3. (\A i \in 1 .. n : t[i] = s[i]) /\ t[n + 1] = e
  BY AppendProperties
<1> HIDE DEF t, n
<1>4. LP!Increasing(t)
  BY <1>1, <1>2, <1>3 DEF LP!Increasing, Range
<1>5. 1 .. n + 1 = (1 .. n) \union {n + 1}
  BY <1>1
<1>6. Range(t) = Range(s) \union {e}
  BY <1>1, <1>2, <1>3, <1>5 DEF Range
<1>7. QED
  BY <1>4, <1>6 DEF t

LEMMA IncreasingConcat ==
  ASSUME NEW s \in Seq(Nat), NEW t \in Seq(Nat), LP!Increasing(s), LP!Increasing(t),
         Older(Range(s), Range(t))
  PROVE  LP!Increasing(s \o t)
<1> DEFINE m == Len(s)
           n == Len(t)
           u == s \o t
<1>1. m \in Nat /\ n \in Nat /\ DOMAIN s = 1 .. m /\ DOMAIN t = 1 .. n
  BY LenProperties
<1>2. u \in Seq(Nat) /\ Len(u) = m + n /\ DOMAIN u = 1 .. m + n
  BY ConcatProperties, LenProperties
<1>3. \A i \in 1 .. m + n : u[i] = IF i <= m THEN s[i] ELSE t[i - m]
  BY ConcatProperties
<1> HIDE DEF m, n, u
<1>4. ASSUME NEW i \in 1 .. m + n, NEW j \in 1 .. m + n, i < j
      PROVE  u[i] < u[j]
  <2>1. CASE j <= m
    BY <1>1, <1>3, <1>4, <2>1 DEF LP!Increasing
  <2>2. CASE m < i
    <3>1. i - m \in 1 .. n /\ j - m \in 1 .. n /\ i - m < j - m
      BY <1>1, <1>4, <2>2
    <3>2. u[i] = t[i - m] /\ u[j] = t[j - m]
      BY <1>1, <1>3, <1>4, <2>2
    <3>3. QED
      BY <1>1, <3>1, <3>2 DEF LP!Increasing
  <2>3. CASE i <= m /\ m < j
    <3>1. i \in 1 .. m /\ j - m \in 1 .. n
      BY <1>1, <1>4, <2>3
    <3>2. u[i] = s[i] /\ u[j] = t[j - m]
      BY <1>1, <1>3, <2>3
    <3>3. QED
      BY <1>1, <3>1, <3>2 DEF Older, Range
  <2>4. QED
    BY <1>1, <2>1, <2>2, <2>3
<1>5. QED
  BY <1>2, <1>4 DEF LP!Increasing, u
-----------------------------------------------------------------------------
(* Where a null pointer can be after an exchange.                          *)
LEMMA NullInAppend ==
  ASSUME NEW seq \in Seq(Slots), NEW slot \in Slots
  PROVE  /\ HasNull(Append(seq, slot)) <=> HasNull(seq) \/ slot = NoBuffer
         /\ ~HasNull(<< >>)
<1>1. ~HasNull(<< >>)
  BY LenProperties, EmptySeq DEF HasNull
<1> DEFINE longer == Append(seq, slot)
<1>2. Len(seq) \in Nat /\ DOMAIN seq = 1 .. Len(seq) /\ DOMAIN longer = 1 .. Len(seq) + 1
  BY AppendProperties, LenProperties
<1>3. (\A i \in 1 .. Len(seq) : longer[i] = seq[i]) /\ longer[Len(seq) + 1] = slot
  BY AppendProperties
<1> HIDE DEF longer
<1>4. HasNull(longer) <=> HasNull(seq) \/ slot = NoBuffer
  BY <1>2, <1>3 DEF HasNull
<1>5. QED
  BY <1>1, <1>4 DEF longer

Places == BatchInPass /\ NullIsAlone /\ StaleSpareUnused

(* The exchange takes what the appenders filled: a null pointer comes      *)
(* alone, as nothing can be filled behind it.                              *)
LEMMA ExchangeKeepsPlaces ==
  ASSUME CrashInv, Places, tpc \in {"enter", "wait"}, Exchange
  PROVE  Places'
<1> USE DEF Places, CrashInv, TypeOK, BuffersOK
<1>1. /\ process = << >> /\ toWrite' = << >> /\ process' = Append(toWrite, current)
      /\ current' = new1 /\ new1' = NoBuffer /\ written' = 0 /\ tpc' = "shed"
  BY DEF Exchange, BatchInPass
<1>2. (HasNull(process') <=> current = NoBuffer) /\ ~HasNull(toWrite')
  BY <1>1, NullInAppend DEF NullIsAlone
<1>3. BatchInPass'
  <2>1. process' \in Seq(Slots)
    BY <1>1, AppendProperties
  <2>2. Len(process') \in Nat
    BY <2>1, LenProperties
  <2>3. QED
    BY <1>1, <2>2 DEF BatchInPass
<1>4. NullIsAlone'
  <2>1. current = NoBuffer => Len(process') = 1
    BY <1>1, AppendProperties, EmptySeq DEF NullIsAlone
  <2>2. QED
    BY <1>1, <1>2, <2>1 DEF NullIsAlone
<1>5. StaleSpareUnused'
  <2>1. Clean(new1') /\ (Clean(new2') \/ new1' = NoBuffer)
    BY <1>1 DEF Clean
  <2>2. CASE next = NoBuffer
    BY <1>1, <2>1, <2>2 DEF Exchange, StaleSpareUnused
  <2>3. CASE next # NoBuffer
    BY <1>1, <1>2, <2>1, <2>3, NullInAppend DEF Exchange, StaleSpareUnused
  <2>4. QED
    BY <2>2, <2>3
<1>6. QED
  BY <1>3, <1>4, <1>5

(* Every step keeps the null pointers and the stale spares in their places. *)
LEMMA StepKeepsPlaces ==
  ASSUME CrashInv, Places, [Next]_vars
  PROVE  Places'
<1> USE DEF Places, shared, local, control, output
<1>0. TypeOK /\ BuffersOK /\ process \in Seq(Slots) /\ written \in Nat
  BY DEF CrashInv, TypeOK, BuffersOK
<1>1. ASSUME UNCHANGED <<shared, local>>, tpc' = "shed" => tpc = "shed",
             tpc \in {"shed", "write"} => tpc' \in {"shed", "write"}
      PROVE  Places'
  BY <1>1 DEF BatchInPass, NullIsAlone, StaleSpareUnused, HasNull, Clean
<1>2. CASE UNCHANGED vars \/ AppendToNull
  BY <1>1, <1>2 DEF vars, AppendToNull
<1>3. CASE StartReturn \/ StopFlag \/ StopNotify
  BY <1>1, <1>3 DEF StartReturn, StopFlag, StopNotify
<1>4. CASE Start \/ StopJoin \/ ThreadLoop
  BY <1>1, <1>4 DEF Start, StopJoin, ThreadLoop, OneThread, CrashInv
<1>5. CASE AppendWithRoom
  <2>1. current # NoBuffer /\ UNCHANGED <<next, toWrite, new1, new2, process, written, tpc>>
    BY <1>5 DEF AppendWithRoom
  <2>2. current' # NoBuffer
    <3>1. current \in Seq(Nat) /\ accepted + 1 \in Nat
      BY <1>0, <2>1, SeqMonotonic, ConstantsAssumption DEF Slots, Buffers, TypeOK, BuffersOK, OutputOK
    <3>2. current' \in Seq(Nat)
      BY <1>5, <3>1, AppendProperties DEF AppendWithRoom
    <3>3. QED
      BY <3>2, ConstantsAssumption
  <2>3. QED
    BY <2>1, <2>2 DEF BatchInPass, NullIsAlone, StaleSpareUnused, HasNull, Clean
<1>6. CASE AppendToFull
  <2>1. /\ current # NoBuffer /\ toWrite' = Append(toWrite, current) /\ next' = NoBuffer
        /\ UNCHANGED <<new1, new2, process, written, tpc>>
    BY <1>6 DEF AppendToFull
  <2>2. current' # NoBuffer
    BY <1>0, <1>6, PutType, BufferNotNull, EmptyBuffer, ConstantsAssumption
    DEF AppendToFull, BuffersOK, OutputOK, TypeOK, Slots
  <2>3. ~HasNull(toWrite')
    BY <1>0, <2>1, NullInAppend DEF BuffersOK, NullIsAlone
  <2>4. QED
    BY <2>1, <2>2, <2>3 DEF BatchInPass, NullIsAlone, StaleSpareUnused, HasNull, Clean
<1>7. CASE ThreadBoot
  <2>1. /\ process = << >> /\ process' = << >> /\ written' = 0 /\ tpc' = "loop"
        /\ new1' = << >> /\ new2' = << >> /\ UNCHANGED <<current, next, toWrite>>
    BY <1>7 DEF ThreadBoot, BatchInPass
  <2>2. Len(<< >>) = 0
    BY EmptySeq
  <2>3. QED
    BY <2>1, <2>2 DEF BatchInPass, NullIsAlone, StaleSpareUnused, Clean
<1>8. CASE ThreadEnter \/ ThreadNotified \/ ThreadTimeout
  <2>1. CASE UNCHANGED <<shared, local>> /\ tpc = "enter" /\ tpc' = "wait"
    BY <1>1, <2>1
  <2>2. CASE tpc \in {"enter", "wait"} /\ Exchange
    BY <2>2, ExchangeKeepsPlaces
  <2>3. QED
    BY <1>8, <2>1, <2>2 DEF ThreadEnter, ThreadNotified, ThreadTimeout
<1>9. CASE ThreadShed
  <2>1. /\ process # << >> /\ written = 0 /\ written' = 0 /\ tpc' = "write"
        /\ UNCHANGED <<current, next, toWrite, new1, new2>>
    BY <1>9 DEF ThreadShed, BatchInPass, BatchInHand, CrashInv
  <2>2. Len(process) \in Nat /\ Len(process') \in Nat
    BY <1>0, <1>9, <2>1, KeptType, LenProperties DEF ThreadShed
  <2>3. BatchInPass'
    BY <2>1, <2>2 DEF BatchInPass
  <2>8. HasNull(process) => Kept(process) = process
    <3>1. HasNull(process) => ~(Len(process) > KeptBuffers)
      <4>1. HasNull(process) => Len(process) = 1
        BY DEF NullIsAlone
      <4>2. QED
        BY <4>1 DEF KeptBuffers
    <3>2. QED
      BY <3>1, Zenon DEF Kept
  <2>4. HasNull(process) <=> HasNull(process')
    <3>1. CASE process' = process
      BY <3>1
    <3>2. CASE process' = Kept(process)
      <4>1. HasNull(process') => HasNull(process)
        BY <1>0, <2>1, <3>2, KeptType, LenProperties DEF HasNull
      <4>2. QED
        BY <2>8, <3>2, <4>1
    <3>3. QED
      BY <1>9, <3>1, <3>2 DEF ThreadShed
  <2>5. HasNull(process) => process' = process
    BY <1>9, <2>8 DEF ThreadShed
  <2>6. NullIsAlone' /\ StaleSpareUnused'
    BY <2>1, <2>4, <2>5 DEF NullIsAlone, StaleSpareUnused, Clean, HasNull
  <2>7. QED
    BY <2>3, <2>6
<1>10. CASE ThreadWrite
  <2>1. /\ written < Len(process) /\ tpc = "write"
        /\ UNCHANGED <<current, next, toWrite, new1, new2, process, tpc>>
        /\ \/ written' = written
           \/ written' = written + 1 /\ process[written + 1] # NoBuffer
    BY <1>10 DEF ThreadWrite
  <2>2. Len(process) \in Nat
    BY <1>0, LenProperties
  <2>3. BatchInPass'
    BY <1>0, <2>1, <2>2 DEF BatchInPass
  <2>4. NullIsAlone' /\ StaleSpareUnused'
    BY <2>1 DEF NullIsAlone, StaleSpareUnused, Clean, HasNull
  <2>5. QED
    BY <2>3, <2>4
<1>11. CASE ThreadRecycle
  <2>1. /\ written = Len(process) /\ tpc' = "loop" /\ process' = << >> /\ written' = 0
        /\ new1 = NoBuffer /\ new1' = new1
        /\ UNCHANGED <<current, next, toWrite>>
    BY <1>11 DEF ThreadRecycle, BatchInHand, CrashInv
  <2>2. ~HasNull(process)
    BY <1>0, <2>1, LenProperties DEF BatchInPass, HasNull
  <2>3. ~HasNull(<< >>) /\ Len(<< >>) = 0
    BY EmptySeq, LenProperties DEF HasNull
  <2>4. QED
    BY <2>1, <2>2, <2>3 DEF BatchInPass, NullIsAlone, StaleSpareUnused, Clean
<1>12. QED
  BY <1>2, <1>3, <1>4, <1>5, <1>6, <1>7, <1>8, <1>9, <1>10, <1>11
  DEF Next, AppendStep, ControlStep, ThreadStep
-----------------------------------------------------------------------------
(* What the steps do to the sets of events.                                *)
LEMMA AcceptInFlow ==
  ASSUME NEW L, NEW B, NEW F, NEW C, NEW D, NEW n \in Nat, InFlow(L, B, F, C, D, n)
  PROVE  /\ InFlow(L, B, F, C \union {n + 1}, D, n + 1)
         /\ InFlow(L, B, F \union C, {n + 1}, D, n + 1)
<1>1. 1 .. n + 1 = (1 .. n) \union {n + 1} /\ \A e \in 1 .. n : e < n + 1 /\ e # n + 1
  OBVIOUS
<1>2. \A e \in L \union B \union F \union C : e < n + 1
  BY <1>1 DEF InFlow
<1>3. n + 1 \notin D
  BY <1>1 DEF InFlow
<1>4. 1 .. n = L \union D \union B \union F \union C
  BY DEF InFlow
<1> DEFINE e == n + 1
<1>5. (1 .. e = (1 .. n) \union {e}) /\ e \notin D /\ \A f \in L \union B \union F \union C : f < e
  BY <1>1, <1>2, <1>3
<1> HIDE DEF e
<1>6. InFlow(L, B, F, C \union {e}, D, e)
  BY <1>4, <1>5 DEF InFlow, Older
<1>7. InFlow(L, B, F \union C, {e}, D, e)
  BY <1>4, <1>5 DEF InFlow, Older
<1>8. QED
  BY <1>6, <1>7 DEF e

LEMMA TakeInFlow ==
  ASSUME NEW L, NEW F, NEW C, NEW D, NEW n \in Nat, InFlow(L, {}, F, C, D, n)
  PROVE  InFlow(L, F \union C, {}, {}, D, n)
BY DEF InFlow, Older

LEMMA ShedInFlow ==
  ASSUME NEW L, NEW A, NEW B, NEW F, NEW C, NEW D, NEW n \in Nat,
         InFlow(L, A \union B, F, C, D, n), Older(A, B)
  PROVE  InFlow(L, A, F, C, D \union B, n) /\ B \intersect (L \union D) = {}
<1>1. A \union B \union F \union C \union L \subseteq Nat
  BY DEF InFlow
<1>2. A \intersect B = {} /\ B \intersect (F \union C) = {} /\ B \intersect L = {}
  BY <1>1 DEF InFlow, Older
<1>3. QED
  BY <1>2 DEF InFlow, Older

LEMMA WriteInFlow ==
  ASSUME NEW L, NEW B, NEW R, NEW F, NEW C, NEW D, NEW n \in Nat,
         InFlow(L, B \union R, F, C, D, n), Older(B, R)
  PROVE  /\ InFlow(L \union B, R, F, C, D, n)
         /\ Older(L, B) /\ B \intersect (L \union D) = {}
         /\ Older(B, (1 .. n) \ (L \union D \union B))
<1>1. B \union R \union F \union C \union L \subseteq Nat
  BY DEF InFlow
<1>2. Older(L, B) /\ B \intersect L = {} /\ B \intersect D = {}
  BY <1>1 DEF InFlow, Older
<1>3. Older(B, R \union F \union C)
  BY DEF InFlow, Older
<1>4. (1 .. n) \ (L \union D \union B) \subseteq R \union F \union C
  BY DEF InFlow
<1>5. InFlow(L \union B, R, F, C, D, n)
  BY DEF InFlow, Older
<1>6. QED
  BY <1>2, <1>3, <1>4, <1>5 DEF Older
-----------------------------------------------------------------------------
(* Types and prefixes.                                                     *)
LEMMA PrefixOfConcat ==
  ASSUME NEW s \in Seq(Nat), NEW t \in Seq(Nat)
  PROVE  IsPrefix(s, s \o t)
<1>1. /\ s \o t \in Seq(Nat) /\ Len(s \o t) = Len(s) + Len(t)
      /\ \A i \in 1 .. Len(s) + Len(t) : (s \o t)[i] = IF i <= Len(s) THEN s[i] ELSE t[i - Len(s)]
  BY ConcatProperties
<1>2. Len(s) \in Nat /\ Len(t) \in Nat
  BY LenProperties
<1> DEFINE n == Len(s)
           u == s \o t
<1>3. n \in Nat /\ n <= Len(u) /\ \A i \in 1 .. n : s[i] \in Nat /\ u[i] = s[i]
  BY <1>1, <1>2, ElementOfSeq
<1> HIDE DEF u, n
<1>4. /\ SubSeq(s, 1, n) \in Seq(Nat) /\ Len(SubSeq(s, 1, n)) = n
      /\ \A i \in 1 .. n : SubSeq(s, 1, n)[i] = s[i]
  BY <1>3, SubSeqProperties
<1>5. /\ SubSeq(u, 1, n) \in Seq(Nat) /\ Len(SubSeq(u, 1, n)) = n
      /\ \A i \in 1 .. n : SubSeq(u, 1, n)[i] = u[i]
  BY <1>3, SubSeqProperties
<1>6. SubSeq(s, 1, n) = SubSeq(u, 1, n)
  BY <1>3, <1>4, <1>5, SeqEqual
<1>7. QED
  BY <1>3, <1>6 DEF IsPrefix, n, u

LEMMA BufferType ==
  ASSUME NEW slot \in Slots, slot # NoBuffer
  PROVE  slot \in Seq(Nat) /\ EventsIn(slot) = Range(slot)
BY SeqMonotonic, ConstantsAssumption DEF Slots, Buffers, EventsIn

LEMMA AppendedType ==
  ASSUME NEW s \in Seq(Nat), NEW n \in Nat
  PROVE  Append(s, n + 1) \in Seq(Nat)
<1>1. n + 1 \in Nat
  OBVIOUS
<1>2. QED
  BY <1>1, AppendProperties

(* LogPipe's Range and IsPrefix are those of this module.                  *)
LEMMA PipeRange == ASSUME NEW s PROVE LP!Range(s) = Range(s)
BY DEF LP!Range, Range

LEMMA PipePrefix == ASSUME NEW s, NEW t PROVE LP!IsPrefix(s, t) <=> IsPrefix(s, t)
BY DEF LP!IsPrefix, IsPrefix

LEMMA PendingIs ==
  /\ LP!Settled = Range(logged) \union dropped
  /\ LP!Pending = (1 .. accepted) \ (Range(logged) \union dropped)
<1>1. LP!Settled = Range(logged) \union dropped
  BY PipeRange DEF LP!Settled
<1>2. QED
  BY <1>1 DEF LP!Pending

(* The exchange: what the appenders filled is the batch now.               *)
LEMMA ExchangeKeepsFlow ==
  ASSUME FlowInv, Places', tpc \in {"enter", "wait"}, Exchange
  PROVE  FlowsInOrder' /\ UNCHANGED output
<1> USE DEF FlowInv, Places
<1>0. /\ toWrite \in Seq(Slots) /\ current \in Slots /\ accepted \in Nat
  BY ConstantsAssumption DEF CrashInv, TypeOK, BuffersOK, OutputOK
<1>1. /\ process = << >> /\ toWrite' = << >> /\ process' = Append(toWrite, current)
      /\ current' = new1 /\ written' = 0 /\ tpc' = "shed" /\ UNCHANGED output
  BY DEF Exchange, BatchInPass
<1>2. UNCHANGED <<accepted, logged, dropped>>
  BY <1>1 DEF output
<1> SUFFICES ASSUME ~HasNull(process')
             PROVE  FlowsInOrder'
  BY <1>1 DEF FlowsInOrder
<1>3. ~HasNull(process) /\ ~HasNull(toWrite) /\ current # NoBuffer
  BY <1>0, <1>1, NullInAppend
<1>4. Unwritten = << >> /\ EventsInAll(Unwritten) = {}
  BY NoEvents DEF Unwritten
<1>5. Unwritten' = process'
  <2>1. process' \in Seq(Slots)
    BY <1>0, <1>1, AppendProperties
  <2>2. Unwritten' = SubSeq(process', 1, Len(process'))
    BY <1>1 DEF Unwritten
  <2>3. QED
    BY <2>1, <2>2, SubSeqFull
<1>6. EventsInAll(Unwritten') = EventsInAll(toWrite) \union EventsIn(current)
  BY <1>0, <1>1, <1>5, EventsOfAppend
<1>7. EventsInAll(toWrite') = {} /\ EventsIn(current') = {}
  BY <1>1, NoEvents DEF StaleSpareUnused, Clean
<1>8. /\ LP!Increasing(logged) /\ Ordered(toWrite) /\ InOrder(current)
      /\ InFlow(Range(logged), {}, EventsInAll(toWrite), EventsIn(current), dropped, accepted)
  BY <1>3, <1>4 DEF FlowsInOrder
<1>9. InFlow(Range(logged), EventsInAll(toWrite) \union EventsIn(current), {}, {}, dropped, accepted)
  BY <1>0, <1>8, TakeInFlow
<1>10. Ordered(Unwritten')
  <2>1. Older(EventsInAll(toWrite), EventsIn(current))
    BY <1>8 DEF InFlow
  <2>2. QED
    BY <1>0, <1>1, <1>5, <1>8, <2>1, OrderedAppend
<1>11. Ordered(<< >>) /\ InOrder(current')
  <2>1. DOMAIN << >> = {}
    BY EmptySeq, LenProperties
  <2>2. Ordered(<< >>)
    BY <2>1 DEF Ordered
  <2>3. current' = NoBuffer \/ current' = << >>
    BY <1>1 DEF StaleSpareUnused, Clean
  <2>4. QED
    BY <2>1, <2>2, <2>3 DEF InOrder, LP!Increasing
<1>12. QED
  BY <1>1, <1>2, <1>6, <1>7, <1>8, <1>9, <1>10, <1>11 DEF FlowsInOrder

(* Every step keeps the flow, and is a step of the pipe or none.           *)
LEMMA StepKeepsFlow ==
  ASSUME FlowInv, Places', TypeOK', [Next]_vars
  PROVE  FlowsInOrder' /\ [LP!Next]_(LP!vars)
<1> USE DEF FlowInv, Places, shared, local, control
<1>0. /\ toWrite \in Seq(Slots) /\ current \in Slots /\ process \in Seq(Slots)
      /\ accepted \in Nat /\ written \in Nat
  BY ConstantsAssumption DEF CrashInv, TypeOK, BuffersOK, OutputOK
<1>01. /\ Len(process) \in Nat /\ DOMAIN process = 1 .. Len(process)
  BY <1>0, LenProperties
<1>a. ASSUME UNCHANGED <<current, toWrite, process, output>>, UNCHANGED Unwritten
      PROVE  FlowsInOrder' /\ [LP!Next]_(LP!vars)
  BY <1>a DEF FlowsInOrder, LP!vars, output
<1>b. ASSUME UNCHANGED <<shared, local, output>>, tpc \in {"shed", "write"} <=> tpc' \in {"shed", "write"}
      PROVE  FlowsInOrder' /\ [LP!Next]_(LP!vars)
  <2>1. UNCHANGED Unwritten
    BY <1>b DEF Unwritten
  <2>2. QED
    BY <1>a, <1>b, <2>1
<1>c. UNCHANGED output => [LP!Next]_(LP!vars)
  BY DEF output, LP!vars
<1>1. CASE UNCHANGED vars \/ AppendToNull
  BY <1>b, <1>1 DEF vars, AppendToNull
<1>2. CASE ControlStep \/ ThreadLoop
  BY <1>b, <1>2 DEF ControlStep, Start, StartReturn, StopFlag, StopNotify, StopJoin, ThreadLoop,
                    OneThread, CrashInv
<1>3. CASE ThreadBoot
  <2>1. /\ process = << >> /\ UNCHANGED <<current, toWrite, process, output>>
        /\ tpc = "boot" /\ tpc' = "loop"
    BY <1>3 DEF ThreadBoot, BatchInPass
  <2>2. UNCHANGED Unwritten
    BY <2>1 DEF Unwritten
  <2>3. QED
    BY <1>a, <2>1, <2>2
<1>4. CASE ThreadEnter \/ ThreadNotified \/ ThreadTimeout
  <2>1. CASE UNCHANGED <<shared, local, output>> /\ tpc = "enter" /\ tpc' = "wait"
    BY <1>b, <2>1
  <2>2. CASE tpc \in {"enter", "wait"} /\ Exchange
    BY <1>c, <2>2, ExchangeKeepsFlow
  <2>3. QED
    BY <1>4, <2>1, <2>2 DEF ThreadEnter, ThreadNotified, ThreadTimeout
<1>5. CASE AppendWithRoom
  <2>1. /\ current # NoBuffer /\ current' = Append(current, accepted + 1)
        /\ accepted' = accepted + 1
        /\ UNCHANGED <<toWrite, process, written, tpc, logged, dropped>>
    BY <1>5 DEF AppendWithRoom
  <2>2. UNCHANGED Unwritten
    BY <2>1 DEF Unwritten
  <2>3. ASSUME ~HasNull(process)
        PROVE  FlowsInOrder'
    <3>1. /\ LP!Increasing(logged) /\ Ordered(Unwritten) /\ Ordered(toWrite) /\ InOrder(current)
          /\ InFlow(Range(logged), EventsInAll(Unwritten), EventsInAll(toWrite),
                    EventsIn(current), dropped, accepted)
      BY <2>3 DEF FlowsInOrder
    <3>2. current \in Seq(Nat) /\ EventsIn(current) = Range(current)
      BY <1>0, <2>1, BufferType
    <3>3. \A f \in Range(current) : f < accepted + 1
      BY <1>0, <3>1, <3>2 DEF InFlow
    <3>4. /\ LP!Increasing(current') /\ Range(current') = Range(current) \union {accepted + 1}
      BY <1>0, <2>1, <3>1, <3>2, <3>3, IncreasingAppend DEF InOrder
    <3>5. current' # NoBuffer
      <4>1. current' \in Seq(Nat)
        BY <1>0, <2>1, <3>2, AppendedType
      <4>2. QED
        BY <4>1, ConstantsAssumption
    <3>6. EventsIn(current') = EventsIn(current) \union {accepted + 1} /\ InOrder(current')
      BY <3>2, <3>4, <3>5 DEF EventsIn, InOrder
    <3>7. InFlow(Range(logged), EventsInAll(Unwritten), EventsInAll(toWrite),
                 EventsIn(current'), dropped, accepted')
      <4> DEFINE L == Range(logged)
                 U == EventsInAll(Unwritten)
                 T == EventsInAll(toWrite)
                 C == EventsIn(current)
      <4>1. InFlow(L, U, T, C, dropped, accepted) /\ accepted \in Nat
        BY <1>0, <3>1
      <4> HIDE DEF L, U, T, C
      <4>2. InFlow(L, U, T, C \union {accepted + 1}, dropped, accepted + 1)
        BY <4>1, AcceptInFlow, Zenon
      <4>3. EventsIn(current') = C \union {accepted + 1}
        BY <3>6 DEF C
      <4>4. InFlow(L, U, T, EventsIn(current'), dropped, accepted')
        BY <2>1, <4>2, <4>3, Zenon
      <4>5. QED
        BY <4>4 DEF L, U, T
    <3>8. QED
      BY <2>1, <2>2, <3>1, <3>6, <3>7 DEF FlowsInOrder
  <2>4. FlowsInOrder'
    BY <2>1, <2>3 DEF FlowsInOrder
  <2>5. LP!Accept
    BY <2>1 DEF LP!Accept
  <2>6. QED
    BY <2>4, <2>5 DEF LP!Next
<1>6. CASE AppendToFull
  <2>1. /\ current # NoBuffer /\ toWrite' = Append(toWrite, current)
        /\ current' = Put(IF next = NoBuffer THEN << >> ELSE next, accepted + 1)
        /\ accepted' = accepted + 1
        /\ UNCHANGED <<process, written, tpc, logged, dropped>>
    BY <1>6 DEF AppendToFull
  <2>2. UNCHANGED Unwritten
    BY <2>1 DEF Unwritten
  <2>3. ASSUME ~HasNull(process)
        PROVE  FlowsInOrder'
    <3>1. /\ LP!Increasing(logged) /\ Ordered(Unwritten) /\ Ordered(toWrite) /\ InOrder(current)
          /\ InFlow(Range(logged), EventsInAll(Unwritten), EventsInAll(toWrite),
                    EventsIn(current), dropped, accepted)
      BY <2>3 DEF FlowsInOrder
    <3>2. current' = Append(<< >>, accepted + 1)
      <4>1. (IF next = NoBuffer THEN << >> ELSE next) = << >>
        BY <2>1, <2>3 DEF StaleSpareUnused, Clean
      <4>2. Len(<< >>) < Capacity
        BY EmptySeq, ConstantsAssumption
      <4>3. QED
        BY <2>1, <4>1, <4>2 DEF Put
    <3>3. /\ << >> \in Seq(Nat) /\ LP!Increasing(<< >>) /\ Range(<< >>) = {}
      <4>1. DOMAIN << >> = {}
        BY EmptySeq, LenProperties
      <4>2. QED
        BY <4>1, EmptySeq DEF LP!Increasing, Range
    <3>4. LP!Increasing(current') /\ Range(current') = {accepted + 1}
      <4> DEFINE empty == << >>
      <4>1. /\ empty \in Seq(Nat) /\ LP!Increasing(empty) /\ Range(empty) = {}
            /\ current' = Append(empty, accepted + 1) /\ accepted + 1 \in Nat
        BY <1>0, <3>2, <3>3
      <4> HIDE DEF empty
      <4>2. \A f \in Range(empty) : f < accepted + 1
        BY <4>1
      <4>3. QED
        BY <4>1, <4>2, IncreasingAppend
    <3>5. current' # NoBuffer
      <4>1. current' \in Seq(Nat)
        BY <1>0, <3>2, <3>3, AppendedType
      <4>2. QED
        BY <4>1, ConstantsAssumption
    <3>6. EventsIn(current') = {accepted + 1} /\ InOrder(current')
      BY <3>4, <3>5 DEF EventsIn, InOrder
    <3>7. EventsInAll(toWrite') = EventsInAll(toWrite) \union EventsIn(current)
      BY <1>0, <2>1, EventsOfAppend
    <3>8. Ordered(toWrite')
      <4>1. Older(EventsInAll(toWrite), EventsIn(current))
        BY <3>1 DEF InFlow
      <4>2. QED
        BY <1>0, <2>1, <3>1, <4>1, OrderedAppend
    <3>9. InFlow(Range(logged), EventsInAll(Unwritten), EventsInAll(toWrite'),
                 EventsIn(current'), dropped, accepted')
      <4> DEFINE L == Range(logged)
                 U == EventsInAll(Unwritten)
                 T == EventsInAll(toWrite)
                 C == EventsIn(current)
      <4>1. InFlow(L, U, T, C, dropped, accepted) /\ accepted \in Nat
        BY <1>0, <3>1
      <4> HIDE DEF L, U, T, C
      <4>2. InFlow(L, U, T \union C, {accepted + 1}, dropped, accepted + 1)
        BY <4>1, AcceptInFlow, Zenon
      <4>3. EventsIn(current') = {accepted + 1} /\ EventsInAll(toWrite') = T \union C
        BY <3>6, <3>7 DEF T, C
      <4>4. InFlow(L, U, EventsInAll(toWrite'), EventsIn(current'), dropped, accepted')
        BY <2>1, <4>2, <4>3, Zenon
      <4>5. QED
        BY <4>4 DEF L, U
    <3>10. QED
      BY <2>1, <2>2, <3>1, <3>6, <3>8, <3>9 DEF FlowsInOrder
  <2>4. FlowsInOrder'
    BY <2>1, <2>3 DEF FlowsInOrder
  <2>5. LP!Accept
    BY <2>1 DEF LP!Accept
  <2>6. QED
    BY <2>4, <2>5 DEF LP!Next
<1>7. CASE ThreadRecycle
  <2>1. /\ written = Len(process) /\ tpc = "write" /\ tpc' = "loop" /\ process' = << >>
        /\ UNCHANGED <<current, toWrite, output>>
    BY <1>7 DEF ThreadRecycle
  <2>2. ~HasNull(process)
    BY <1>01, <2>1 DEF BatchInPass, HasNull
  <2>3. Unwritten = << >> /\ Unwritten' = << >>
    BY <1>01, <2>1, SubSeqEmpty DEF Unwritten
  <2>4. FlowsInOrder'
    BY <2>1, <2>2, <2>3 DEF FlowsInOrder, output
  <2>5. QED
    BY <1>c, <2>1, <2>4
<1>8. CASE ThreadShed
  <2>1. /\ tpc = "shed" /\ tpc' = "write" /\ written = 0 /\ written' = 0
        /\ UNCHANGED <<current, toWrite, accepted, logged>>
    BY <1>8 DEF ThreadShed, BatchInPass
  <2>2. Unwritten = process
    BY <1>0, <2>1, SubSeqFull DEF Unwritten
  <2>3. Unwritten' = process'
    BY <2>1, SubSeqFull DEF Unwritten, TypeOK, BuffersOK
  <2>4. CASE UNCHANGED <<process, dropped>>
    BY <1>a, <2>1, <2>2, <2>3, <2>4 DEF output
  <2>5. CASE /\ process' = Kept(process)
             /\ dropped' = dropped \union
                  EventsInAll(SubSeq(process, KeptBuffers + 1, Len(process)))
    <3>1. CASE Len(process) <= 2
      <4>1. SubSeq(process, KeptBuffers + 1, Len(process)) = << >>
        BY <1>01, <3>1, SubSeqEmpty DEF KeptBuffers
      <4>2. ~(Len(process) > KeptBuffers)
        BY <1>01, <3>1 DEF KeptBuffers
      <4>3. process' = process /\ dropped' = dropped
        BY <2>5, <4>1, <4>2, NoEvents, Zenon DEF Kept
      <4>4. QED
        BY <2>4, <4>3
    <3>2. CASE Len(process) > 2
      <4>1. ~HasNull(process)
        <5>1. Len(process) # 1
          BY <1>01, <3>2
        <5>2. QED
          BY <5>1 DEF NullIsAlone
      <4> DEFINE A == EventsInAll(Upto(process, 2))
                 B == EventsInAll(From(process, 3))
      <4>2. process' = Upto(process, 2) /\ dropped' = dropped \union B
        <5>1. Len(process) > KeptBuffers
          BY <3>2 DEF KeptBuffers
        <5>2. KeptBuffers = 2 /\ KeptBuffers + 1 = 3
          BY DEF KeptBuffers
        <5>3. process' = SubSeq(process, 1, KeptBuffers)
          BY <2>5, <5>1, Zenon DEF Kept
        <5>4. QED
          BY <2>5, <5>2, <5>3, Zenon DEF Upto, From
      <4>3. /\ LP!Increasing(logged) /\ Ordered(process) /\ Ordered(toWrite) /\ InOrder(current)
            /\ InFlow(Range(logged), EventsInAll(process), EventsInAll(toWrite),
                      EventsIn(current), dropped, accepted)
        BY <2>2, <4>1 DEF FlowsInOrder
      <4>4. /\ EventsInAll(process) = A \union B
            /\ Ordered(Upto(process, 2)) /\ Older(A, B)
        <5>1. 2 \in 0 .. Len(process) /\ 3 = 2 + 1
          BY <1>01, <3>2
        <5>2. QED
          BY <1>0, <4>3, <5>1, BatchSplit
      <4> HIDE DEF A, B
      <4>5. InFlow(Range(logged), A \union B, EventsInAll(toWrite), EventsIn(current),
                   dropped, accepted)
        BY <4>3, <4>4
      <4>6. /\ InFlow(Range(logged), A, EventsInAll(toWrite), EventsIn(current), dropped', accepted)
            /\ B \intersect (Range(logged) \union dropped) = {}
        <5> DEFINE L == Range(logged)
                   T == EventsInAll(toWrite)
                   C == EventsIn(current)
        <5>1. InFlow(L, A \union B, T, C, dropped, accepted) /\ accepted \in Nat /\ Older(A, B)
          BY <1>0, <4>4, <4>5
        <5> HIDE DEF L, T, C
        <5>2. /\ InFlow(L, A, T, C, dropped \union B, accepted)
              /\ B \intersect (L \union dropped) = {}
          BY <5>1, ShedInFlow, Zenon
        <5>3. InFlow(L, A, T, C, dropped', accepted)
          BY <4>2, <5>2, Zenon
        <5>4. QED
          BY <5>2, <5>3 DEF L, T, C
      <4>7. FlowsInOrder'
        <5>1. EventsInAll(process') = A /\ Ordered(process')
          BY <4>2, <4>4 DEF A
        <5>2. QED
          BY <2>1, <2>3, <4>3, <4>6, <5>1 DEF FlowsInOrder
      <4>8. LP!Shed
        <5>1. B \subseteq 1 .. accepted
          BY <4>5 DEF InFlow
        <5>2. B \subseteq LP!Pending
          BY <4>6, <5>1, PendingIs
        <5>3. dropped' \ dropped \subseteq LP!Pending /\ dropped \subseteq dropped'
          BY <4>2, <5>2
        <5>4. QED
          BY <2>1, <5>3 DEF LP!Shed
      <4>9. QED
        BY <4>7, <4>8 DEF LP!Next
    <3>3. QED
      BY <1>01, <3>1, <3>2
  <2>6. QED
    BY <1>8, <2>4, <2>5 DEF ThreadShed
<1>9. CASE ThreadWrite
  <2> DEFINE buffer == process[written + 1]
  <2>1. /\ tpc = "write" /\ tpc' = "write" /\ written < Len(process)
        /\ UNCHANGED <<current, toWrite, process, accepted, dropped>>
    BY <1>9 DEF ThreadWrite
  <2>2. CASE buffer = NoBuffer
    <3>1. UNCHANGED <<written, logged>>
      BY <1>9, <2>2 DEF ThreadWrite
    <3>2. UNCHANGED Unwritten
      BY <2>1, <3>1 DEF Unwritten
    <3>3. QED
      BY <1>a, <2>1, <3>1, <3>2 DEF output
  <2>3. CASE buffer # NoBuffer
    <3>1. logged' = logged \o buffer /\ written' = written + 1
      BY <1>9, <2>3 DEF ThreadWrite
    <3>2. ~HasNull(process)
      <4>1. HasNull(process) => Len(process) = 1
        BY DEF NullIsAlone
      <4>2. HasNull(process) => written = 0 /\ DOMAIN process = {1}
        <5>1. SUFFICES ASSUME Len(process) = 1
                       PROVE  written = 0 /\ DOMAIN process = {1}
          BY <4>1
        <5>2. written = 0
          BY <1>0, <2>1, <5>1
        <5>3. DOMAIN process = 1 .. 1
          BY <1>01, <5>1
        <5>4. 1 .. 1 = {1}
          OBVIOUS
        <5>5. QED
          BY <5>2, <5>3, <5>4
      <4>3. QED
        BY <2>3, <4>2 DEF HasNull
    <3>3. written + 1 \in 1 .. Len(process) /\ buffer \in Slots
      BY <1>0, <1>01, <2>1, ElementOfSeq
    <3>4. Unwritten = From(process, written + 1) /\ Unwritten' = From(process, written' + 1)
      BY <2>1 DEF Unwritten, From
    <3> DEFINE m == written + 1
               l == m + 1
               B == EventsIn(buffer)
               R == EventsInAll(From(process, l))
    <3>5. /\ LP!Increasing(logged) /\ Ordered(From(process, m)) /\ Ordered(toWrite)
          /\ InOrder(current)
          /\ InFlow(Range(logged), EventsInAll(From(process, m)), EventsInAll(toWrite),
                    EventsIn(current), dropped, accepted)
      BY <3>2, <3>4 DEF FlowsInOrder
    <3>6. Unwritten' = From(process, l)
      BY <3>1, <3>4
    <3>7. /\ EventsInAll(From(process, m)) = B \union R
          /\ InOrder(buffer) /\ Ordered(From(process, l)) /\ Older(B, R)
      BY <1>0, <3>3, <3>5, BatchHead
    <3>8. buffer \in Seq(Nat) /\ B = Range(buffer) /\ logged \in Seq(Nat)
      <4>1. buffer \in Seq(Nat) /\ B = Range(buffer)
        BY <2>3, <3>3, BufferType
      <4>2. logged \in Seq(1 .. MaxEvents) /\ 1 .. MaxEvents \subseteq Nat
        BY ConstantsAssumption DEF CrashInv, TypeOK, OutputOK
      <4>3. QED
        BY <4>1, <4>2, SeqMonotonic
    <3>9. LP!Increasing(buffer)
      BY <2>3, <3>7 DEF InOrder
    <3> HIDE DEF m, l, B, R, buffer
    <3>10. InFlow(Range(logged), B \union R, EventsInAll(toWrite), EventsIn(current),
                  dropped, accepted)
      BY <3>5, <3>7
    <3>11. /\ InFlow(Range(logged) \union B, R, EventsInAll(toWrite), EventsIn(current),
                     dropped, accepted)
           /\ Older(Range(logged), B) /\ B \intersect (Range(logged) \union dropped) = {}
           /\ Older(B, (1 .. accepted) \ (Range(logged) \union dropped \union B))
      <4> DEFINE L == Range(logged)
                 T == EventsInAll(toWrite)
                 C == EventsIn(current)
      <4>1. InFlow(L, B \union R, T, C, dropped, accepted) /\ accepted \in Nat /\ Older(B, R)
        BY <1>0, <3>7, <3>10
      <4> HIDE DEF L, T, C
      <4>2. /\ InFlow(L \union B, R, T, C, dropped, accepted)
            /\ Older(L, B) /\ B \intersect (L \union dropped) = {}
            /\ Older(B, (1 .. accepted) \ (L \union dropped \union B))
        BY <4>1, WriteInFlow, Zenon
      <4>3. QED
        BY <4>2 DEF L, T, C
    <3>12. Range(logged') = Range(logged) \union B
      BY <3>1, <3>8, RangeConcatenation
    <3>13. LP!Increasing(logged')
      BY <3>1, <3>5, <3>8, <3>9, <3>11, IncreasingConcat
    <3>14. FlowsInOrder'
      BY <2>1, <3>5, <3>6, <3>7, <3>11, <3>12, <3>13 DEF FlowsInOrder, R
    <3>15. LP!Write
      <4>1. IsPrefix(logged, logged')
        BY <3>1, <3>8, PrefixOfConcat
      <4>2. Range(logged') \ Range(logged) = B
        BY <3>11, <3>12
      <4>3. B \subseteq 1 .. accepted
        BY <3>10 DEF InFlow
      <4>4. B \subseteq LP!Pending
        BY <3>11, <4>3, PendingIs
      <4>5. LP!Pending \ B = (1 .. accepted) \ (Range(logged) \union dropped \union B)
        BY PendingIs
      <4>6. \A e \in B, f \in LP!Pending \ B : e < f
        BY <3>11, <4>5 DEF Older
      <4>7. LP!IsPrefix(logged, logged') /\ LP!Range(logged') \ LP!Range(logged) = B
        BY <4>1, <4>2, PipePrefix, PipeRange
      <4>8. QED
        BY <2>1, <3>13, <4>4, <4>6, <4>7, Zenon DEF LP!Write
    <3>16. QED
      BY <3>14, <3>15 DEF LP!Next
  <2>4. QED
    BY <2>2, <2>3
<1>10. QED
  BY <1>1, <1>2, <1>3, <1>4, <1>5, <1>6, <1>7, <1>8, <1>9
  DEF Next, AppendStep, ThreadStep

(* An empty logger has lost and overtaken nothing.                         *)
LEMMA InitFlowInv == Init => FlowInv
<1> SUFFICES ASSUME Init PROVE FlowInv
  OBVIOUS
<1>1. /\ CrashInv /\ DOMAIN << >> = {} /\ Len(<< >>) = 0 /\ Range(<< >>) = {}
      /\ ~HasNull(<< >>)
  <2>1. DOMAIN << >> = {} /\ Len(<< >>) = 0
    BY EmptySeq, LenProperties
  <2>2. QED
    BY <2>1, InitCrashInv DEF Range, HasNull
<1>2. BatchInPass /\ NullIsAlone /\ StaleSpareUnused
  BY <1>1, EmptyBuffer DEF Init, BatchInPass, NullIsAlone, StaleSpareUnused, Clean
<1>3. Ordered(<< >>) /\ LP!Increasing(<< >>) /\ InOrder(<< >>)
  BY <1>1 DEF Ordered, LP!Increasing, InOrder
<1>4. InFlow({}, {}, {}, {}, {}, 0)
  BY DEF InFlow, Older
<1>5. Unwritten = << >>
  BY DEF Init, Unwritten
<1>6. FlowsInOrder
  BY <1>1, <1>3, <1>4, <1>5, NoEvents DEF Init, FlowsInOrder
<1>7. QED
  BY <1>1, <1>2, <1>6 DEF FlowInv

(* No null pointer, no lost event, nothing overtaken: every step keeps it. *)
THEOREM FlowInvHolds == Spec => []FlowInv
<1>1. FlowInv /\ [Next]_vars => FlowInv'
  <2> SUFFICES ASSUME FlowInv, [Next]_vars PROVE FlowInv'
    OBVIOUS
  <2>1. CrashInv'
    BY StepKeepsCrashInv DEF FlowInv
  <2>2. Places'
    BY StepKeepsPlaces DEF FlowInv, Places
  <2>3. FlowsInOrder'
    BY <2>1, <2>2, StepKeepsFlow DEF CrashInv
  <2>4. QED
    BY <2>1, <2>2, <2>3 DEF FlowInv, Places
<1>2. QED
  BY <1>1, InitFlowInv, PTL DEF Spec

(* Every accepted event is in a buffer, in the log, or shed.               *)
THEOREM NoEventLostHolds == Spec => []NoEventLost
<1>1. FlowInv => NoEventLost
  <2> SUFFICES ASSUME FlowInv, ~HasNull(process)
               PROVE  1 .. accepted \subseteq
                        LP!Settled \union EventsIn(current)
                                   \union EventsInAll(toWrite) \union EventsInAll(Unwritten)
    BY DEF NoEventLost
  <2>1. 1 .. accepted = Range(logged) \union dropped \union EventsInAll(Unwritten)
                          \union EventsInAll(toWrite) \union EventsIn(current)
    BY DEF FlowInv, FlowsInOrder, InFlow
  <2>2. LP!Settled = Range(logged) \union dropped
    BY PendingIs
  <2>3. QED
    BY <2>1, <2>2
<1>2. QED
  BY <1>1, FlowInvHolds, PTL

(* The double buffer is a log: events are written in the order in which    *)
(* they were accepted, or shed, and settled once.                          *)
THEOREM ImplementsLogPipeHolds == Spec => ImplementsLogPipe
<1>1. Init => LP!Init
  BY DEF Init, LP!Init
<1>2. FlowInv /\ FlowInv' /\ [Next]_vars => [LP!Next]_(LP!vars)
  BY StepKeepsFlow DEF FlowInv, Places, CrashInv
<1>3. QED
  BY <1>1, <1>2, FlowInvHolds, PTL DEF Spec, ImplementsLogPipe, LP!Spec
=============================================================================
