-------------------------- MODULE ConfigLoaderProofs --------------------------
(* Proofs about ConfigLoader, for any loaders, files, entries, variables   *)
(* and bounds.                                                             *)
EXTENDS ConfigLoader, TLAPS

(* The number of entries is a number.                                      *)
LEMMA EntriesLength == Len(Entries) \in Nat
BY ConstantsAssumption

LEMMA InitType == Init => TypeOK
BY ConstantsAssumption, EntriesLength
   DEF Init, TypeOK, DirectoryOK, ProcessOK, LoadersOK, HistoryOK, Times, Versions

(* A loader that goes on to the next file has none in hand.                *)
LEMMA ContinueType ==
  ASSUME LoadersOK, NEW l \in Loaders, Continue(l), UNCHANGED <<force, todo>>
  PROVE  LoadersOK'
BY EntriesLength, ConstantsAssumption DEF Continue, LoadersOK, Times, Versions

LEMMA StepType ==
  ASSUME TypeOK, [Next]_vars
  PROVE  TypeOK'
<1> USE ConstantsAssumption, EntriesLength DEF TypeOK
<1> USE DEF Times, Versions
<1>1. CASE UNCHANGED vars
  BY <1>1 DEF vars, directory, process, loader, history, DirectoryOK, ProcessOK, LoadersOK, HistoryOK
<1>2. CASE Tick
  BY <1>2 DEF Tick, process, loader, history, DirectoryOK, ProcessOK, LoadersOK, HistoryOK
<1>3. ASSUME NEW f \in Files, Write(f)
      PROVE  TypeOK'
  <2>1. DirectoryOK'
    BY <1>3 DEF Write, DirectoryOK
  <2>2. ProcessOK' /\ LoadersOK'
    BY <1>3 DEF Write, process, loader, ProcessOK, LoadersOK
  <2>3. HistoryOK'
    BY <1>3 DEF Write, Disturb, HistoryOK, DirectoryOK
  <2>4. QED
    BY <2>1, <2>2, <2>3
<1>4. ASSUME NEW f \in Files, Remove(f)
      PROVE  TypeOK'
  BY <1>4 DEF Remove, Disturb, process, loader, DirectoryOK, ProcessOK, LoadersOK, HistoryOK
<1>5. ASSUME NEW l \in Loaders, LoaderStep(l)
      PROVE  TypeOK'
  <2>1. DirectoryOK'
    BY <1>5 DEF LoaderStep, LoadFromConfDir, Lstat, Skip, Record, LoadFile, LoadFails, ApplyVar,
                ApplyThrows, LoadedFile, LoadReturn, directory, DirectoryOK
  <2>2. ASSUME NEW forced \in BOOLEAN, LoadFromConfDir(l, forced)
        PROVE  TypeOK'
    BY <2>1, <2>2 DEF LoadFromConfDir, process, DirectoryOK, ProcessOK, LoadersOK, HistoryOK
  <2>3. ASSUME NEW f \in Files, Lstat(l, f)
        PROVE  TypeOK'
    <3>1. mtime[f] \in 0 .. MaxTime
      BY DEF DirectoryOK
    <3>2. LoadersOK'
      BY <2>3, <3>1 DEF Lstat, LoadersOK
    <3>3. QED
      BY <2>1, <2>3, <3>2 DEF Lstat, process, history, ProcessOK, HistoryOK
  <2>4. CASE Skip(l)
    BY <2>1, <2>4, ContinueType DEF Skip, process, history, ProcessOK, HistoryOK
  <2>5. CASE Record(l)
    BY <2>1, <2>5 DEF Record, ProcessOK, LoadersOK, HistoryOK
  <2>6. CASE LoadFile(l)
    <3>1. file[l] \in Files /\ version[file[l]] \in 0 .. MaxVersion
      BY <2>6 DEF LoadFile, LoadersOK, DirectoryOK
    <3>2. LoadersOK'
      BY <2>6, <3>1 DEF LoadFile, LoadersOK
    <3>3. HistoryOK'
      BY <2>6, <3>1 DEF LoadFile, HistoryOK
    <3>4. QED
      BY <2>1, <2>6, <3>2, <3>3 DEF LoadFile, process, ProcessOK
  <2>7. CASE LoadFails(l)
    <3>1. file[l] \in Files /\ version[file[l]] \in 0 .. MaxVersion
      BY <2>7 DEF LoadFails, LoadersOK, DirectoryOK
    <3>2. HistoryOK'
      BY <2>7, <3>1 DEF LoadFails, HistoryOK
    <3>3. QED
      BY <2>1, <2>7, <3>2, ContinueType DEF LoadFails, process, ProcessOK
  <2>8. CASE ApplyVar(l)
    <3>1. done[l] + 1 \in 0 .. Len(Entries) /\ root[l] \in 0 .. MaxVersion
      BY <2>8 DEF ApplyVar, LoadersOK
    <3>2. value' \in [Files -> [Vars -> 0 .. MaxVersion]]
      BY <2>8, <3>1 DEF ApplyVar, ProcessOK
    <3>3. LoadersOK'
      BY <2>8, <3>1 DEF ApplyVar, LoadersOK
    <3>4. QED
      BY <2>1, <2>8, <3>2, <3>3 DEF ApplyVar, history, ProcessOK, HistoryOK
  <2>9. CASE ApplyThrows(l)
    <3>1. file[l] \in Files /\ root[l] \in 0 .. MaxVersion
      BY <2>9 DEF ApplyThrows, LoadersOK
    <3>2. HistoryOK'
      BY <2>9, <3>1 DEF ApplyThrows, HistoryOK
    <3>3. QED
      BY <2>1, <2>9, <3>2, ContinueType DEF ApplyThrows, process, ProcessOK
  <2>10. CASE LoadedFile(l)
    BY <2>1, <2>10, ContinueType DEF LoadedFile, process, history, ProcessOK, HistoryOK
  <2>11. CASE LoadReturn(l)
    BY <2>1, <2>11 DEF LoadReturn, process, ProcessOK, LoadersOK, HistoryOK
  <2>12. QED
    BY <1>5, <2>2, <2>3, <2>4, <2>5, <2>6, <2>7, <2>8, <2>9, <2>10, <2>11 DEF LoaderStep
<1>6. QED
  BY <1>1, <1>2, <1>3, <1>4, <1>5 DEF Next

(* The directory, the recorded times, the variables and the loaders stay   *)
(* well-typed; a loader has a file in hand as long as it needs one.        *)
THEOREM TypeOKHolds == Spec => []TypeOK
<1>1. TypeOK /\ [Next]_vars => TypeOK'
  BY StepType
<1>2. QED
  BY <1>1, InitType, PTL DEF Spec
-----------------------------------------------------------------------------
(* A loader's step leaves the directory and the other loaders alone.       *)
LEMMA LoaderFrame ==
  ASSUME TypeOK, NEW l \in Loaders, LoaderStep(l)
  PROVE  /\ UNCHANGED directory
         /\ UNCHANGED sameTime
         /\ \A m \in Loaders \ {l} :
              /\ pc'[m] = pc[m] /\ file'[m] = file[m] /\ st'[m] = st[m]
              /\ root'[m] = root[m] /\ done'[m] = done[m]
              /\ force'[m] = force[m] /\ todo'[m] = todo[m]
<1>1. UNCHANGED directory /\ UNCHANGED sameTime
  BY DEF LoaderStep, LoadFromConfDir, Lstat, Skip, Record, LoadFile, LoadFails, ApplyVar,
         ApplyThrows, LoadedFile, LoadReturn, history
<1>2. QED
  BY <1>1 DEF LoaderStep, LoadFromConfDir, Lstat, Skip, Record, LoadFile, LoadFails, ApplyVar, ApplyThrows,
              LoadedFile, LoadReturn, Continue, TypeOK, LoadersOK

LEMMA StepTimesOK ==
  ASSUME TypeOK, TimesOK, [Next]_vars
  PROVE  TimesOK'
<1> USE DEF TypeOK, Times, Versions
<1>1. CASE UNCHANGED <<recorded, mtime, exists, pc, st, file>>
  BY <1>1 DEF TimesOK
<1>2. ASSUME NEW f \in Files, Write(f)
      PROVE  TimesOK'
  <2>1. \A g \in Files : mtime'[g] = IF g = f THEN now ELSE mtime[g]
    BY <1>2 DEF Write, DirectoryOK
  <2>2. now >= 1 /\ \A g \in Files : mtime[g] <= now /\ mtime[g] \in Nat
    BY ConstantsAssumption DEF DirectoryOK
  <2>3. \A g \in Files : mtime'[g] >= mtime[g] /\ mtime'[g] \in Nat
    BY <2>1, <2>2 DEF DirectoryOK
  <2>4. UNCHANGED <<recorded, pc, st, file>> /\ exists' = exists \union {f} /\ exists \subseteq Files
    BY <1>2 DEF Write, process, loader, DirectoryOK
  <2>5. \A g \in Files : recorded'[g] <= mtime'[g]
    BY <2>2, <2>3, <2>4, ConstantsAssumption DEF TimesOK, ProcessOK
  <2>6. \A l \in Loaders : pc'[l] = "record" => st'[l] <= mtime'[file'[l]]
    BY <2>2, <2>3, <2>4, ConstantsAssumption DEF TimesOK, LoadersOK
  <2>7. \A g \in exists' : mtime'[g] >= 1
    BY <2>1, <2>2, <2>4 DEF TimesOK
  <2>8. QED
    BY <2>5, <2>6, <2>7 DEF TimesOK
<1>3. ASSUME NEW f \in Files, Remove(f)
      PROVE  TimesOK'
  BY <1>3 DEF Remove, process, loader, TimesOK
<1>4. ASSUME NEW l \in Loaders, LoaderStep(l)
      PROVE  TimesOK'
  <2>1. UNCHANGED <<mtime, exists>>
    BY <1>4, LoaderFrame DEF directory
  <2>2. \A f \in Files : recorded'[f] <= mtime'[f]
    <3>1. CASE UNCHANGED recorded
      BY <2>1, <3>1 DEF TimesOK
    <3>2. CASE Record(l)
      BY <2>1, <3>2 DEF Record, TimesOK, ProcessOK, LoadersOK
    <3>3. QED
      BY <1>4, <3>1, <3>2 DEF LoaderStep, LoadFromConfDir, Lstat, Skip, LoadFile, LoadFails, ApplyVar,
                              ApplyThrows, LoadedFile, LoadReturn, process
  <2>3. pc'[l] = "record" => st'[l] <= mtime'[file'[l]]
    <3>1. ASSUME NEW f \in Files, Lstat(l, f)
          PROVE  pc'[l] = "record" => st'[l] <= mtime'[file'[l]]
      <4>1. CASE f \in exists
        <5>1. file'[l] = f /\ st'[l] = mtime[f]
          BY <3>1, <4>1 DEF Lstat, LoadersOK
        <5>2. mtime[f] \in Int
          BY DEF DirectoryOK
        <5>3. QED
          BY <2>1, <5>1, <5>2
      <4>2. CASE f \notin exists
        BY <3>1, <4>2 DEF Lstat
      <4>3. QED
        BY <4>1, <4>2
    <3>2. CASE \A f \in Files : ~Lstat(l, f)
      BY <1>4, <3>2 DEF LoaderStep, LoadFromConfDir, Skip, Record, LoadFile, LoadFails, ApplyVar, ApplyThrows,
                        LoadedFile, LoadReturn, Continue, LoadersOK
    <3>3. QED
      BY <3>1, <3>2
  <2>4. \A m \in Loaders : pc'[m] = "record" => st'[m] <= mtime'[file'[m]]
    BY <1>4, <2>1, <2>3, LoaderFrame DEF TimesOK
  <2>5. QED
    BY <2>1, <2>2, <2>4 DEF TimesOK
<1>5. CASE UNCHANGED vars
  BY <1>1, <1>5 DEF vars, directory, process, loader
<1>6. CASE Tick
  BY <1>1, <1>6 DEF Tick, process, loader
<1>7. QED
  BY <1>2, <1>3, <1>4, <1>5, <1>6 DEF Next

(* After a write the file has a time that has not been recorded for it,    *)
(* unless it was written within the same second before.                    *)
LEMMA WriteShows ==
  ASSUME TypeOK, TimesOK, NEW f \in Files, Write(f)
  PROVE  /\ ~Unchanged(f)'
         /\ \A g \in Files \ {f} : (Unchanged(g)' <=> Unchanged(g)) /\ version'[g] = version[g]
<1> USE DEF TypeOK, Times, Versions
<1>1. \A g \in Files : mtime[g] <= now /\ mtime[g] \in Nat /\ recorded[g] \in Nat /\ now \in Nat
  BY ConstantsAssumption DEF DirectoryOK, ProcessOK
<1>2. mtime'[f] = now /\ sameTime'[f] = (mtime[f] = now) /\ recorded' = recorded
  BY <1>1 DEF Write, DirectoryOK, HistoryOK, process
<1>3. recorded[f] <= mtime[f]
  BY DEF TimesOK
<1>4. ASSUME Unchanged(f)'
      PROVE  FALSE
  <2>1. recorded[f] = now /\ mtime[f] # now
    BY <1>2, <1>4 DEF Unchanged
  <2>2. QED
    BY <1>1, <1>3, <2>1
<1>5. QED
  BY <1>2, <1>4 DEF Write, Unchanged, DirectoryOK, HistoryOK

(* What a write or a removal leaves alone.                                 *)
LEMMA RemoveShows ==
  ASSUME TypeOK, NEW f \in Files, Remove(f)
  PROVE  \A g \in Files : (Unchanged(g)' => Unchanged(g)) /\ version' = version
BY DEF Remove, Unchanged, process

LEMMA StepReadOrReading ==
  ASSUME TypeOK, TimesOK, ReadOrReading, [Next]_vars
  PROVE  ReadOrReading'
<1> USE DEF TypeOK, Times, Versions
<1>1. CASE UNCHANGED <<exists, mtime, version, recorded, sameTime, pc, file, tried>>
  BY <1>1 DEF ReadOrReading, Unchanged
<1>2. ASSUME NEW f \in Files, Write(f)
      PROVE  ReadOrReading'
  <2>1. UNCHANGED <<pc, file, tried>>
    BY <1>2 DEF Write, loader
  <2>2. QED
    BY <1>2, <2>1, WriteShows DEF ReadOrReading
<1>3. ASSUME NEW f \in Files, Remove(f)
      PROVE  ReadOrReading'
  <2>1. UNCHANGED <<pc, file, tried>>
    BY <1>3 DEF Remove, loader
  <2>2. QED
    BY <1>3, <2>1, RemoveShows DEF ReadOrReading
<1>4. ASSUME NEW l \in Loaders, LoaderStep(l)
      PROVE  ReadOrReading'
  <2>1. /\ UNCHANGED <<exists, mtime, version, sameTime>>
        /\ \A m \in Loaders \ {l} : pc'[m] = pc[m] /\ file'[m] = file[m]
    BY <1>4, LoaderFrame DEF directory
  <2>2. CASE Record(l)
    <3>1. /\ tried' = tried /\ pc'[l] = "load" /\ file'[l] = file[l]
          /\ \A f \in Files \ {file[l]} : recorded'[f] = recorded[f]
      BY <2>2 DEF Record, LoadersOK, ProcessOK
    <3>2. \A f \in Files \ {file[l]} : Unchanged(f)' <=> Unchanged(f)
      BY <2>1, <3>1 DEF Unchanged
    <3>3. pc[l] = "record"
      BY <2>2 DEF Record
    <3>4. QED
      BY <2>1, <3>1, <3>2, <3>3 DEF ReadOrReading
  <2>3. CASE pc[l] # "load" /\ UNCHANGED <<recorded, tried>>
    BY <2>1, <2>3 DEF ReadOrReading, Unchanged
  <2>4. CASE LoadFile(l) \/ LoadFails(l)
    <3>1. /\ file[l] \in Files /\ recorded' = recorded
          /\ version[file[l]] \in tried'[file[l]]
          /\ \A f \in Files : tried[f] \subseteq tried'[f]
      <4>1. file[l] \in Files /\ recorded' = recorded
        BY <2>4 DEF LoadFile, LoadFails, LoadersOK, process
      <4>2. tried' = [tried EXCEPT ![file[l]] = @ \union {version[file[l]]}]
        BY <2>4 DEF LoadFile, LoadFails
      <4>3. tried \in [Files -> SUBSET Versions]
        BY DEF HistoryOK
      <4>4. QED
        BY <4>1, <4>2, <4>3, Zenon
    <3>2. QED
      BY <2>1, <3>1 DEF ReadOrReading, Unchanged
  <2>5. QED
    BY <1>4, <2>2, <2>3, <2>4 DEF LoaderStep, LoadFromConfDir, Lstat, Skip, ApplyVar,
                                  ApplyThrows, LoadedFile, LoadReturn, process, history
<1>5. CASE UNCHANGED vars
  BY <1>1, <1>5 DEF vars, directory, process, loader, history
<1>6. CASE Tick
  BY <1>1, <1>6 DEF Tick, process, loader, history
<1>7. QED
  BY <1>2, <1>3, <1>4, <1>5, <1>6 DEF Next

(* A file that would be skipped as unmodified has been read in its present *)
(* version, whatever edits come between a loader's steps, unless it was    *)
(* edited twice within a second.                                           *)
THEOREM NeverForgottenHolds == Spec => []NeverForgotten
<1> DEFINE Inv == TypeOK /\ TimesOK /\ ReadOrReading
<1>1. Init => Inv
  <2> SUFFICES ASSUME Init PROVE Inv
    OBVIOUS
  <2>1. TypeOK
    BY InitType
  <2>2. TimesOK /\ ReadOrReading
    BY DEF Init, TimesOK, ReadOrReading, Unchanged
  <2>3. QED
    BY <2>1, <2>2
<1>2. Inv /\ [Next]_vars => Inv'
  BY StepType, StepTimesOK, StepReadOrReading
<1>3. Inv => NeverForgotten
  BY DEF ReadOrReading, NeverForgotten, Unchanged, NobodyLoads, Loading, TypeOK, DirectoryOK
<1>4. QED
  BY <1>1, <1>2, <1>3, PTL DEF Spec
-----------------------------------------------------------------------------
(* Nothing changes for a file that the step is not about.                  *)
LEMMA OtherFile ==
  ASSUME NEW f \in Files, LoadGoesWell(f),
         version'[f] = version[f], value'[f] = value[f], failed'[f] = failed[f],
         \A l \in Loaders :
           /\ (Loading(l) /\ file[l] = f)' <=> Loading(l) /\ file[l] = f
           /\ Loading(l) /\ file[l] = f =>
                pc'[l] = pc[l] /\ root'[l] = root[l] /\ done'[l] = done[l] /\ file'[l] = f
  PROVE  LoadGoesWell(f)'
<1>1. ASSUME NEW l \in Loaders, (pc[l] = "load" /\ file[l] = f) \/ Applying(l, f)
      PROVE  ((pc[l] = "load" /\ file[l] = f) \/ Applying(l, f))'
  <2>1. Loading(l) /\ file[l] = f
    BY <1>1 DEF Loading, Applying
  <2>2. pc'[l] = pc[l] /\ root'[l] = root[l] /\ done'[l] = done[l] /\ file'[l] = f
    BY <2>1
  <2>3. CASE pc[l] = "load"
    BY <2>2, <2>3
  <2>4. CASE Applying(l, f)
    BY <2>2, <2>4 DEF Applying
  <2>5. QED
    BY <1>1, <2>3, <2>4
<1>2. CASE NobodyLoads(f) /\ (failed[f] = version[f] \/ Current(f))
  <2>1. NobodyLoads(f)'
    BY <1>2 DEF NobodyLoads
  <2>2. failed'[f] = version'[f] \/ Current(f)'
    BY <1>2 DEF Current
  <2>3. QED
    BY <2>1, <2>2 DEF LoadGoesWell
<1>3. QED
  BY <1>1, <1>2 DEF LoadGoesWell

LEMMA StepOneLoads ==
  ASSUME TypeOK, OneLoads, [Next]_vars
  PROVE  OneLoads'
<1> USE DEF TypeOK
<1>1. CASE UNCHANGED <<overlap, pc, file, done>>
  BY <1>1 DEF OneLoads, Loading
<1>2. ASSUME NEW l \in Loaders, LoaderStep(l)
      PROVE  OneLoads'
  <2>1. \A m \in Loaders \ {l} : pc'[m] = pc[m] /\ file'[m] = file[m] /\ done'[m] = done[m]
    BY <1>2, LoaderFrame
  <2>2. pc'[l] # "apply" => done'[l] = 0
    BY <1>2 DEF OneLoads, LoaderStep, LoadFromConfDir, Lstat, Skip, Record, LoadFile, LoadFails, ApplyVar,
                ApplyThrows, LoadedFile, LoadReturn, Continue, LoadersOK
  <2>3. \A m \in Loaders : pc'[m] # "apply" => done'[m] = 0
    BY <2>1, <2>2 DEF OneLoads
  <2>4. CASE Record(l)
    <3>1. /\ pc'[l] = "load" /\ file' = file /\ file[l] \in Files
          /\ \A f \in Files \ {file[l]} : overlap'[f] = overlap[f]
          /\ overlap'[file[l]] = (\E m \in Loaders : Loading(m) /\ file[m] = file[l])
          /\ pc[l] = "record"
      BY <2>4 DEF Record, LoadersOK, HistoryOK
    <3>2. ASSUME NEW f \in Files, ~overlap'[f], NEW m \in Loaders, NEW n \in Loaders,
                 (Loading(m) /\ file[m] = f)', (Loading(n) /\ file[n] = f)'
          PROVE  m = n
      <4>1. CASE f = file[l]
        <5>1. \A k \in Loaders \ {l} : ~ (Loading(k) /\ file[k] = f)'
          BY <2>1, <3>1, <3>2, <4>1 DEF Loading
        <5>2. QED
          BY <3>2, <5>1
      <4>2. CASE f # file[l]
        BY <2>1, <3>1, <3>2, <4>2 DEF OneLoads, Loading
      <4>3. QED
        BY <4>1, <4>2
    <3>3. QED
      BY <2>3, <3>2 DEF OneLoads
  <2>5. CASE ~Record(l)
    <3>1. overlap' = overlap
      BY <1>2, <2>5 DEF LoaderStep, LoadFromConfDir, Lstat, Skip, LoadFile, LoadFails, ApplyVar,
                        ApplyThrows, LoadedFile, LoadReturn, history
    <3>2. Loading(l)' => Loading(l) /\ file'[l] = file[l]
      BY <1>2, <2>5 DEF LoaderStep, LoadFromConfDir, Lstat, Skip, LoadFile, LoadFails, ApplyVar,
                        ApplyThrows, LoadedFile, LoadReturn, Continue, Loading, LoadersOK
    <3>3. \A m \in Loaders : Loading(m)' => Loading(m) /\ file'[m] = file[m]
      BY <2>1, <3>2 DEF Loading
    <3>4. QED
      BY <2>3, <3>1, <3>3 DEF OneLoads
  <2>6. QED
    BY <2>4, <2>5
<1>3. QED
  BY <1>1, <1>2 DEF Next, Tick, Write, Remove, Disturb, vars, loader, history

LEMMA StepLoadedOrLoading ==
  ASSUME LoadInv, [Next]_vars
  PROVE  LoadedOrLoading'
<1> USE DEF LoadInv
<1>1. CASE UNCHANGED <<exists, mtime, version, recorded, value, sameTime, overlap, failed, pc, file, root, done>>
  BY <1>1 DEF LoadedOrLoading, LoadGoesWell, Unchanged, Applying, NobodyLoads, Loading, Current
<1>2. ASSUME NEW f \in Files, Write(f) \/ Remove(f)
      PROVE  LoadedOrLoading'
  <2>1. UNCHANGED <<value, overlap, failed, pc, file, root, done>>
    BY <1>2 DEF Write, Remove, process, loader
  <2>2. ASSUME NEW g \in Files, Unchanged(g)', ~overlap'[g]
        PROVE  LoadGoesWell(g)'
    <3>1. Unchanged(g) /\ version'[g] = version[g]
      BY <1>2, <2>2, WriteShows, RemoveShows
    <3>2. LoadGoesWell(g)
      BY <2>1, <2>2, <3>1 DEF LoadedOrLoading
    <3>3. QED
      BY <2>1, <3>1, <3>2, OtherFile DEF Loading
  <2>3. QED
    BY <2>2 DEF LoadedOrLoading
<1>3. ASSUME NEW l \in Loaders, LoaderStep(l), NEW f \in Files, Unchanged(f)', ~overlap'[f]
      PROVE  LoadGoesWell(f)'
  <2>1. /\ UNCHANGED <<exists, mtime, version, sameTime>>
        /\ \A m \in Loaders \ {l} :
             pc'[m] = pc[m] /\ file'[m] = file[m] /\ root'[m] = root[m] /\ done'[m] = done[m]
    BY <1>3, LoaderFrame DEF directory
  <2>2. CASE Record(l) /\ file[l] = f
    BY <2>2 DEF Record, TypeOK, LoadersOK, LoadGoesWell
  <2>3. CASE ~ (Record(l) /\ file[l] = f)
    <3>1. Unchanged(f) /\ overlap'[f] = overlap[f]
      <4>1. recorded'[f] = recorded[f] /\ overlap'[f] = overlap[f]
        BY <1>3, <2>3 DEF LoaderStep, LoadFromConfDir, Lstat, Skip, Record, LoadFile, LoadFails, ApplyVar,
                  ApplyThrows, LoadedFile, LoadReturn, process, history, TypeOK, LoadersOK, ProcessOK, HistoryOK
      <4>2. QED
        BY <1>3, <2>1, <4>1 DEF Unchanged
    <3>2. LoadGoesWell(f)
      BY <1>3, <3>1 DEF LoadedOrLoading
    <3>3. CASE Loading(l) /\ file[l] = f
      <4>1. \A m \in Loaders \ {l} : ~ (Loading(m) /\ file[m] = f)
        BY <1>3, <3>1, <3>3 DEF OneLoads
      <4>2. pc[l] = "load" \/ Applying(l, f)
        BY <3>2, <3>3, <4>1 DEF LoadGoesWell, NobodyLoads, Applying, Loading
      <4>3. ~Loading(l)' => NobodyLoads(f)'
        BY <2>1, <4>1 DEF NobodyLoads, Loading
      <4>4. CASE LoadFile(l)
        <5>1. pc'[l] = "apply" /\ file'[l] = f /\ root'[l] = version'[f] /\ done'[l] = 0
          BY <2>1, <3>3, <4>4 DEF LoadFile, TypeOK, LoadersOK, OneLoads
        <5>2. QED
          BY <5>1 DEF LoadGoesWell, Applying
      <4>5. CASE LoadFails(l)
        <5>1. ~Loading(l)' /\ failed'[f] = version'[f]
          BY <2>1, <3>3, <4>5 DEF LoadFails, Continue, Loading, TypeOK, LoadersOK, HistoryOK
        <5>2. QED
          BY <4>3, <5>1 DEF LoadGoesWell
      <4>6. CASE ApplyVar(l)
        <5>1. /\ Applying(l, f) /\ done[l] < Len(Entries) /\ done[l] \in Nat
              /\ pc'[l] = "apply" /\ file'[l] = f /\ root'[l] = version'[f] /\ done'[l] = done[l] + 1
          BY <2>1, <3>3, <4>2, <4>6, EntriesLength DEF ApplyVar, Applying, TypeOK, LoadersOK
        <5> DEFINE key == Entries[done[l] + 1]
        <5>2. value'[f] = IF key \in Vars THEN [value[f] EXCEPT ![key] = version[f]] ELSE value[f]
          BY <3>3, <4>6, <5>1 DEF ApplyVar, Applying, TypeOK, ProcessOK
        <5>3. value[f] \in [Vars -> Versions]
          BY DEF TypeOK, ProcessOK
        <5>4. \A k \in Vars : value'[f][k] = IF k = key THEN version[f] ELSE value[f][k]
          BY <5>2, <5>3
        <5>5. ASSUME NEW i \in 1 .. done'[l], Entries[i] \in Vars
              PROVE  value'[f][Entries[i]] = version'[f]
          <6>1. i \in 1 .. done[l] \/ i = done[l] + 1
            BY <5>1
          <6>2. QED
            BY <2>1, <5>1, <5>4, <5>5, <6>1 DEF Applying
        <5>6. QED
          BY <5>1, <5>5 DEF LoadGoesWell, Applying
      <4>7. CASE ApplyThrows(l)
        <5>1. ~Loading(l)' /\ failed'[f] = version'[f]
          BY <2>1, <3>3, <4>2, <4>7 DEF ApplyThrows, Applying, Continue, Loading, TypeOK, LoadersOK, HistoryOK
        <5>2. QED
          BY <4>3, <5>1 DEF LoadGoesWell
      <4>8. CASE LoadedFile(l)
        <5>1. ~Loading(l)' /\ value' = value /\ Applying(l, f) /\ done[l] = Len(Entries)
          BY <4>2, <4>8, EntriesLength DEF LoadedFile, Continue, Loading, TypeOK, LoadersOK, process
        <5>2. \A k \in Entered : value[f][k] = version[f]
          <6>1. DOMAIN Entries = 1 .. Len(Entries)
            BY ConstantsAssumption
          <6>2. QED
            BY <5>1, <6>1 DEF Applying, Entered
        <5>3. QED
          BY <2>1, <4>3, <5>1, <5>2 DEF LoadGoesWell, Current
      <4>9. QED
        BY <1>3, <3>3, <4>4, <4>5, <4>6, <4>7, <4>8 DEF LoaderStep, LoadFromConfDir, Lstat, Skip, Record,
                                                        LoadReturn, Loading
    <3>4. CASE ~ (Loading(l) /\ file[l] = f)
      <4>1. ~ (Loading(l) /\ file[l] = f)'
        BY <1>3, <2>3, <3>4 DEF LoaderStep, LoadFromConfDir, Lstat, Skip, Record, LoadFile, LoadFails, ApplyVar,
                  ApplyThrows, LoadedFile, LoadReturn, Continue, Loading, TypeOK, LoadersOK
      <4>2. value'[f] = value[f] /\ failed'[f] = failed[f]
        BY <1>3, <2>3, <3>4 DEF LoaderStep, LoadFromConfDir, Lstat, Skip, Record, LoadFile, LoadFails, ApplyVar,
                  ApplyThrows, LoadedFile, LoadReturn, Loading, process, history, TypeOK, LoadersOK, ProcessOK, HistoryOK
      <4>3. QED
        BY <2>1, <3>2, <3>4, <4>1, <4>2, OtherFile DEF Loading
    <3>5. QED
      BY <3>3, <3>4
  <2>4. QED
    BY <2>2, <2>3
<1>4. CASE UNCHANGED vars
  BY <1>1, <1>4 DEF vars, directory, process, loader, history
<1>5. CASE Tick
  BY <1>1, <1>5 DEF Tick, process, loader, history
<1>6. QED
  BY <1>2, <1>3, <1>4, <1>5 DEF Next, LoadedOrLoading

(* The variables have what the file says now, if it would be skipped as    *)
(* unmodified, unless its last load failed, overlapped another one or was  *)
(* followed by an edit within the same second.                             *)
THEOREM UpToDateHolds == Spec => []UpToDate
<1>1. Init => LoadInv
  <2> SUFFICES ASSUME Init PROVE LoadInv
    OBVIOUS
  <2>1. TypeOK
    BY InitType
  <2>2. TimesOK /\ ReadOrReading /\ OneLoads /\ LoadedOrLoading
    BY DEF Init, TimesOK, ReadOrReading, OneLoads, LoadedOrLoading, Unchanged, Loading
  <2>3. QED
    BY <2>1, <2>2 DEF LoadInv
<1>2. LoadInv /\ [Next]_vars => LoadInv'
  BY StepType, StepTimesOK, StepReadOrReading, StepOneLoads, StepLoadedOrLoading DEF LoadInv
<1>3. LoadInv => UpToDate
  <2> SUFFICES ASSUME LoadInv, NEW f \in exists, Unchanged(f), NobodyLoads(f), ~overlap[f]
               PROVE  failed[f] = version[f] \/ Current(f)
    BY DEF UpToDate, Unchanged
  <2>1. LoadGoesWell(f)
    BY DEF LoadInv, LoadedOrLoading, TypeOK, DirectoryOK
  <2>2. QED
    BY <2>1 DEF LoadGoesWell, NobodyLoads, Loading, Applying
<1>4. QED
  BY <1>1, <1>2, <1>3, PTL DEF Spec
-----------------------------------------------------------------------------
LEMMA StepCalmInv ==
  ASSUME CalmInv, [Next]_vars
  PROVE  CalmInv'
<1> USE DEF CalmInv
<1>1. TypeOK'
  BY StepType
<1>2. CASE UNCHANGED <<exists, version, value, loader, calm>>
  BY <1>1, <1>2 DEF loader, Busy, Applying, Current
<1>3. CASE \E f \in Files : Write(f) \/ Remove(f)
  <2>1. UNCHANGED <<pc, done>> /\ \A l \in Loaders : ~calm'[l]
    BY <1>3 DEF Write, Remove, Disturb, loader
  <2>2. QED
    BY <1>1, <2>1
<1>4. ASSUME NEW l \in Loaders, LoaderStep(l)
      PROVE  CalmInv'
  <2>1. /\ UNCHANGED <<exists, version>>
        /\ \A m \in Loaders \ {l} : pc'[m] = pc[m] /\ done'[m] = done[m]
    BY <1>4, LoaderFrame DEF directory
  <2>2. pc'[l] # "apply" => done'[l] = 0
    BY <1>4 DEF LoaderStep, LoadFromConfDir, Lstat, Skip, Record, LoadFile, LoadFails, ApplyVar,
                ApplyThrows, LoadedFile, LoadReturn, Continue, TypeOK, LoadersOK
  <2>3. ASSUME NEW forced \in BOOLEAN, LoadFromConfDir(l, forced)
        PROVE  CalmInv'
    <3>1. /\ todo'[l] = exists /\ pc'[l] = "next"
          /\ \A m \in Loaders : calm'[m] => m = l /\ \A n \in Loaders : ~Busy(n)
      BY <2>3 DEF LoadFromConfDir, TypeOK, LoadersOK
    <3>2. \A m \in Loaders : calm'[m] =>
            /\ \A n \in Loaders \ {m} : ~Busy(n)'
            /\ pc'[m] # "apply"
            /\ \A f \in exists' : f \in todo'[m]
      BY <2>1, <3>1 DEF Busy
    <3>3. QED
      BY <1>1, <2>1, <2>2, <3>2
  <2>4. CASE \A forced \in BOOLEAN : ~LoadFromConfDir(l, forced)
    <3>1. Busy(l)
      BY <1>4, <2>4 DEF LoaderStep, Lstat, Skip, Record, LoadFile, LoadFails, ApplyVar,
                        ApplyThrows, LoadedFile, LoadReturn, Busy
    <3>2. \A m \in Loaders : calm'[m] => calm[m]
      BY <1>4, <2>4 DEF LoaderStep, Lstat, Skip, Record, LoadFile, LoadFails, ApplyVar, ApplyThrows,
                        LoadedFile, LoadReturn, history, TypeOK, HistoryOK
    <3>3. \A m \in Loaders : calm'[m] => m = l
      BY <3>1, <3>2
    <3> SUFFICES ASSUME calm'[l], calm[l]
                 PROVE  /\ (pc[l] = "apply" => Applying(l, file[l]))'
                        /\ force'[l] => \A f \in exists' :
                             \/ f \in todo'[l]
                             \/ pc'[l] \in {"record", "load"} /\ file'[l] = f
                             \/ Applying(l, f)'
                             \/ Current(f)'
      <4>1. \A m \in Loaders \ {l} : (~Busy(m) /\ ~Busy(m)') \/ ~calm[l]
        BY <2>1 DEF Busy
      <4>2. QED
        BY <1>1, <2>1, <2>2, <3>2, <3>3, <4>1
    <3> USE DEF TypeOK, LoadersOK
    <3>4. ASSUME NEW f \in Files, Lstat(l, f)
          PROVE  /\ pc'[l] # "apply" /\ value' = value /\ force' = force
                 /\ \A g \in exists : g \in todo[l] =>
                      g \in todo'[l] \/ (pc'[l] = "record" /\ file'[l] = g)
      BY <3>4 DEF Lstat, process
    <3>5. CASE \E f \in Files : Lstat(l, f)
      <4>1. pc[l] = "next"
        BY <3>5 DEF Lstat
      <4>2. QED
        BY <2>1, <3>4, <3>5, <4>1 DEF Applying, Current
    <3>6. CASE Skip(l)
      <4>1. ~force[l] /\ force' = force /\ pc'[l] = "next"
        BY <3>6 DEF Skip, Unmodified, Continue
      <4>2. QED
        BY <4>1
    <3>7. CASE Record(l)
      BY <2>1, <3>7 DEF Record, Applying, Current
    <3>8. CASE LoadFile(l)
      <4>1. /\ pc[l] = "load" /\ pc'[l] = "apply" /\ file' = file
            /\ root'[l] = version[file[l]] /\ done'[l] = 0
            /\ UNCHANGED <<value, force, todo>>
        BY <3>8 DEF LoadFile, process
      <4>2. Applying(l, file[l])'
        BY <2>1, <4>1 DEF Applying
      <4>3. QED
        BY <2>1, <4>1, <4>2 DEF Applying, Current
    <3>9. CASE LoadFails(l) \/ ApplyThrows(l)
      BY <3>9 DEF LoadFails, ApplyThrows, HistoryOK
    <3>10. CASE ApplyVar(l)
      <4> DEFINE f   == file[l]
                 key == Entries[done[l] + 1]
      <4>1. /\ Applying(l, f) /\ f \in Files /\ done[l] \in Nat
            /\ pc'[l] = "apply" /\ file' = file /\ root' = root /\ done'[l] = done[l] + 1
            /\ UNCHANGED <<force, todo>>
        BY <3>10, EntriesLength DEF ApplyVar
      <4>2. /\ value'[f] = IF key \in Vars THEN [value[f] EXCEPT ![key] = version[f]] ELSE value[f]
            /\ \A g \in Files \ {f} : value'[g] = value[g]
        BY <3>10, <4>1 DEF ApplyVar, Applying, ProcessOK
      <4>3. \A k \in Vars : value'[f][k] = IF k = key THEN version[f] ELSE value[f][k]
        <5>1. value[f] \in [Vars -> Versions]
          BY <4>1 DEF ProcessOK
        <5>2. QED
          BY <4>2, <5>1
      <4>4. Applying(l, f)'
        <5>1. ASSUME NEW i \in 1 .. done'[l], Entries[i] \in Vars
              PROVE  value'[f][Entries[i]] = version'[f]
          <6>1. i \in 1 .. done[l] \/ i = done[l] + 1
            BY <4>1
          <6>2. QED
            BY <2>1, <4>1, <4>3, <5>1, <6>1 DEF Applying
        <5>2. QED
          BY <2>1, <4>1, <5>1 DEF Applying
      <4>5. \A g \in Files : Current(g) => Current(g)'
        <5>1. ASSUME NEW g \in Files, Current(g), NEW k \in Entered
              PROVE  value'[g][k] = version[g]
          <6>1. k \in Vars /\ value[g][k] = version[g]
            BY <5>1 DEF Current, Entered
          <6>2. CASE g = f
            BY <4>3, <6>1, <6>2
          <6>3. CASE g # f
            BY <4>2, <6>1, <6>3
          <6>4. QED
            BY <6>2, <6>3
        <5>2. QED
          BY <2>1, <5>1 DEF Current, Entered
      <4>6. \A g \in Files : Applying(l, g) => g = f
        BY DEF Applying
      <4>7. exists \subseteq Files /\ pc[l] = "apply" /\ file'[l] = f
        BY <3>10, <4>1 DEF DirectoryOK, ApplyVar
      <4> HIDE DEF f, key
      <4>8. (pc[l] = "apply" => Applying(l, file[l]))'
        BY <4>1, <4>4 DEF f
      <4>9. ASSUME force'[l], NEW g \in exists'
            PROVE  g \in todo'[l] \/ Applying(l, g)' \/ Current(g)'
        <5>1. g \in todo[l] \/ Applying(l, g) \/ Current(g)
          BY <2>1, <4>1, <4>7, <4>9
        <5>2. QED
          <6>1. CASE g \in todo[l]
            BY <4>1, <6>1
          <6>2. CASE Applying(l, g)
            BY <4>4, <4>6, <4>7, <6>2, <2>1, <4>9 DEF Applying
          <6>3. CASE Current(g)
            BY <2>1, <4>5, <4>7, <4>9, <6>3
          <6>4. QED
            BY <5>1, <6>1, <6>2, <6>3
      <4>10. QED
        BY <4>8, <4>9
    <3>11. CASE LoadedFile(l)
      <4>1. /\ pc[l] = "apply" /\ pc'[l] = "next" /\ done[l] = Len(Entries)
            /\ UNCHANGED <<value, force, todo>>
        BY <3>11, EntriesLength DEF LoadedFile, Continue, process
      <4>2. \A g \in exists : Applying(l, g) => Current(g)'
        <5>1. DOMAIN Entries = 1 .. Len(Entries)
          BY ConstantsAssumption
        <5>2. QED
          BY <2>1, <4>1, <5>1 DEF Applying, Current, Entered
      <4>3. \A g \in exists : Current(g) => Current(g)'
        BY <2>1, <4>1 DEF Current
      <4>4. QED
        BY <2>1, <4>1, <4>2, <4>3
    <3>12. CASE LoadReturn(l)
      BY <3>12 DEF LoadReturn, HistoryOK
    <3>13. QED
      BY <1>4, <2>4, <3>5, <3>6, <3>7, <3>8, <3>9, <3>10, <3>11, <3>12 DEF LoaderStep
  <2>5. QED
    BY <2>3, <2>4
<1>5. CASE UNCHANGED vars
  BY <1>2, <1>5 DEF vars, directory, process, history
<1>6. CASE Tick
  BY <1>2, <1>6 DEF Tick, process, history
<1>7. QED
  BY <1>3, <1>4, <1>5, <1>6 DEF Next

(* A forced call that nothing disturbs and in which nothing fails leaves   *)
(* every file's variables up to date, whatever was recorded before it.     *)
THEOREM ForcedLoadRepairsHolds == Spec => ForcedLoadRepairs
<1>1. Init => CalmInv
  BY InitType DEF Init, CalmInv
<1>2. CalmInv /\ [Next]_vars => CalmInv'
  BY StepCalmInv
<1>3. CalmInv /\ [Next]_vars =>
        [\A l \in Loaders :
           Busy(l) /\ pc'[l] = "idle" /\ force[l] /\ calm[l] => \A f \in exists : Current(f)]_vars
  <2> SUFFICES ASSUME CalmInv, Next, NEW l \in Loaders,
                      Busy(l), pc'[l] = "idle", force[l], calm[l], NEW f \in exists
               PROVE  Current(f)
    OBVIOUS
  <2>1. ~UNCHANGED pc
    BY DEF Busy
  <2>2. PICK m \in Loaders : LoaderStep(m)
    BY <2>1 DEF Next, Tick, Write, Remove, loader
  <2>3. m = l
    BY <2>2, LoaderFrame DEF CalmInv, Busy
  <2>4. LoadReturn(l)
    BY <2>2, <2>3 DEF LoaderStep, LoadFromConfDir, Lstat, Skip, Record, LoadFile, LoadFails, ApplyVar,
                      ApplyThrows, LoadedFile, Continue, Busy, CalmInv, TypeOK, LoadersOK
  <2>5. QED
    BY <2>4 DEF LoadReturn, CalmInv, Applying
<1>4. QED
  BY <1>1, <1>2, <1>3, PTL DEF Spec, ForcedLoadRepairs
=============================================================================
