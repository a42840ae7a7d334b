---------------------------- MODULE ConfigLoader ----------------------------
(***************************************************************************)
(* Config::LoadFromConfDir and LoadFromYaml (srcs/config/config.cpp):      *)
(* threads load the .yml files of a directory into the configuration       *)
(* variables, while the files are edited.  A file is skipped if it has the *)
(* modification time that was recorded when it was last loaded; the time   *)
(* is recorded, under s_Mtx, before the file is read.                      *)
(*                                                                         *)
(* Versions are numbered as they are written.  A file has a version, which *)
(* is what all its entries say, and sets variables that no other file      *)
(* sets; they start at version 0.  Whether YAML::LoadFile throws, or       *)
(* FromString of a variable, is left open.  The clock counts seconds, as   *)
(* st_mtime does.                                                          *)
(***************************************************************************)
EXTENDS Integers, Sequences

CONSTANTS
  Loaders,     \* threads that call LoadFromConfDir
  Files,
  Entries,     \* the keys that ListAllMember finds in a file, in lower case
  Vars,        \* the keys that LookupBase knows
  MaxVersion,  \* bound: how often files are written
  MaxTime,     \* bound: the clock stops here
  NoFile       \* a loader has no file in hand

ASSUME ConstantsAssumption ==
  /\ Entries \in Seq(STRING) /\ Vars \subseteq STRING
  /\ MaxVersion \in Nat /\ MaxTime \in Nat \ {0}
  /\ NoFile \notin Files

VARIABLES
  \* the directory
  now,       \* the time of day
  exists,    \* the files that are there
  mtime,     \* st_mtime
  version,   \* what a file says
  written,   \* versions written so far
  \* the process
  recorded,  \* s_FileLastModifyTime, 0 for a file it does not have
  value,     \* the version each variable of a file has its value from
  \* the loaders
  pc,        \* where each loader is
  force,     \* the argument of its call
  todo,      \* the files it has still to look at
  file,      \* the file in hand
  st,        \* what lstat() said of it
  root,      \* the version it has parsed
  done,      \* how many entries of it are done
  \* history
  sameTime,  \* the file was written twice within a second
  overlap,   \* two loaders have been loading the file at once
  failed,    \* the version that the last load of the file has failed on
  tried,     \* the versions that LoadFile has been asked to read
  calm       \* nothing has disturbed the loader's call, and nothing failed

directory == <<now, exists, mtime, version, written>>
process   == <<recorded, value>>
loader    == <<pc, force, todo, file, st, root, done>>
history   == <<sameTime, overlap, failed, tried, calm>>
vars == <<directory, process, loader, history>>

Times    == 0 .. MaxTime
Versions == 0 .. MaxVersion

(* The process was started after 1970.                                     *)
Init ==
  /\ now = 1
  /\ exists = {} /\ mtime = [f \in Files |-> 0] /\ version = [f \in Files |-> 0] /\ written = 0
  /\ recorded = [f \in Files |-> 0]
  /\ value = [f \in Files |-> [k \in Vars |-> 0]]
  /\ pc = [l \in Loaders |-> "idle"]
  /\ force = [l \in Loaders |-> FALSE]
  /\ todo = [l \in Loaders |-> {}]
  /\ file = [l \in Loaders |-> NoFile]
  /\ st = [l \in Loaders |-> 0]
  /\ root = [l \in Loaders |-> 0]
  /\ done = [l \in Loaders |-> 0]
  /\ sameTime = [f \in Files |-> FALSE] /\ overlap = [f \in Files |-> FALSE]
  /\ failed = [f \in Files |-> 0] /\ tried = [f \in Files |-> {}]
  /\ calm = [l \in Loaders |-> FALSE]
-----------------------------------------------------------------------------
(* What others do to the directory.                                        *)
Tick ==
  /\ now < MaxTime
  /\ now' = now + 1
  /\ UNCHANGED <<exists, mtime, version, written, process, loader, history>>

Disturb == calm' = [l \in Loaders |-> FALSE]

Write(f) ==
  /\ written < MaxVersion
  /\ written' = written + 1
  /\ exists' = exists \union {f}
  /\ version' = [version EXCEPT ![f] = written + 1]
  /\ mtime' = [mtime EXCEPT ![f] = now]
  /\ sameTime' = [sameTime EXCEPT ![f] = mtime[f] = now]
  /\ Disturb
  /\ UNCHANGED <<now, process, loader, overlap, failed, tried>>

Remove(f) ==
  /\ f \in exists
  /\ exists' = exists \ {f}
  /\ Disturb
  /\ UNCHANGED <<now, mtime, version, written, process, loader, sameTime, overlap, failed, tried>>
-----------------------------------------------------------------------------
Busy(l)    == pc[l] # "idle"
Loading(l) == pc[l] \in {"load", "apply"}

(* ListAllFile lists what is there.                                        *)
LoadFromConfDir(l, forced) ==
  /\ pc[l] = "idle"
  /\ pc' = [pc EXCEPT ![l] = "next"]
  /\ force' = [force EXCEPT ![l] = forced]
  /\ todo' = [todo EXCEPT ![l] = exists]
  /\ calm' = [m \in Loaders |-> m = l /\ \A n \in Loaders : ~Busy(n)]
  /\ UNCHANGED <<directory, process, file, st, root, done, sameTime, overlap, failed, tried>>

(* lstat(), which fails for a file that has gone.                          *)
Lstat(l, f) ==
  /\ pc[l] = "next"
  /\ f \in todo[l]
  /\ todo' = [todo EXCEPT ![l] = @ \ {f}]
  /\ IF f \in exists
     THEN /\ file' = [file EXCEPT ![l] = f]
          /\ st' = [st EXCEPT ![l] = mtime[f]]
          /\ pc' = [pc EXCEPT ![l] = "record"]
     ELSE UNCHANGED <<file, st, pc>>
  /\ UNCHANGED <<directory, process, force, root, done, history>>

ContinueInPlace(l) ==
  /\ file' = [file EXCEPT ![l] = NoFile]
  /\ st' = [st EXCEPT ![l] = 0]
  /\ root' = [root EXCEPT ![l] = 0]
  /\ done' = [done EXCEPT ![l] = 0]
  /\ UNCHANGED pc

(* The next file.                                                          *)
Continue(l) ==
  /\ pc' = [pc EXCEPT ![l] = "next"]
  /\ file' = [file EXCEPT ![l] = NoFile]
  /\ st' = [st EXCEPT ![l] = 0]
  /\ root' = [root EXCEPT ![l] = 0]
  /\ done' = [done EXCEPT ![l] = 0]

UnmodifiedIfForced(l) == recorded[file[l]] = st[l]

Unmodified(l) == ~force[l] /\ recorded[file[l]] = st[l]

Skip(l) ==
  /\ pc[l] = "record"
  /\ Unmodified(l)
  /\ Continue(l)
  /\ UNCHANGED <<directory, process, force, todo, history>>

RecordTimeOfNow(l) ==
  /\ pc[l] = "record"
  /\ ~Unmodified(l)
  /\ recorded' = [recorded EXCEPT ![file[l]] = now]
  /\ pc' = [pc EXCEPT ![l] = "load"]
  /\ overlap' = [overlap EXCEPT ![file[l]] = \E m \in Loaders : Loading(m) /\ file[m] = file[l]]
  /\ failed' = [failed EXCEPT ![file[l]] = 0]
  /\ UNCHANGED <<directory, value, force, todo, file, st, root, done, sameTime, tried, calm>>

Record(l) ==
  /\ pc[l] = "record"
  /\ ~Unmodified(l)
  /\ recorded' = [recorded EXCEPT ![file[l]] = st[l]]
  /\ pc' = [pc EXCEPT ![l] = "load"]
  /\ overlap' = [overlap EXCEPT ![file[l]] = \E m \in Loaders : Loading(m) /\ file[m] = file[l]]
  /\ failed' = [failed EXCEPT ![file[l]] = 0]
  /\ UNCHANGED <<directory, value, force, todo, file, st, root, done, sameTime, tried, calm>>

LoadFile(l) ==
  /\ pc[l] = "load"
  /\ file[l] \in exists
  /\ root' = [root EXCEPT ![l] = version[file[l]]]
  /\ pc' = [pc EXCEPT ![l] = "apply"]
  /\ tried' = [tried EXCEPT ![file[l]] = @ \union {version[file[l]]}]
  /\ UNCHANGED <<directory, process, force, todo, file, st, done, sameTime, overlap, failed, calm>>

(* The file cannot be opened or parsed; the exception is caught.           *)
LoadFails(l) ==
  /\ pc[l] = "load"
  /\ failed' = [failed EXCEPT ![file[l]] = version[file[l]]]
  /\ tried' = [tried EXCEPT ![file[l]] = @ \union {version[file[l]]}]
  /\ calm' = [calm EXCEPT ![l] = FALSE]
  /\ Continue(l)
  /\ UNCHANGED <<directory, process, force, todo, sameTime, overlap>>

ApplyStopsAtUnknown(l) ==
  /\ pc[l] = "apply"
  /\ done[l] < Len(Entries)
  /\ LET key == Entries[done[l] + 1]
     IN  /\ value' = IF key \in Vars THEN [value EXCEPT ![file[l]][key] = root[l]] ELSE value
         /\ done' = [done EXCEPT ![l] = IF key \in Vars THEN @ + 1 ELSE Len(Entries)]
  /\ UNCHANGED <<directory, recorded, pc, force, todo, file, st, root, history>>

(* LoadFromYaml takes the next entry; a key without a variable is skipped. *)
ApplyVar(l) ==
  /\ pc[l] = "apply"
  /\ done[l] < Len(Entries)
  /\ LET key == Entries[done[l] + 1]
     IN  value' = IF key \in Vars THEN [value EXCEPT ![file[l]][key] = root[l]] ELSE value
  /\ done' = [done EXCEPT ![l] = @ + 1]
  /\ UNCHANGED <<directory, recorded, pc, force, todo, file, st, root, history>>

(* A variable does not take its value: the entries behind it are not       *)
(* looked at.                                                              *)
ApplyThrows(l) ==
  /\ pc[l] = "apply"
  /\ done[l] < Len(Entries) /\ Entries[done[l] + 1] \in Vars
  /\ failed' = [failed EXCEPT ![file[l]] = root[l]]
  /\ calm' = [calm EXCEPT ![l] = FALSE]
  /\ Continue(l)
  /\ UNCHANGED <<directory, process, force, todo, sameTime, overlap, tried>>

LoadedFile(l) ==
  /\ pc[l] = "apply"
  /\ done[l] >= Len(Entries)
  /\ Continue(l)
  /\ UNCHANGED <<directory, process, force, todo, history>>

LoadReturn(l) ==
  /\ pc[l] = "next"
  /\ todo[l] = {}
  /\ pc' = [pc EXCEPT ![l] = "idle"]
  /\ force' = [force EXCEPT ![l] = FALSE]
  /\ calm' = [calm EXCEPT ![l] = FALSE]
  /\ UNCHANGED <<directory, process, todo, file, st, root, done, sameTime, overlap, failed, tried>>

LoaderStep(l) ==
  \/ \E forced \in BOOLEAN : LoadFromConfDir(l, forced)
  \/ \E f \in Files : Lstat(l, f)
  \/ Skip(l)
  \/ Record(l)
  \/ LoadFile(l)
  \/ LoadFails(l)
  \/ ApplyVar(l)
  \/ ApplyThrows(l)
  \/ LoadedFile(l)
  \/ LoadReturn(l)

Next ==
  \/ Tick
  \/ \E f \in Files : Write(f) \/ Remove(f)
  \/ \E l \in Loaders : LoaderStep(l)

Spec == Init /\ [][Next]_vars
-----------------------------------------------------------------------------
DirectoryOK ==
  /\ now \in Times \ {0}
  /\ exists \subseteq Files
  /\ mtime \in [Files -> 0 .. now] /\ version \in [Files -> Versions] /\ written \in Versions

ProcessOK ==
  /\ recorded \in [Files -> Times]
  /\ value \in [Files -> [Vars -> Versions]]

LoadersOK ==
  /\ pc \in [Loaders -> {"idle", "next", "record", "load", "apply"}]
  /\ force \in [Loaders -> BOOLEAN]
  /\ todo \in [Loaders -> SUBSET Files]
  /\ file \in [Loaders -> Files \union {NoFile}]
  /\ \A l \in Loaders : pc[l] \in {"record", "load", "apply"} => file[l] \in Files
  /\ st \in [Loaders -> Times] /\ root \in [Loaders -> Versions]
  /\ done \in [Loaders -> 0 .. Len(Entries)]

HistoryOK ==
  /\ sameTime \in [Files -> BOOLEAN] /\ overlap \in [Files -> BOOLEAN]
  /\ failed \in [Files -> Versions] /\ tried \in [Files -> SUBSET Versions]
  /\ calm \in [Loaders -> BOOLEAN]

TypeOK == DirectoryOK /\ ProcessOK /\ LoadersOK /\ HistoryOK

NobodyLoads(f) == \A l \in Loaders : Loading(l) => file[l] # f

Entered == {k \in Vars : \E i \in DOMAIN Entries : Entries[i] = k}

Current(f) == \A k \in Entered : value[f][k] = version[f]

(* A file that the next call would skip as unmodified has been read in its *)
(* present version, by whichever thread: recording the time before reading *)
(* the file cannot lose an edit that comes in between.  The exceptions are *)
(* two edits within a second, which have the same time.                    *)
NeverForgotten ==
  \A f \in exists :
    recorded[f] = mtime[f] /\ NobodyLoads(f) /\ ~sameTime[f] => version[f] \in tried[f]

(* Moreover the variables have its values, unless that load has failed, or *)
(* two threads were loading the file at once and the older version may     *)
(* have been written last.                                                 *)
UpToDate ==
  \A f \in exists :
    recorded[f] = mtime[f] /\ NobodyLoads(f) /\ ~sameTime[f] =>
      overlap[f] \/ failed[f] = version[f] \/ Current(f)

(* A forced call that nothing disturbs and in which nothing fails brings   *)
(* every file up to date, also after an edit within the same second, a     *)
(* failed load or one that overlapped another.                             *)
ForcedLoadRepairs ==
  [][\A l \in Loaders :
       Busy(l) /\ pc'[l] = "idle" /\ force[l] /\ calm[l] => \A f \in exists : Current(f)]_vars
-----------------------------------------------------------------------------
(* The inductive invariants behind them.                                   *)

(* No time is recorded that the file did not have, and mtime only grows.   *)
TimesOK ==
  /\ \A f \in Files : recorded[f] <= mtime[f]
  /\ \A l \in Loaders : pc[l] = "record" => st[l] <= mtime[file[l]]
  /\ \A f \in exists : mtime[f] >= 1

Unchanged(f) == f \in exists /\ recorded[f] = mtime[f] /\ ~sameTime[f]

ReadOrReading ==
  \A f \in Files : Unchanged(f) =>
    \/ version[f] \in tried[f]
    \/ \E l \in Loaders : pc[l] = "load" /\ file[l] = f

(* The loader has put what the file says now into the variables of the     *)
(* entries behind it.                                                      *)
Applying(l, f) ==
  /\ pc[l] = "apply" /\ file[l] = f
  /\ root[l] = version[f]
  /\ \A i \in 1 .. done[l] : Entries[i] \in Vars => value[f][Entries[i]] = version[f]

OneLoads ==
  /\ \A f \in Files : ~overlap[f] =>
       \A l, m \in Loaders : Loading(l) /\ Loading(m) /\ file[l] = f /\ file[m] = f => l = m
  /\ \A l \in Loaders : pc[l] # "apply" => done[l] = 0

LoadGoesWell(f) ==
  \/ \E l \in Loaders : (pc[l] = "load" /\ file[l] = f) \/ Applying(l, f)
  \/ NobodyLoads(f) /\ (failed[f] = version[f] \/ Current(f))

LoadedOrLoading == \A f \in Files : Unchanged(f) /\ ~overlap[f] => LoadGoesWell(f)

LoadInv == TypeOK /\ TimesOK /\ ReadOrReading /\ OneLoads /\ LoadedOrLoading

(* A call that nothing has disturbed is the only one, and has dealt with   *)
(* the files that it has not still to look at.                             *)
CalmInv ==
  /\ TypeOK
  /\ \A l \in Loaders : pc[l] # "apply" => done[l] = 0
  /\ \A l \in Loaders : calm[l] =>
       /\ \A m \in Loaders \ {l} : ~Busy(m)
       /\ pc[l] = "apply" => Applying(l, file[l])
       /\ force[l] => \A f \in exists :
            \/ f \in todo[l]
            \/ pc[l] \in {"record", "load"} /\ file[l] = f
            \/ Applying(l, f)
            \/ Current(f)
=============================================================================
