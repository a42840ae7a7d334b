--------------------------- MODULE LoggerTreeProofs ---------------------------
(* Proofs about LoggerTree, for any threads, loggers, names, appenders,    *)
(* levels and bounds.                                                      *)
EXTENDS LoggerTree, SequenceTheorems, FiniteSetTheorems, WellFoundedInduction, TLAPS

(* A set of numbers with a member has a least one.                         *)
LEMMA LeastNumber ==
  ASSUME NEW S \in SUBSET Nat, S # {}
  PROVE  \E k \in S : \A j \in S : k <= j
<1>1. PICK k \in S : \A j \in S : ~ (<<j, k>> \in OpToRel(<, Nat))
  BY WFMin, NatLessThanWellFounded
<1>2. \A j \in S : ~ (j < k)
  BY <1>1 DEF OpToRel
<1>3. QED
  BY <1>2

(* A list from which an appender has been erased is a list.                *)
LEMMA WithoutType ==
  ASSUME NEW s \in Seq(Appenders), NEW a
  PROVE  Without(s, a) \in Seq(Appenders)
<1> DEFINE n       == Len(s)
           kept    == {i \in DOMAIN s : s[i] # a}
           upTo(m) == {j \in kept : j <= m}
           N       == Cardinality(kept)
<1>1. n \in Nat /\ kept \subseteq 1 .. n /\ IsFiniteSet(kept) /\ N \in Nat
  <2>1. n \in Nat /\ kept \subseteq 1 .. n
    OBVIOUS
  <2>2. IsFiniteSet(1 .. n)
    BY <2>1, FS_Interval
  <2>3. IsFiniteSet(kept)
    BY <2>1, <2>2, FS_Subset
  <2>4. QED
    BY <2>1, <2>3, FS_CardinalityType
<1>2. \A m \in 0 .. n : IsFiniteSet(upTo(m)) /\ Cardinality(upTo(m)) \in Nat
  BY <1>1, FS_Subset, FS_CardinalityType
<1>3. ASSUME NEW k \in 1 .. N
      PROVE  \E i \in kept : Cardinality(upTo(i)) = k
  <2> DEFINE S == {m \in 0 .. n : Cardinality(upTo(m)) >= k}
  <2>k. k \in Nat /\ 1 <= k /\ k <= N
    BY <1>1
  <2>1. upTo(n) = kept
    BY <1>1
  <2>2. S \in SUBSET Nat /\ n \in S
    <3>1. Cardinality(upTo(n)) >= k
      BY <2>k, <2>1, <1>1, Cardinality(upTo(n)) = N
    <3>2. QED
      BY <1>1, <3>1
  <2>3. PICK m \in S : \A j \in S : m <= j
    BY <2>2, LeastNumber
  <2>4. m # 0
    <3>1. upTo(0) = {}
      BY <1>1
    <3>2. Cardinality(upTo(0)) = 0
      BY <3>1, FS_EmptySet
    <3>3. CASE m = 0
      BY <2>k, <2>3, <3>2, <3>3
    <3>4. QED
      BY <3>3
  <2>5. m - 1 \in 0 .. n /\ m \in 1 .. n
    BY <1>1, <2>4
  <2>card. Cardinality(upTo(m - 1)) \in Nat /\ Cardinality(upTo(m)) \in Nat
    BY <1>2, <2>5
  <2>6. Cardinality(upTo(m - 1)) < k /\ Cardinality(upTo(m)) >= k
    <3>1. m - 1 \notin S
      <4>1. m \in Nat /\ ~ (m <= m - 1)
        BY <2>5
      <4>2. QED
        BY <2>3, <4>1
    <3>2. Cardinality(upTo(m - 1)) \in Nat
      BY <1>2, <2>5
    <3>3. QED
      BY <2>k, <2>3, <2>5, <3>1, <3>2
  <2>7. m \in kept /\ upTo(m) = upTo(m - 1) \union {m} /\ m \notin upTo(m - 1)
    <3>1. \A j \in kept : j <= m <=> j <= m - 1 \/ j = m
      BY <1>1, <2>5
    <3>2. m \in kept
      <4>1. CASE m \notin kept
        <5>1. upTo(m) = upTo(m - 1)
          BY <3>1, <4>1
        <5>2. Cardinality(upTo(m)) = Cardinality(upTo(m - 1))
          BY <5>1, Zenon
        <5> HIDE DEF upTo
        <5>3. QED
          BY <2>k, <2>6, <5>2, <2>card
      <4>2. QED
        BY <4>1
    <3>3. QED
      BY <3>1, <3>2, <1>1, <2>5
  <2>8. Cardinality(upTo(m)) = Cardinality(upTo(m - 1)) + 1
    BY <1>2, <2>5, <2>7, FS_AddElement
  <2>9. Cardinality(upTo(m)) = k
    BY <2>k, <2>card, <2>6, <2>8
  <2>10. QED
    BY <2>7, <2>9
<1>4. \A k \in 1 .. N : s[CHOOSE i \in kept : Cardinality(upTo(i)) = k] \in Appenders
  <2>1. \A i \in kept : s[i] \in Appenders
    BY <1>1
  <2>2. QED
    BY <1>3, <2>1
<1>5. Without(s, a) = [k \in 1 .. N |-> s[CHOOSE i \in kept : Cardinality(upTo(i)) = k]]
  BY DEF Without
<1>6. Without(s, a) \in [1 .. N -> Appenders]
  BY <1>4, <1>5
<1>7. QED
  <2>1. \A f \in [1 .. N -> Appenders] : f \in Seq(Appenders)
    BY <1>1, SeqDef
  <2>2. QED
    BY <1>6, <2>1
-----------------------------------------------------------------------------
LEMMA InitListInv == Init => ListInv /\ MapInv
<1> SUFFICES ASSUME Init PROVE ListInv /\ MapInv
  OBVIOUS
<1> USE ConstantsAssumption DEF Init, All
<1>1. ObjectsOK
  BY DEF ObjectsOK
<1>2. ThreadsOK
  BY DEF ThreadsOK
<1>3. HistoryOK
  BY DEF HistoryOK
<1>4. ListHeld
  BY DEF ListHeld, InList
<1>5. QED
  BY <1>1, <1>2, <1>3, <1>4 DEF ListInv, MapInv, TypeOK

(* A step keeps the manager's map and the loggers well-typed, and the      *)
(* threads, call by call.                                                  *)
LEMMA ReturnType ==
  ASSUME TypeOK, NEW t \in Threads, NEW r \in {"filtered", "nowhere", "failed", "all"},
         Return(t, r), UNCHANGED <<objects, totals>>
  PROVE  TypeOK'
<1> USE ConstantsAssumption DEF TypeOK, objects, totals, Return, All
<1>1. ObjectsOK'
  BY DEF ObjectsOK, All
<1>2. ThreadsOK'
  <2>1. << >> \in Seq(Appenders)
    OBVIOUS
  <2>2. QED
    BY <2>1 DEF ThreadsOK
<1>3. HistoryOK'
  <2>1. << >> \in Seq(Appenders)
    OBVIOUS
  <2>2. QED
    BY <2>1 DEF HistoryOK
<1>4. QED
  BY <1>1, <1>2, <1>3

LEMMA StepType ==
  ASSUME TypeOK, [Next]_vars
  PROVE  TypeOK'
<1> USE ConstantsAssumption
<1>1. CASE UNCHANGED vars
  BY <1>1 DEF TypeOK, ObjectsOK, ThreadsOK, HistoryOK, All,
              vars, objects, thread, perCall, totals
<1>2. ASSUME NEW o \in Loggers, NEW r \in All \union {Null}, Construct(o, r)
      PROVE  TypeOK'
  BY <1>2 DEF Construct, TypeOK, ObjectsOK, ThreadsOK, HistoryOK, All, thread, perCall, totals
<1>3. ASSUME NEW name \in Names, NEW o \in Loggers, GetLogger(name, o)
      PROVE  TypeOK'
  <2>1. ObjectsOK'
    BY <1>3 DEF GetLogger, TypeOK, ObjectsOK, All
  <2>2. ThreadsOK'
    BY <1>3 DEF GetLogger, TypeOK, ThreadsOK, All, thread
  <2>3. HistoryOK'
    BY <1>3 DEF GetLogger, TypeOK, HistoryOK, perCall
  <2>4. QED
    BY <2>1, <2>2, <2>3 DEF TypeOK
<1>4. ASSUME Change, level' \in [All -> Levels], list' \in [All -> Seq(Appenders)]
      PROVE  TypeOK'
  BY <1>4 DEF Change, TypeOK, ObjectsOK, ThreadsOK, HistoryOK, All, thread
<1>5. ASSUME ChangeStep
      PROVE  TypeOK'
  <2>1. level \in [All -> Levels] /\ list \in [All -> Seq(Appenders)]
    BY DEF TypeOK, ObjectsOK
  <2>2. ASSUME NEW o \in All, NEW l \in Levels, SetLogLevel(o, l)
        PROVE  TypeOK'
    BY <1>4, <2>1, <2>2 DEF SetLogLevel
  <2>3. ASSUME NEW o \in All, NEW a \in Appenders, AddAppender(o, a)
        PROVE  TypeOK'
    <3>1. Append(list[o], a) \in Seq(Appenders)
      BY <2>1
    <3>2. QED
      BY <1>4, <2>1, <2>3, <3>1 DEF AddAppender
  <2>4. ASSUME NEW o \in All, NEW a \in Appenders, RemoveAppender(o, a)
        PROVE  TypeOK'
    BY <1>4, <2>1, <2>4, WithoutType DEF RemoveAppender
  <2>5. ASSUME NEW o \in All, ClearAppenders(o)
        PROVE  TypeOK'
    <3>1. << >> \in Seq(Appenders)
      OBVIOUS
    <3>2. QED
      BY <1>4, <2>1, <2>5, <3>1 DEF ClearAppenders
  <2>6. QED
    BY <1>5, <2>2, <2>3, <2>4, <2>5 DEF ChangeStep
<1>6. ASSUME NEW t \in Threads, NEW o \in All, NEW l \in Levels, Submit(t, o, l)
      PROVE  TypeOK'
  <2>1. ShouldLog(o, l) \in BOOLEAN
    BY DEF ShouldLog
  <2>2. ObjectsOK' /\ ThreadsOK'
    BY <1>6 DEF Submit, TypeOK, ObjectsOK, ThreadsOK, objects, All
  <2>3. HistoryOK'
    BY <1>6, <2>1 DEF Submit, TypeOK, HistoryOK
  <2>4. QED
    BY <2>2, <2>3 DEF TypeOK
<1>7. ASSUME NEW t \in Threads, NEW o \in All, Flush(t, o)
      PROVE  TypeOK'
  BY <1>7 DEF Flush, TypeOK, ObjectsOK, ThreadsOK, HistoryOK, objects, perCall, All
<1>8. ASSUME NEW t \in Threads, CallStep(t)
      PROVE  TypeOK'
  <2>1. CASE TestLevel(t)
    <3>1. CASE Return(t, "filtered")
      BY <2>1, <3>1, ReturnType DEF TestLevel
    <3>2. CASE pc' = [pc EXCEPT ![t] = "lock"] /\ UNCHANGED <<op, rec, at, given, result, perCall>>
      BY <2>1, <3>2 DEF TestLevel, TypeOK, ObjectsOK, ThreadsOK, HistoryOK, objects, perCall, totals, All
    <3>3. QED
      BY <2>1, <3>1, <3>2 DEF TestLevel
  <2>2. CASE TakeLock(t)
    BY <2>2 DEF TakeLock, TypeOK, ObjectsOK, ThreadsOK, HistoryOK, objects, totals, All
  <2>3. CASE GoToRoot(t)
    <3>1. CASE Return(t, "nowhere")
      BY <2>3, <3>1, ReturnType DEF GoToRoot
    <3>2. CASE root[at[t]] # Null
      BY <2>3, <3>2 DEF GoToRoot, TypeOK, ObjectsOK, ThreadsOK, HistoryOK, objects, perCall, totals, All
    <3>3. QED
      BY <2>3, <3>1, <3>2 DEF GoToRoot
  <2>4. CASE CallAppender(t)
    <3>1. list[at[t]][Len(given[t]) + 1] \in Appenders
      <4>1. given[t] \in Seq(Appenders) /\ list[at[t]] \in Seq(Appenders)
        BY DEF TypeOK, ObjectsOK, ThreadsOK
      <4>2. QED
        BY <2>4, <4>1 DEF CallAppender
    <3>2. Append(given[t], list[at[t]][Len(given[t]) + 1]) \in Seq(Appenders)
      BY <3>1 DEF TypeOK, ThreadsOK
    <3>3. QED
      BY <2>4, <3>2 DEF CallAppender, TypeOK, ObjectsOK, ThreadsOK, HistoryOK, objects, perCall, totals, All
  <2>5. CASE AppenderThrows(t)
    BY <2>5, ReturnType DEF AppenderThrows
  <2>6. CASE EndOfList(t)
    BY <2>6, ReturnType DEF EndOfList
  <2>7. QED
    BY <1>8, <2>1, <2>2, <2>3, <2>4, <2>5, <2>6 DEF CallStep
<1>9. QED
  BY <1>1, <1>2, <1>3, <1>5, <1>6, <1>7, <1>8 DEF Next, ManagerStep

(* The manager, the loggers and the threads stay well-typed, whatever the  *)
(* threads do and however the lists and levels change.                     *)
THEOREM TypeOKHolds == Spec => []TypeOK
<1>1. Init => TypeOK
  BY InitListInv DEF ListInv
<1>2. TypeOK /\ [Next]_vars => TypeOK'
  BY StepType
<1>3. QED
  BY <1>1, <1>2, PTL DEF Spec
-----------------------------------------------------------------------------
(* A call that returns leaves the list; the other threads stay in theirs.  *)
LEMMA ReturnHeld ==
  ASSUME ListInv, NEW t \in Threads, NEW r, Return(t, r), UNCHANGED <<objects, totals>>
  PROVE  ListHeld'
BY DEF ListInv, TypeOK, ThreadsOK, HistoryOK, ListHeld, Return, InList, objects

(* Nobody changes a list that a thread is in.                              *)
LEMMA ChangeHeld ==
  ASSUME ListInv, ChangeStep
  PROVE  ListHeld'
<1>1. UNCHANGED <<pc, at, given, snap>>
  BY DEF ChangeStep, SetLogLevel, AddAppender, RemoveAppender, ClearAppenders, Change, thread
<1>2. \A t \in Threads : InList(t) => list'[at[t]] = list[at[t]]
  <2>1. list \in [All -> Seq(Appenders)] /\ \A t \in Threads : at[t] \in All
    BY DEF ListInv, TypeOK, ObjectsOK, ThreadsOK
  <2>2. ASSUME NEW o \in All, NEW new, Free(o), list' = [list EXCEPT ![o] = new]
        PROVE  \A t \in Threads : InList(t) => list'[at[t]] = list[at[t]]
    BY <2>1, <2>2 DEF Free
  <2>3. CASE UNCHANGED list
    BY <2>3
  <2>4. QED
    BY <2>2, <2>3 DEF ChangeStep, SetLogLevel, AddAppender, RemoveAppender, ClearAppenders
<1>3. QED
  BY <1>1, <1>2 DEF ListInv, ListHeld, InList

LEMMA StepHeld ==
  ASSUME ListInv, [Next]_vars
  PROVE  ListHeld'
<1> USE DEF ListInv
<1>1. CASE UNCHANGED <<list, pc, at, given, snap>>
  BY <1>1 DEF ListHeld, InList
<1>2. ASSUME NEW t \in Threads, NEW o \in All, NEW l \in Levels, Submit(t, o, l)
      PROVE  ListHeld'
  BY <1>2 DEF Submit, ListHeld, InList, TypeOK, ThreadsOK, objects
<1>3. ASSUME NEW t \in Threads, NEW o \in All, Flush(t, o)
      PROVE  ListHeld'
  BY <1>3 DEF Flush, ListHeld, InList, TypeOK, ThreadsOK, objects, perCall
<1>4. ASSUME NEW t \in Threads, CallStep(t)
      PROVE  ListHeld'
  <2>1. CASE TestLevel(t)
    <3>1. CASE Return(t, "filtered")
      BY <2>1, <3>1, ReturnHeld DEF TestLevel
    <3>2. CASE pc' = [pc EXCEPT ![t] = "lock"] /\ UNCHANGED <<op, rec, at, given, result, perCall>>
      BY <2>1, <3>2 DEF TestLevel, ListHeld, InList, TypeOK, ThreadsOK, objects, perCall
    <3>3. QED
      BY <2>1, <3>1, <3>2 DEF TestLevel
  <2>2. CASE TakeLock(t)
    <3>1. given[t] = << >>
      BY <2>2 DEF TakeLock, ListHeld, InList
    <3>2. ASSUME NEW u \in Threads, u # t
          PROVE  pc'[u] = pc[u] /\ at'[u] = at[u] /\ given'[u] = given[u] /\ snap'[u] = snap[u]
      BY <2>2, <3>2 DEF TakeLock, TypeOK, ThreadsOK, HistoryOK
    <3>3. /\ snap'[t] = list[at[t]] /\ at'[t] = at[t] /\ given'[t] = << >>
          /\ pc'[t] = "append" <=> list[at[t]] # << >>
      BY <2>2, <3>1 DEF TakeLock, TypeOK, ThreadsOK, HistoryOK
    <3>4. list' = list /\ Len(<< >>) = 0 /\ snap'[t] \in Seq(Appenders)
      BY <2>2, StepType DEF TakeLock, objects, TypeOK, HistoryOK
    <3>5. QED
      BY <3>2, <3>3, <3>4 DEF ListHeld, InList
  <2>3. CASE GoToRoot(t)
    <3>1. CASE Return(t, "nowhere")
      BY <2>3, <3>1, ReturnHeld DEF GoToRoot
    <3>2. CASE root[at[t]] # Null
      BY <2>3, <3>2 DEF GoToRoot, ListHeld, InList, TypeOK, ThreadsOK, objects, perCall
    <3>3. QED
      BY <2>3, <3>1, <3>2 DEF GoToRoot
  <2>4. CASE CallAppender(t)
    <3>1. /\ list' = list /\ UNCHANGED <<pc, at, snap>>
          /\ \A u \in Threads \ {t} : given'[u] = given[u]
          /\ given'[t] = Append(given[t], list[at[t]][Len(given[t]) + 1])
      BY <2>4 DEF CallAppender, TypeOK, ThreadsOK, objects, perCall
    <3>2. /\ snap[t] = list[at[t]] /\ Len(given[t]) < Len(snap[t])
          /\ \A i \in 1 .. Len(given[t]) : given[t][i] = snap[t][i]
          /\ given[t] \in Seq(Appenders) /\ snap[t] \in Seq(Appenders)
          /\ snap[t] # << >>
      BY <2>4 DEF CallAppender, ListHeld, TypeOK, ThreadsOK, HistoryOK
    <3>3. /\ Len(given'[t]) = Len(given[t]) + 1 /\ Len(given'[t]) <= Len(snap[t])
          /\ \A i \in 1 .. Len(given'[t]) : given'[t][i] = snap[t][i]
      BY <3>1, <3>2
    <3>4. QED
      BY <2>4, <3>1, <3>2, <3>3 DEF CallAppender, ListHeld, InList
  <2>5. CASE AppenderThrows(t)
    BY <2>5, ReturnHeld DEF AppenderThrows
  <2>6. CASE EndOfList(t)
    BY <2>6, ReturnHeld DEF EndOfList
  <2>7. QED
    BY <1>4, <2>1, <2>2, <2>3, <2>4, <2>5, <2>6 DEF CallStep
<1>5. CASE UNCHANGED vars
  BY <1>1, <1>5 DEF vars, objects, thread, perCall
<1>6. CASE ManagerStep
  BY <1>1, <1>6 DEF ManagerStep, Construct, GetLogger, thread, perCall
<1>7. QED
  BY <1>2, <1>3, <1>4, <1>5, <1>6, ChangeHeld DEF Next

(* While a thread goes through a list, the list stays the one it found,    *)
(* and the appenders called so far are its first ones.                     *)
THEOREM ListInvHolds == Spec => []ListInv
<1>1. Init => ListInv
  BY InitListInv
<1>2. ListInv /\ [Next]_vars => ListInv'
  BY StepHeld, StepType DEF ListInv
<1>3. QED
  BY <1>1, <1>2, PTL DEF Spec

(* A call ends by a step of its thread.                                    *)
LEMMA ReturningThread ==
  ASSUME ListInv, [Next]_vars, NEW t \in Threads, Returns(t)
  PROVE  CallStep(t)
<1> USE DEF ListInv
<1>1. \A u \in Threads : \A r : Return(u, r) => \A v \in Threads : pc'[v] # pc[v] => v = u
  BY DEF Return, TypeOK, ThreadsOK
<1>2. CASE UNCHANGED pc
  BY <1>2 DEF Returns
<1>3. ASSUME NEW u \in Threads, NEW o \in All, NEW l \in Levels, Submit(u, o, l)
      PROVE  FALSE
  BY <1>3 DEF Submit, Returns, TypeOK, ThreadsOK
<1>4. ASSUME NEW u \in Threads, NEW o \in All, Flush(u, o)
      PROVE  FALSE
  BY <1>4 DEF Flush, Returns, TypeOK, ThreadsOK
<1>5. ASSUME NEW u \in Threads, CallStep(u), u # t
      PROVE  FALSE
  <2>1. pc'[t] = pc[t]
    BY <1>1, <1>5 DEF CallStep, TestLevel, TakeLock, GoToRoot, CallAppender,
                      AppenderThrows, EndOfList, TypeOK, ThreadsOK
  <2>2. QED
    BY <2>1 DEF Returns
<1>6. CASE ManagerStep \/ ChangeStep \/ UNCHANGED vars
  BY <1>2, <1>6 DEF ManagerStep, ChangeStep, Construct, GetLogger, SetLogLevel, AddAppender,
                    RemoveAppender, ClearAppenders, Change, vars, thread
<1>7. QED
  BY <1>3, <1>4, <1>5, <1>6 DEF Next

(* A call that returns is over with its list, at the place it has got to.  *)
LEMMA StepServed ==
  ASSUME ListInv, [Next]_vars, NEW t \in Threads, Returns(t)
  PROVE  /\ result'[t] = "all" => given[t] = snap[t] /\ given[t] # << >>
         /\ result'[t] = "failed" => IsStrictPrefix(given[t], snap[t])
         /\ result'[t] \in {"filtered", "nowhere"} => given[t] = << >>
<1> USE DEF ListInv
<1>1. CallStep(t)
  BY ReturningThread
<1>2. \A r : Return(t, r) => result'[t] = r
  BY DEF Return, TypeOK, ThreadsOK
<1>3. CASE TestLevel(t) \/ TakeLock(t) \/ GoToRoot(t)
  <2>1. given[t] = << >>
    BY <1>3 DEF TestLevel, TakeLock, GoToRoot, ListHeld, InList
  <2>2. result'[t] \in {"filtered", "nowhere"}
    BY <1>2, <1>3 DEF TestLevel, TakeLock, GoToRoot, Returns, TypeOK, ThreadsOK
  <2>3. QED
    BY <2>1, <2>2
<1>4. CASE CallAppender(t)
  BY <1>4 DEF CallAppender, Returns
<1>5. ASSUME InList(t)
      PROVE  /\ snap[t] = list[at[t]] /\ snap[t] # << >>
             /\ Len(given[t]) <= Len(snap[t])
             /\ \A i \in 1 .. Len(given[t]) : given[t][i] = snap[t][i]
             /\ given[t] \in Seq(Appenders) /\ snap[t] \in Seq(Appenders)
  BY <1>5 DEF ListHeld, TypeOK, ThreadsOK, HistoryOK
<1>6. CASE AppenderThrows(t)
  <2>1. Len(given[t]) < Len(snap[t]) /\ result'[t] = "failed"
    BY <1>2, <1>5, <1>6 DEF AppenderThrows
  <2>2. given[t] = SubSeq(snap[t], 1, Len(given[t]))
    BY <1>5, <1>6, <2>1 DEF AppenderThrows
  <2>3. IsStrictPrefix(given[t], snap[t])
    BY <2>1, <2>2, <1>5, <1>6 DEF IsStrictPrefix, IsPrefix, AppenderThrows
  <2>4. QED
    BY <2>1, <2>3
<1>7. CASE EndOfList(t)
  <2>1. Len(given[t]) = Len(snap[t]) /\ result'[t] = "all"
    BY <1>2, <1>5, <1>7 DEF EndOfList
  <2>2. given[t] = snap[t]
    BY <1>5, <1>7, <2>1 DEF EndOfList
  <2>3. QED
    BY <1>5, <1>7, <2>1, <2>2 DEF EndOfList
<1>8. QED
  BY <1>1, <1>3, <1>4, <1>6, <1>7 DEF CallStep

(* A record goes to the appenders of one list as it was at one moment of   *)
(* the call, all of them or the first few if one fails; a flush as well.   *)
THEOREM WholeListServedHolds == Spec => WholeListServed
<1>1. ListInv /\ [Next]_vars =>
        [\A t \in Threads : Returns(t) =>
           /\ result'[t] = "all" => given[t] = snap[t] /\ given[t] # << >>
           /\ result'[t] = "failed" => IsStrictPrefix(given[t], snap[t])
           /\ result'[t] \in {"filtered", "nowhere"} => given[t] = << >>]_vars
  BY StepServed
<1>2. QED
  BY <1>1, ListInvHolds, PTL DEF Spec, WholeListServed
-----------------------------------------------------------------------------
LEMMA StepMap ==
  ASSUME MapInv, [Next]_vars
  PROVE  MapInv'
<1> USE ConstantsAssumption
<1>1. TypeOK'
  BY StepType DEF MapInv
<1>2. CASE UNCHANGED <<made, root, loggerMap, got>>
  BY <1>1, <1>2 DEF MapInv
<1>3. ASSUME NEW o \in Loggers, NEW r \in All \union {Null}, Construct(o, r)
      PROVE  MapInv'
  <2>1. \A n \in Names : loggerMap[n] # Null => loggerMap[n] # o
    BY <1>3 DEF Construct, MapInv
  <2>2. \A n \in Names : loggerMap[n] # Null =>
          loggerMap[n] \in made' /\ root'[loggerMap[n]] = Root
    BY <1>3, <2>1 DEF Construct, MapInv, TypeOK, ObjectsOK, All
  <2>3. loggerMap' = loggerMap /\ got' = got
    BY <1>3 DEF Construct, totals
  <2>4. QED
    BY <1>1, <2>2, <2>3 DEF MapInv
<1>4. ASSUME NEW name \in Names, NEW o \in Loggers, GetLogger(name, o)
      PROVE  MapInv'
  <2>1. CASE loggerMap[name] # Null /\ o = loggerMap[name] /\ UNCHANGED <<made, root, loggerMap>>
    <3>1. \A p \in got' : loggerMap[p[1]] = p[2]
      BY <1>4, <2>1 DEF GetLogger, MapInv
    <3>2. QED
      BY <1>1, <2>1, <3>1 DEF MapInv
  <2>2. CASE /\ loggerMap[name] = Null /\ o \in Loggers \ made
             /\ made' = made \union {o}
             /\ root' = [root EXCEPT ![o] = Root]
             /\ loggerMap' = [loggerMap EXCEPT ![name] = o]
    <3>1. \A n \in Names : loggerMap'[n] = IF n = name THEN o ELSE loggerMap[n]
      BY <2>2 DEF MapInv, TypeOK, ObjectsOK
    <3>2. \A q \in All : root'[q] = IF q = o THEN Root ELSE root[q]
      BY <2>2 DEF MapInv, TypeOK, ObjectsOK
    <3>3. \A n \in Names : loggerMap[n] # Null => loggerMap[n] # o /\ loggerMap[n] \in All
      BY <2>2 DEF MapInv, TypeOK, ObjectsOK
    <3>4. \A p \in got : p[1] \in Names /\ p[2] \in Loggers /\ p[1] # name
      BY <2>2 DEF MapInv, TypeOK, HistoryOK, All
    <3>5. \A p \in got' : loggerMap'[p[1]] = p[2]
      BY <1>4, <3>1, <3>4 DEF GetLogger, MapInv
    <3>6. \A n, m \in Names : loggerMap'[n] = loggerMap'[m] /\ loggerMap'[n] # Null => n = m
      BY <2>2, <3>1, <3>3 DEF MapInv
    <3>7. \A n \in Names : loggerMap'[n] # Null =>
            loggerMap'[n] \in made' /\ root'[loggerMap'[n]] = Root
      <4>1. o \in All
        BY DEF All
      <4>2. QED
        BY <2>2, <3>1, <3>2, <3>3, <4>1 DEF MapInv
    <3>8. QED
      BY <1>1, <3>5, <3>6, <3>7 DEF MapInv
  <2>3. QED
    BY <1>4, <2>1, <2>2 DEF GetLogger
<1>5. CASE UNCHANGED vars
  BY <1>2, <1>5 DEF vars, objects, totals
<1>6. CASE ChangeStep
  BY <1>2, <1>6 DEF ChangeStep, SetLogLevel, AddAppender, RemoveAppender, ClearAppenders, Change
<1>7. ASSUME NEW t \in Threads, NEW o \in All
      PROVE  /\ \A l \in Levels : Submit(t, o, l) => MapInv'
             /\ Flush(t, o) => MapInv'
  BY <1>2 DEF Submit, Flush, objects
<1>8. ASSUME NEW t \in Threads, CallStep(t)
      PROVE  MapInv'
  BY <1>2, <1>8 DEF CallStep, TestLevel, TakeLock, GoToRoot, CallAppender, AppenderThrows,
                    EndOfList, objects, totals
<1>9. QED
  BY <1>3, <1>4, <1>5, <1>6, <1>7, <1>8 DEF Next, ManagerStep

(* Whoever asks for a name gets the same logger, whoever asks for another  *)
(* name gets another, and each of them passes its records on to ROOT.      *)
THEOREM OneLoggerPerNameHolds == Spec => []OneLoggerPerName
<1>1. Init => MapInv
  BY InitListInv
<1>2. MapInv /\ [Next]_vars => MapInv'
  BY StepMap
<1>3. MapInv => OneLoggerPerName
  <2> SUFFICES ASSUME MapInv, NEW p \in got, NEW q \in got
               PROVE  ((p[1] = q[1]) <=> (p[2] = q[2])) /\ root[p[2]] = Root
    BY DEF OneLoggerPerName
  <2>1. \A r \in {p, q} : r[1] \in Names /\ r[2] \in Loggers /\ loggerMap[r[1]] = r[2] /\ r[2] # Null
    BY ConstantsAssumption DEF MapInv, TypeOK, HistoryOK, All
  <2>2. QED
    BY <2>1 DEF MapInv
<1>4. QED
  BY <1>1, <1>2, <1>3, PTL DEF Spec
-----------------------------------------------------------------------------
(* shouldLog() as answers for all loggers at once, with the roots rt.      *)
Answers(should, rt, l) ==
  \A p \in All : should[p] <=> /\ ~Less(l, level[p])
                               /\ list[p] # << >> \/ (rt[p] # Null /\ should[rt[p]])

LEMMA ShouldLogIsAnswers ==
  \A o, l : ShouldLog(o, l) <=> \E should \in [All -> BOOLEAN] : Answers(should, root, l) /\ should[o]
BY DEF ShouldLog, Answers

(* There are answers whatever the roots, circles of them included: a set   *)
(* of loggers that takes in every logger it lets answer TRUE has a least   *)
(* one below it, which is a fixed point (Knaster and Tarski).              *)
LEMMA AnswersExist ==
  ASSUME NEW rt \in [All -> All \union {Null}], NEW l
  PROVE  \E should \in [All -> BOOLEAN] : Answers(should, rt, l)
<1> DEFINE F(S) == {p \in All : ~Less(l, level[p]) /\ (list[p] # << >> \/ (rt[p] # Null /\ rt[p] \in S))}
           Least == {p \in All : \A S \in SUBSET All : F(S) \subseteq S => p \in S}
           answer == [p \in All |-> IF p \in Least THEN TRUE ELSE FALSE]
<1>1. \A S, T : S \subseteq T => F(S) \subseteq F(T)
  OBVIOUS
<1>2. \A S : F(S) \in SUBSET All
  OBVIOUS
<1>3. \A S \in SUBSET All : F(S) \subseteq S => Least \subseteq S
  OBVIOUS
<1>4. Least \subseteq All /\ \A p \in All : (\A S \in SUBSET All : F(S) \subseteq S => p \in S) => p \in Least
  OBVIOUS
<1>5. \A p \in F(Least) : p \in All
  OBVIOUS
<1>6. \A p \in All : p \in F(Least) <=>
        ~Less(l, level[p]) /\ (list[p] # << >> \/ (rt[p] # Null /\ rt[p] \in Least))
  OBVIOUS
<1> HIDE DEF F, Least
<1>7. answer \in [All -> BOOLEAN] /\ \A p \in All : answer[p] <=> p \in Least
  OBVIOUS
<1> HIDE DEF answer
<1>8. \A S \in SUBSET All : F(S) \subseteq S => F(Least) \subseteq S
  BY <1>1, <1>3
<1>9. F(Least) \subseteq Least
  BY <1>4, <1>5, <1>8
<1>10. Least \subseteq F(Least)
  BY <1>1, <1>2, <1>3, <1>9
<1>11. \A p \in All : answer[p] <=> ~Less(l, level[p]) /\ (list[p] # << >> \/ (rt[p] # Null /\ rt[p] \in Least))
  BY <1>6, <1>7, <1>9, <1>10
<1>12. \A p \in All : rt[p] # Null => (rt[p] \in Least <=> answer[rt[p]])
  BY <1>7
<1>13. Answers(answer, rt, l)
  BY <1>11, <1>12 DEF Answers
<1>14. QED
  BY <1>7, <1>13

(* shouldLog() of a logger is what its level, its list and shouldLog() of  *)
(* its root make of it.                                                    *)
LEMMA ShouldLogUnfolds ==
  ASSUME TypeOK, NEW o \in All, NEW l
  PROVE  ShouldLog(o, l) <=> ~Less(l, level[o]) /\ (list[o] # << >> \/ RootAnswers(o, l))
<1>1. root \in [All -> All \union {Null}]
  BY DEF TypeOK, ObjectsOK
<1>2. ASSUME ShouldLog(o, l)
      PROVE  ~Less(l, level[o]) /\ (list[o] # << >> \/ RootAnswers(o, l))
  <2>1. PICK should \in [All -> BOOLEAN] : Answers(should, root, l) /\ should[o]
    BY <1>2, ShouldLogIsAnswers
  <2>2. ~Less(l, level[o]) /\ (list[o] # << >> \/ (root[o] # Null /\ should[root[o]]))
    BY <2>1 DEF Answers
  <2>3. should[root[o]] => ShouldLog(root[o], l)
    BY <2>1, ShouldLogIsAnswers
  <2>4. QED
    BY <2>2, <2>3 DEF RootAnswers
<1>3. ASSUME ~Less(l, level[o]), list[o] # << >>
      PROVE  ShouldLog(o, l)
  <2>1. PICK should \in [All -> BOOLEAN] : Answers(should, root, l)
    BY <1>1, AnswersExist
  <2>2. should[o]
    BY <1>3, <2>1 DEF Answers
  <2>3. QED
    BY <2>1, <2>2, ShouldLogIsAnswers
<1>4. ASSUME ~Less(l, level[o]), RootAnswers(o, l)
      PROVE  ShouldLog(o, l)
  <2>1. PICK should \in [All -> BOOLEAN] : Answers(should, root, l) /\ should[root[o]]
    BY <1>4, ShouldLogIsAnswers DEF RootAnswers
  <2>2. should[o]
    BY <1>4, <2>1 DEF Answers, RootAnswers
  <2>3. QED
    BY <2>1, <2>2, ShouldLogIsAnswers
<1>5. QED
  BY <1>2, <1>3, <1>4

(* The loggers of M are the only ones that are roots.                      *)
RootsIn(rt, M) == M \subseteq All /\ rt \in [All -> M \union {Null}]

(* The answers of loggers whose roots stay theirs do not depend on those   *)
(* of the others.                                                          *)
LEMMA AnswersOfSome ==
  ASSUME NEW M, NEW old, NEW new, RootsIn(old, M), RootsIn(new, M), \A p \in M : new[p] = old[p],
         NEW l, NEW should \in [All -> BOOLEAN], Answers(should, old, l)
  PROVE  \E s \in [All -> BOOLEAN] : Answers(s, new, l) /\ \A p \in M : s[p] = should[p]
<1> USE DEF RootsIn
<1> DEFINE s == [p \in All |-> IF p \in M THEN should[p]
                               ELSE ~Less(l, level[p]) /\ (list[p] # << >> \/ (new[p] # Null /\ should[new[p]]))]
<1>1. \A p \in M : s[p] = should[p]
  OBVIOUS
<1>2. \A p \in All : s[p] <=> ~Less(l, level[p]) /\ (list[p] # << >> \/ (new[p] # Null /\ should[new[p]]))
  <2>1. ASSUME NEW p \in M
        PROVE  should[p] <=> ~Less(l, level[p]) /\ (list[p] # << >> \/ (new[p] # Null /\ should[new[p]]))
    BY DEF Answers
  <2>2. QED
    BY <2>1
<1>3. s \in [All -> BOOLEAN]
  BY <1>2
<1> HIDE DEF s
<1>4. \A p \in All : new[p] # Null => s[new[p]] = should[new[p]]
  BY <1>1
<1>5. Answers(s, new, l)
  BY <1>2, <1>4 DEF Answers
<1>6. QED
  BY <1>1, <1>3, <1>5

LEMMA AnswersOfMade ==
  ASSUME NEW r1, NEW r2, RootsIn(r1, made), RootsIn(r2, made), \A p \in made : r2[p] = r1[p],
         NEW l, NEW o \in made
  PROVE  (\E should \in [All -> BOOLEAN] : Answers(should, r1, l) /\ should[o])
           <=> \E should \in [All -> BOOLEAN] : Answers(should, r2, l) /\ should[o]
<1>1. ASSUME NEW should \in [All -> BOOLEAN], Answers(should, r1, l), should[o]
      PROVE  \E s \in [All -> BOOLEAN] : Answers(s, r2, l) /\ s[o]
  <2>1. PICK s \in [All -> BOOLEAN] : Answers(s, r2, l) /\ \A p \in made : s[p] = should[p]
    BY <1>1, AnswersOfSome
  <2>2. QED
    BY <1>1, <2>1
<1>2. ASSUME NEW should \in [All -> BOOLEAN], Answers(should, r2, l), should[o]
      PROVE  \E s \in [All -> BOOLEAN] : Answers(s, r1, l) /\ s[o]
  <2>1. PICK s \in [All -> BOOLEAN] : Answers(s, r1, l) /\ \A p \in made : s[p] = should[p]
    BY <1>2, AnswersOfSome
  <2>2. QED
    BY <1>2, <2>1
<1>3. QED
  BY <1>1, <1>2

(* A new logger changes the answer of none that was there.                 *)
LEMMA NewLoggerAnswers ==
  ASSUME AnswerInv, UNCHANGED <<level, list>>, TypeOK',
         \A p \in made : root'[p] = root[p], \A p \in All : root'[p] \in made \union {Null},
         NEW o \in made, NEW l
  PROVE  ShouldLog(o, l)' <=> ShouldLog(o, l)
<1>1. RootsIn(root, made) /\ RootsIn(root', made)
  BY DEF AnswerInv, RootsMade, TypeOK, ObjectsOK, RootsIn
<1>2. ShouldLog(o, l)' <=> \E should \in [All -> BOOLEAN] : Answers(should, root', l) /\ should[o]
  BY DEF ShouldLog, Answers, All
<1>3. UNCHANGED <<level, list>> /\ \A p \in made : root'[p] = root[p]
  OBVIOUS
<1>4. (\E should \in [All -> BOOLEAN] : Answers(should, root, l) /\ should[o])
        <=> \E should \in [All -> BOOLEAN] : Answers(should, root', l) /\ should[o]
  BY <1>1, <1>3, AnswersOfMade
<1>5. QED
  BY <1>2, <1>4, ShouldLogIsAnswers
-----------------------------------------------------------------------------
LEMMA StepRootsMade ==
  ASSUME AnswerInv, [Next]_vars
  PROVE  RootsMade'
<1> USE DEF AnswerInv
<1>1. CASE UNCHANGED <<root, made, at>>
  BY <1>1 DEF RootsMade
<1>2. ASSUME NEW o \in Loggers, NEW r \in made \union {Null},
             made' = made \union {o}, root' = [root EXCEPT ![o] = r], UNCHANGED at
      PROVE  RootsMade'
  BY <1>2 DEF RootsMade, TypeOK, ObjectsOK
<1>3. CASE ManagerStep
  <2>1. Root \in made
    BY DEF TypeOK, ObjectsOK
  <2>2. QED
    BY <1>1, <1>2, <1>3, <2>1 DEF ManagerStep, Construct, GetLogger, thread
<1>4. CASE ChangeStep \/ UNCHANGED vars
  BY <1>1, <1>4 DEF ChangeStep, SetLogLevel, AddAppender, RemoveAppender, ClearAppenders, Change,
                    vars, objects, thread
<1>5. ASSUME NEW t \in Threads, NEW o \in made, at' = [at EXCEPT ![t] = o], UNCHANGED objects
      PROVE  RootsMade'
  BY <1>5 DEF RootsMade, TypeOK, ThreadsOK, objects
<1>6. ASSUME NEW t \in Threads, NEW o \in All
      PROVE  /\ \A l \in Levels : Submit(t, o, l) => RootsMade'
             /\ Flush(t, o) => RootsMade'
  BY <1>5 DEF Submit, Flush
<1>7. ASSUME NEW t \in Threads, CallStep(t)
      PROVE  RootsMade'
  <2>1. ASSUME NEW r, Return(t, r), UNCHANGED objects
        PROVE  RootsMade'
    BY <1>5, <2>1 DEF Return, TypeOK, ObjectsOK
  <2>2. CASE TestLevel(t)
    BY <1>1, <2>1, <2>2 DEF TestLevel, objects
  <2>3. CASE TakeLock(t) \/ CallAppender(t)
    BY <1>1, <2>3 DEF TakeLock, CallAppender, objects
  <2>4. CASE GoToRoot(t)
    <3>1. root[at[t]] \in made \union {Null}
      BY DEF RootsMade, TypeOK, ThreadsOK
    <3>2. QED
      BY <1>5, <2>1, <2>4, <3>1 DEF GoToRoot
  <2>5. CASE AppenderThrows(t) \/ EndOfList(t)
    BY <2>1, <2>5 DEF AppenderThrows, EndOfList
  <2>6. QED
    BY <1>7, <2>2, <2>3, <2>4, <2>5 DEF CallStep
<1>8. QED
  BY <1>3, <1>4, <1>6, <1>7 DEF Next

(* A step of one thread leaves the others' calls as they were.             *)
LEMMA OtherAnswer ==
  ASSUME AnswerInv, NEW t \in Threads, NEW u \in Threads, u # t, CallStep(t)
  PROVE  /\ UNCHANGED objects
         /\ pc'[u] = pc[u] /\ op'[u] = op[u] /\ at'[u] = at[u] /\ rec'[u] = rec[u]
         /\ asked'[u] = asked[u] /\ changed'[u] = changed[u]
<1> USE DEF AnswerInv, TypeOK, ThreadsOK, HistoryOK
<1>1. ASSUME NEW r, Return(t, r)
      PROVE  /\ pc'[u] = pc[u] /\ op'[u] = op[u] /\ at'[u] = at[u] /\ rec'[u] = rec[u]
             /\ asked'[u] = asked[u] /\ changed'[u] = changed[u]
  BY <1>1 DEF Return
<1>2. CASE TestLevel(t)
  BY <1>1, <1>2 DEF TestLevel, perCall
<1>3. CASE TakeLock(t)
  BY <1>3 DEF TakeLock
<1>4. CASE GoToRoot(t)
  BY <1>1, <1>4 DEF GoToRoot, perCall
<1>5. CASE CallAppender(t)
  BY <1>5 DEF CallAppender, perCall
<1>6. CASE AppenderThrows(t) \/ EndOfList(t)
  BY <1>1, <1>6 DEF AppenderThrows, EndOfList
<1>7. QED
  BY <1>2, <1>3, <1>4, <1>5, <1>6 DEF CallStep

LEMMA SameAnswerAhead ==
  ASSUME NEW u \in Threads, AnswerAhead(u), UNCHANGED objects,
         pc'[u] = pc[u], at'[u] = at[u], rec'[u] = rec[u], asked'[u] = asked[u]
  PROVE  AnswerAhead(u)'
BY DEF AnswerAhead, RootAnswers, ShouldLog, objects, All

(* A step of the call brings it closer to what shouldLog() answered.       *)
LEMMA CallAnswer ==
  ASSUME AnswerInv, NEW t \in Threads, CallStep(t), op[t] = "submit", ~changed[t]
  PROVE  /\ op'[t] = "submit" => AnswerAhead(t)'
         /\ Returns(t) => (asked[t] <=> result'[t] \in {"all", "failed"})
<1> USE DEF AnswerInv, TypeOK, ThreadsOK, HistoryOK
<1>1. AnswerAhead(t) /\ at[t] \in All
  OBVIOUS
<1>2. \A l, o : UNCHANGED objects => (ShouldLog(o, l)' <=> ShouldLog(o, l)) /\ (RootAnswers(o, l)' <=> RootAnswers(o, l))
  BY DEF ShouldLog, RootAnswers, objects, All
<1>3. ASSUME NEW r, Return(t, r)
      PROVE  op'[t] # "submit" /\ result'[t] = r
  BY <1>3 DEF Return
<1>4. ShouldLog(at[t], rec[t]) <=>
        ~Less(rec[t], level[at[t]]) /\ (list[at[t]] # << >> \/ RootAnswers(at[t], rec[t]))
  BY <1>1, ShouldLogUnfolds
<1>5. CASE TestLevel(t)
  <2>1. asked[t] <=> ShouldLog(at[t], rec[t])
    BY <1>1, <1>5 DEF TestLevel, AnswerAhead
  <2>2. CASE Less(rec[t], level[at[t]])
    <3>1. ~asked[t] /\ Return(t, "filtered")
      BY <1>4, <1>5, <2>1, <2>2 DEF TestLevel
    <3>2. QED
      BY <1>3, <3>1
  <2>3. CASE ~Less(rec[t], level[at[t]])
    <3>1. /\ pc'[t] = "lock" /\ at'[t] = at[t] /\ rec'[t] = rec[t] /\ asked'[t] = asked[t]
          /\ UNCHANGED objects
      BY <1>5, <2>3 DEF TestLevel, perCall
    <3>2. asked[t] <=> list[at[t]] # << >> \/ RootAnswers(at[t], rec[t])
      BY <1>4, <2>1, <2>3
    <3>3. (RootAnswers(at[t], rec[t]) <=> RootAnswers(at[t], rec[t])') /\ list' = list
      BY <3>1 DEF RootAnswers, ShouldLog, objects, All
    <3>4. QED
      BY <3>1, <3>2, <3>3 DEF AnswerAhead, Returns
  <2>4. QED
    BY <2>2, <2>3
<1>6. CASE TakeLock(t)
  <2>1. /\ pc'[t] = IF list[at[t]] = << >> THEN "root" ELSE "append"
        /\ at'[t] = at[t] /\ rec'[t] = rec[t] /\ asked'[t] = asked[t] /\ UNCHANGED objects
    BY <1>6 DEF TakeLock
  <2>2. asked[t] <=> list[at[t]] # << >> \/ RootAnswers(at[t], rec[t])
    BY <1>1, <1>6 DEF TakeLock, AnswerAhead
  <2>3. RootAnswers(at[t], rec[t]) <=> RootAnswers(at[t], rec[t])'
    BY <2>1 DEF RootAnswers, ShouldLog, objects, All
  <2>4. QED
    BY <2>1, <2>2, <2>3 DEF AnswerAhead, Returns
<1>7. CASE GoToRoot(t)
  <2>1. asked[t] <=> RootAnswers(at[t], rec[t])
    BY <1>1, <1>7 DEF GoToRoot, AnswerAhead
  <2>2. CASE root[at[t]] = Null
    <3>1. ~asked[t] /\ Return(t, "nowhere")
      BY <1>7, <2>1, <2>2 DEF GoToRoot, RootAnswers
    <3>2. QED
      BY <1>3, <3>1
  <2>3. CASE root[at[t]] # Null
    <3>1. /\ pc'[t] = "level" /\ at'[t] = root[at[t]] /\ rec'[t] = rec[t] /\ asked'[t] = asked[t]
          /\ UNCHANGED objects
      BY <1>7, <2>3 DEF GoToRoot, perCall
    <3>2. asked[t] <=> ShouldLog(root[at[t]], rec[t])
      BY <2>1, <2>3 DEF RootAnswers
    <3>3. ShouldLog(root[at[t]], rec[t]) <=> ShouldLog(at[t], rec[t])'
      BY <3>1 DEF ShouldLog, objects, All
    <3>4. QED
      BY <3>1, <3>2, <3>3 DEF AnswerAhead, Returns
  <2>4. QED
    BY <2>2, <2>3
<1>8. CASE CallAppender(t)
  <2>1. pc'[t] = "append" /\ asked'[t] = asked[t] /\ asked[t]
    BY <1>1, <1>8 DEF CallAppender, InList, AnswerAhead, perCall
  <2>2. QED
    BY <2>1 DEF AnswerAhead, Returns
<1>9. CASE AppenderThrows(t) \/ EndOfList(t)
  <2>1. asked[t]
    BY <1>1, <1>9 DEF AppenderThrows, EndOfList, InList, AnswerAhead
  <2>2. Return(t, "failed") \/ Return(t, "all")
    BY <1>9 DEF AppenderThrows, EndOfList
  <2>3. QED
    BY <1>3, <2>1, <2>2
<1>10. QED
  BY <1>5, <1>6, <1>7, <1>8, <1>9 DEF CallStep

LEMMA StepAnswer ==
  ASSUME AnswerInv, [Next]_vars
  PROVE  AnswerInv'
<1>1. TypeOK' /\ RootsMade'
  BY StepType, StepRootsMade DEF AnswerInv
<1> SUFFICES ASSUME NEW u \in Threads, op'[u] = "submit", ~changed'[u]
             PROVE  AnswerAhead(u)'
  BY <1>1 DEF AnswerInv
<1> USE DEF AnswerInv
<1>2. CASE UNCHANGED vars
  <2>1. AnswerAhead(u) /\ UNCHANGED objects /\ UNCHANGED <<pc, at, rec, asked>>
    BY <1>2 DEF vars, thread, perCall
  <2>2. QED
    BY <2>1, SameAnswerAhead
<1>3. CASE ManagerStep
  <2>1. UNCHANGED <<level, list, thread, perCall>> /\ \A p \in made : root'[p] = root[p]
    BY <1>3 DEF ManagerStep, Construct, GetLogger, TypeOK, ObjectsOK
  <2>2. \A p \in All : root'[p] \in made \union {Null}
    <3>1. Root \in made
      BY DEF TypeOK, ObjectsOK
    <3>2. QED
      BY <1>3, <3>1 DEF ManagerStep, Construct, GetLogger, RootsMade, TypeOK, ObjectsOK
  <2>3. AnswerAhead(u) /\ at[u] \in made /\ UNCHANGED <<pc, at, rec, asked, list>>
    BY <2>1 DEF thread, perCall, RootsMade
  <2>4. root'[at[u]] = root[at[u]] /\ (root[at[u]] # Null => root[at[u]] \in made)
    BY <2>1, <2>3 DEF RootsMade, TypeOK, ObjectsOK
  <2>5. \A o \in made : \A l : ShouldLog(o, l)' <=> ShouldLog(o, l)
    BY <1>1, <2>1, <2>2, NewLoggerAnswers
  <2>6. ShouldLog(at[u], rec[u])' <=> ShouldLog(at[u], rec[u])
    BY <2>3, <2>5
  <2>7. RootAnswers(at[u], rec[u])' <=> RootAnswers(at[u], rec[u])
    BY <2>3, <2>4, <2>5 DEF RootAnswers
  <2>8. QED
    BY <2>3, <2>6, <2>7 DEF AnswerAhead
<1>4. CASE ChangeStep
  <2>1. changed'[u] = (pc[u] # "idle") /\ UNCHANGED pc
    BY <1>4 DEF ChangeStep, SetLogLevel, AddAppender, RemoveAppender, ClearAppenders, Change, thread
  <2>2. QED
    BY <2>1 DEF AnswerAhead
<1>5. ASSUME NEW t \in Threads, NEW o \in All, NEW l \in Levels, Submit(t, o, l)
      PROVE  AnswerAhead(u)'
  <2>1. UNCHANGED objects /\ changed' = changed
    BY <1>5 DEF Submit
  <2>2. CASE u = t
    <3>1. pc'[u] = "level" /\ at'[u] = o /\ rec'[u] = l /\ asked'[u] = ShouldLog(o, l)
      BY <1>5, <2>2 DEF Submit, TypeOK, ThreadsOK, HistoryOK
    <3>2. ShouldLog(o, l) <=> ShouldLog(at[u], rec[u])'
      BY <2>1, <3>1 DEF ShouldLog, objects, All
    <3>3. QED
      BY <3>1, <3>2 DEF AnswerAhead
  <2>3. CASE u # t
    <3>1. pc'[u] = pc[u] /\ op'[u] = op[u] /\ at'[u] = at[u] /\ rec'[u] = rec[u] /\ asked'[u] = asked[u]
      BY <1>5, <2>3 DEF Submit, TypeOK, ThreadsOK, HistoryOK
    <3>2. QED
      BY <2>1, <3>1, SameAnswerAhead
  <2>4. QED
    BY <2>2, <2>3
<1>6. ASSUME NEW t \in Threads, NEW o \in All, Flush(t, o)
      PROVE  AnswerAhead(u)'
  <2>1. u # t
    BY <1>6 DEF Flush, TypeOK, ThreadsOK
  <2>2. /\ UNCHANGED <<objects, changed>>
        /\ pc'[u] = pc[u] /\ op'[u] = op[u] /\ at'[u] = at[u] /\ rec'[u] = rec[u] /\ asked'[u] = asked[u]
    BY <1>6, <2>1 DEF Flush, TypeOK, ThreadsOK, HistoryOK, perCall
  <2>3. QED
    BY <2>2, SameAnswerAhead
<1>7. ASSUME NEW t \in Threads, CallStep(t)
      PROVE  AnswerAhead(u)'
  <2>1. CASE u = t
    <3>1. op[t] = "submit" /\ ~changed[t]
      <4>1. \A r : Return(t, r) => op'[t] # "submit"
        BY DEF Return, TypeOK, ThreadsOK
      <4>2. op'[t] = op[t] /\ changed'[t] = changed[t]
        BY <1>7, <2>1, <4>1 DEF CallStep, TestLevel, TakeLock, GoToRoot, CallAppender, AppenderThrows,
                                EndOfList, perCall
      <4>3. QED
        BY <2>1, <4>2
    <3>2. QED
      BY <1>7, <2>1, <3>1, CallAnswer
  <2>2. CASE u # t
    BY <1>7, <2>2, OtherAnswer, SameAnswerAhead
  <2>3. QED
    BY <2>1, <2>2
<1>8. QED
  BY <1>2, <1>3, <1>4, <1>5, <1>6, <1>7 DEF Next

LEMMA InitAnswer == Init => AnswerInv
<1> SUFFICES ASSUME Init PROVE AnswerInv
  OBVIOUS
<1>1. TypeOK
  BY InitListInv DEF ListInv
<1>2. RootsMade /\ \A t \in Threads : op[t] = "none"
  BY DEF Init, RootsMade
<1>3. QED
  BY <1>1, <1>2 DEF AnswerInv

(* submit() does what shouldLog() said before the call, if nobody changes  *)
(* a level or a list in between, whatever loggers others make meanwhile.   *)
THEOREM SubmitAsShouldLogHolds == Spec => SubmitAsShouldLog
<1>1. AnswerInv /\ ListInv /\ [Next]_vars =>
        [\A t \in Threads : Returns(t) /\ op[t] = "submit" /\ ~changed[t] =>
           (asked[t] <=> result'[t] \in {"all", "failed"})]_vars
  <2> SUFFICES ASSUME AnswerInv, ListInv, [Next]_vars, NEW t \in Threads,
                      Returns(t), op[t] = "submit", ~changed[t]
               PROVE  asked[t] <=> result'[t] \in {"all", "failed"}
    OBVIOUS
  <2>1. CallStep(t)
    BY ReturningThread
  <2>2. QED
    BY <2>1, CallAnswer
<1>2. AnswerInv /\ [Next]_vars => AnswerInv'
  BY StepAnswer
<1>3. QED
  BY <1>1, <1>2, InitAnswer, ListInvHolds, PTL DEF Spec, SubmitAsShouldLog
=============================================================================
