--------------------------- MODULE CsvDiffProofs ----------------------------
(***************************************************************************)
(* Safety of csv-diff for every number of inputs and all files: the        *)
(* inductive invariant of CsvDiff, what follows from it, and the proof     *)
(* that the threads implement LockstepDiff.                                *)
(***************************************************************************)
EXTENDS CsvDiff, FiniteSets, FiniteSetTheorems, TLAPS

\* Thread i has counted its current row or end of file, and waits for, or has
\* not noticed yet, its release by the main thread.
Arrived(i) == wpc[i] \in AfterCount /\ (eof[i] \/ ~consumed[i])

\* Thread i has parked a row or seen the end of its file.
Parked(i) == wpc[i] \in {"publish", "glock", "count"} \/ Arrived(i)

ArrivedThisRound == {i \in Inputs : Arrived(i)} \ Pending
Ended == {i \in Inputs : eof[i] /\ wpc[i] \in AfterCount}

\* The counters of the barrier count the threads, and main works on a round
\* only when all threads have arrived with a row.
Barrier ==
    /\ threadsReady = Cardinality(ArrivedThisRound)
    /\ eofs = Cardinality(Ended)
    /\ \A i \in Pending : Arrived(i) /\ ~eof[i]
    /\ mpc = "join" => Ended = Inputs
    /\ mpc \in {"gcheck", "glock", "gwait", "gwoken", "compare"} => cur = 1

\* Where thread i is in its file, relative to the main thread.
ThreadProgress(i) ==
    /\ wpc[i] = "none" <=> mpc = "create" /\ cur <= i
    /\ wpc[i] \in {"finish", "destroy", "done"} => eof[i]
    /\ pos[i] <= Len(file[i].rows)
    /\ eof[i] =>
          /\ Parked(i) /\ wpc[i] \notin {"check", "wait", "woken"}
          /\ pos[i] = Len(file[i].rows) /\ pos[i] = Released(i)
          /\ ~file[i].corrupted
    /\ Parked(i) /\ ~eof[i] =>
          /\ pos[i] = Released(i) + 1
          /\ buf[i] = file[i].rows[pos[i]]
          /\ ~consumed[i]
    /\ ~Parked(i) => pos[i] = Released(i)

Progress == \A i \in Inputs : ThreadProgress(i)

\* What main knows about the rounds it has compared.
Judged ==
    /\ ret = 1 <=> \E k \in 1 .. (IF mpc = "emit" THEN round + 1 ELSE round) : ~SameRows(k)
    /\ status \in {0, 1} => mpc = "join"

\* The inductive invariant.
IInv ==
    /\ TypeOK /\ MutexUse /\ NoLostWakeup /\ VerdictSound
    /\ Barrier /\ Progress /\ Judged

-----------------------------------------------------------------------------
(* Facts about the constants *)

\* Inputs is a finite set of Ninputs elements.
LEMMA InputsFinite == IsFiniteSet(Inputs) /\ Cardinality(Inputs) = Ninputs
  BY FS_Interval, NinputsAssumption DEF Inputs

\* A set of inputs has at most Ninputs elements, and Ninputs only if it is full.
LEMMA InputSubset ==
  ASSUME NEW S \in SUBSET Inputs
  PROVE  /\ IsFiniteSet(S)
         /\ Cardinality(S) \in 0 .. Ninputs
         /\ Cardinality(S) = Ninputs <=> S = Inputs
         /\ Cardinality(S) = 0 <=> S = {}
  <1>1. IsFiniteSet(S) /\ Cardinality(S) <= Ninputs /\ (Cardinality(S) = Ninputs => S = Inputs)
    BY FS_Subset, InputsFinite
  <1>2. Cardinality(S) \in Nat
    BY <1>1, FS_CardinalityType
  <1>3. Cardinality(S) = 0 <=> S = {}
    BY <1>1, FS_EmptySet
  <1> QED
    BY <1>1, <1>2, <1>3, InputsFinite, NinputsAssumption

\* One more input in a set of inputs.
LEMMA InputAdded ==
  ASSUME NEW S \in SUBSET Inputs, NEW i \in Inputs, i \notin S
  PROVE  Cardinality(S \cup {i}) = Cardinality(S) + 1
  BY InputSubset, FS_AddElement

\* What a file of the command line is.
LEMMA FileType ==
  ASSUME TypeOK, NEW i \in Inputs
  PROVE  file[i].rows \in Seq(Row) /\ file[i].corrupted \in BOOLEAN /\ Len(file[i].rows) \in Nat
  BY FilesAssumption DEF TypeOK

\* The row of a file behind a place before its end is a row.
LEMMA NextRowType ==
  ASSUME TypeOK, NEW i \in Inputs, NEW p \in Nat, p < Len(file[i].rows)
  PROVE  file[i].rows[p + 1] \in Row
  <1>1. ASSUME NEW rows \in Seq(Row), p < Len(rows) PROVE rows[p + 1] \in Row
    BY ONLY <1>1, p \in Nat
  <1> QED
    BY <1>1, FileType

\* The columns that differ are compared columns.
LEMMA DifferingColumnsType == \A r : DifferingColumns(r) \in SUBSET Headers
  BY DEF DifferingColumns

-----------------------------------------------------------------------------
(* The initial states *)

\* The invariant holds before any thread is created.
LEMMA InitInv == Init => IInv
  <1> SUFFICES ASSUME Init PROVE IInv
    OBVIOUS
  <1> USE DEF Init
  <1>1. TypeOK
    BY NinputsAssumption, MaxSpuriousAssumption
    DEF TypeOK, Inputs, WorkerStates, MainStates, Running, Main, Nobody, Dead
  <1>2. MutexUse
    BY DEF MutexUse, WorkerHolds, LockedByMain, Pending, Inputs, Main, Nobody, Dead
  <1>3. NoLostWakeup
    BY DEF NoLostWakeup
  <1>4. VerdictSound
    BY DEF VerdictSound, Running
  <1>5. Barrier
    <2>1. ArrivedThisRound = {} /\ Ended = {} /\ Pending = {}
      BY DEF ArrivedThisRound, Arrived, Ended, Pending, AfterCount
    <2> QED
      BY <2>1, FS_EmptySet DEF Barrier
  <1>6. Progress
    <2>1. \A i \in Inputs : ~Parked(i) /\ Released(i) = 0
      BY DEF Parked, Arrived, AfterCount, Released
    <2> QED
      BY <1>1, <2>1, FileType DEF Progress, ThreadProgress, Inputs
  <1>7. Judged
    BY DEF Judged, Running
  <1> QED
    BY <1>1, <1>2, <1>3, <1>4, <1>5, <1>6, <1>7 DEF IInv

-----------------------------------------------------------------------------
(* Steps *)

\* A step of csv-diff with all its actions as separate disjuncts.
LEMMA NextCases ==
  ASSUME Next
  PROVE  \/ status = Running /\ CreateThread
         \/ status = Running /\ MainLockGlobal
         \/ status = Running /\ MainWait
         \/ status = Running /\ AllEnded
         \/ status = Running /\ SomeEnded
         \/ status = Running /\ BeginRound
         \/ status = Running /\ MainLockInput
         \/ status = Running /\ Compare
         \/ status = Running /\ Emit
         \/ status = Running /\ Join
         \/ status = Running /\ MainSpuriousWakeup
         \/ \E i \in Inputs : status = Running /\ (WorkerStep(i) \/ SpuriousWakeup(i))
         \/ UNCHANGED vars
  BY DEF Next, MainStep

\* A thread that is about to count itself has not been counted in this round,
\* so both counters of the barrier have room for it.
LEMMA RoomInBarrier ==
  ASSUME IInv, NEW i \in Inputs, wpc[i] = "count"
  PROVE  /\ threadsReady < Ninputs
         /\ eofs < Ninputs
  <1>1. ArrivedThisRound \in SUBSET Inputs /\ i \notin ArrivedThisRound
    BY DEF ArrivedThisRound, Arrived, AfterCount
  <1>2. Ended \in SUBSET Inputs /\ i \notin Ended
    BY DEF Ended, AfterCount
  <1>3. threadsReady \in 0 .. Ninputs /\ threadsReady # Ninputs
    BY <1>1, InputSubset DEF IInv, Barrier
  <1>4. eofs \in 0 .. Ninputs /\ eofs # Ninputs
    BY <1>2, InputSubset DEF IInv, Barrier
  <1> QED
    BY <1>3, <1>4, NinputsAssumption

\* Types are kept by every step.
LEMMA TypeStep == IInv /\ [Next]_vars => TypeOK'
  <1> SUFFICES ASSUME IInv, [Next]_vars PROVE TypeOK'
    OBVIOUS
  <1>t. TypeOK
    BY DEF IInv
  <1> USE NinputsAssumption, MaxSpuriousAssumption
      DEF TypeOK, Inputs, WorkerStates, AfterCount, WorkerHolds, MainStates, Running, Main, Nobody, Dead
  <1>1. CASE CreateThread
    BY <1>t, <1>1 DEF CreateThread, NextInput, WorkerGoes, data, locks
  <1>2. CASE MainLockGlobal
    BY <1>t, <1>2 DEF MainLockGlobal, MainGoes, data
  <1>3. CASE MainWait
    BY <1>t, <1>3 DEF MainWait, MainGoes, data
  <1>4. CASE AllEnded
    BY <1>t, <1>4 DEF AllEnded, MainGoes, data
  <1>5. CASE SomeEnded
    BY <1>t, <1>5 DEF SomeEnded, data, locks, main
  <1>6. CASE BeginRound
    BY <1>t, <1>6 DEF BeginRound, MainGoes, data
  <1>7. CASE MainLockInput
    BY <1>t, <1>7 DEF MainLockInput, NextInput, data
  <1>8. CASE Compare
    BY <1>t, <1>8, DifferingColumnsType DEF Compare, MainGoes, data, locks
  <1>9. CASE Emit
    BY <1>t, <1>9 DEF Emit, NextInput
  <1>10. CASE Join
    BY <1>t, <1>10 DEF Join, data, locks
  <1>11. CASE MainSpuriousWakeup
    BY <1>t, <1>11 DEF MainSpuriousWakeup, MainGoes, data, locks
  <1>12. ASSUME NEW i \in Inputs, WorkerStep(i) \/ SpuriousWakeup(i)
         PROVE TypeOK'
    <2>1. CASE Start(i)
      BY <1>t, <2>1 DEF Start, WorkerGoes, main
    <2>2. CASE LockOwn(i)
      <3>1. /\ mtx' = [mtx EXCEPT ![i] = i] /\ wpc'[i] \in WorkerStates
            /\ wpc' = [wpc EXCEPT ![i] = wpc'[i]]
            /\ UNCHANGED <<data, global, threadsReady, eofs, main, status, spurious>>
        BY <1>t, <2>2 DEF LockOwn, WorkerGoes
      <3>2. wpc' \in [Inputs -> WorkerStates]
        BY <1>t, <3>1
      <3>3. mtx' \in [Inputs -> Inputs \cup {Main, Nobody, Dead}]
        BY <1>t, <3>1
      <3> QED
        BY <1>t, <3>1, <3>2, <3>3 DEF data, main
    <2>3. CASE ReadRow(i)
      <3>1. file[i].rows[pos[i] + 1] \in Row
        <4>1. pos[i] \in Nat /\ pos[i] < Len(file[i].rows)
          BY <1>t, <2>3 DEF ReadRow
        <4> QED BY ONLY <1>t, <1>12, <4>1, NextRowType
      <3>2. wpc' \in [Inputs -> WorkerStates]
        BY <1>t, <2>3 DEF ReadRow, WorkerGoes
      <3>3. pos' \in [Inputs -> Nat] /\ consumed' \in [Inputs -> BOOLEAN]
        BY <1>t, <2>3 DEF ReadRow
      <3>4. buf' \in [Inputs -> Row \cup {Torn}]
        BY <1>t, <2>3, <3>1 DEF ReadRow
      <3> QED
        BY <1>t, <2>3, <3>2, <3>3, <3>4 DEF ReadRow, locks, main
    <2>4. CASE ReadEof(i)
      BY <1>t, <2>4 DEF ReadEof, WorkerGoes, locks, main
    <2>5. CASE ReadCorrupted(i)
      BY <1>t, <2>5 DEF ReadCorrupted, data, locks, main
    <2>6. CASE Publish(i)
      BY <1>t, <2>6 DEF Publish, WorkerGoes, data, main
    <2>7. CASE LockGlobal(i)
      BY <1>t, <2>7 DEF LockGlobal, WorkerGoes, data, main
    <2>8. CASE Count(i)
      <3>1. threadsReady < Ninputs /\ eofs < Ninputs
        BY <2>8, RoomInBarrier DEF Count, WorkerGoes
      <3> QED
        BY <1>t, <2>8, <3>1 DEF Count, WorkerGoes, MainSignalled, data
    <2>9. CASE Check(i)
      BY <1>t, <2>9 DEF Check, WorkerGoes, main
    <2>10. CASE Finish(i)
      BY <1>t, <2>10 DEF Finish, WorkerGoes, data, main
    <2>11. CASE Destroy(i)
      BY <1>t, <2>11 DEF Destroy, WorkerGoes, data, main
    <2>12. CASE SpuriousWakeup(i)
      BY <1>t, <2>12 DEF SpuriousWakeup, WorkerGoes, data, locks, main
    <2> QED
      BY <1>12, <2>1, <2>2, <2>3, <2>4, <2>5, <2>6, <2>7, <2>8, <2>9, <2>10, <2>11, <2>12
      DEF WorkerStep
  <1>13. CASE UNCHANGED vars
    BY <1>t, <1>13 DEF vars, data, locks, main
  <1> QED
    BY <1>1, <1>2, <1>3, <1>4, <1>5, <1>6, <1>7, <1>8, <1>9, <1>10, <1>11, <1>12, <1>13, NextCases

\* When the barrier is full every thread has arrived, and Eofs tells which of
\* them have seen the end of their file.
LEMMA FullBarrier ==
  ASSUME IInv, mpc = "gcheck", threadsReady = Ninputs
  PROVE  /\ \A i \in Inputs : Arrived(i)
         /\ eofs = 0 => \A i \in Inputs : ~eof[i]
         /\ eofs = Ninputs => Ended = Inputs
         /\ eofs \notin {0, Ninputs} => \E i, j \in Inputs : eof[i] /\ ~eof[j]
  <1>1. ArrivedThisRound \in SUBSET Inputs /\ Ended \in SUBSET Inputs
    BY DEF ArrivedThisRound, Ended
  <1>2. ArrivedThisRound = Inputs
    BY <1>1, InputSubset DEF IInv, Barrier
  <1>3. \A i \in Inputs : Arrived(i)
    BY <1>2 DEF ArrivedThisRound
  <1>4. Ended = {i \in Inputs : eof[i]}
    BY <1>3 DEF Ended, Arrived
  <1>5. /\ eofs = Cardinality(Ended)
        /\ eofs = 0 <=> Ended = {}
        /\ eofs = Ninputs <=> Ended = Inputs
    BY <1>1, InputSubset DEF IInv, Barrier
  <1> QED
    BY <1>3, <1>4, <1>5

\* Mutexes keep to their discipline in every step.
LEMMA MutexStep == IInv /\ [Next]_vars => MutexUse'
  <1> SUFFICES ASSUME IInv, [Next]_vars PROVE MutexUse'
    OBVIOUS
  <1>t. /\ wpc \in [Inputs -> WorkerStates] /\ mpc \in MainStates /\ cur \in Inputs
        /\ mtx \in [Inputs -> Inputs \cup {Main, Nobody, Dead}]
        /\ global \in Inputs \cup {Main, Nobody}
    BY DEF IInv, TypeOK
  <1>m. MutexUse
    BY DEF IInv
  <1> USE NinputsAssumption DEF MutexUse, Inputs, WorkerStates, AfterCount, WorkerHolds, MainStates, LockedByMain,
                                Pending, Main, Nobody, Dead
  <1>1. CASE CreateThread
    BY <1>t, <1>m, <1>1 DEF CreateThread, NextInput, WorkerGoes, data, locks
  <1>2. CASE MainLockGlobal
    BY <1>t, <1>m, <1>2 DEF MainLockGlobal, MainGoes, data
  <1>3. CASE MainWait
    BY <1>t, <1>m, <1>3 DEF MainWait, MainGoes, data
  <1>4. CASE AllEnded
    BY <1>t, <1>m, <1>4 DEF AllEnded, MainGoes, data
  <1>5. CASE SomeEnded
    BY <1>t, <1>m, <1>5 DEF SomeEnded, data, locks, main
  <1>6. CASE BeginRound
    <2>1. \A i \in Inputs : wpc[i] \notin {"none", "start", "done"}
      BY <1>6, FullBarrier DEF BeginRound, MainGoes, Arrived, IInv, Progress, ThreadProgress
    <2>2. cur = 1
      BY <1>6 DEF IInv, Barrier, BeginRound, MainGoes
    <2> QED
      BY <1>t, <1>m, <1>6, <2>1, <2>2 DEF BeginRound, MainGoes, data
  <1>7. CASE MainLockInput
    BY <1>t, <1>m, <1>7 DEF MainLockInput, NextInput, data
  <1>8. CASE Compare
    <2>1. cur = 1
      BY <1>8 DEF IInv, Barrier, Compare, MainGoes
    <2> QED
      BY <1>t, <1>m, <1>8, <2>1 DEF Compare, MainGoes, data, locks
  <1>9. CASE Emit
    BY <1>t, <1>m, <1>9 DEF Emit, NextInput
  <1>10. CASE Join
    BY <1>t, <1>m, <1>10 DEF Join, data, locks
  <1>11. CASE MainSpuriousWakeup
    BY <1>t, <1>m, <1>11 DEF MainSpuriousWakeup, MainGoes, data, locks
  <1>12. ASSUME NEW i \in Inputs, WorkerStep(i) \/ SpuriousWakeup(i)
         PROVE MutexUse'
    <2>1. CASE Start(i)
      BY <1>t, <1>m, <2>1 DEF Start, WorkerGoes, main
    <2>2. CASE LockOwn(i)
      BY <1>t, <1>m, <2>2 DEF LockOwn, WorkerGoes, data, main
    <2>3. CASE ReadRow(i)
      BY <1>t, <1>m, <2>3 DEF ReadRow, WorkerGoes, locks, main
    <2>4. CASE ReadEof(i)
      BY <1>t, <1>m, <2>4 DEF ReadEof, WorkerGoes, locks, main
    <2>5. CASE ReadCorrupted(i)
      BY <1>t, <1>m, <2>5 DEF ReadCorrupted, data, locks, main
    <2>6. CASE Publish(i)
      BY <1>t, <1>m, <2>6 DEF Publish, WorkerGoes, data, main
    <2>7. CASE LockGlobal(i)
      BY <1>t, <1>m, <2>7 DEF LockGlobal, WorkerGoes, data, main
    <2>8. CASE Count(i)
      BY <1>t, <1>m, <2>8 DEF Count, WorkerGoes, MainSignalled, data
    <2>9. CASE Check(i)
      <3>1. CASE consumed[i]
        BY <1>t, <1>m, <2>9, <3>1 DEF Check, WorkerGoes, main
      <3>2. CASE ~consumed[i]
        BY <1>t, <1>m, <2>9, <3>2 DEF Check, WorkerGoes, main
      <3> QED
        BY <3>1, <3>2
    <2>10. CASE Finish(i)
      BY <1>t, <1>m, <2>10 DEF Finish, WorkerGoes, data, main
    <2>11. CASE Destroy(i)
      <3>1. i \notin Pending
        BY <2>11 DEF IInv, Barrier, Progress, ThreadProgress, Destroy, WorkerGoes
      <3> QED
        BY <1>t, <1>m, <2>11, <3>1 DEF Destroy, WorkerGoes, data, main
    <2>12. CASE SpuriousWakeup(i)
      BY <1>t, <1>m, <2>12 DEF SpuriousWakeup, WorkerGoes, data, locks, main
    <2> QED
      BY <1>12, <2>1, <2>2, <2>3, <2>4, <2>5, <2>6, <2>7, <2>8, <2>9, <2>10, <2>11, <2>12
      DEF WorkerStep
  <1>13. CASE UNCHANGED vars
    BY <1>t, <1>m, <1>13 DEF vars, data, locks, main
  <1> QED
    BY <1>1, <1>2, <1>3, <1>4, <1>5, <1>6, <1>7, <1>8, <1>9, <1>10, <1>11, <1>12, <1>13, NextCases

\* No step loses a wakeup.
LEMMA WakeupStep == IInv /\ [Next]_vars => NoLostWakeup'
  <1> SUFFICES ASSUME IInv, [Next]_vars PROVE NoLostWakeup'
    OBVIOUS
  <1>t. /\ wpc \in [Inputs -> WorkerStates] /\ mpc \in MainStates /\ cur \in Inputs
        /\ consumed \in [Inputs -> BOOLEAN] /\ threadsReady \in 0 .. Ninputs
    BY DEF IInv, TypeOK
  <1>m. NoLostWakeup
    BY DEF IInv
  <1> USE NinputsAssumption DEF NoLostWakeup, Inputs, WorkerStates, AfterCount, WorkerHolds, MainStates
  <1>1. CASE CreateThread
    BY <1>t, <1>m, <1>1 DEF CreateThread, NextInput, WorkerGoes, data, locks
  <1>2. CASE MainLockGlobal
    BY <1>t, <1>m, <1>2 DEF MainLockGlobal, MainGoes, data
  <1>3. CASE MainWait
    BY <1>t, <1>m, <1>3 DEF MainWait, MainGoes, data
  <1>4. CASE AllEnded
    BY <1>t, <1>m, <1>4 DEF AllEnded, MainGoes, data
  <1>5. CASE SomeEnded
    BY <1>t, <1>m, <1>5 DEF SomeEnded, data, locks, main
  <1>6. CASE BeginRound
    BY <1>t, <1>m, <1>6 DEF BeginRound, MainGoes, data
  <1>7. CASE MainLockInput
    BY <1>t, <1>m, <1>7 DEF MainLockInput, NextInput, data
  <1>8. CASE Compare
    BY <1>t, <1>m, <1>8 DEF Compare, MainGoes, data, locks
  <1>9. CASE Emit
    BY <1>t, <1>m, <1>9 DEF Emit, NextInput
  <1>10. CASE Join
    BY <1>t, <1>m, <1>10 DEF Join, data, locks
  <1>11. CASE MainSpuriousWakeup
    BY <1>t, <1>m, <1>11 DEF MainSpuriousWakeup, MainGoes, data, locks
  <1>12. ASSUME NEW i \in Inputs, WorkerStep(i) \/ SpuriousWakeup(i)
         PROVE NoLostWakeup'
    <2>1. CASE Start(i)
      BY <1>t, <1>m, <2>1 DEF Start, WorkerGoes, main
    <2>2. CASE LockOwn(i)
      BY <1>t, <1>m, <2>2 DEF LockOwn, WorkerGoes, data, main
    <2>3. CASE ReadRow(i)
      BY <1>t, <1>m, <2>3 DEF ReadRow, WorkerGoes, locks, main
    <2>4. CASE ReadEof(i)
      BY <1>t, <1>m, <2>4 DEF ReadEof, WorkerGoes, locks, main
    <2>5. CASE ReadCorrupted(i)
      BY <1>t, <1>m, <2>5 DEF ReadCorrupted, data, locks, main
    <2>6. CASE Publish(i)
      BY <1>t, <1>m, <2>6 DEF Publish, WorkerGoes, data, main
    <2>7. CASE LockGlobal(i)
      BY <1>t, <1>m, <2>7 DEF LockGlobal, WorkerGoes, data, main
    <2>8. CASE Count(i)
      BY <1>t, <1>m, <2>8 DEF Count, WorkerGoes, MainSignalled, data
    <2>9. CASE Check(i)
      BY <1>t, <1>m, <2>9 DEF Check, WorkerGoes, main
    <2>10. CASE Finish(i)
      BY <1>t, <1>m, <2>10 DEF Finish, WorkerGoes, data, main
    <2>11. CASE Destroy(i)
      BY <1>t, <1>m, <2>11 DEF Destroy, WorkerGoes, data, main
    <2>12. CASE SpuriousWakeup(i)
      BY <1>t, <1>m, <2>12 DEF SpuriousWakeup, WorkerGoes, data, locks, main
    <2> QED
      BY <1>12, <2>1, <2>2, <2>3, <2>4, <2>5, <2>6, <2>7, <2>8, <2>9, <2>10, <2>11, <2>12
      DEF WorkerStep
  <1>13. CASE UNCHANGED vars
    BY <1>t, <1>m, <1>13 DEF vars, data, locks, main
  <1> QED
    BY <1>1, <1>2, <1>3, <1>4, <1>5, <1>6, <1>7, <1>8, <1>9, <1>10, <1>11, <1>12, <1>13, NextCases

\* A step that moves neither thread i in its file nor its row leaves its
\* progress as it was.
LEMMA ProgressKept ==
    ASSUME NEW i \in Inputs, ThreadProgress(i),
           UNCHANGED <<file, pos[i], buf[i], consumed[i], eof[i], Released(i)>>,
           Parked(i)' <=> Parked(i),
           wpc'[i] = "none" <=> mpc' = "create" /\ cur' <= i,
           wpc'[i] \in {"finish", "destroy", "done"} => eof[i],
           eof[i] => wpc'[i] \notin {"check", "wait", "woken"}
    PROVE  ThreadProgress(i)'
  BY DEF ThreadProgress

\* Every step keeps the threads at most one row ahead of the main thread.
LEMMA ProgressStep == IInv /\ [Next]_vars => Progress'
  <1> SUFFICES ASSUME IInv, [Next]_vars PROVE Progress'
    OBVIOUS
  <1>t. TypeOK /\ TypeOK'
    BY TypeStep DEF IInv
  <1>m. Progress /\ Barrier
    BY DEF IInv
  <1>f. \A i \in Inputs : Len(file[i].rows) \in Nat
    BY <1>t, FileType
  <1> USE NinputsAssumption DEF TypeOK, Progress, ThreadProgress, Barrier, Parked, Arrived, Released, Pending, Inputs,
                                WorkerStates, AfterCount, WorkerHolds, MainStates
  <1>1. CASE CreateThread
    <2>1. UNCHANGED <<file, pos, buf, consumed, eof, round>> /\ mpc # "emit" /\ mpc' # "emit"
      BY <1>1 DEF CreateThread, NextInput, data
    <2>5. /\ mpc = "create" /\ cur \in 1 .. Ninputs /\ Ninputs \in Nat
          /\ IF cur = Ninputs THEN mpc' = "glock" /\ cur' = 1 ELSE mpc' = "create" /\ cur' = cur + 1
          /\ wpc[cur] = "none" /\ wpc' = [wpc EXCEPT ![cur] = "start"]
      BY <1>t, <1>1 DEF CreateThread, NextInput, WorkerGoes
    <2>3. ASSUME NEW j \in Inputs PROVE wpc'[j] = wpc[j] \/ (wpc[j] = "none" /\ wpc'[j] = "start")
      <3>1. wpc \in [Inputs -> WorkerStates]
        BY <1>t
      <3> QED BY ONLY <2>5, <3>1, j \in Inputs
    <2>2. ASSUME NEW j \in Inputs PROVE wpc'[j] = "none" <=> mpc' = "create" /\ cur' <= j
      <3>1. wpc \in [Inputs -> WorkerStates] /\ j \in 1 .. Ninputs
        BY <1>t
      <3>2. wpc[j] = "none" <=> cur <= j
        BY <1>m, <2>5
      <3>3. wpc'[j] = IF j = cur THEN "start" ELSE wpc[j]
        BY ONLY <2>5, <3>1
      <3> QED BY ONLY <2>5, <3>1, <3>2, <3>3
    <2>4. ASSUME NEW j \in Inputs PROVE ThreadProgress(j)'
      <3>1. ThreadProgress(j)
        BY <1>m
      <3>2. Released(j)' = Released(j) /\ (Parked(j)' <=> Parked(j))
        BY <2>1, <2>3
      <3>3. /\ wpc'[j] \in {"finish", "destroy", "done"} => wpc[j] \in {"finish", "destroy", "done"}
            /\ wpc'[j] \in {"check", "wait", "woken"} => wpc[j] \in {"check", "wait", "woken"}
        BY <2>3
      <3>4. /\ wpc'[j] \in {"finish", "destroy", "done"} => eof[j]
            /\ eof[j] => wpc'[j] \notin {"check", "wait", "woken"}
        BY <3>1, <3>3
      <3> QED BY ONLY <2>1, <2>2, <3>1, <3>2, <3>4, ProgressKept, j \in Inputs
    <2> QED BY ONLY <2>4 DEF Progress
  <1>2. CASE MainLockGlobal
    <2>1. /\ UNCHANGED <<file, pos, buf, consumed, eof, round, wpc, cur>>
          /\ mpc \notin {"create", "emit"} /\ mpc' \notin {"create", "emit"}
      BY <1>2 DEF MainLockGlobal, MainGoes, data
    <2>2. ASSUME NEW j \in Inputs PROVE ThreadProgress(j)'
      <3>1. ThreadProgress(j)
        BY <1>m
      <3>2. Released(j)' = Released(j) /\ (Parked(j)' <=> Parked(j))
        BY <2>1
      <3>3. /\ wpc'[j] = "none" <=> mpc' = "create" /\ cur' <= j
            /\ wpc'[j] \in {"finish", "destroy", "done"} => eof[j]
            /\ eof[j] => wpc'[j] \notin {"check", "wait", "woken"}
        BY <2>1, <3>1
      <3> QED BY ONLY <2>1, <3>1, <3>2, <3>3, ProgressKept, j \in Inputs
    <2> QED BY ONLY <2>2 DEF Progress
  <1>3. CASE MainWait
    BY <1>t, <1>m, <1>f, <1>3 DEF MainWait, MainGoes, data
  <1>4. CASE AllEnded
    BY <1>t, <1>m, <1>f, <1>4 DEF AllEnded, MainGoes, data
  <1>5. CASE SomeEnded
    BY <1>t, <1>m, <1>f, <1>5 DEF SomeEnded, data, locks, main
  <1>6. CASE BeginRound
    BY <1>t, <1>m, <1>f, <1>6 DEF BeginRound, MainGoes, data
  <1>7. CASE MainLockInput
    BY <1>t, <1>m, <1>f, <1>7 DEF MainLockInput, NextInput, data
  <1>8. CASE Compare
    BY <1>t, <1>m, <1>f, <1>8 DEF Compare, MainGoes, data, locks
  <1>9. CASE Emit
    BY <1>t, <1>m, <1>f, <1>9 DEF Emit, NextInput
  <1>10. CASE Join
    BY <1>t, <1>m, <1>f, <1>10 DEF Join, data, locks
  <1>11. CASE MainSpuriousWakeup
    BY <1>t, <1>m, <1>f, <1>11 DEF MainSpuriousWakeup, MainGoes, data, locks
  <1>12. ASSUME NEW i \in Inputs, WorkerStep(i) \/ SpuriousWakeup(i)
         PROVE Progress'
    <2>1. CASE Start(i)
      BY <1>t, <1>m, <1>f, <2>1 DEF Start, WorkerGoes, main
    <2>2. CASE LockOwn(i)
      <3>1. ThreadProgress(i)'
        BY <1>t, <1>m, <1>f, <2>2 DEF LockOwn, WorkerGoes, data, main
      <3>2. ASSUME NEW j \in Inputs, j # i PROVE ThreadProgress(j)'
        BY <1>t, <1>m, <1>f, <2>2, <3>2 DEF LockOwn, WorkerGoes, data, main
      <3> QED
        BY <3>1, <3>2
    <2>3. CASE ReadRow(i)
      <3>1. ThreadProgress(i)'
        <4>1. /\ wpc[i] = "read" /\ wpc'[i] = "publish" /\ ~Parked(i) /\ Parked(i)'
              /\ UNCHANGED <<file, eof, mpc, cur, round>>
              /\ pos[i] < Len(file[i].rows) /\ pos'[i] = pos[i] + 1
              /\ buf'[i] = file[i].rows[pos[i] + 1] /\ ~consumed'[i]
          BY <1>t, <2>3 DEF ReadRow, WorkerGoes, main
        <4>2. /\ ~eof[i] /\ pos[i] = Released(i) /\ Released(i)' = Released(i)
              /\ ~(mpc = "create" /\ cur <= i)
          BY <1>m, <4>1
        <4>3. pos[i] \in Nat /\ pos'[i] <= Len(file[i].rows)
          BY <1>t, <1>f, <4>1
        <4> QED
          BY <4>1, <4>2, <4>3
      <3>2. ASSUME NEW j \in Inputs, j # i PROVE ThreadProgress(j)'
        BY <1>t, <1>m, <1>f, <2>3, <3>2 DEF ReadRow, WorkerGoes, locks, main
      <3> QED
        BY <3>1, <3>2
    <2>4. CASE ReadEof(i)
      <3>1. ThreadProgress(i)'
        BY <1>t, <1>m, <1>f, <2>4 DEF ReadEof, WorkerGoes, locks, main
      <3>2. ASSUME NEW j \in Inputs, j # i PROVE ThreadProgress(j)'
        BY <1>t, <1>m, <1>f, <2>4, <3>2 DEF ReadEof, WorkerGoes, locks, main
      <3> QED
        BY <3>1, <3>2
    <2>5. CASE ReadCorrupted(i)
      BY <1>t, <1>m, <1>f, <2>5 DEF ReadCorrupted, data, locks, main
    <2>6. CASE Publish(i)
      <3>1. /\ UNCHANGED <<file, pos, buf, consumed, eof, round, mpc, cur>>
            /\ wpc[i] = "publish" /\ wpc' = [wpc EXCEPT ![i] = "glock"]
        BY <2>6 DEF Publish, WorkerGoes, data, main
      <3>2. ASSUME NEW j \in Inputs PROVE ThreadProgress(j)'
        <4>1. ThreadProgress(j)
          BY <1>m
        <4>2. wpc'[j] = wpc[j] \/ (wpc[j] = "publish" /\ wpc'[j] = "glock")
          BY <1>t, <3>1
        <4>3. Released(j)' = Released(j) /\ (Parked(j)' <=> Parked(j))
          BY <3>1, <4>2
        <4>4. /\ wpc'[j] = "none" <=> mpc' = "create" /\ cur' <= j
              /\ wpc'[j] \in {"finish", "destroy", "done"} => eof[j]
              /\ eof[j] => wpc'[j] \notin {"check", "wait", "woken"}
          BY <3>1, <4>1, <4>2
        <4> QED BY ONLY <3>1, <4>1, <4>3, <4>4, ProgressKept, j \in Inputs
      <3> QED BY ONLY <3>2 DEF Progress
    <2>7. CASE LockGlobal(i)
      <3>1. /\ UNCHANGED <<file, pos, buf, consumed, eof, round, mpc, cur>>
            /\ wpc[i] = "glock" /\ wpc' = [wpc EXCEPT ![i] = "count"]
        BY <2>7 DEF LockGlobal, WorkerGoes, data, main
      <3>2. ASSUME NEW j \in Inputs PROVE ThreadProgress(j)'
        <4>1. ThreadProgress(j)
          BY <1>m
        <4>2. wpc'[j] = wpc[j] \/ (wpc[j] = "glock" /\ wpc'[j] = "count")
          BY <1>t, <3>1
        <4>3. Released(j)' = Released(j) /\ (Parked(j)' <=> Parked(j))
          BY <3>1, <4>2
        <4>4. /\ wpc'[j] = "none" <=> mpc' = "create" /\ cur' <= j
              /\ wpc'[j] \in {"finish", "destroy", "done"} => eof[j]
              /\ eof[j] => wpc'[j] \notin {"check", "wait", "woken"}
          BY <3>1, <4>1, <4>2
        <4> QED BY ONLY <3>1, <4>1, <4>3, <4>4, ProgressKept, j \in Inputs
      <3> QED BY ONLY <3>2 DEF Progress
    <2>8. CASE Count(i)
      <3>1. /\ UNCHANGED <<file, pos, buf, consumed, eof, round, cur>>
            /\ wpc[i] = "count" /\ wpc' = [wpc EXCEPT ![i] = "relock"]
            /\ mpc' = mpc \/ (mpc = "gwait" /\ mpc' = "gwoken")
        BY <2>8 DEF Count, WorkerGoes, MainSignalled, data
      <3>2. ASSUME NEW j \in Inputs PROVE ThreadProgress(j)'
        <4>1. ThreadProgress(j)
          BY <1>m
        <4>2. wpc'[j] = wpc[j] \/ (wpc[j] = "count" /\ wpc'[j] = "relock")
          BY <1>t, <3>1
        <4>3. Released(j)' = Released(j) /\ (Parked(j)' <=> Parked(j))
          BY <3>1, <4>1, <4>2
        <4>4. /\ wpc'[j] = "none" <=> mpc' = "create" /\ cur' <= j
              /\ wpc'[j] \in {"finish", "destroy", "done"} => eof[j]
              /\ eof[j] => wpc'[j] \notin {"check", "wait", "woken"}
          BY <3>1, <4>1, <4>2
        <4> QED BY ONLY <3>1, <4>1, <4>3, <4>4, ProgressKept, j \in Inputs
      <3> QED BY ONLY <3>2 DEF Progress
    <2>9. CASE Check(i)
      <3>1. UNCHANGED <<file, pos, consumed, eof, round, mpc, cur>> /\ wpc[i] = "check"
        BY <2>9 DEF Check, WorkerGoes, main
      <3>2. \/ consumed[i] /\ wpc' = [wpc EXCEPT ![i] = "read"] /\ buf' = [buf EXCEPT ![i] = Torn]
            \/ ~consumed[i] /\ wpc' = [wpc EXCEPT ![i] = "wait"] /\ UNCHANGED buf
        BY <2>9 DEF Check, WorkerGoes
      <3>3. ThreadProgress(i)
        BY <1>m
      <3>4. wpc[i] # "none" /\ ~eof[i] /\ (Parked(i) <=> ~consumed[i])
        BY <3>1, <3>3
      <3>5. wpc \in [Inputs -> WorkerStates] /\ buf \in [Inputs -> Row \cup {Torn}]
        BY <1>t
      <3>6. ASSUME NEW j \in Inputs, j # i PROVE ThreadProgress(j)'
        <4>1. wpc'[j] = wpc[j] /\ buf'[j] = buf[j]
          BY ONLY <3>2, <3>5, <3>6
        <4>2. ThreadProgress(j) /\ Released(j)' = Released(j) /\ (Parked(j)' <=> Parked(j))
          BY <1>m, <3>1, <4>1
        <4> QED BY <3>1, <4>1, <4>2
      <3>7. CASE consumed[i]
        <4>1. wpc'[i] = "read" /\ ~Parked(i) /\ ~Parked(i)'
          BY <3>1, <3>2, <3>4, <3>5, <3>7
        <4>2. Released(i)' = Released(i)
          BY <3>1
        <4> QED BY <3>1, <3>3, <3>4, <3>6, <4>1, <4>2
      <3>8. CASE ~consumed[i]
        <4>1. wpc'[i] = "wait" /\ Parked(i)' /\ buf'[i] = buf[i]
          BY <3>1, <3>2, <3>4, <3>5, <3>8
        <4>2. Released(i)' = Released(i)
          BY <3>1
        <4> QED BY <3>1, <3>3, <3>4, <3>6, <4>1, <4>2
      <3> QED BY <3>7, <3>8
    <2>10. CASE Finish(i)
      BY <1>t, <1>m, <1>f, <2>10 DEF Finish, WorkerGoes, data, main
    <2>11. CASE Destroy(i)
      BY <1>t, <1>m, <1>f, <2>11 DEF Destroy, WorkerGoes, data, main
    <2>12. CASE SpuriousWakeup(i)
      BY <1>t, <1>m, <1>f, <2>12 DEF SpuriousWakeup, WorkerGoes, data, locks, main
    <2> QED
      BY <1>12, <2>1, <2>2, <2>3, <2>4, <2>5, <2>6, <2>7, <2>8, <2>9, <2>10, <2>11, <2>12
      DEF WorkerStep
  <1>13. CASE UNCHANGED vars
    BY <1>t, <1>m, <1>f, <1>13 DEF vars, data, locks, main
  <1> QED
    BY <1>1, <1>2, <1>3, <1>4, <1>5, <1>6, <1>7, <1>8, <1>9, <1>10, <1>11, <1>12, <1>13, NextCases

\* The barrier's counters keep counting the threads.
LEMMA BarrierStep == IInv /\ [Next]_vars => Barrier'
  <1> SUFFICES ASSUME IInv, [Next]_vars PROVE Barrier'
    OBVIOUS
  <1>t. TypeOK
    BY DEF IInv
  <1>b. Barrier
    BY DEF IInv
  <1>p. Progress
    BY DEF IInv
  <1> USE NinputsAssumption DEF TypeOK, Progress, ThreadProgress, Barrier, Parked, Arrived, Released, Pending, Inputs,
                                WorkerStates, AfterCount, WorkerHolds, MainStates
  <1>1. CASE CreateThread
    <2>1. ArrivedThisRound' = ArrivedThisRound /\ Ended' = Ended
      BY <1>t, <1>b, <1>p, <1>1
      DEF CreateThread, NextInput, WorkerGoes, data, locks, ArrivedThisRound, Ended
    <2> QED
      BY <1>t, <1>b, <1>p, <1>1, <2>1 DEF CreateThread, NextInput, WorkerGoes, data, locks
  <1>2. CASE MainLockGlobal
    <2>1. ArrivedThisRound' = ArrivedThisRound /\ Ended' = Ended
      BY <1>t, <1>b, <1>p, <1>2 DEF MainLockGlobal, MainGoes, data, ArrivedThisRound, Ended
    <2> QED
      BY <1>t, <1>b, <1>p, <1>2, <2>1 DEF MainLockGlobal, MainGoes, data
  <1>3. CASE MainWait
    <2>1. ArrivedThisRound' = ArrivedThisRound /\ Ended' = Ended
      BY <1>t, <1>b, <1>p, <1>3 DEF MainWait, MainGoes, data, ArrivedThisRound, Ended
    <2> QED
      BY <1>t, <1>b, <1>p, <1>3, <2>1 DEF MainWait, MainGoes, data
  <1>4. CASE AllEnded
    <2>1. ArrivedThisRound' = ArrivedThisRound /\ Ended' = Ended
      BY <1>4 DEF AllEnded, MainGoes, data, ArrivedThisRound, Ended
    <2>2. Ended = Inputs
      BY <1>4, FullBarrier DEF AllEnded, MainGoes
    <2> QED
      BY <1>t, <1>b, <1>4, <2>1, <2>2 DEF AllEnded, MainGoes, data
  <1>5. CASE SomeEnded
    <2>1. ArrivedThisRound' = ArrivedThisRound /\ Ended' = Ended
      BY <1>t, <1>b, <1>p, <1>5 DEF SomeEnded, data, locks, main, ArrivedThisRound, Ended
    <2> QED
      BY <1>t, <1>b, <1>p, <1>5, <2>1 DEF SomeEnded, data, locks, main
  <1>6. CASE BeginRound
    <2>1. ArrivedThisRound' = {} /\ Ended' = Ended
      BY <1>6 DEF BeginRound, MainGoes, data, ArrivedThisRound, Ended
    <2>2. \A i \in Inputs : Arrived(i) /\ ~eof[i]
      BY <1>6, FullBarrier DEF BeginRound, MainGoes
    <2>3. cur = 1 /\ cur' = 1
      BY <1>b, <1>6 DEF BeginRound, MainGoes
    <2> QED
      BY <1>t, <1>b, <1>6, <2>1, <2>2, <2>3, FS_EmptySet DEF BeginRound, MainGoes, data
  <1>7. CASE MainLockInput
    <2>1. ArrivedThisRound' = ArrivedThisRound /\ Ended' = Ended
      BY <1>t, <1>b, <1>p, <1>7 DEF MainLockInput, NextInput, data, ArrivedThisRound, Ended
    <2> QED
      BY <1>t, <1>b, <1>p, <1>7, <2>1 DEF MainLockInput, NextInput, data
  <1>8. CASE Compare
    <2>1. ArrivedThisRound' = ArrivedThisRound /\ Ended' = Ended
      BY <1>t, <1>b, <1>p, <1>8 DEF Compare, MainGoes, data, locks, ArrivedThisRound, Ended
    <2> QED
      BY <1>t, <1>b, <1>p, <1>8, <2>1 DEF Compare, MainGoes, data, locks
  <1>9. CASE Emit
    <2>1. ArrivedThisRound' = ArrivedThisRound /\ Ended' = Ended
      BY <1>t, <1>b, <1>p, <1>9 DEF Emit, NextInput, ArrivedThisRound, Ended
    <2> QED
      BY <1>t, <1>b, <1>p, <1>9, <2>1 DEF Emit, NextInput
  <1>10. CASE Join
    <2>1. ArrivedThisRound' = ArrivedThisRound /\ Ended' = Ended
      BY <1>t, <1>b, <1>p, <1>10 DEF Join, data, locks, ArrivedThisRound, Ended
    <2> QED
      BY <1>t, <1>b, <1>p, <1>10, <2>1 DEF Join, data, locks
  <1>11. CASE MainSpuriousWakeup
    <2>1. ArrivedThisRound' = ArrivedThisRound /\ Ended' = Ended
      BY <1>t, <1>b, <1>p, <1>11 DEF MainSpuriousWakeup, MainGoes, data, locks, ArrivedThisRound, Ended
    <2> QED
      BY <1>t, <1>b, <1>p, <1>11, <2>1 DEF MainSpuriousWakeup, MainGoes, data, locks
  <1>12. ASSUME NEW i \in Inputs, WorkerStep(i) \/ SpuriousWakeup(i)
         PROVE Barrier'
    <2>1. CASE Start(i)
      <3>1. ArrivedThisRound' = ArrivedThisRound /\ Ended' = Ended
        BY <1>t, <1>b, <1>p, <2>1 DEF Start, WorkerGoes, main, ArrivedThisRound, Ended
      <3> QED
        BY <1>t, <1>b, <1>p, <2>1, <3>1 DEF Start, WorkerGoes, main
    <2>2. CASE LockOwn(i)
      <3>1. ArrivedThisRound' = ArrivedThisRound /\ Ended' = Ended
        BY <1>t, <1>b, <1>p, <2>2 DEF LockOwn, WorkerGoes, data, main, ArrivedThisRound, Ended
      <3>2. UNCHANGED <<consumed, eof, threadsReady, eofs, mpc, cur>>
        BY <2>2 DEF LockOwn, data, main
      <3>3. \A j \in Inputs : Arrived(j) /\ ~eof[j] => Arrived(j)'
        BY <1>t, <2>2, <3>2 DEF LockOwn, WorkerGoes
      <3>4. \A j \in Pending : j \in Inputs /\ (Arrived(j) /\ ~eof[j])' /\ j \in Pending'
        BY <1>t, <1>b, <3>2, <3>3
      <3>5. Pending' = Pending
        BY <3>2
      <3>6. /\ threadsReady' = Cardinality(ArrivedThisRound') /\ eofs' = Cardinality(Ended')
            /\ mpc' = "join" => Ended' = Inputs
            /\ mpc' \in {"gcheck", "glock", "gwait", "gwoken", "compare"} => cur' = 1
        BY <1>b, <3>1, <3>2
      <3> QED
        BY <3>4, <3>5, <3>6 DEF Barrier
    <2>3. CASE ReadRow(i)
      <3>1. ArrivedThisRound' = ArrivedThisRound /\ Ended' = Ended
        BY <1>t, <1>b, <1>p, <2>3 DEF ReadRow, WorkerGoes, locks, main, ArrivedThisRound, Ended
      <3> QED
        BY <1>t, <1>b, <1>p, <2>3, <3>1 DEF ReadRow, WorkerGoes, locks, main
    <2>4. CASE ReadEof(i)
      <3>1. ArrivedThisRound' = ArrivedThisRound /\ Ended' = Ended
        BY <1>t, <1>b, <1>p, <2>4 DEF ReadEof, WorkerGoes, locks, main, ArrivedThisRound, Ended
      <3> QED
        BY <1>t, <1>b, <1>p, <2>4, <3>1 DEF ReadEof, WorkerGoes, locks, main
    <2>5. CASE ReadCorrupted(i)
      <3>1. ArrivedThisRound' = ArrivedThisRound /\ Ended' = Ended
        BY <1>t, <1>b, <1>p, <2>5 DEF ReadCorrupted, data, locks, main, ArrivedThisRound, Ended
      <3> QED
        BY <1>t, <1>b, <1>p, <2>5, <3>1 DEF ReadCorrupted, data, locks, main
    <2>6. CASE Publish(i)
      <3>1. ArrivedThisRound' = ArrivedThisRound /\ Ended' = Ended
        BY <1>t, <1>b, <1>p, <2>6 DEF Publish, WorkerGoes, data, main, ArrivedThisRound, Ended
      <3> QED
        BY <1>t, <1>b, <1>p, <2>6, <3>1 DEF Publish, WorkerGoes, data, main
    <2>7. CASE LockGlobal(i)
      <3>1. ArrivedThisRound' = ArrivedThisRound /\ Ended' = Ended
        BY <1>t, <1>b, <1>p, <2>7 DEF LockGlobal, WorkerGoes, data, main, ArrivedThisRound, Ended
      <3> QED
        BY <1>t, <1>b, <1>p, <2>7, <3>1 DEF LockGlobal, WorkerGoes, data, main
    <2>8. CASE Count(i)
      <3>1. i \notin Pending /\ i \notin ArrivedThisRound /\ i \notin Ended
        BY <1>b, <2>8 DEF Count, WorkerGoes, ArrivedThisRound, Ended
      <3>2. Pending' = Pending
        BY <2>8 DEF Count, MainSignalled
      <3>3. \A j \in Inputs : Arrived(j)' <=> Arrived(j) \/ j = i
        BY <1>t, <1>p, <2>8 DEF Count, WorkerGoes, data
      <3>4. ArrivedThisRound' = ArrivedThisRound \cup {i}
        BY <3>1, <3>2, <3>3 DEF ArrivedThisRound
      <3>5. Ended' = IF eof[i] THEN Ended \cup {i} ELSE Ended
        BY <1>t, <2>8 DEF Count, WorkerGoes, data, Ended
      <3>6. /\ Cardinality(ArrivedThisRound \cup {i}) = Cardinality(ArrivedThisRound) + 1
            /\ Cardinality(Ended \cup {i}) = Cardinality(Ended) + 1
        BY <3>1, InputAdded DEF ArrivedThisRound, Ended
      <3>7. /\ threadsReady' = Cardinality(ArrivedThisRound')
            /\ eofs' = Cardinality(Ended')
        BY <1>b, <2>8, <3>4, <3>5, <3>6 DEF Count
      <3>8. mpc' # "join" \/ Ended' = Inputs
        BY <1>b, <2>8, <3>1 DEF Count, MainSignalled
      <3> QED
        BY <1>t, <1>b, <2>8, <3>2, <3>3, <3>7, <3>8 DEF Count, MainSignalled, data
    <2>9. CASE Check(i)
      <3>1. ArrivedThisRound' = ArrivedThisRound /\ Ended' = Ended
        <4>0. wpc[i] = "check" /\ ~eof[i]
          BY <1>p, <2>9 DEF Check, WorkerGoes
        <4>1. ~eof[i] /\ ((wpc'[i] = "wait" /\ ~consumed[i]) \/ (wpc'[i] = "read" /\ consumed[i]))
          BY <1>t, <2>9, <4>0 DEF Check, WorkerGoes
        <4>2. \A j \in Inputs : (Arrived(j)' <=> Arrived(j)) /\ (eof'[j] <=> eof[j])
          BY <1>t, <2>9, <4>1 DEF Check, WorkerGoes
        <4>3. \A j \in Inputs : eof[j] => (wpc'[j] \in AfterCount <=> wpc[j] \in AfterCount)
          BY <1>t, <2>9, <4>1 DEF Check, WorkerGoes
        <4>4. Pending' = Pending
          BY <2>9 DEF Check, main
        <4> QED
          BY ONLY <4>2, <4>3, <4>4 DEF ArrivedThisRound, Ended
      <3> QED
        BY <1>t, <1>b, <1>p, <2>9, <3>1 DEF Check, WorkerGoes, main
    <2>10. CASE Finish(i)
      <3>1. ArrivedThisRound' = ArrivedThisRound /\ Ended' = Ended
        BY <1>t, <1>b, <1>p, <2>10 DEF Finish, WorkerGoes, data, main, ArrivedThisRound, Ended
      <3> QED
        BY <1>t, <1>b, <1>p, <2>10, <3>1 DEF Finish, WorkerGoes, data, main
    <2>11. CASE Destroy(i)
      <3>1. ArrivedThisRound' = ArrivedThisRound /\ Ended' = Ended
        BY <1>t, <1>b, <1>p, <2>11 DEF Destroy, WorkerGoes, data, main, ArrivedThisRound, Ended
      <3> QED
        BY <1>t, <1>b, <1>p, <2>11, <3>1 DEF Destroy, WorkerGoes, data, main
    <2>12. CASE SpuriousWakeup(i)
      <3>1. ArrivedThisRound' = ArrivedThisRound /\ Ended' = Ended
        BY <1>t, <1>b, <1>p, <2>12
        DEF SpuriousWakeup, WorkerGoes, data, locks, main, ArrivedThisRound, Ended
      <3> QED
        BY <1>t, <1>b, <1>p, <2>12, <3>1 DEF SpuriousWakeup, WorkerGoes, data, locks, main
    <2> QED
      BY <1>12, <2>1, <2>2, <2>3, <2>4, <2>5, <2>6, <2>7, <2>8, <2>9, <2>10, <2>11, <2>12
      DEF WorkerStep
  <1>13. CASE UNCHANGED vars
    BY <1>b, <1>13 DEF vars, data, locks, main, ArrivedThisRound, Ended
  <1> QED
    BY <1>1, <1>2, <1>3, <1>4, <1>5, <1>6, <1>7, <1>8, <1>9, <1>10, <1>11, <1>12, <1>13, NextCases

-----------------------------------------------------------------------------
(* Verdict *)

\* Only Compare and Emit touch what the report is made of; for the other steps
\* the sequential walk stands still, unless the process exits.
LEMMA QuietSteps ==
  ASSUME [Next]_vars
  PROVE  \/ Compare \/ Emit
         \/ /\ UNCHANGED <<file, opts, round, diff, ret, out>>
            /\ mpc' = "emit" <=> mpc = "emit"
            /\ mpc = "emit" => cur' = cur
  <1> USE DEF data, locks, main
  <1>1. ASSUME NEW i \in Inputs, WorkerStep(i) \/ SpuriousWakeup(i)
        PROVE  /\ UNCHANGED <<file, opts, round, diff, ret, out, cur>>
               /\ (mpc' = mpc \/ (mpc = "gwait" /\ mpc' = "gwoken"))
    BY <1>1 DEF WorkerStep, Start, LockOwn, ReadRow, ReadEof, ReadCorrupted, Publish, LockGlobal,
                Count, MainSignalled, Check, Finish, Destroy, SpuriousWakeup
  <1>2. CASE MainStep \/ MainSpuriousWakeup
    BY <1>2 DEF MainStep, CreateThread, MainLockGlobal, MainWait, AllEnded, SomeEnded, BeginRound,
                MainLockInput, Join, MainSpuriousWakeup, NextInput, MainGoes
  <1>3. CASE UNCHANGED vars
    BY <1>3 DEF vars
  <1> QED
    BY <1>1, <1>2, <1>3 DEF Next

\* The process exits in three places only, and never twice.
LEMMA ExitSteps ==
  ASSUME [Next]_vars
  PROVE  \/ status' = status
         \/ status = Running /\ Join /\ status' = ret
         \/ status = Running /\ SomeEnded
         \/ status = Running /\ \E i \in Inputs : ReadCorrupted(i)
  <1>1. ASSUME NEW i \in Inputs, WorkerStep(i) \/ SpuriousWakeup(i)
        PROVE  status' = status \/ ReadCorrupted(i)
    BY <1>1 DEF WorkerStep, Start, LockOwn, ReadRow, ReadEof, Publish, LockGlobal,
                Count, Check, Finish, Destroy, SpuriousWakeup
  <1>2. CASE status = Running /\ (MainStep \/ MainSpuriousWakeup)
    BY <1>2 DEF MainStep, CreateThread, MainLockGlobal, MainWait, AllEnded, BeginRound,
                MainLockInput, Compare, Emit, Join, MainSpuriousWakeup
  <1>3. CASE UNCHANGED vars
    BY <1>3 DEF vars
  <1> QED
    BY <1>1, <1>2, <1>3 DEF Next

\* The main thread reads rows of one round only.
LEMMA InvReadsOneRound == IInv => ReadsOneRound
  <1> SUFFICES ASSUME IInv, NEW i \in Pending
               PROVE  round < Len(file[i].rows) /\ buf[i] = file[i].rows[round + 1]
    BY DEF ReadsOneRound
  <1>1. TypeOK /\ i \in Inputs /\ Released(i) = round
    BY NinputsAssumption DEF IInv, TypeOK, Pending, Released, Inputs
  <1>2. Parked(i) /\ ~eof[i]
    BY DEF IInv, Barrier, Parked
  <1>3. pos[i] = round + 1 /\ pos[i] <= Len(file[i].rows) /\ buf[i] = file[i].rows[pos[i]]
    BY <1>1, <1>2 DEF IInv, Progress, ThreadProgress
  <1> QED
    BY <1>1, <1>3, FileType DEF TypeOK

\* A thread is at most one row ahead.
LEMMA InvNoRowSkipped == IInv => NoRowSkipped
  <1> SUFFICES ASSUME IInv, NEW i \in Inputs
               PROVE  pos[i] \in Released(i) .. Released(i) + 1
    BY DEF NoRowSkipped
  <1>1. round \in Nat /\ Released(i) \in Nat
    BY DEF IInv, TypeOK, Released
  <1> QED
    BY <1>1 DEF IInv, Progress, ThreadProgress

\* What the main thread compares is row number round + 1 of every file.
LEMMA ComparedRows ==
  ASSUME IInv, mpc = "compare"
  PROVE  /\ \A i \in Inputs : round + 1 <= Len(file[i].rows)
         /\ buf = [i \in Inputs |-> file[i].rows[round + 1]]
  <1>1. Pending = Inputs
    BY DEF Pending
  <1>2. \A i \in Inputs : round < Len(file[i].rows) /\ buf[i] = file[i].rows[round + 1]
    BY <1>1, InvReadsOneRound DEF ReadsOneRound
  <1>3. buf \in [Inputs -> Row \cup {Torn}] /\ round \in Nat
    BY DEF IInv, TypeOK
  <1>4. \A i \in Inputs : Len(file[i].rows) \in Nat
    BY FileType DEF IInv
  <1> QED
    BY <1>2, <1>3, <1>4

\* Once all threads are done, every file has been read to its end in lockstep.
LEMMA AllRead ==
  ASSUME IInv, mpc = "join"
  PROVE  \A i \in Inputs : Len(file[i].rows) = round /\ ~file[i].corrupted
  BY DEF IInv, Barrier, Ended, Progress, ThreadProgress, Released

\* The exit status to be stays the disjunction of what the rounds showed.
LEMMA JudgedStep == IInv /\ [Next]_vars => Judged'
  <1> SUFFICES ASSUME IInv, [Next]_vars PROVE Judged'
    OBVIOUS
  <1>t. TypeOK /\ Judged
    BY DEF IInv
  <1>f. file' = file /\ \A k : SameRows(k)' <=> SameRows(k)
    <2>1. file' = file
      BY QuietSteps DEF Compare, Emit, data
    <2> QED
      BY <2>1 DEF SameRows
  <1>1. (status \in {0, 1} => mpc = "join")'
    <2>1. CASE status' = status
      <3>1. CASE status = Running
        BY <2>1, <3>1 DEF Running
      <3>2. CASE status # Running
        BY <1>t, <2>1, <3>2 DEF Next, vars, main, Judged
      <3> QED
        BY <3>1, <3>2
    <2>2. CASE Join
      BY <2>2 DEF Join
    <2>3. CASE SomeEnded \/ \E i \in Inputs : ReadCorrupted(i)
      BY <2>3 DEF SomeEnded, ReadCorrupted
    <2> QED
      BY <2>1, <2>2, <2>3, ExitSteps
  <1>2. CASE Compare
    <2>1. mpc = "compare" /\ mpc' = "emit" /\ round' = round
      BY <1>2 DEF Compare, MainGoes
    <2>2. ret' = IF SameRows(round + 1) THEN ret ELSE 1
      BY <1>2, <2>1, ComparedRows DEF Compare, SameRows
    <2> QED
      BY <1>t, <1>f, <1>1, <2>1, <2>2 DEF Judged, TypeOK
  <1>3. CASE Emit
    <2>1. mpc = "emit" /\ ret' = ret
      BY <1>3 DEF Emit, NextInput
    <2>2. \/ mpc' = "emit" /\ round' = round
          \/ mpc' = "glock" /\ round' = round + 1
      BY <1>3 DEF Emit, NextInput
    <2> QED
      BY <1>t, <1>f, <1>1, <2>1, <2>2 DEF Judged, TypeOK
  <1>4. CASE UNCHANGED <<file, opts, round, diff, ret, out>> /\ (mpc' = "emit" <=> mpc = "emit")
    BY <1>t, <1>f, <1>1, <1>4 DEF Judged
  <1> QED
    BY <1>2, <1>3, <1>4, QuietSteps

\* The process never exits with a status that the files do not deserve.
LEMMA VerdictStep == IInv /\ [Next]_vars => VerdictSound'
  <1> SUFFICES ASSUME IInv, [Next]_vars PROVE VerdictSound'
    OBVIOUS
  <1>t. TypeOK /\ VerdictSound
    BY DEF IInv
  <1>f. file' = file
    BY QuietSteps DEF Compare, Emit, data
  <1>n. 1 \in Inputs
    BY NinputsAssumption DEF Inputs
  <1>1. CASE status' = status
    BY <1>t, <1>f, <1>1 DEF VerdictSound, SameRows
  <1>2. CASE Join /\ status' = ret
    <2>1. mpc = "join" /\ \A i \in Inputs : Len(file[i].rows) = round /\ ~file[i].corrupted
      BY <1>2, AllRead DEF Join
    <2>2. ret \in {0, 1} /\ (ret = 1 <=> \E k \in 1 .. round : ~SameRows(k))
      BY <1>t, <2>1 DEF IInv, Judged, TypeOK
    <2> QED
      BY <1>2, <1>f, <1>n, <2>1, <2>2 DEF VerdictSound, SameRows
  <1>3. CASE SomeEnded
    <2>1. PICK i \in Inputs, j \in Inputs : eof[i] /\ ~eof[j]
      BY <1>3, FullBarrier DEF SomeEnded
    <2>2. Parked(j) /\ Released(i) = round /\ Released(j) = round
      BY <1>3, FullBarrier DEF SomeEnded, Parked, Released
    <2>3. Len(file[i].rows) = round /\ round + 1 <= Len(file[j].rows)
      BY <2>1, <2>2 DEF IInv, Progress, ThreadProgress
    <2>4. Len(file[i].rows) # Len(file[j].rows)
      BY <1>t, <2>3 DEF TypeOK
    <2> QED
      BY <1>3, <1>f, <2>4 DEF SomeEnded, VerdictSound
  <1>4. CASE \E i \in Inputs : ReadCorrupted(i)
    BY <1>4, <1>f DEF ReadCorrupted, VerdictSound
  <1> QED
    BY <1>1, <1>2, <1>3, <1>4, ExitSteps

-----------------------------------------------------------------------------
(* Theorems *)

\* The invariant holds in every reachable state of csv-diff, for any number of
\* inputs, any files and any interleaving of the threads.
THEOREM Invariance == Spec => []IInv
  <1>1. IInv /\ [Next]_vars => IInv'
    BY TypeStep, MutexStep, WakeupStep, VerdictStep, BarrierStep, ProgressStep, JudgedStep DEF IInv
  <1> QED
    BY InitInv, <1>1, PTL DEF Spec

\* Type correctness; the barrier's counters stay within the number of threads.
THEOREM TypeCorrect == Spec => []TypeOK
  <1>1. IInv => TypeOK
    BY DEF IInv
  <1> QED
    BY <1>1, Invariance, PTL

\* Mutexes are locked, unlocked and destroyed in the order POSIX asks for.
THEOREM MutexesUsedRight == Spec => []MutexUse
  <1>1. IInv => MutexUse
    BY DEF IInv
  <1> QED
    BY <1>1, Invariance, PTL

\* No thread sleeps through the event it waits for.
THEOREM WakeupsKept == Spec => []NoLostWakeup
  <1>1. IInv => NoLostWakeup
    BY DEF IInv
  <1> QED
    BY <1>1, Invariance, PTL

\* The rows compared with each other are the same row of every file, and stay
\* in place while they are read.
THEOREM RowsComparedInPlace == Spec => []ReadsOneRound
  BY InvReadsOneRound, Invariance, PTL

\* No row of any file is skipped or compared twice.
THEOREM RowsInStep == Spec => []NoRowSkipped
  BY InvNoRowSkipped, Invariance, PTL

\* The exit status is the one the files deserve.
THEOREM VerdictCorrect == Spec => []VerdictSound
  <1>1. IInv => VerdictSound
    BY DEF IInv
  <1> QED
    BY <1>1, Invariance, PTL

-----------------------------------------------------------------------------
(* Refinement *)

\* LockstepDiff reads the constants as CsvDiff does.
LEMMA SameInputs ==
  /\ Lockstep!Inputs = Inputs /\ Lockstep!Row = Row /\ Lockstep!Options = Options
  /\ Lockstep!Running = Running
  /\ \A r : Lockstep!DifferingColumns(r) = DifferingColumns(r)
  /\ \A o, d : Lockstep!Printed(o, d) = Printed(o, d)
  /\ \A i, r, d : Lockstep!Line(i, r, d) = Line(i, r, d)
  BY DEF Lockstep!Inputs, Inputs, Lockstep!Row, Row, Lockstep!Options, Options,
         Lockstep!Running, Running, Lockstep!DifferingColumns, DifferingColumns,
         Lockstep!Printed, Printed, Lockstep!Line, Line

\* Every step of the threads is a step of the sequential walk, or none.
LEMMA RefinementStep == IInv /\ [Next]_vars => [Lockstep!Next]_Lockstep!vars
  <1> SUFFICES ASSUME IInv, [Next]_vars PROVE [Lockstep!Next]_Lockstep!vars
    OBVIOUS
  <1> DEFINE line == IF mpc = "emit" THEN cur ELSE 0
  <1>t. TypeOK
    BY DEF IInv
  <1>1. CASE Compare
    <2>1. line = 0 /\ line' = 1
      BY <1>1 DEF Compare, MainGoes, IInv, Barrier
    <2>2. /\ \A i \in Inputs : Lockstep!HasRow(i, round + 1)
          /\ buf = [i \in Inputs |-> file[i].rows[round + 1]]
      BY <1>1, ComparedRows DEF Compare, MainGoes, Lockstep!HasRow
    <2>3. status = Running
      BY <1>1 DEF Next, Compare, MainGoes, vars, main
    <2>4. Lockstep!Judge
      BY <1>1, <2>1, <2>2, SameInputs DEF Compare, data, Lockstep!Judge
    <2> QED
      BY <2>3, <2>4, SameInputs DEF Lockstep!Next
  <1>2. CASE Emit
    <2>1. mpc = "emit" /\ cur \in Inputs /\ cur \in Pending
      BY <1>2, <1>t, NinputsAssumption DEF Emit, NextInput, TypeOK, Pending, Inputs
    <2>2. buf[cur] = file[cur].rows[round + 1]
      BY <2>1, InvReadsOneRound DEF ReadsOneRound
    <2>3. status = Running
      BY <1>2, <1>t DEF Next, Emit, NextInput, vars, main, TypeOK, Inputs
    <2>4. IF line = Ninputs
          THEN line' = 0 /\ round' = round + 1
          ELSE line' = line + 1 /\ round' = round
      BY <1>2, <2>1 DEF Emit, NextInput
    <2>5. Lockstep!Report
      BY <1>2, <2>1, <2>2, <2>4, SameInputs DEF Emit, Lockstep!Report
    <2> QED
      BY <2>3, <2>5, SameInputs DEF Lockstep!Next
  <1>3. CASE /\ UNCHANGED <<file, opts, round, diff, ret, out>>
             /\ mpc' = "emit" <=> mpc = "emit"
             /\ mpc = "emit" => cur' = cur
    <2>1. line' = line
      BY <1>3
    <2>2. CASE status' = status
      BY <1>3, <2>1, <2>2 DEF Lockstep!vars
    <2>3. CASE status = Running /\ Join /\ status' = ret
      <3>1. line = 0 /\ \A i \in Inputs : Len(file[i].rows) = round /\ ~file[i].corrupted
        BY <2>3, AllRead DEF Join
      <3>2. \A i \in Inputs : ~Lockstep!HasRow(i, round + 1)
        BY <1>t, <3>1 DEF TypeOK, Lockstep!HasRow
      <3>3. Lockstep!Verdict
        BY <1>3, <2>1, <2>3, <3>1, <3>2, SameInputs DEF Lockstep!Verdict
      <3> QED
        BY <2>3, <3>3, SameInputs DEF Lockstep!Next
    <2>4. CASE status = Running /\ SomeEnded
      <3>1. PICK i \in Inputs, j \in Inputs : eof[i] /\ ~eof[j]
        BY <2>4, FullBarrier DEF SomeEnded
      <3>2. Parked(j) /\ Released(i) = round /\ Released(j) = round
        BY <2>4, FullBarrier DEF SomeEnded, Parked, Released
      <3>3. Len(file[i].rows) = round /\ round + 1 <= Len(file[j].rows)
        BY <3>1, <3>2 DEF IInv, Progress, ThreadProgress
      <3>4. Lockstep!HasRow(j, round + 1) /\ ~Lockstep!HasRow(i, round + 1)
        BY <1>t, <3>3 DEF TypeOK, Lockstep!HasRow
      <3>5. Lockstep!UnequalLengths
        BY <1>3, <2>1, <2>4, <3>4, SameInputs DEF SomeEnded, Lockstep!UnequalLengths
      <3> QED
        BY <2>4, <3>5, SameInputs DEF Lockstep!Next
    <2>5. CASE status = Running /\ \E i \in Inputs : ReadCorrupted(i)
      <3>1. PICK i \in Inputs : ReadCorrupted(i)
        BY <2>5
      <3>2. ~Parked(i)
        BY <3>1 DEF ReadCorrupted, Parked, Arrived, AfterCount
      <3>3. pos[i] = Released(i) /\ pos[i] = Len(file[i].rows) /\ file[i].corrupted
        BY <3>1, <3>2 DEF IInv, Progress, ThreadProgress, ReadCorrupted
      <3>4. ~Lockstep!HasRow(i, round + (IF i < line THEN 2 ELSE 1))
        BY <1>t, <3>3, NinputsAssumption DEF TypeOK, Released, Inputs, Lockstep!HasRow
      <3>5. Lockstep!Corrupted
        BY <1>3, <2>1, <3>1, <3>3, <3>4, SameInputs DEF ReadCorrupted, Lockstep!Corrupted
      <3> QED
        BY <2>5, <3>5, SameInputs DEF Lockstep!Next
    <2> QED
      BY <2>2, <2>3, <2>4, <2>5, ExitSteps
  <1> QED
    BY <1>1, <1>2, <1>3, QuietSteps

\* csv-diff implements the sequential walk over its files: the lines it prints,
\* their order, and its exit status do not depend on how the threads interleave.
THEOREM Refinement == Spec => Contract
  <1>1. Init => Lockstep!Init
    BY SameInputs DEF Init, Lockstep!Init
  <1>2. IInv /\ [Next]_vars => [Lockstep!Next]_Lockstep!vars
    BY RefinementStep
  <1> QED
    BY <1>1, <1>2, Invariance, PTL DEF Spec, Contract, Lockstep!Spec

=============================================================================
