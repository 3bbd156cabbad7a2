--------------------------- MODULE RunQueueProofs ---------------------------
(***************************************************************************)
(* Theorems about the run queue, for any set of requests, any calls of     *)
(* run_exclusive and any bounds.  Type correctness; the discipline by      *)
(* which the manager, its supervisor and the slot stay in step, and from   *)
(* it that there is at most one heavy piece of work at a time.  What a     *)
(* run's row says in the end: a row shown as succeeded has its run         *)
(* recorded, one shown as blocked has none, and a result in the channel    *)
(* outlives its worker.  The order of the queue: no credentialed request   *)
(* ever waits behind another, the store lists the requests as the manager  *)
(* will serve them, and the run queue implements FifoService.              *)
(***************************************************************************)
EXTENDS RunQueue, SequenceTheorems, TLAPS

USE DEF slotVars, storeVars, queueVars, supVars, jobVars, workVars, serverVars,
        managerVars

-----------------------------------------------------------------------------
(* Operators on sequences and rows.                                        *)

LEMMA RemoveAtInSeq ==
  ASSUME NEW S, NEW s \in Seq(S), NEW i \in 1..Len(s)
  PROVE  RemoveAt(s, i) \in Seq(S)
  BY DEF RemoveAt

LEMMA TailInSeq ==
  ASSUME NEW S, NEW s \in Seq(S), s # <<>>
  PROVE  Tail(s) \in Seq(S) /\ Head(s) \in S
  OBVIOUS

LEMMA RenumberType ==
  ASSUME position \in [Requests -> Nat], NEW line \in Seq(Requests), NEW k \in Nat
  PROVE  Renumber(line, k) \in [Requests -> Nat]
<1> SUFFICES ASSUME NEW r \in Requests
             PROVE  (IF \E i \in 1..k : line[i] = r
                     THEN CHOOSE i \in 1..k : line[i] = r
                     ELSE position[r]) \in Nat
  BY DEF Renumber
<1>1. ASSUME \E i \in 1..k : line[i] = r
      PROVE  (CHOOSE i \in 1..k : line[i] = r) \in Nat
  <2>1. (CHOOSE i \in 1..k : line[i] = r) \in 1..k
    BY <1>1
  <2> QED BY <2>1
<1>2. position[r] \in Nat
  OBVIOUS
<1> QED BY <1>1, <1>2

LEMMA AdvanceType ==
  ASSUME status \in [Requests -> Statuses], NEW r, NEW from, NEW to \in Statuses
  PROVE  Advance(r, from, to) \in [Requests -> Statuses]
  BY DEF Advance

(* What every UPDATE of the store leaves is a row again. *)
LEMMA UpdatesType ==
  ASSUME status \in [Requests -> Statuses], NEW r
  PROVE  /\ MarkStarting(r) \in [Requests -> Statuses]
         /\ MarkRunning(r) \in [Requests -> Statuses]
         /\ UpdateProgress(r) \in [Requests -> Statuses]
         /\ RequestCancel(r) \in [Requests -> Statuses]
         /\ \A to \in TerminalStatuses : Finish(r, to) \in [Requests -> Statuses]
  BY AdvanceType
  DEF MarkStarting, MarkRunning, UpdateProgress, RequestCancel, Finish,
      Statuses, ActiveStatuses, TerminalStatuses

LEMMA AttemptType ==
  ASSUME faults \in Nat, NEW ok \in BOOLEAN, Attempt(ok)
  PROVE  faults' \in Nat
  BY DEF Attempt
-----------------------------------------------------------------------------
(* Type correctness.                                                       *)

LEMMA WorkerStateType ==
  ASSUME worker \in [Requests -> WorkerStates], NEW r, NEW w \in WorkerStates
  PROVE  [worker EXCEPT ![r] = w] \in [Requests -> WorkerStates]
  OBVIOUS

LEMMA PositionType ==
  ASSUME position \in [Requests -> Nat], NEW r
  PROVE  [position EXCEPT ![r] = 0] \in [Requests -> Nat]
  OBVIOUS

LEMMA InitType == Init => TypeOK
  BY NoneIsNoRequest
  DEF Init, TypeOK, SlotInit, SlotTypeOK, Statuses, WorkerStates, Points

LEMMA SubmitType ==
  ASSUME TypeOK, NEW r \in Requests, SubmitStep(r)
  PROVE  TypeOK'
<1>1. CASE SubmitCheck(r)
  BY <1>1 DEF SubmitCheck, TypeOK, SlotTypeOK
<1>2. CASE SubmitRefuse(r)
  BY <1>2 DEF SubmitRefuse, TypeOK, SlotTypeOK
<1>3. ASSUME NEW ok \in BOOLEAN, SubmitAccept(r, ok)
      PROVE  TypeOK'
  <2>1. faults' \in Nat
    BY <1>3, AttemptType DEF SubmitAccept, TypeOK
  <2>2. QueuePosition \in Nat
    BY DEF QueuePosition, TypeOK
  <2>3. position' \in [Requests -> Nat]
    BY <1>3, <2>2 DEF SubmitAccept, TypeOK
  <2>4. pending' \in Seq(Requests)
    BY <1>3 DEF SubmitAccept, TypeOK, Enqueue
  <2>5. status' \in [Requests -> Statuses]
    BY <1>3 DEF SubmitAccept, TypeOK, Statuses, ActiveStatuses
  <2>6. sup' \in Points
    BY <1>3 DEF SubmitAccept, TypeOK, Points
  <2> QED
    BY <1>3, <2>1, <2>3, <2>4, <2>5, <2>6 DEF SubmitAccept, TypeOK, SlotTypeOK
<1> QED BY <1>1, <1>2, <1>3 DEF SubmitStep

LEMMA BeginCancelType ==
  ASSUME TypeOK, NEW r, NEW ok \in BOOLEAN, BeginCancel(r, ok)
  PROVE  /\ deadline' \in {"none", "armed", "passed"}
         /\ status' \in [Requests -> Statuses]
         /\ faults' \in Nat
  BY UpdatesType, AttemptType DEF BeginCancel, TypeOK

LEMMA CancelType ==
  ASSUME TypeOK, NEW r \in Requests, CancelStep(r)
  PROVE  TypeOK'
<1>1. ASSUME NEW ok \in BOOLEAN, CancelActive(r, ok)
      PROVE  TypeOK'
  BY <1>1, BeginCancelType DEF CancelActive, TypeOK, SlotTypeOK
<1>2. ASSUME NEW ok \in BOOLEAN, CancelStarting(r, ok)
      PROVE  TypeOK'
  <2>1. status' \in [Requests -> Statuses] /\ faults' \in Nat
    BY <1>2, UpdatesType, AttemptType DEF CancelStarting, TypeOK
  <2> QED BY <1>2, <2>1 DEF CancelStarting, TypeOK, SlotTypeOK
<1>3. ASSUME NEW ok \in BOOLEAN, CancelQueued(r, ok)
      PROVE  TypeOK'
  <2>1. status' \in [Requests -> Statuses] /\ faults' \in Nat
    BY <1>3, UpdatesType, AttemptType DEF CancelQueued, TypeOK, TerminalStatuses
  <2>2. PICK i \in 1..Len(pending), k \in 0..(Len(pending) - 1) :
          /\ pending' = RemoveAt(pending, i)
          /\ position' = [Renumber(RemoveAt(pending, i), k) EXCEPT ![r] =
                            IF ok THEN 0 ELSE @]
    BY <1>3 DEF CancelQueued, DropEntry
  <2>3. RemoveAt(pending, i) \in Seq(Requests)
    BY RemoveAtInSeq DEF TypeOK
  <2>4. k \in Nat /\ position \in [Requests -> Nat]
    BY DEF TypeOK
  <2>5. Renumber(RemoveAt(pending, i), k) \in [Requests -> Nat]
    BY <2>3, <2>4, RenumberType
  <2>6. position' \in [Requests -> Nat]
    BY <2>2, <2>5
  <2>7. UNCHANGED <<slotVars, checked, active, startingId, cancelSet, supVars,
                    jobVars, workVars, serverVars>>
    BY <1>3 DEF CancelQueued
  <2> QED BY <2>1, <2>2, <2>3, <2>6, <2>7 DEF TypeOK, SlotTypeOK
<1> QED BY <1>1, <1>2, <1>3 DEF CancelStep

LEMMA DeleteType ==
  ASSUME TypeOK, NEW r \in Requests, DeleteAttempt(r)
  PROVE  TypeOK'
  BY DEF DeleteAttempt, TypeOK, SlotTypeOK, Statuses

LEMMA WorkerType ==
  ASSUME TypeOK, NEW r \in Requests, WorkerStep(r)
  PROVE  TypeOK'
<1>1. CASE WorkerProgress(r)
  BY <1>1 DEF WorkerProgress, TypeOK, SlotTypeOK
<1>2. CASE WorkerRecord(r)
  BY <1>2 DEF WorkerRecord, TypeOK, SlotTypeOK, WorkerStates
<1>3. CASE WorkerComplete(r)
  BY <1>3 DEF WorkerComplete, TypeOK, SlotTypeOK, WorkerStates, Reports
<1>4. CASE WorkerStopsEarly(r)
  BY <1>4 DEF WorkerStopsEarly, TypeOK, SlotTypeOK, WorkerStates
<1>5. CASE WorkerDeliver(r)
  BY <1>5 DEF WorkerDeliver, TypeOK, SlotTypeOK, WorkerStates
<1>6. CASE WorkerDies(r)
  BY <1>6 DEF WorkerDies, TypeOK, SlotTypeOK, WorkerStates
<1> QED
  BY <1>1, <1>2, <1>3, <1>4, <1>5, <1>6 DEF WorkerStep, WorkerFinishes

LEMMA OtherWorkType ==
  ASSUME TypeOK, NEW c \in Callers, OtherWorkStarts(c) \/ OtherWorkEnds(c)
  PROVE  TypeOK'
  BY DEF OtherWorkStarts, OtherWorkEnds, EnterExclusive, LeaveExclusive,
         TryAcquire, Release, TypeOK, SlotTypeOK, Names

LEMMA ServiceType ==
  ASSUME TypeOK, ServiceStep
  PROVE  TypeOK'
<1> USE DEF Points, JobPoints, ServicePoints
<1>1. CASE SupTick
  BY <1>1 DEF SupTick, TypeOK, SlotTypeOK
<1>2. CASE SupDrained
  BY <1>2 DEF SupDrained, TypeOK, SlotTypeOK
<1>3. CASE SupChannelError
  <2>1. faults' \in Nat
    BY <1>3, AttemptType DEF SupChannelError, TypeOK
  <2>2. terminal' \in {"none", "succeeded", "failed", "cancelled", "blocked"}
    BY <1>3 DEF SupChannelError, TypeOK
  <2>3. chan' = <<>> /\ sup' = "escalate"
        /\ UNCHANGED <<slotVars, storeVars, queueVars, current, deadline, ladder,
                       deadSince, worker, strays, history, serverVars>>
    BY <1>3 DEF SupChannelError
  <2> QED BY <2>1, <2>2, <2>3 DEF TypeOK, SlotTypeOK
<1>4. CASE SupEscalate
  BY <1>4 DEF SupEscalate, NextSignal, TypeOK, SlotTypeOK
<1>5. CASE SupReap
  <2>1. terminal' \in {"none", "succeeded", "failed", "cancelled", "blocked"}
    BY <1>5 DEF SupReap, SilentExit, TypeOK
  <2>2. deadSince' \in {"none", "armed", "passed"}
    BY <1>5 DEF SupReap, TypeOK
  <2>3. sup' \in Points /\ current' \in Requests \cup {None}
    BY <1>5 DEF SupReap, TypeOK
  <2>4. UNCHANGED <<slotVars, storeVars, queueVars, deadline, ladder, workVars,
                    serverVars, faults>>
    BY <1>5 DEF SupReap
  <2> QED BY <2>1, <2>2, <2>3, <2>4 DEF TypeOK, SlotTypeOK
<1>6. CASE SupStop
  <2>1. worker' \in [Requests -> WorkerStates]
    BY <1>6, WorkerStateType DEF SupStop, StopProcess, TypeOK, WorkerStates
  <2> QED BY <1>6, <2>1 DEF SupStop, TypeOK, SlotTypeOK
<1>7. CASE SupRetire
  BY <1>7 DEF SupRetire, TypeOK, SlotTypeOK
<1>8. CASE SupFree
  BY <1>8 DEF SupFree, Release, TypeOK, SlotTypeOK
<1>9. ASSUME NEW ok \in BOOLEAN, SupHandle(ok)
      PROVE  TypeOK'
  <2>1. chan' \in Seq(Reports \cup {"progress"})
    BY <1>9, TailInSeq DEF SupHandle, TypeOK
  <2>2. status' \in [Requests -> Statuses] /\ faults' \in Nat
    BY <1>9, UpdatesType, AttemptType DEF SupHandle, TypeOK
  <2>3. Head(chan) \in Reports \cup {"progress"}
    BY <1>9, TailInSeq DEF SupHandle, TypeOK
  <2>4. terminal' \in {"none", "succeeded", "failed", "cancelled", "blocked"}
    BY <1>9, <2>3 DEF SupHandle, OutcomeOf, Reports, TypeOK
  <2>5. sup' \in Points /\ current' \in Requests \cup {None}
    BY <1>9 DEF SupHandle, Tick, TypeOK
  <2>6. UNCHANGED <<slotVars, position, queueVars, deadline, ladder, deadSince,
                    worker, strays, history, serverVars>>
    BY <1>9 DEF SupHandle
  <2> QED BY <2>1, <2>2, <2>4, <2>5, <2>6 DEF TypeOK, SlotTypeOK
<1>10. ASSUME NEW ok \in BOOLEAN, SupPersist(ok)
       PROVE  TypeOK'
  <2>1. status' \in [Requests -> Statuses] /\ faults' \in Nat
    BY <1>10, AdvanceType, AttemptType
    DEF SupPersist, Finish, TypeOK, Statuses, TerminalStatuses
  <2>2. position' \in [Requests -> Nat]
    BY <1>10, PositionType DEF SupPersist, TypeOK
  <2> QED BY <1>10, <2>1, <2>2 DEF SupPersist, TypeOK, SlotTypeOK
<1> QED
  BY <1>1, <1>2, <1>3, <1>4, <1>5, <1>6, <1>7, <1>8, <1>9, <1>10 DEF ServiceStep

LEMMA StartType ==
  ASSUME TypeOK, StartStep
  PROVE  TypeOK'
<1> USE DEF Points, JobPoints, StartPoints
<1>1. CASE SupNothingToStart
  BY <1>1 DEF SupNothingToStart, Tick, TypeOK, SlotTypeOK
<1>2. CASE SupReserve
  <2>1. Tail(pending) \in Seq(Requests) /\ Head(pending) \in Requests
    BY <1>2, TailInSeq DEF SupReserve, MayStart, TypeOK
  <2>2. PICK k \in 0..(Len(pending) - 1) :
          /\ position' = Renumber(Tail(pending), k)
          /\ Attempt(k = Len(pending) - 1)
          /\ sup' \in {"mark", "service"} /\ current' \in {None, Head(pending)}
    BY <1>2 DEF SupReserve, Tick
  <2>3. k \in Nat /\ position \in [Requests -> Nat] /\ faults' \in Nat
    BY <2>2 DEF TypeOK, Attempt
  <2>4. position' \in [Requests -> Nat]
    BY <2>1, <2>2, <2>3, RenumberType
  <2>5. holder' = Head(pending) /\ startingId' = Head(pending)
        /\ pending' = Tail(pending)
    BY <1>2 DEF SupReserve, TryAcquire
  <2>6. UNCHANGED <<calls, status, checked, active, cancelSet, jobVars,
                    workVars, serverVars>>
    BY <1>2 DEF SupReserve
  <2> QED BY <2>1, <2>2, <2>3, <2>4, <2>5, <2>6 DEF TypeOK, SlotTypeOK, Names
<1>3. CASE SupSpawn
  <2>1. worker' \in [Requests -> WorkerStates]
    BY <1>3, WorkerStateType DEF SupSpawn, TypeOK, WorkerStates
  <2> QED BY <1>3, <2>1 DEF SupSpawn, TypeOK, SlotTypeOK
<1>4. CASE SupSpawnFails
  BY <1>4 DEF SupSpawnFails, TypeOK, SlotTypeOK
<1>5. CASE SupInstall
  BY <1>5 DEF SupInstall, TypeOK, SlotTypeOK
<1>6. ASSUME NEW ok \in BOOLEAN, SupMark(ok)
      PROVE  TypeOK'
  <2>1. status' \in [Requests -> Statuses] /\ faults' \in Nat
    BY <1>6, UpdatesType, AttemptType DEF SupMark, TypeOK
  <2>2. position' \in [Requests -> Nat]
    BY <1>6, PositionType DEF SupMark, TypeOK
  <2> QED BY <1>6, <2>1, <2>2 DEF SupMark, Tick, TypeOK, SlotTypeOK
<1>7. ASSUME NEW ok \in BOOLEAN, SupGiveUp(ok)
      PROVE  TypeOK'
  <2>1. status' \in [Requests -> Statuses] /\ faults' \in Nat
    BY <1>7, UpdatesType, AttemptType DEF SupGiveUp, TypeOK, TerminalStatuses
  <2>2. position' \in [Requests -> Nat]
    BY <1>7, PositionType DEF SupGiveUp, TypeOK
  <2> QED BY <1>7, <2>1, <2>2 DEF SupGiveUp, Release, Tick, TypeOK, SlotTypeOK
<1>8. ASSUME NEW ok \in BOOLEAN, SupMarkRunning(ok)
      PROVE  TypeOK'
  <2>1. status' \in [Requests -> Statuses] /\ faults' \in Nat
    BY <1>8, UpdatesType, AttemptType DEF SupMarkRunning, TypeOK
  <2> QED BY <1>8, <2>1 DEF SupMarkRunning, Tick, TypeOK, SlotTypeOK
<1>9. ASSUME NEW ok \in BOOLEAN, SupCancelNow(ok)
      PROVE  TypeOK'
  BY <1>9, BeginCancelType DEF SupCancelNow, Tick, TypeOK, SlotTypeOK
<1> QED
  BY <1>1, <1>2, <1>3, <1>4, <1>5, <1>6, <1>7, <1>8, <1>9 DEF StartStep

LEMMA ClockType ==
  ASSUME TypeOK, DeadlinePasses \/ SettlePasses
  PROVE  TypeOK'
  BY DEF DeadlinePasses, SettlePasses, TypeOK, SlotTypeOK

LEMMA ServerType ==
  ASSUME TypeOK, ServerStep
  PROVE  TypeOK'
<1>1. CASE ShutdownBegins
  BY <1>1 DEF ShutdownBegins, TypeOK, SlotTypeOK
<1>2. CASE ServerDies
  BY <1>2 DEF ServerDies, SlotLost, TypeOK, SlotTypeOK, Points
<1>3. CASE Restart
  BY <1>3 DEF Restart, TypeOK, SlotTypeOK, Statuses, TerminalStatuses
<1>4. ASSUME NEW ok \in BOOLEAN, Shutdown(ok)
      PROVE  TypeOK'
  <2>1. status' \in [Requests -> Statuses] /\ faults' \in Nat
    BY <1>4, UpdatesType, AttemptType DEF Shutdown, TypeOK, TerminalStatuses
  <2>2. worker' \in [Requests -> WorkerStates] /\ position' \in [Requests -> Nat]
    <3>1. "dead" \in WorkerStates
      BY DEF WorkerStates
    <3>2. worker' = worker \/ worker' = [worker EXCEPT ![active] = "dead"]
      BY <1>4 DEF Shutdown, StopProcess
    <3>3. position' = position \/ position' = [position EXCEPT ![active] = 0]
      BY <1>4 DEF Shutdown
    <3>4. worker \in [Requests -> WorkerStates] /\ position \in [Requests -> Nat]
      BY DEF TypeOK
    <3>5. worker' \in [Requests -> WorkerStates]
      BY <3>1, <3>2, <3>4, WorkerStateType
    <3>6. position' \in [Requests -> Nat]
      BY <3>3, <3>4, PositionType
    <3> QED BY <3>5, <3>6
  <2>3. SlotTypeOK'
    BY <1>4 DEF Shutdown, Release, TypeOK, SlotTypeOK
  <2>4. /\ terminal' \in {"none", "succeeded", "failed", "cancelled", "blocked"}
        /\ deadline' \in {"none", "armed", "passed"}
        /\ deadSince' \in {"none", "armed", "passed"}
        /\ ladder' \in {"none", "terminated", "killed"}
        /\ chan' \in Seq(Reports \cup {"progress"})
    <3>1. CASE active = None
      BY <1>4, <3>1 DEF Shutdown, TypeOK
    <3>2. CASE active # None
      <4>1. /\ terminal' = "none" /\ deadline' = "none" /\ deadSince' = "none"
            /\ ladder' = "none" /\ chan' = <<>>
        BY <1>4, <3>2 DEF Shutdown
      <4> QED BY <4>1
    <3> QED BY <3>1, <3>2
  <2>5. /\ server' = "stopped" /\ pending' = <<>> /\ cancelSet' = {}
        /\ startingId' = None /\ active' = None
        /\ UNCHANGED <<checked, supVars, strays, history, restarts>>
    BY <1>4 DEF Shutdown
  <2> QED BY <2>1, <2>2, <2>3, <2>4, <2>5 DEF TypeOK
<1> QED BY <1>1, <1>2, <1>3, <1>4 DEF ServerStep

(* Every step of the system leaves every variable within its type. *)
LEMMA NextType ==
  ASSUME TypeOK, [Next]_vars
  PROVE  TypeOK'
<1>1. CASE UNCHANGED vars
  BY <1>1 DEF vars, TypeOK, SlotTypeOK
<1>2. CASE Next
  BY <1>2, SubmitType, CancelType, DeleteType, WorkerType, OtherWorkType,
     ServiceType, StartType, ClockType, ServerType
  DEF Next
<1> QED BY <1>1, <1>2

(* Type correctness, whatever the requests, callers and bounds are. *)
THEOREM TypeCorrect == Spec => []TypeOK
<1> QED BY InitType, NextType, PTL DEF Spec
-----------------------------------------------------------------------------
(* SlotDiscipline is inductive, given the types and that no two calls of    *)
(* run_exclusive pass the same name.                                        *)

DistinctHolders == \A c, d \in Callers : HolderOf[c] = HolderOf[d] => c = d

disciplineVars == <<slotVars, active, startingId, supVars, worker, strays, server>>

LEMMA DisciplineFrame ==
  ASSUME SlotDiscipline, UNCHANGED disciplineVars
  PROVE  SlotDiscipline'
  BY DEF SlotDiscipline, disciplineVars, Owned, Live, Inside, Up

LEMMA InitDiscipline == Init => SlotDiscipline
  BY DEF Init, SlotInit, SlotDiscipline, Owned, Live, Inside, Up,
         JobPoints, ServicePoints, StartPoints

LEMMA ClientDiscipline ==
  ASSUME TypeOK, SlotDiscipline, NEW r \in Requests,
         SubmitStep(r) \/ CancelStep(r) \/ DeleteAttempt(r)
  PROVE  SlotDiscipline'
<1>1. CASE SubmitCheck(r) \/ SubmitRefuse(r) \/ DeleteAttempt(r)
  BY <1>1, DisciplineFrame
  DEF SubmitCheck, SubmitRefuse, DeleteAttempt, disciplineVars
<1>2. ASSUME NEW ok \in BOOLEAN,
             CancelActive(r, ok) \/ CancelStarting(r, ok) \/ CancelQueued(r, ok)
      PROVE  SlotDiscipline'
  BY <1>2, DisciplineFrame
  DEF CancelActive, CancelStarting, CancelQueued, disciplineVars
<1>3. ASSUME NEW ok \in BOOLEAN, SubmitAccept(r, ok)
      PROVE  SlotDiscipline'
  BY <1>3 DEF SubmitAccept, SlotDiscipline, Owned, Live, Inside, Up,
              JobPoints, ServicePoints, StartPoints
<1> QED BY <1>1, <1>2, <1>3 DEF SubmitStep, CancelStep

(* A worker step changes no worker but its own, and revives none. *)
LEMMA WorkerDiscipline ==
  ASSUME TypeOK, SlotDiscipline, NEW r \in Requests, WorkerStep(r)
  PROVE  SlotDiscipline'
<1>1. /\ \A q \in Requests : Owned(q)' => Owned(q)
      /\ \A q \in Requests : Live(q)' => Live(q)
  <2>1. CASE WorkerProgress(r)
    BY <2>1 DEF WorkerProgress, Owned, Live
  <2>2. CASE WorkerRecord(r) \/ WorkerComplete(r)
    BY <2>2 DEF WorkerRecord, WorkerComplete, Owned, Live, TypeOK
  <2>3. CASE WorkerStopsEarly(r) \/ WorkerDeliver(r)
    BY <2>3 DEF WorkerStopsEarly, WorkerDeliver, Owned, Live, TypeOK, Reports
  <2>4. CASE WorkerDies(r)
    BY <2>4 DEF WorkerDies, Owned, Live, TypeOK
  <2> QED BY <2>1, <2>2, <2>3, <2>4 DEF WorkerStep, WorkerFinishes
<1>2. UNCHANGED <<slotVars, active, startingId, supVars, server>>
  BY DEF WorkerStep, WorkerFinishes, WorkerProgress, WorkerRecord, WorkerComplete,
         WorkerStopsEarly, WorkerDeliver, WorkerDies
<1>3. sup \in {"persist", "retire"} => active \in Requests
  BY DEF SlotDiscipline, TypeOK, JobPoints, ServicePoints
<1> QED BY <1>1, <1>2, <1>3 DEF SlotDiscipline, Inside, Up

LEMMA OtherWorkDiscipline ==
  ASSUME TypeOK, SlotDiscipline, DistinctHolders, NEW c \in Callers,
         OtherWorkStarts(c) \/ OtherWorkEnds(c)
  PROVE  SlotDiscipline'
<1>1. CASE OtherWorkStarts(c)
  <2>1. holder \notin Requests
    BY <1>1, CallersHaveNames, NoneIsNoRequest
    DEF OtherWorkStarts, EnterExclusive, TryAcquire, CanAcquire
  <2>2. active = None /\ startingId = None /\ sup \notin {"free", "giveup"}
    BY <2>1 DEF SlotDiscipline, TypeOK
  <2>3. holder' = HolderOf[c] /\ holder \in {None, HolderOf[c]}
    BY <1>1 DEF OtherWorkStarts, EnterExclusive, TryAcquire, CanAcquire
  <2>4. \A d \in Inside' : holder' = HolderOf[d]
    <3> SUFFICES ASSUME NEW d \in Callers, calls'[d] = "inside"
                 PROVE  holder' = HolderOf[d]
      BY DEF Inside
    <3>1. CASE d = c
      BY <2>3, <3>1
    <3>2. CASE d # c
      <4>1. d \in Inside
        BY <1>1, <3>2 DEF OtherWorkStarts, EnterExclusive, Inside, TypeOK, SlotTypeOK
      <4> QED BY <2>3, <4>1, CallersHaveNames DEF SlotDiscipline
    <3> QED BY <3>1, <3>2
  <2> QED BY <1>1, <2>2, <2>4
    DEF OtherWorkStarts, EnterExclusive, SlotDiscipline, Owned, Live, Up
<1>2. CASE OtherWorkEnds(c)
  <2>1. holder = HolderOf[c]
    BY <1>2 DEF OtherWorkEnds, LeaveExclusive, SlotDiscipline, Inside
  <2>2. active = None /\ startingId = None /\ sup \notin {"free", "giveup"}
    BY <2>1, CallersHaveNames DEF SlotDiscipline, TypeOK
  <2>3. Inside' = {}
    BY <1>2, <2>1
    DEF OtherWorkEnds, LeaveExclusive, SlotDiscipline, Inside, DistinctHolders,
        TypeOK, SlotTypeOK
  <2> QED BY <1>2, <2>1, <2>2, <2>3
    DEF OtherWorkEnds, LeaveExclusive, SlotDiscipline, Owned, Live, Up
<1> QED BY <1>1, <1>2

LEMMA ServiceDiscipline ==
  ASSUME TypeOK, SlotDiscipline, ServiceStep
  PROVE  SlotDiscipline'
<1> USE DEF JobPoints, ServicePoints, StartPoints
<1>1. CASE SupTick
  BY <1>1 DEF SupTick, SlotDiscipline, Owned, Live, Inside, Up, Closed
<1>2. CASE SupDrained \/ SupChannelError \/ SupEscalate
  BY <1>2 DEF SupDrained, SupChannelError, SupEscalate, SlotDiscipline,
              Owned, Live, Inside, Up
<1>3. CASE SupReap
  BY <1>3 DEF SupReap, SlotDiscipline, Owned, Live, Inside, Up
<1>4. CASE SupStop
  <2>1. active \in Requests /\ current = active
    BY <1>4 DEF SupStop, SlotDiscipline, TypeOK
  <2>2. ~Live(active)'
    BY <1>4, <2>1 DEF SupStop, StopProcess, Live, TypeOK
  <2>3. \A r \in Requests : Owned(r)' => Owned(r)
    BY <1>4 DEF SupStop, StopProcess, Owned, Live, TypeOK
  <2> QED BY <1>4, <2>1, <2>2, <2>3 DEF SupStop, SlotDiscipline, Inside, Up
<1>5. ASSUME NEW ok \in BOOLEAN, SupHandle(ok) \/ SupPersist(ok)
      PROVE  SlotDiscipline'
  BY <1>5 DEF SupHandle, SupPersist, Tick, SlotDiscipline, Owned, Live, Inside, Up
<1>6. CASE SupRetire
  BY <1>6 DEF SupRetire, SlotDiscipline, Owned, Live, Inside, Up
<1>7. CASE SupFree
  <2>1. holder = current /\ current \in Requests
    BY <1>7 DEF SupFree, SlotDiscipline, TypeOK
  <2>2. Inside = {}
    BY <2>1, CallersHaveNames DEF SlotDiscipline, Inside
  <2> QED BY <1>7, <2>1, <2>2
    DEF SupFree, SlotDiscipline, Owned, Live, Inside, Up
<1> QED
  BY <1>1, <1>2, <1>3, <1>4, <1>5, <1>6, <1>7 DEF ServiceStep

LEMMA StartDiscipline ==
  ASSUME TypeOK, SlotDiscipline, StartStep
  PROVE  SlotDiscipline'
<1> USE DEF JobPoints, ServicePoints, StartPoints
<1>1. CASE SupNothingToStart
  BY <1>1 DEF SupNothingToStart, Tick, SlotDiscipline, Owned, Live, Inside, Up
<1>2. CASE SupReserve
  <2>1. Head(pending) \in Requests
    BY <1>2, TailInSeq DEF SupReserve, MayStart, TypeOK
  <2>2. active = None /\ startingId = None /\ active' = None
        /\ startingId' = Head(pending) /\ holder' = Head(pending)
    BY <1>2 DEF SupReserve, MayStart, SlotTaken, TryAcquire
  <2>3. Inside = {}
    BY <1>2, <2>1, CallersHaveNames
    DEF SupReserve, MayStart, CanAcquire, SlotDiscipline, Inside
  <2>4. \A r \in Requests : ~Owned(r)
    BY <2>2, NoneIsNoRequest DEF SlotDiscipline
  <2>5. sup' = "service" \/ (sup' = "mark" /\ current' = Head(pending))
    BY <1>2 DEF SupReserve, Tick
  <2>6. UNCHANGED <<calls, worker, strays, server>> /\ Up
    BY <1>2 DEF SupReserve
  <2> QED BY <2>1, <2>2, <2>3, <2>4, <2>5, <2>6, NoneIsNoRequest
    DEF SlotDiscipline, Owned, Live, Inside, Up
<1>3. CASE SupSpawn
  <2>1. \A r \in Requests : ~Owned(r)
    BY <1>3, NoneIsNoRequest DEF SupSpawn, SlotDiscipline, TypeOK
  <2>2. \A r \in Requests : Owned(r)' => r = current
    BY <1>3, <2>1 DEF SupSpawn, Owned, Live, TypeOK
  <2> QED BY <1>3, <2>2 DEF SupSpawn, SlotDiscipline, Inside, Up
<1>4. CASE SupSpawnFails
  BY <1>4, NoneIsNoRequest
  DEF SupSpawnFails, SlotDiscipline, Owned, Live, Inside, Up, TypeOK
<1>5. CASE SupInstall
  BY <1>5, NoneIsNoRequest
  DEF SupInstall, SlotDiscipline, Owned, Live, Inside, Up, TypeOK
<1>6. ASSUME NEW ok \in BOOLEAN,
             SupMark(ok) \/ SupMarkRunning(ok) \/ SupCancelNow(ok)
      PROVE  SlotDiscipline'
  BY <1>6 DEF SupMark, SupMarkRunning, SupCancelNow, Tick, SlotDiscipline,
              Owned, Live, Inside, Up
<1>7. ASSUME NEW ok \in BOOLEAN, SupGiveUp(ok)
      PROVE  SlotDiscipline'
  <2>1. holder = current /\ current \in Requests
    BY <1>7 DEF SupGiveUp, SlotDiscipline, TypeOK
  <2>2. Inside = {}
    BY <2>1, CallersHaveNames DEF SlotDiscipline, Inside
  <2> QED BY <1>7, <2>1, <2>2
    DEF SupGiveUp, Tick, SlotDiscipline, Owned, Live, Inside, Up
<1> QED
  BY <1>1, <1>2, <1>3, <1>4, <1>5, <1>6, <1>7 DEF StartStep

LEMMA ServerDiscipline ==
  ASSUME TypeOK, SlotDiscipline, ServerStep
  PROVE  SlotDiscipline'
<1> USE DEF JobPoints, ServicePoints, StartPoints
<1>1. CASE ShutdownBegins \/ Restart
  BY <1>1 DEF ShutdownBegins, Restart, SlotDiscipline, Owned, Live, Inside, Up
<1>2. CASE ServerDies
  BY <1>2 DEF ServerDies, SlotLost, SlotDiscipline, Owned, Live, Inside, Up,
              TypeOK, SlotTypeOK
<1>3. ASSUME NEW ok \in BOOLEAN, Shutdown(ok)
      PROVE  SlotDiscipline'
  <2>1. sup \in {"off", "exited"} /\ UNCHANGED <<calls, supVars, strays>>
        /\ active' = None /\ startingId' = None /\ server' = "stopped"
    BY <1>3 DEF Shutdown
  <2>2. \A r \in Requests : ~Owned(r)'
    <3>1. CASE active = None
      BY <1>3, <2>1, <3>1, NoneIsNoRequest
      DEF Shutdown, SlotDiscipline, Owned, Live
    <3>2. CASE active # None
      BY <1>3, <2>1, <3>2 DEF Shutdown, StopProcess, SlotDiscipline, Owned, Live, TypeOK
    <3> QED BY <3>1, <3>2
  <2>3. \A c \in Inside' : holder' = HolderOf[c]
    <3>1. CASE active = None
      BY <1>3, <2>1, <3>1 DEF Shutdown, SlotDiscipline, Inside
    <3>2. CASE active # None
      BY <2>1, <3>2, CallersHaveNames DEF SlotDiscipline, Inside, TypeOK
    <3> QED BY <3>1, <3>2
  <2> QED BY <2>1, <2>2, <2>3 DEF SlotDiscipline, Up
<1> QED BY <1>1, <1>2, <1>3 DEF ServerStep

LEMMA NextDiscipline ==
  ASSUME TypeOK, SlotDiscipline, DistinctHolders, [Next]_vars
  PROVE  SlotDiscipline'
<1>1. CASE UNCHANGED vars \/ DeadlinePasses \/ SettlePasses
  BY <1>1, DisciplineFrame DEF vars, DeadlinePasses, SettlePasses, disciplineVars
<1>2. CASE Next /\ ~(DeadlinePasses \/ SettlePasses)
  BY <1>2, ClientDiscipline, WorkerDiscipline, OtherWorkDiscipline,
     ServiceDiscipline, StartDiscipline, ServerDiscipline
  DEF Next
<1> QED BY <1>1, <1>2

(* The inductive invariant of the slot, the manager and its supervisor. *)
THEOREM DisciplineHolds ==
  ASSUME DistinctHolders
  PROVE  Spec => []SlotDiscipline
<1>1. TypeOK /\ SlotDiscipline /\ [Next]_vars => (TypeOK /\ SlotDiscipline)'
  BY NextType, NextDiscipline
<1> QED BY <1>1, InitType, InitDiscipline, PTL DEF Spec

(* A live worker's request holds the slot: the process is always joined     *)
(* before its slot is released.                                             *)
THEOREM SlotIsHeld ==
  ASSUME DistinctHolders
  PROVE  Spec => []SlotCoversWorker
<1>1. SlotDiscipline => SlotCoversWorker
  BY NoneIsNoRequest DEF SlotDiscipline, SlotCoversWorker
<1> QED BY <1>1, DisciplineHolds, PTL

(* At most one QC worker or other exclusive job runs at a time. *)
THEOREM MutualExclusion ==
  ASSUME DistinctHolders
  PROVE  Spec => []OneHeavyWorker
<1>1. SlotDiscipline => OneHeavyWorker
  <2> SUFFICES ASSUME SlotDiscipline,
                      NEW x \in {r \in Requests : Owned(r)} \cup Inside,
                      NEW y \in {r \in Requests : Owned(r)} \cup Inside
               PROVE  x = y
    BY DEF OneHeavyWorker
  <2>1. \A r \in Requests : Owned(r) => holder = r
    BY NoneIsNoRequest DEF SlotDiscipline
  <2>2. \A c \in Inside : holder = HolderOf[c] /\ holder \notin Requests
    BY CallersHaveNames DEF SlotDiscipline, Inside
  <2> QED BY <2>1, <2>2 DEF DistinctHolders, Inside
<1> QED BY <1>1, DisciplineHolds, PTL
---------------------------------------------------------------------------
(* The run_state rows: RowDiscipline is inductive together with the        *)
(* discipline of the slot, and from it a row shown as ended is over and    *)
(* stays as it is.                                                         *)
LEMMA RemoveAtElements ==
  ASSUME NEW S, NEW s \in Seq(S), NEW i \in 1..Len(s)
  PROVE  /\ RemoveAt(s, i) \in Seq(S)
         /\ Len(RemoveAt(s, i)) = Len(s) - 1
         /\ \A j \in 1..(Len(s) - 1) :
              RemoveAt(s, i)[j] = IF j < i THEN s[j] ELSE s[j + 1]
<1> DEFINE a == SubSeq(s, 1, i - 1)
           b == SubSeq(s, i + 1, Len(s))
<1>1. a \in Seq(S) /\ Len(a) = i - 1 /\ \A j \in 1..(i - 1) : a[j] = s[j]
  OBVIOUS
<1>2. b \in Seq(S) /\ Len(b) = Len(s) - i
      /\ \A j \in 1..(Len(s) - i) : b[j] = s[j + i]
  <2>1. b \in Seq(S) /\ Len(b) = Len(s) - i
    OBVIOUS
  <2>2. ASSUME NEW j \in 1..(Len(s) - i)
        PROVE  b[j] = s[j + i]
    <3>1. b[j] = s[(i + 1) + j - 1] /\ (i + 1) + j - 1 = j + i
      OBVIOUS
    <3> QED BY <3>1
  <2> QED BY <2>1, <2>2
<1>3. RemoveAt(s, i) = a \o b
  BY DEF RemoveAt
<1>4. /\ a \o b \in Seq(S) /\ Len(a \o b) = Len(a) + Len(b)
      /\ \A j \in 1..(Len(a) + Len(b)) :
           (a \o b)[j] = IF j <= Len(a) THEN a[j] ELSE b[j - Len(a)]
  BY <1>1, <1>2, ConcatProperties
<1> HIDE DEF a, b
<1>5. Len(a) + Len(b) = Len(s) - 1
  BY <1>1, <1>2
<1>6. ASSUME NEW j \in 1..(Len(s) - 1)
      PROVE  (a \o b)[j] = IF j < i THEN s[j] ELSE s[j + 1]
  <2>1. CASE j < i
    BY <1>1, <1>4, <1>5, <2>1
  <2>2. CASE ~(j < i)
    <3>1. (a \o b)[j] = b[j - (i - 1)]
      BY <1>1, <1>4, <1>5, <2>2
    <3>2. j - (i - 1) \in 1..(Len(s) - i) /\ (j - (i - 1)) + i = j + 1
      BY <2>2
    <3> QED BY <1>2, <2>2, <3>1, <3>2
  <2> QED BY <2>1, <2>2
<1> QED BY <1>3, <1>4, <1>5, <1>6

(* What an UPDATE guarded by the old status can do to a row. *)
LEMMA AdvanceRow ==
  ASSUME status \in [Requests -> Statuses], NEW r, NEW from, NEW to,
         NEW q \in Requests
  PROVE  /\ q # r => Advance(r, from, to)[q] = status[q]
         /\ status[q] \notin from => Advance(r, from, to)[q] = status[q]
         /\ status[q] \in from => Advance(r, from, to)[q] \in {status[q], to}
         /\ (q = r /\ status[q] \in from) => Advance(r, from, to)[q] = to
  BY DEF Advance

RowVars == <<status, pending, active, startingId, sup, current, terminal, server>>

LEMMA RowFrame ==
  ASSUME RowDiscipline, UNCHANGED RowVars
  PROVE  RowDiscipline'
  BY DEF RowDiscipline, RowVars, Up

LEMMA InitRows == Init => RowDiscipline
  BY DEF Init, RowDiscipline, Up

(* A request that is being started, or is in the deque, is not active. *)
LEMMA Apart ==
  ASSUME SlotDiscipline, RowDiscipline, TypeOK
  PROVE  /\ startingId # None => active = None
         /\ \A i \in 1..Len(pending) : pending[i] \in Requests
  BY DEF SlotDiscipline, TypeOK

LEMMA SubmitRows ==
  ASSUME TypeOK, SlotDiscipline, RowDiscipline, NEW r \in Requests, SubmitStep(r)
  PROVE  RowDiscipline'
<1>1. CASE SubmitCheck(r) \/ SubmitRefuse(r)
  BY <1>1, RowFrame DEF SubmitCheck, SubmitRefuse, RowVars
<1>2. ASSUME NEW ok \in BOOLEAN, SubmitAccept(r, ok)
      PROVE  RowDiscipline'
  <2>1. status[r] = "none"
    BY <1>2, RequestsAreNumbered DEF SubmitAccept
  <2>2. r \notin {startingId, active}
    BY <2>1, NoneIsNoRequest
    DEF RowDiscipline, StartedStatuses, Ended, TerminalStatuses
  <2>3. \A i \in 1..Len(pending) : pending[i] # r
    BY <2>1 DEF RowDiscipline
  <2>4. /\ status' = [status EXCEPT ![r] = "queued"]
        /\ \A q \in Requests : q # r => status'[q] = status[q]
        /\ status'[r] = "queued"
    BY <1>2 DEF SubmitAccept, TypeOK
  <2>5. UNCHANGED <<active, startingId, current, terminal, server>> /\ Up
    BY <1>2 DEF SubmitAccept
  <2>6. sup' = sup \/ (sup' = "service" /\ sup \in {"off", "exited"})
    BY <1>2 DEF SubmitAccept
  <2>7. sup \in {"spawn", "install", "giveup"} => current # r
    BY <2>1 DEF RowDiscipline
  <2>8. \A i \in 1..Len(pending') :
          /\ status'[pending'[i]] = "queued"
          /\ pending'[i] \notin {startingId, active}
          /\ \A j \in 1..Len(pending') : pending'[i] = pending'[j] => i = j
    <3>1. CASE pending' = pending
      BY <2>3, <2>4, <3>1 DEF RowDiscipline, TypeOK
    <3>2. CASE pending' = Append(pending, r)
      BY <2>2, <2>3, <2>4, <3>2 DEF RowDiscipline, TypeOK
    <3> QED BY <1>2, <3>1, <3>2 DEF SubmitAccept, Enqueue
  <2>9. active # None => status'[active] = status[active]
    BY <2>2, <2>4 DEF TypeOK
  <2>10. startingId # None => status'[startingId] = status[startingId]
    BY <2>2, <2>4 DEF TypeOK
  <2>11. sup \in {"spawn", "install", "giveup"} => status'[current] = status[current]
    BY <2>4, <2>7 DEF SlotDiscipline, StartPoints, TypeOK
  <2> QED BY <2>5, <2>6, <2>8, <2>9, <2>10, <2>11 DEF RowDiscipline, Up
<1> QED BY <1>1, <1>2 DEF SubmitStep

(* A cancel moves a row that is queued, starting or running to cancelling; *)
(* it is only called for the row of a request that is started or active.   *)
LEMMA RequestCancelRow ==
  ASSUME TypeOK, NEW r, NEW q \in Requests
  PROVE  /\ q # r => RequestCancel(r)[q] = status[q]
         /\ status[q] \in {"queued", "starting", "cancelling"} =>
              RequestCancel(r)[q] \in {"queued", "starting", "cancelling"}
         /\ status[q] \in {"starting", "cancelling"} =>
              RequestCancel(r)[q] \in {"starting", "cancelling"}
         /\ status[q] \in StartedStatuses =>
              RequestCancel(r)[q] \in StartedStatuses
         /\ status[q] \in Ended => RequestCancel(r)[q] = status[q]
  BY DEF RequestCancel, Advance, StartedStatuses, Ended, TerminalStatuses, TypeOK

(* Any step that changes rows only so, and nothing else of RowVars. *)
LEMMA CancelledRows ==
  ASSUME TypeOK, SlotDiscipline, RowDiscipline, NEW r \in {active, startingId},
         status' \in {status, RequestCancel(r)},
         UNCHANGED <<pending, active, startingId, sup, current, terminal, server>>
  PROVE  RowDiscipline'
<1>1. CASE status' = status
  BY <1>1, RowFrame DEF RowVars
<1>2. CASE status' = RequestCancel(r)
  <2>1. \A i \in 1..Len(pending) : status'[pending[i]] = status[pending[i]]
    BY <1>2, Apart, RequestCancelRow DEF RowDiscipline
  <2>2. startingId # None => status'[startingId] \in {"queued", "starting", "cancelling"}
    BY <1>2, RequestCancelRow DEF RowDiscipline, TypeOK
  <2>3. sup \in {"spawn", "install", "giveup"} =>
          status'[current] \in {"starting", "cancelling"}
    <3>1. sup \in {"spawn", "install", "giveup"} => current \in Requests
      BY DEF SlotDiscipline, StartPoints, TypeOK
    <3> QED BY <1>2, <3>1, RequestCancelRow DEF RowDiscipline
  <2>4. active # None =>
          status'[active] \in StartedStatuses \cup (IF sup = "retire" THEN Ended ELSE {})
    <3> SUFFICES ASSUME active # None
                 PROVE  status'[active] \in StartedStatuses \cup
                          (IF sup = "retire" THEN Ended ELSE {})
      OBVIOUS
    <3>1. active \in Requests
      BY DEF TypeOK
    <3>2. CASE status[active] \in StartedStatuses
      BY <1>2, <3>1, <3>2, RequestCancelRow
    <3>3. CASE status[active] \in Ended /\ sup = "retire"
      BY <1>2, <3>1, <3>3, RequestCancelRow
    <3> QED BY <3>2, <3>3 DEF RowDiscipline
  <2> QED BY <2>1, <2>2, <2>3, <2>4 DEF RowDiscipline, Up
<1> QED BY <1>1, <1>2

LEMMA CancelRows ==
  ASSUME TypeOK, SlotDiscipline, RowDiscipline, NEW r \in Requests,
         CancelStep(r) \/ DeleteAttempt(r)
  PROVE  RowDiscipline'
<1>1. ASSUME NEW ok \in BOOLEAN, CancelActive(r, ok)
      PROVE  RowDiscipline'
  BY <1>1, CancelledRows DEF CancelActive, BeginCancel
<1>2. ASSUME NEW ok \in BOOLEAN, CancelStarting(r, ok)
      PROVE  RowDiscipline'
  BY <1>2, CancelledRows DEF CancelStarting
<1>3. ASSUME NEW ok \in BOOLEAN, CancelQueued(r, ok)
      PROVE  RowDiscipline'
  <2>1. PICK i \in 1..Len(pending) :
          pending[i] = r /\ pending' = RemoveAt(pending, i)
    BY <1>3 DEF CancelQueued, DropEntry
  <2>2. /\ Len(pending') = Len(pending) - 1
        /\ \A j \in 1..Len(pending') : \E m \in 1..Len(pending) :
             m # i /\ pending'[j] = pending[m] /\ m = (IF j < i THEN j ELSE j + 1)
    <3>1. pending \in Seq(Requests)
      BY DEF TypeOK
    <3>2. /\ Len(pending') = Len(pending) - 1
          /\ \A j \in 1..(Len(pending) - 1) :
               pending'[j] = IF j < i THEN pending[j] ELSE pending[j + 1]
      BY <2>1, <3>1, RemoveAtElements
    <3> QED BY <3>1, <3>2
  <2>3. \A j \in 1..Len(pending') : pending'[j] # r
    BY <2>1, <2>2 DEF RowDiscipline
  <2>4. \A q \in Requests : q # r => status'[q] = status[q]
    BY <1>3, AdvanceRow DEF CancelQueued, Finish, TypeOK
  <2>5. \A j \in 1..Len(pending') :
          /\ status'[pending'[j]] = "queued"
          /\ pending'[j] \notin {startingId, active}
    BY <2>2, <2>3, <2>4, Apart DEF RowDiscipline
  <2>6. \A j, l \in 1..Len(pending') : pending'[j] = pending'[l] => j = l
    <3> SUFFICES ASSUME NEW j \in 1..Len(pending'), NEW l \in 1..Len(pending'),
                        pending'[j] = pending'[l]
                 PROVE  j = l
      OBVIOUS
    <3>1. PICK m \in 1..Len(pending) :
            pending'[j] = pending[m] /\ m = (IF j < i THEN j ELSE j + 1)
      BY <2>2
    <3>2. PICK n \in 1..Len(pending) :
            pending'[l] = pending[n] /\ n = (IF l < i THEN l ELSE l + 1)
      BY <2>2
    <3>3. m = n
      BY <3>1, <3>2 DEF RowDiscipline
    <3>4. j \in Nat /\ l \in Nat /\ i \in Nat
      BY <2>2 DEF TypeOK
    <3> QED BY <3>1, <3>2, <3>3, <3>4
  <2>7. r \notin {active, startingId} /\ Up
        /\ UNCHANGED <<active, startingId, sup, current, terminal, server>>
    BY <1>3 DEF CancelQueued
  <2>8. sup \in {"spawn", "install", "giveup"} => current \in Requests /\ current # r
    BY <2>1 DEF RowDiscipline, SlotDiscipline, StartPoints, TypeOK
  <2>9. /\ active # None => status'[active] = status[active]
        /\ startingId # None => status'[startingId] = status[startingId]
        /\ sup \in {"spawn", "install", "giveup"} => status'[current] = status[current]
    BY <2>4, <2>7, <2>8 DEF TypeOK
  <2> QED BY <2>5, <2>6, <2>7, <2>9 DEF RowDiscipline, Up
<1>4. CASE DeleteAttempt(r)
  <2>1. /\ status[r] \in TerminalStatuses
        /\ status' = [status EXCEPT ![r] = "deleted"]
        /\ UNCHANGED <<pending, active, startingId, sup, current, terminal, server>>
    BY <1>4 DEF DeleteAttempt
  <2>2. \A q \in Requests : q # r => status'[q] = status[q]
    BY <2>1 DEF TypeOK
  <2>3. status'[r] = "deleted" /\ status'[r] \in Ended
    BY <2>1 DEF Ended, TypeOK
  <2>4. (\A i \in 1..Len(pending) : pending[i] # r) /\ r # startingId
    BY <2>1, NoneIsNoRequest DEF RowDiscipline, TerminalStatuses
  <2>5. sup \in {"spawn", "install", "giveup"} => current \in Requests /\ current # r
    BY <2>1 DEF RowDiscipline, SlotDiscipline, StartPoints, TypeOK, TerminalStatuses
  <2>6. active = r => sup = "retire"
    BY <2>1, NoneIsNoRequest DEF RowDiscipline, StartedStatuses, TerminalStatuses
  <2>7. active # None =>
          status'[active] \in StartedStatuses \cup (IF sup = "retire" THEN Ended ELSE {})
    BY <2>2, <2>3, <2>6 DEF RowDiscipline, TypeOK
  <2>8. startingId # None => status'[startingId] = status[startingId]
    BY <2>2, <2>4 DEF TypeOK
  <2> QED BY <2>1, <2>2, <2>4, <2>5, <2>7, <2>8, Apart DEF RowDiscipline, Up
<1> QED BY <1>1, <1>2, <1>3, <1>4 DEF CancelStep

(* Worker steps, the clock, other exclusive work and the calls of submit    *)
(* that do not get in touch nothing RowDiscipline speaks of.                *)
LEMMA QuietRows ==
  ASSUME RowDiscipline,
         \/ \E r \in Requests : WorkerStep(r)
         \/ \E c \in Callers : OtherWorkStarts(c) \/ OtherWorkEnds(c)
         \/ DeadlinePasses \/ SettlePasses \/ UNCHANGED vars
  PROVE  RowDiscipline'
<1>1. UNCHANGED RowVars
  BY DEF WorkerStep, WorkerFinishes, WorkerProgress, WorkerRecord, WorkerComplete,
         WorkerStopsEarly, WorkerDeliver, WorkerDies, OtherWorkStarts, OtherWorkEnds,
         DeadlinePasses, SettlePasses, vars, RowVars
<1> QED BY <1>1, RowFrame

(* mark_running and a progress message move a started row only. *)
LEMMA RunningRow ==
  ASSUME TypeOK, NEW r, NEW q \in Requests
  PROVE  LET next == Advance(r, {"starting"}, "running") IN
         /\ q # r => next[q] = status[q]
         /\ status[q] \in StartedStatuses => next[q] \in StartedStatuses
         /\ status[q] \notin StartedStatuses => next[q] = status[q]
  BY DEF Advance, StartedStatuses, TypeOK

LEMMA ServiceRows ==
  ASSUME TypeOK, SlotDiscipline, RowDiscipline, ServiceStep
  PROVE  RowDiscipline'
<1> USE DEF JobPoints, ServicePoints, StartPoints
<1>1. CASE SupTick \/ SupDrained \/ SupEscalate \/ SupStop \/ SupFree
  <2>1. UNCHANGED <<status, pending, active, startingId, terminal, server>> /\ Up
    BY <1>1 DEF SupTick, SupDrained, SupEscalate, SupStop, SupFree
  <2>2. /\ sup \notin {"retire", "spawn", "install", "giveup", "persist"}
        /\ sup' \notin {"spawn", "install", "giveup", "stop"}
        /\ sup' = "persist" => sup = "stop"
    BY <1>1 DEF SupTick, SupDrained, SupEscalate, SupStop, SupFree
  <2> QED BY <2>1, <2>2 DEF RowDiscipline, Up
<1>2. CASE SupChannelError
  BY <1>2 DEF SupChannelError, RowDiscipline, Up
<1>3. CASE SupReap
  BY <1>3 DEF SupReap, RowDiscipline, Up
<1>4. CASE SupRetire
  BY <1>4 DEF SupRetire, SlotDiscipline, RowDiscipline, Up
<1>5. ASSUME NEW ok \in BOOLEAN, SupHandle(ok)
      PROVE  RowDiscipline'
  <2>1. UNCHANGED <<pending, active, startingId, server>> /\ Up /\ sup = "drain"
        /\ sup' \in {"drain", "service"}
    BY <1>5 DEF SupHandle, Tick
  <2>2. active # None /\ startingId = None /\ active \in Requests
    BY <2>1 DEF SlotDiscipline, TypeOK
  <2>3. status' = status \/ status' = Advance(current, {"starting"}, "running")
    BY <1>5 DEF SupHandle, UpdateProgress
  <2>4. status'[active] \in StartedStatuses
    BY <2>1, <2>2, <2>3, RunningRow DEF RowDiscipline
  <2>5. \A i \in 1..Len(pending) : status'[pending[i]] = status[pending[i]]
    BY <2>3, Apart, RunningRow DEF RowDiscipline, StartedStatuses
  <2> QED BY <2>1, <2>2, <2>4, <2>5 DEF RowDiscipline, Up
<1>6. ASSUME NEW ok \in BOOLEAN, SupPersist(ok)
      PROVE  RowDiscipline'
  <2>1. UNCHANGED <<pending, active, startingId, current, terminal, server>> /\ Up
        /\ sup = "persist" /\ sup' = "retire"
    BY <1>6 DEF SupPersist
  <2>2. active # None /\ startingId = None /\ active \in Requests /\ current = active
    BY <2>1 DEF SlotDiscipline, TypeOK
  <2>3. terminal \in TerminalStatuses
    BY <2>1 DEF RowDiscipline, TypeOK, TerminalStatuses
  <2>4. status' = status \/ status' = Finish(current, terminal)
    BY <1>6 DEF SupPersist
  <2>5. status'[active] \in StartedStatuses \cup Ended
    BY <2>1, <2>2, <2>3, <2>4
    DEF RowDiscipline, Finish, Advance, TypeOK, Ended
  <2>6. \A i \in 1..Len(pending) : status'[pending[i]] = status[pending[i]]
    BY <2>2, <2>4, Apart DEF RowDiscipline, Finish, Advance, TypeOK
  <2> QED BY <2>1, <2>2, <2>5, <2>6 DEF RowDiscipline, Up
<1> QED BY <1>1, <1>2, <1>3, <1>4, <1>5, <1>6 DEF ServiceStep

LEMMA StartRows ==
  ASSUME TypeOK, SlotDiscipline, RowDiscipline, StartStep
  PROVE  RowDiscipline'
<1> USE DEF JobPoints, ServicePoints, StartPoints
<1>1. CASE SupNothingToStart
  BY <1>1 DEF SupNothingToStart, Tick, RowDiscipline, Up
<1>2. CASE SupReserve
  <2>1. /\ startingId' = Head(pending) /\ pending' = Tail(pending)
        /\ UNCHANGED <<status, active, terminal, server>>
        /\ sup' \in {"mark", "service"} /\ sup = "start"
        /\ active = None /\ pending # <<>> /\ Up
    BY <1>2 DEF SupReserve, MayStart, SlotTaken, Tick
  <2>2. /\ Head(pending) = pending[1] /\ Len(pending') = Len(pending) - 1
        /\ \A i \in 1..Len(pending') : pending'[i] = pending[i + 1]
        /\ 1 \in 1..Len(pending)
    BY <2>1 DEF TypeOK
  <2>3. \A i \in 1..Len(pending') : i + 1 \in 1..Len(pending)
    BY <2>1, <2>2 DEF TypeOK
  <2>4. \A i \in 1..Len(pending') :
          /\ status[pending'[i]] = "queued"
          /\ pending'[i] # pending[1]
          /\ \A j \in 1..Len(pending') : pending'[i] = pending'[j] => i = j
    BY <2>2, <2>3 DEF RowDiscipline
  <2>5. \A i \in 1..Len(pending') : pending'[i] # None
    BY <2>2, <2>3, Apart, NoneIsNoRequest
  <2> QED BY <2>1, <2>2, <2>4, <2>5 DEF RowDiscipline, Up
<1>3. CASE SupSpawn
  BY <1>3 DEF SupSpawn, RowDiscipline, Up
<1>4. CASE SupSpawnFails
  BY <1>4, Apart, NoneIsNoRequest DEF SupSpawnFails, RowDiscipline, Up
<1>5. CASE SupInstall
  <2>1. /\ active' = current /\ startingId' = None /\ current = startingId
        /\ startingId # None
        /\ UNCHANGED <<status, pending, current, terminal, server>> /\ Up
        /\ sup' \in {"run", "runCancelled"} /\ sup = "install"
    BY <1>5 DEF SupInstall, SlotDiscipline
  <2> QED BY <2>1, Apart, NoneIsNoRequest
    DEF RowDiscipline, StartedStatuses, Up
<1>6. ASSUME NEW ok \in BOOLEAN, SupMark(ok)
      PROVE  RowDiscipline'
  <2>1. /\ UNCHANGED <<pending, active, startingId, terminal, server>> /\ Up
        /\ sup' = "service" \/ (sup' = "spawn" /\ ok /\ current' = current)
        /\ current = startingId /\ startingId \in Requests /\ active = None
    BY <1>6 DEF SupMark, Tick, SlotDiscipline, TypeOK
  <2>2. status' = IF ok THEN MarkStarting(current) ELSE status
    BY <1>6 DEF SupMark
  <2>3. /\ ok => status'[startingId] \in {"starting", "cancelling"}
        /\ ~ok => status' = status
    BY <2>1, <2>2, NoneIsNoRequest DEF MarkStarting, Advance, RowDiscipline, TypeOK
  <2>4. \A i \in 1..Len(pending) : status'[pending[i]] = status[pending[i]]
    BY <2>1, <2>2, Apart DEF MarkStarting, Advance, RowDiscipline, TypeOK
  <2> QED BY <2>1, <2>3, <2>4 DEF RowDiscipline, Up
<1>7. ASSUME NEW ok \in BOOLEAN, SupGiveUp(ok)
      PROVE  RowDiscipline'
  <2>1. /\ UNCHANGED <<pending, active, startingId, terminal, server>> /\ Up
        /\ sup' = "service" /\ sup = "giveup"
        /\ active = None /\ startingId = None
        /\ status' = status \/ status' = Finish(current, "failed")
    BY <1>7 DEF SupGiveUp, Tick, SlotDiscipline
  <2>2. \A i \in 1..Len(pending) : pending[i] # current
    BY <2>1 DEF RowDiscipline
  <2>3. \A i \in 1..Len(pending) : status'[pending[i]] = status[pending[i]]
    BY <2>1, <2>2, Apart DEF Finish, Advance, TypeOK
  <2> QED BY <2>1, <2>3 DEF RowDiscipline, Up
<1>8. ASSUME NEW ok \in BOOLEAN, SupMarkRunning(ok)
      PROVE  RowDiscipline'
  <2>1. /\ UNCHANGED <<pending, active, startingId, terminal, server>> /\ Up
        /\ sup \in {"run", "runCancelled"} /\ sup' \in {"service", "cancelNow"}
        /\ active # None /\ active \in Requests /\ startingId = None
        /\ status' = status \/ status' = Advance(current, {"starting"}, "running")
    BY <1>8 DEF SupMarkRunning, MarkRunning, Tick, SlotDiscipline, TypeOK
  <2>2. status'[active] \in StartedStatuses
    BY <2>1, RunningRow DEF RowDiscipline
  <2>3. \A i \in 1..Len(pending) : status'[pending[i]] = status[pending[i]]
    BY <2>1, Apart, RunningRow DEF RowDiscipline, StartedStatuses
  <2> QED BY <2>1, <2>2, <2>3 DEF RowDiscipline, Up
<1>9. ASSUME NEW ok \in BOOLEAN, SupCancelNow(ok)
      PROVE  RowDiscipline'
  <2>1. /\ UNCHANGED <<pending, active, startingId, terminal, server>> /\ Up
        /\ sup = "cancelNow" /\ sup' = "service"
        /\ current = active /\ active \in Requests /\ startingId = None
        /\ status' = status \/ status' = RequestCancel(active)
    BY <1>9 DEF SupCancelNow, BeginCancel, Tick, SlotDiscipline, TypeOK
  <2>2. status'[active] \in StartedStatuses
    BY <2>1, NoneIsNoRequest, RequestCancelRow DEF RowDiscipline
  <2>3. \A i \in 1..Len(pending) : status'[pending[i]] = status[pending[i]]
    BY <2>1, Apart, RequestCancelRow DEF RowDiscipline
  <2> QED BY <2>1, <2>2, <2>3 DEF RowDiscipline, Up
<1> QED
  BY <1>1, <1>2, <1>3, <1>4, <1>5, <1>6, <1>7, <1>8, <1>9 DEF StartStep

LEMMA ServerRows ==
  ASSUME TypeOK, SlotDiscipline, RowDiscipline, ServerStep
  PROVE  RowDiscipline'
<1>1. CASE ShutdownBegins
  BY <1>1 DEF ShutdownBegins, RowDiscipline, Up
<1>2. CASE ServerDies
  BY <1>2 DEF ServerDies, RowDiscipline, Up
<1>3. CASE Restart
  BY <1>3 DEF Restart, SlotDiscipline, RowDiscipline, Up
<1>4. ASSUME NEW ok \in BOOLEAN, Shutdown(ok)
      PROVE  RowDiscipline'
  <2>1. /\ pending' = <<>> /\ active' = None /\ startingId' = None
        /\ sup' = sup /\ sup \in {"off", "exited"}
    BY <1>4 DEF Shutdown
  <2> QED BY <2>1 DEF RowDiscipline
<1> QED BY <1>1, <1>2, <1>3, <1>4 DEF ServerStep

LEMMA NextRows ==
  ASSUME TypeOK, SlotDiscipline, RowDiscipline, [Next]_vars
  PROVE  RowDiscipline'
  BY SubmitRows, CancelRows, QuietRows, ServiceRows, StartRows, ServerRows DEF Next

(* The inductive invariant of the rows and the manager's memory. *)
THEOREM RowsHold ==
  ASSUME DistinctHolders
  PROVE  Spec => [](TypeOK /\ SlotDiscipline /\ RowDiscipline)
<1>1. Init => TypeOK /\ SlotDiscipline /\ RowDiscipline
  BY InitType, InitDiscipline, InitRows
<1>2. TypeOK /\ SlotDiscipline /\ RowDiscipline /\ [Next]_vars
        => (TypeOK /\ SlotDiscipline /\ RowDiscipline)'
  BY NextType, NextDiscipline, NextRows
<1> QED BY <1>1, <1>2, PTL DEF Spec

(* A request shown as ended waits nowhere and has no worker; a worker runs  *)
(* only for a request that is shown as started.                             *)
THEOREM EndedHolds ==
  ASSUME DistinctHolders
  PROVE  Spec => []EndedIsOver
<1>1. TypeOK /\ SlotDiscipline /\ RowDiscipline => EndedIsOver
  <2> SUFFICES ASSUME TypeOK, SlotDiscipline, RowDiscipline, NEW r \in Requests
               PROVE  /\ status[r] \in Ended =>
                           /\ r \notin ToSet(pending) \cup {startingId}
                           /\ r = active => sup = "retire"
                      /\ Owned(r) => status[r] \in StartedStatuses
    BY DEF EndedIsOver
  <2>1. status[r] \in Ended => r \notin ToSet(pending)
    BY DEF ToSet, RowDiscipline, Ended, TerminalStatuses, TypeOK
  <2>2. status[r] \in Ended => r # startingId /\ (r = active => sup = "retire")
    BY NoneIsNoRequest
    DEF RowDiscipline, Ended, TerminalStatuses, StartedStatuses
  <2>3. Owned(r) => status[r] \in StartedStatuses
    BY NoneIsNoRequest
    DEF Owned, SlotDiscipline, RowDiscipline, StartPoints, StartedStatuses
  <2> QED BY <2>1, <2>2, <2>3
<1> QED BY <1>1, RowsHold, PTL

(* No step rewrites a terminal status. *)
LEMMA EndedStays ==
  ASSUME TypeOK, SlotDiscipline, RowDiscipline, [Next]_vars,
         NEW r \in Requests, status[r] \in Ended
  PROVE  status'[r] = status[r] \/ (status'[r] = "deleted" /\ status[r] # "succeeded")
<1>1. CASE status' = status
  BY <1>1
<1>2. ASSUME NEW q \in Requests, SubmitStep(q)
      PROVE  status'[r] = status[r]
  <2>1. CASE SubmitCheck(q) \/ SubmitRefuse(q)
    BY <2>1 DEF SubmitCheck, SubmitRefuse
  <2>2. ASSUME NEW ok \in BOOLEAN, SubmitAccept(q, ok)
        PROVE  status'[r] = status[r]
    <3>1. q # r
      BY <2>2, RequestsAreNumbered DEF SubmitAccept, Ended, TerminalStatuses
    <3> QED BY <2>2, <3>1 DEF SubmitAccept, TypeOK
  <2> QED BY <1>2, <2>1, <2>2 DEF SubmitStep
<1>3. ASSUME NEW q \in Requests, CancelStep(q)
      PROVE  status'[r] = status[r]
  <2>1. ASSUME NEW ok \in BOOLEAN, CancelActive(q, ok) \/ CancelStarting(q, ok)
        PROVE  status'[r] = status[r]
    BY <2>1, RequestCancelRow DEF CancelActive, CancelStarting, BeginCancel
  <2>2. ASSUME NEW ok \in BOOLEAN, CancelQueued(q, ok)
        PROVE  status'[r] = status[r]
    <3>1. q # r
      BY <2>2 DEF CancelQueued, RowDiscipline, Ended, TerminalStatuses
    <3> QED BY <2>2, <3>1, AdvanceRow DEF CancelQueued, Finish, TypeOK
  <2> QED BY <1>3, <2>1, <2>2 DEF CancelStep
<1>4. ASSUME NEW q \in Requests, DeleteAttempt(q)
      PROVE  status'[r] = status[r]
             \/ (status'[r] = "deleted" /\ status[r] # "succeeded")
  BY <1>4 DEF DeleteAttempt, TypeOK
<1>5. CASE ServiceStep
  <2>1. ASSUME NEW ok \in BOOLEAN, SupHandle(ok)
        PROVE  status'[r] = status[r]
    BY <2>1, RunningRow
    DEF SupHandle, UpdateProgress, StartedStatuses, Ended, TerminalStatuses
  <2>2. ASSUME NEW ok \in BOOLEAN, SupPersist(ok)
        PROVE  status'[r] = status[r]
    <3>1. current # r
      BY <2>2, NoneIsNoRequest
      DEF SupPersist, SlotDiscipline, RowDiscipline, JobPoints, ServicePoints,
          StartedStatuses, Ended, TerminalStatuses
    <3> QED BY <2>2, <3>1, AdvanceRow DEF SupPersist, Finish, TypeOK
  <2> QED BY <1>1, <1>5, <2>1, <2>2
    DEF ServiceStep, SupTick, SupDrained, SupChannelError, SupEscalate, SupReap,
        SupStop, SupRetire, SupFree
<1>6. CASE StartStep
  <2>1. ASSUME NEW ok \in BOOLEAN, SupMark(ok) \/ SupMarkRunning(ok)
        PROVE  status'[r] = status[r]
    BY <2>1, AdvanceRow
    DEF SupMark, SupMarkRunning, MarkStarting, MarkRunning, Ended,
        TerminalStatuses, TypeOK
  <2>2. ASSUME NEW ok \in BOOLEAN, SupCancelNow(ok)
        PROVE  status'[r] = status[r]
    BY <2>2, RequestCancelRow DEF SupCancelNow, BeginCancel
  <2>3. ASSUME NEW ok \in BOOLEAN, SupGiveUp(ok)
        PROVE  status'[r] = status[r]
    <3>1. current # r
      BY <2>3 DEF SupGiveUp, RowDiscipline, Ended, TerminalStatuses
    <3> QED BY <2>3, <3>1, AdvanceRow DEF SupGiveUp, Finish, TypeOK
  <2> QED BY <1>1, <1>6, <2>1, <2>2, <2>3
    DEF StartStep, SupNothingToStart, SupReserve, SupSpawn, SupSpawnFails, SupInstall
<1>7. CASE ServerStep
  <2>1. CASE ShutdownBegins \/ ServerDies
    BY <2>1 DEF ShutdownBegins, ServerDies
  <2>2. CASE Restart
    BY <2>2 DEF Restart, Ended, TerminalStatuses, ActiveStatuses
  <2>3. ASSUME NEW ok \in BOOLEAN, Shutdown(ok)
        PROVE  status'[r] = status[r]
    <3>1. active # r
      BY <2>3, NoneIsNoRequest
      DEF Shutdown, RowDiscipline, StartedStatuses, Ended, TerminalStatuses
    <3> QED BY <2>3, <3>1, AdvanceRow DEF Shutdown, Finish, TypeOK
  <2> QED BY <1>7, <2>1, <2>2, <2>3 DEF ServerStep
<1>8. ASSUME \/ \E q \in Requests : WorkerStep(q)
             \/ \E c \in Callers : OtherWorkStarts(c) \/ OtherWorkEnds(c)
             \/ DeadlinePasses \/ SettlePasses \/ UNCHANGED vars
      PROVE  status' = status
  BY <1>8
  DEF WorkerStep, WorkerFinishes, WorkerProgress, WorkerRecord, WorkerComplete,
      WorkerStopsEarly, WorkerDeliver, WorkerDies, OtherWorkStarts, OtherWorkEnds,
      DeadlinePasses, SettlePasses, vars
<1> QED BY <1>1, <1>2, <1>3, <1>4, <1>5, <1>6, <1>7, <1>8 DEF Next

(* A terminal row stays as it is, unless it has no run and is deleted. *)
THEOREM TerminalHolds ==
  ASSUME DistinctHolders
  PROVE  Spec => TerminalIsFinal
<1>1. TypeOK /\ SlotDiscipline /\ RowDiscipline /\ [Next]_vars =>
        [\A r \in Requests : status[r] \in Ended =>
           \/ status'[r] = status[r]
           \/ status'[r] = "deleted" /\ status[r] # "succeeded"]_vars
  BY EndedStays
<1> QED BY <1>1, RowsHold, PTL DEF Spec, TerminalIsFinal
-----------------------------------------------------------------------------
(* What a row says in the end. *)

Stopped == {"exiting", "dead"}

(* The request whose worker the channel belongs to. *)
Job == IF active # None THEN active ELSE IF sup = "install" THEN startingId ELSE None

(* A worker is spawned once, for a request whose row has left the queue, and *)
(* a run is in the history exactly from the worker's record_run on.          *)
WorkerFits ==
  /\ \A r \in Requests : status[r] \in {"none", "queued"} => worker[r] = "none"
  /\ startingId # None => (worker[startingId] = "none" <=> sup # "install")
  /\ \A r \in Requests :
       /\ worker[r] \in {"none", "running"} \cup (Reports \ {"result"}) => r \notin history
       /\ worker[r] \in {"recorded", "result"} => r \in history

(* The channel holds the one report of a worker that has nothing more to do, *)
(* and a report that was read says what the history says.                    *)
ChannelDiscipline ==
  /\ chan # <<>> => Job # None
  /\ \A i \in 1..Len(chan) : chan[i] \in Reports =>
       /\ worker[Job] \in Stopped
       /\ chan[i] = "result" => Job \in history
       /\ chan[i] = "blocked" => Job \notin history
       /\ \A j \in 1..Len(chan) : chan[j] \in Reports => i = j
  /\ terminal # "none" => active # None
  /\ terminal = "succeeded" => active \in history
  /\ terminal = "blocked" => active \notin history /\ worker[active] \in Stopped

OutcomeDiscipline ==
  \A r \in Requests :
    /\ status[r] = "succeeded" => r \in history
    /\ status[r] = "blocked" => r \notin history /\ worker[r] = "dead"

Known == TypeOK /\ SlotDiscipline /\ RowDiscipline
-----------------------------------------------------------------------------
(* What a step does to a row: no row comes back to the queue, and a terminal *)
(* outcome of a run is written by the supervisor at the end of its job only. *)

(* Each UPDATE but Finish leads to a status that is no outcome. *)
LEMMA UpdateMoves ==
  ASSUME TypeOK, NEW q, NEW r \in Requests,
         NEW next \in {MarkStarting(q), MarkRunning(q), UpdateProgress(q), RequestCancel(q)}
  PROVE  /\ next[r] \in {"none", "queued"} => status[r] = next[r]
         /\ next[r] = "none" <=> status[r] = "none"
         /\ next[r] \in {status[r], "starting", "running", "cancelling"}
<1>1. CASE next = MarkStarting(q)
  BY <1>1 DEF MarkStarting, Advance, TypeOK
<1>2. CASE next \in {MarkRunning(q), UpdateProgress(q)}
  BY <1>2 DEF MarkRunning, UpdateProgress, Advance, TypeOK
<1>3. CASE next = RequestCancel(q)
  BY <1>3 DEF RequestCancel, Advance, TypeOK
<1> QED BY <1>1, <1>2, <1>3

LEMMA FinishMoves ==
  ASSUME TypeOK, NEW q, NEW r \in Requests, NEW to \in TerminalStatuses
  PROVE  /\ Finish(q, to)[r] \in {"none", "queued"} => status[r] = Finish(q, to)[r]
         /\ Finish(q, to)[r] = "none" <=> status[r] = "none"
         /\ Finish(q, to)[r] \in {status[r], to}
         /\ q # r => Finish(q, to)[r] = status[r]
  BY DEF Finish, Advance, TypeOK, Statuses, ActiveStatuses, TerminalStatuses

Persisting(r) == sup = "persist" /\ current = r /\ terminal \in TerminalStatuses

RowMove(r) ==
  /\ status'[r] \in {"none", "queued"} => status[r] \in {"none", "queued"}
  /\ status[r] # "none" => status'[r] # "none"
  /\ status[r] = "none" /\ status'[r] # "none" => \E ok \in BOOLEAN : SubmitAccept(r, ok)
  /\ status'[r] \in {"succeeded", "blocked"} =>
       \/ status[r] = status'[r]
       \/ Persisting(r) /\ terminal = status'[r]

LEMMA RowMoves ==
  ASSUME Known, [Next]_vars, NEW r \in Requests
  PROVE  RowMove(r)
<1> USE DEF Known, RowMove
<1>1. CASE status' = status
  BY <1>1
<1>2. ASSUME NEW q \in Requests, NEW ok \in BOOLEAN, SubmitAccept(q, ok)
      PROVE  RowMove(r)
  <2>1. status' = [status EXCEPT ![q] = "queued"] /\ status[q] = "none"
    <3>1. q \in Nat
      BY RequestsAreNumbered
    <3> QED BY <1>2, <3>1 DEF SubmitAccept
  <2>2. status[r] = "none" /\ status'[r] # "none" => SubmitAccept(r, ok)
    BY <1>2, <2>1 DEF TypeOK
  <2> QED BY <2>1, <2>2 DEF TypeOK
<1>3. ASSUME NEW q \in Requests, NEW ok \in BOOLEAN,
             CancelActive(q, ok) \/ CancelStarting(q, ok)
      PROVE  RowMove(r)
  BY <1>3, UpdateMoves DEF CancelActive, CancelStarting, BeginCancel
<1>4. ASSUME NEW q \in Requests, NEW ok \in BOOLEAN, CancelQueued(q, ok)
      PROVE  RowMove(r)
  BY <1>4, FinishMoves DEF CancelQueued, TerminalStatuses
<1>5. ASSUME NEW q \in Requests, DeleteAttempt(q)
      PROVE  RowMove(r)
  BY <1>5 DEF DeleteAttempt, TypeOK, TerminalStatuses
<1>6. ASSUME NEW ok \in BOOLEAN,
             SupHandle(ok) \/ SupMark(ok) \/ SupMarkRunning(ok) \/ SupCancelNow(ok)
      PROVE  RowMove(r)
  BY <1>6, UpdateMoves DEF SupHandle, SupMark, SupMarkRunning, SupCancelNow, BeginCancel
<1>7. ASSUME NEW ok \in BOOLEAN, SupPersist(ok)
      PROVE  RowMove(r)
  <2>1. terminal \in TerminalStatuses /\ sup = "persist"
    BY <1>7 DEF SupPersist, RowDiscipline, TypeOK, TerminalStatuses
  <2>2. status' = status \/ status' = Finish(current, terminal)
    BY <1>7 DEF SupPersist
  <2> QED BY <1>1, <2>1, <2>2, FinishMoves DEF Persisting
<1>8. ASSUME NEW ok \in BOOLEAN, SupGiveUp(ok)
      PROVE  RowMove(r)
  BY <1>8, FinishMoves DEF SupGiveUp, TerminalStatuses
<1>9. CASE Restart
  BY <1>9 DEF Restart, TypeOK, ActiveStatuses
<1>10. ASSUME NEW ok \in BOOLEAN, Shutdown(ok)
       PROVE  RowMove(r)
  BY <1>1, <1>10, FinishMoves DEF Shutdown, TerminalStatuses
<1>11. ASSUME \/ \E q \in Requests : WorkerStep(q) \/ SubmitCheck(q) \/ SubmitRefuse(q)
              \/ \E c \in Callers : OtherWorkStarts(c) \/ OtherWorkEnds(c)
              \/ SupTick \/ SupDrained \/ SupChannelError \/ SupEscalate \/ SupReap
              \/ SupStop \/ SupRetire \/ SupFree
              \/ SupNothingToStart \/ SupReserve \/ SupSpawn \/ SupSpawnFails \/ SupInstall
              \/ DeadlinePasses \/ SettlePasses \/ ShutdownBegins \/ ServerDies
              \/ UNCHANGED vars
       PROVE  status' = status
  BY <1>11
  DEF WorkerStep, WorkerFinishes, WorkerProgress, WorkerRecord, WorkerComplete,
      WorkerStopsEarly, WorkerDeliver, WorkerDies, SubmitCheck, SubmitRefuse,
      OtherWorkStarts, OtherWorkEnds, SupTick, SupDrained, SupChannelError, SupEscalate,
      SupReap, SupStop, SupRetire, SupFree, SupNothingToStart, SupReserve, SupSpawn,
      SupSpawnFails, SupInstall, DeadlinePasses, SettlePasses, ShutdownBegins, ServerDies, vars
<1> QED
  BY <1>1, <1>2, <1>3, <1>4, <1>5, <1>6, <1>7, <1>8, <1>9, <1>10, <1>11
  DEF Next, SubmitStep, CancelStep, ServiceStep, StartStep, ServerStep
-----------------------------------------------------------------------------
(* WorkerFits is inductive, given what holds of slot and rows.         *)

(* Only its own steps, the spawn, the stop and the shutdown touch a worker.  *)
LEMMA WorkerFrame ==
  ASSUME [Next]_vars, ~\E r \in Requests : WorkerStep(r),
         ~SupSpawn, ~SupStop, ~\E ok \in BOOLEAN : Shutdown(ok)
  PROVE  UNCHANGED <<worker, history>>
  BY DEF Next, SubmitStep, CancelStep, ServiceStep, StartStep, ServerStep,
      SubmitCheck, SubmitRefuse, SubmitAccept, CancelActive, CancelStarting, CancelQueued,
      DeleteAttempt, OtherWorkStarts, OtherWorkEnds, SupTick, SupDrained, SupChannelError,
      SupEscalate, SupReap, SupRetire, SupFree, SupHandle, SupPersist,
      SupNothingToStart, SupReserve, SupSpawnFails, SupInstall, SupMark, SupGiveUp,
      SupMarkRunning, SupCancelNow, DeadlinePasses, SettlePasses, ShutdownBegins,
      ServerDies, Restart, vars

(* Whoever is reserved had no worker; the supervisor leaves "install" only by *)
(* making the job active, and comes to it only by spawning the worker.        *)
LEMMA StartingFrame ==
  ASSUME Known, WorkerFits, [Next]_vars, ~SupSpawn, startingId' # None
  PROVE  worker[startingId'] = "none" <=> sup' # "install"
<1> USE DEF Known, WorkerFits
<1>1. CASE SupReserve
  <2>1. startingId' = Head(pending) /\ Head(pending) = pending[1] /\ sup' # "install"
        /\ 1 \in 1..Len(pending)
    BY <1>1 DEF SupReserve, MayStart, Tick, TypeOK
  <2>2. pending[1] \in Requests
    BY <2>1 DEF TypeOK
  <2> QED BY <2>1, <2>2 DEF RowDiscipline
<1>2. CASE UNCHANGED <<startingId, sup>>
  BY <1>2
<1>3. CASE SupInstall \/ SupSpawnFails \/ ServerDies \/ \E ok \in BOOLEAN : Shutdown(ok)
  BY <1>3 DEF SupInstall, SupSpawnFails, ServerDies, Shutdown
<1>4. ASSUME NEW r \in Requests, NEW ok \in BOOLEAN, SubmitAccept(r, ok)
      PROVE  UNCHANGED startingId /\ (sup = "install" <=> sup' = "install")
  BY <1>4 DEF SubmitAccept
<1>5. CASE ServiceStep
  BY <1>5 DEF ServiceStep, SupTick, SupDrained, SupChannelError, SupEscalate, SupReap,
              SupStop, SupRetire, SupFree, SupHandle, SupPersist, Tick
<1>6. CASE SupNothingToStart \/ \E ok \in BOOLEAN :
             SupMark(ok) \/ SupGiveUp(ok) \/ SupMarkRunning(ok) \/ SupCancelNow(ok)
  BY <1>6 DEF SupNothingToStart, SupMark, SupGiveUp, SupMarkRunning, SupCancelNow, Tick
<1>7. ASSUME \/ \E r \in Requests : \/ WorkerStep(r) \/ SubmitCheck(r) \/ SubmitRefuse(r)
                                    \/ CancelStep(r) \/ DeleteAttempt(r)
             \/ \E c \in Callers : OtherWorkStarts(c) \/ OtherWorkEnds(c)
             \/ DeadlinePasses \/ SettlePasses \/ ShutdownBegins \/ Restart \/ UNCHANGED vars
      PROVE  UNCHANGED <<startingId, sup>>
  BY <1>7
  DEF WorkerStep, WorkerFinishes, WorkerProgress, WorkerRecord, WorkerComplete,
      WorkerStopsEarly, WorkerDeliver, WorkerDies, SubmitCheck, SubmitRefuse,
      CancelStep, CancelActive, CancelStarting, CancelQueued, DeleteAttempt,
      OtherWorkStarts, OtherWorkEnds, DeadlinePasses, SettlePasses, ShutdownBegins,
      Restart, vars
<1> QED BY <1>1, <1>2, <1>3, <1>4, <1>5, <1>6, <1>7
        DEF Next, SubmitStep, StartStep, ServerStep

LEMMA InitWorkers == Init => WorkerFits
  BY DEF Init, WorkerFits, Reports

(* The life of one worker: spawned, running, recorded or not, then stopped.  *)
LEMMA WorkerLife ==
  ASSUME Known, WorkerFits, NEW q \in Requests, WorkerStep(q), NEW r \in Requests
  PROVE  /\ r # q => worker'[r] = worker[r] /\ (r \in history' <=> r \in history)
         /\ worker[r] = "none" <=> worker'[r] = "none"
         /\ worker'[r] \in {"none", "running"} \cup (Reports \ {"result"}) => r \notin history'
         /\ worker'[r] \in {"recorded", "result"} => r \in history'
         /\ worker[r] \in Stopped => worker'[r] \in Stopped /\ (r \in history' <=> r \in history)
         /\ worker[r] = "dead" => worker'[r] = "dead"
<1> USE DEF Known, TypeOK, WorkerFits, Stopped
<1>1. CASE WorkerProgress(q)
  BY <1>1 DEF WorkerProgress
<1>2. CASE WorkerRecord(q)
  BY <1>2 DEF WorkerRecord, Reports
<1>3. CASE WorkerComplete(q)
  BY <1>3 DEF WorkerComplete, Reports
<1>4. CASE WorkerStopsEarly(q)
  BY <1>4 DEF WorkerStopsEarly, Reports
<1>5. CASE WorkerDeliver(q)
  BY <1>5 DEF WorkerDeliver, Reports
<1>6. CASE WorkerDies(q)
  BY <1>6 DEF WorkerDies, Live, Reports
<1> QED BY <1>1, <1>2, <1>3, <1>4, <1>5, <1>6 DEF WorkerStep, WorkerFinishes

LEMMA NextWorkers ==
  ASSUME Known, WorkerFits, [Next]_vars
  PROVE  WorkerFits'
<1> USE DEF Known
<1>1. ASSUME NEW q \in Requests, WorkerStep(q)
      PROVE  WorkerFits'
  <2>1. UNCHANGED <<status, startingId, sup>>
    BY <1>1 DEF WorkerStep, WorkerFinishes, WorkerProgress, WorkerRecord, WorkerComplete,
                WorkerStopsEarly, WorkerDeliver, WorkerDies
  <2>2. startingId # None => startingId \in Requests
    BY DEF TypeOK
  <2> QED BY <1>1, <2>1, <2>2, WorkerLife DEF WorkerFits
<1>2. CASE SupSpawn
  <2>1. /\ current = startingId /\ startingId \in Requests /\ sup = "spawn"
        /\ worker' = [worker EXCEPT ![current] = "running"] /\ sup' = "install"
        /\ UNCHANGED <<status, startingId, history>>
    BY <1>2 DEF SupSpawn, SlotDiscipline, StartPoints, TypeOK
  <2>2. status[current] \notin {"none", "queued"} /\ current \notin history
    BY <2>1, NoneIsNoRequest DEF RowDiscipline, WorkerFits
  <2> QED BY <2>1, <2>2 DEF WorkerFits, TypeOK, Reports
<1>3. ASSUME SupStop \/ \E ok \in BOOLEAN : Shutdown(ok)
      PROVE  WorkerFits'
  <2>1. startingId' = None
    BY <1>3, NoneIsNoRequest
    DEF SupStop, Shutdown, SlotDiscipline, JobPoints, ServicePoints, TypeOK
  <2>2. \/ worker' = worker
        \/ active # None /\ worker' = [worker EXCEPT ![active] = "dead"]
    <3>1. CASE SupStop
      BY <3>1 DEF SupStop, StopProcess, SlotDiscipline, JobPoints, ServicePoints
    <3>2. ASSUME NEW ok \in BOOLEAN, Shutdown(ok)
          PROVE  \/ worker' = worker
                 \/ active # None /\ worker' = [worker EXCEPT ![active] = "dead"]
      BY <3>2 DEF Shutdown, StopProcess
    <3> QED BY <1>3, <3>1, <3>2
  <2>3. history' = history
    BY <1>3 DEF SupStop, Shutdown
  <2>4. active # None => status[active] \notin {"none", "queued"}
    BY DEF RowDiscipline, StartedStatuses, Ended, TerminalStatuses
  <2>5. \A r \in Requests : status'[r] \in {"none", "queued"} =>
          status[r] \in {"none", "queued"} /\ r # active
    BY <1>3, <2>4, RowMoves, NoneIsNoRequest DEF RowMove, Next, ServiceStep, ServerStep
  <2> QED BY <2>1, <2>2, <2>3, <2>5 DEF WorkerFits, TypeOK, Reports
<1>4. CASE UNCHANGED <<worker, history>> /\ ~SupSpawn
  <2>1. \A r \in Requests : status'[r] \in {"none", "queued"} => worker'[r] = "none"
    BY <1>4, RowMoves DEF RowMove, WorkerFits
  <2>2. startingId' # None => (worker'[startingId'] = "none" <=> sup' # "install")
    BY <1>4, StartingFrame
  <2> QED BY <1>4, <2>1, <2>2 DEF WorkerFits
<1> QED BY <1>1, <1>2, <1>3, <1>4, WorkerFrame
-----------------------------------------------------------------------------
(* ChannelDiscipline is inductive, given WorkerFits.                   *)

channelVars == <<chan, terminal, active, startingId, worker, history>>

LEMMA ChannelFrame ==
  ASSUME ChannelDiscipline, UNCHANGED channelVars, sup = "install" <=> sup' = "install"
  PROVE  ChannelDiscipline'
<1>1. Job' = Job
  BY DEF Job, channelVars
<1> QED BY <1>1 DEF ChannelDiscipline, channelVars

(* The worker that uses the channel is the one the job is about. *)
LEMMA OwnedIsJob ==
  ASSUME Known, NEW q \in Requests, Owned(q)
  PROVE  Job = q
  BY NoneIsNoRequest DEF Known, SlotDiscipline, Job

(* While the supervisor works on a job, the job is the active one. *)
LEMMA ServedIsJob ==
  ASSUME Known, sup \in JobPoints
  PROVE  /\ active \in Requests /\ active # None /\ current = active /\ Job = active
         /\ startingId = None
  BY DEF Known, SlotDiscipline, Job, TypeOK

LEMMA WorkerChannel ==
  ASSUME Known, WorkerFits, ChannelDiscipline, NEW q \in Requests, WorkerStep(q)
  PROVE  ChannelDiscipline'
<1>1. UNCHANGED <<terminal, active, startingId, sup>> /\ Job' = Job
  BY DEF WorkerStep, WorkerFinishes, WorkerProgress, WorkerRecord, WorkerComplete,
         WorkerStopsEarly, WorkerDeliver, WorkerDies, Job
<1>2. active # None => active \in Requests
  BY DEF Known, TypeOK
<1>3. Job # None => Job \in Requests
  BY DEF Known, TypeOK, Job
<1>4. /\ terminal = "succeeded" => active \in history'
      /\ terminal = "blocked" => active \notin history' /\ worker'[active] \in Stopped
  <2>1. terminal = "succeeded" => active \in history /\ active \in Requests
    BY <1>2 DEF ChannelDiscipline
  <2>2. history \subseteq history'
    BY DEF WorkerStep, WorkerFinishes, WorkerProgress, WorkerRecord, WorkerComplete,
           WorkerStopsEarly, WorkerDeliver, WorkerDies
  <2>3. terminal = "blocked" => active \in Requests /\ active \notin history
                                 /\ worker[active] \in Stopped
    BY <1>2 DEF ChannelDiscipline
  <2> QED BY <2>1, <2>2, <2>3, WorkerLife
<1>5. CASE chan' = chan
  <2>1. \A i \in 1..Len(chan) : chan[i] \in Reports =>
          worker'[Job] \in Stopped /\ (Job \in history' <=> Job \in history)
    BY <1>3, WorkerLife DEF ChannelDiscipline
  <2> QED BY <1>1, <1>4, <1>5, <2>1 DEF ChannelDiscipline
<1>6. ASSUME WorkerProgress(q) \/ WorkerDeliver(q), chan' # chan
      PROVE  ChannelDiscipline'
  <2>1. q \notin strays /\ worker[q] \in {"running", "recorded"} \cup Reports
    BY <1>6 DEF WorkerProgress, WorkerDeliver
  <2>2. Job = q
    BY <2>1, OwnedIsJob DEF Owned, Live, Reports
  <2>3. \A i \in 1..Len(chan) : chan[i] \notin Reports
    BY <2>1, <2>2 DEF ChannelDiscipline, Stopped, Reports
  <2>4. chan \in Seq(Reports \cup {"progress"})
    BY DEF Known, TypeOK
  <2>5. Job # None
    BY <2>2, NoneIsNoRequest
  <2>6. CASE WorkerProgress(q)
    <3>1. chan' = Append(chan, "progress")
      BY <2>6 DEF WorkerProgress
    <3>2. \A i \in 1..Len(chan') : chan'[i] \notin Reports
      BY <2>3, <2>4, <3>1 DEF Reports
    <3> QED BY <1>1, <1>4, <2>5, <3>2 DEF ChannelDiscipline
  <2>7. CASE WorkerDeliver(q)
    <3>1. chan' = Append(chan, worker[q]) /\ worker[q] \in Reports
          /\ history' = history /\ worker'[q] \in Stopped
      BY <1>6, <2>7 DEF WorkerDeliver, Stopped, Known, TypeOK
    <3>2. \A i \in 1..Len(chan') : chan'[i] \in Reports => i = Len(chan) + 1
      BY <2>3, <2>4, <3>1
    <3>3. chan'[Len(chan) + 1] = worker[q]
      BY <2>4, <3>1
    <3>4. /\ worker[q] = "result" => q \in history
          /\ worker[q] = "blocked" => q \notin history
      BY DEF WorkerFits, Reports
    <3> QED BY <1>1, <1>4, <2>2, <2>5, <3>1, <3>2, <3>3, <3>4 DEF ChannelDiscipline
  <2> QED BY <1>6, <2>6, <2>7
<1>7. WorkerProgress(q) \/ WorkerDeliver(q) \/ chan' = chan
  BY DEF WorkerStep, WorkerFinishes, WorkerProgress, WorkerRecord, WorkerComplete,
         WorkerStopsEarly, WorkerDeliver, WorkerDies
<1> QED BY <1>5, <1>6, <1>7

LEMMA ServiceChannel ==
  ASSUME Known, ChannelDiscipline, ServiceStep
  PROVE  ChannelDiscipline'
<1> USE DEF JobPoints, ServicePoints
<1>1. CASE SupTick \/ SupDrained \/ SupEscalate \/ SupFree
           \/ \E ok \in BOOLEAN : SupPersist(ok)
  BY <1>1, ChannelFrame
  DEF SupTick, SupDrained, SupEscalate, SupFree, SupPersist, channelVars
<1>2. CASE SupChannelError
  <2>1. /\ chan' = <<>> /\ active' = active /\ active # None
        /\ terminal' = terminal \/ terminal' = "failed"
        /\ UNCHANGED <<worker, history>>
    BY <1>2, ServedIsJob DEF SupChannelError
  <2> QED BY <2>1 DEF ChannelDiscipline
<1>3. CASE SupReap
  <2>1. /\ UNCHANGED <<chan, active, worker, history>> /\ active # None
        /\ terminal' = terminal \/ terminal' \in {"cancelled", "failed"}
    BY <1>3, ServedIsJob DEF SupReap, SilentExit
  <2>2. Job' = Job
    BY <1>3, <2>1 DEF Job
  <2> QED BY <2>1, <2>2 DEF ChannelDiscipline
<1>4. CASE SupStop
  <2>1. /\ UNCHANGED <<chan, terminal, active, history>>
        /\ active # None /\ active \in Requests /\ Job = active
        /\ worker' = [worker EXCEPT ![active] = "dead"]
    BY <1>4, ServedIsJob DEF SupStop, StopProcess
  <2>2. worker'[active] \in Stopped /\ Job' = Job
    BY <2>1 DEF Stopped, Job, Known, TypeOK
  <2> QED BY <2>1, <2>2 DEF ChannelDiscipline
<1>5. CASE SupRetire
  BY <1>5 DEF SupRetire, ChannelDiscipline
<1>6. ASSUME NEW ok \in BOOLEAN, SupHandle(ok)
      PROVE  ChannelDiscipline'
  <2>1. /\ chan # <<>> /\ chan' = Tail(chan) /\ active # None /\ Job = active
        /\ UNCHANGED <<active, startingId, worker, history>> /\ Job' = Job
    BY <1>6, ServedIsJob DEF SupHandle, Job
  <2>2. /\ Head(chan) = chan[1] /\ 1 \in 1..Len(chan)
        /\ \A i \in 1..Len(chan') : chan'[i] = chan[i + 1] /\ i + 1 \in 1..Len(chan)
    BY <2>1 DEF Known, TypeOK
  <2>3. \A i \in 1..Len(chan') : chan'[i] \in Reports =>
          /\ worker'[Job'] \in Stopped
          /\ chan'[i] = "result" => Job' \in history'
          /\ chan'[i] = "blocked" => Job' \notin history'
          /\ \A j \in 1..Len(chan') : chan'[j] \in Reports => i = j
    BY <2>1, <2>2 DEF ChannelDiscipline
  <2>4. terminal' = terminal \/ (Head(chan) \in Reports /\ terminal' = OutcomeOf[Head(chan)])
    BY <1>6, <2>2 DEF SupHandle, Known, TypeOK
  <2>5. Head(chan) \in Reports =>
          /\ OutcomeOf[Head(chan)] = "succeeded" => active \in history
          /\ OutcomeOf[Head(chan)] = "blocked" => active \notin history
                                                   /\ worker[active] \in Stopped
    BY <2>1, <2>2 DEF ChannelDiscipline, OutcomeOf, Reports
  <2> QED BY <2>1, <2>3, <2>4, <2>5 DEF ChannelDiscipline
<1> QED BY <1>1, <1>2, <1>3, <1>4, <1>5, <1>6 DEF ServiceStep

LEMMA StartChannel ==
  ASSUME Known, ChannelDiscipline, StartStep
  PROVE  ChannelDiscipline'
<1> USE DEF JobPoints, ServicePoints, StartPoints
<1>1. CASE SupNothingToStart \/ \E ok \in BOOLEAN :
             SupMark(ok) \/ SupGiveUp(ok) \/ SupMarkRunning(ok) \/ SupCancelNow(ok)
  BY <1>1, ChannelFrame
  DEF SupNothingToStart, SupMark, SupGiveUp, SupMarkRunning, SupCancelNow, BeginCancel,
      Tick, channelVars
<1>2. CASE SupReserve \/ SupSpawn \/ SupSpawnFails
  <2>1. active = None /\ chan = <<>> /\ terminal = "none"
    BY <1>2 DEF SupReserve, SupSpawn, SupSpawnFails, MayStart, SlotTaken, Known,
                SlotDiscipline, Job, ChannelDiscipline
  <2>2. UNCHANGED <<active, chan, terminal>>
    BY <1>2 DEF SupReserve, SupSpawn, SupSpawnFails
  <2> QED BY <2>1, <2>2 DEF ChannelDiscipline
<1>3. CASE SupInstall
  <2>1. /\ active = None /\ terminal = "none" /\ startingId # None /\ Job = startingId
        /\ active' = startingId /\ UNCHANGED <<chan, terminal, worker, history>>
    BY <1>3 DEF SupInstall, Known, SlotDiscipline, Job, ChannelDiscipline
  <2>2. Job' = Job
    BY <2>1 DEF Job
  <2> QED BY <2>1, <2>2 DEF ChannelDiscipline
<1> QED BY <1>1, <1>2, <1>3 DEF StartStep

LEMMA ServerChannel ==
  ASSUME Known, ChannelDiscipline, ServerStep
  PROVE  ChannelDiscipline'
<1>1. CASE ShutdownBegins \/ Restart
  BY <1>1, ChannelFrame DEF ShutdownBegins, Restart, channelVars
<1>2. CASE ServerDies
  BY <1>2 DEF ServerDies, ChannelDiscipline
<1>3. ASSUME NEW ok \in BOOLEAN, Shutdown(ok)
      PROVE  ChannelDiscipline'
  <2>1. chan' = <<>> /\ terminal' = "none"
    <3>1. CASE active = None
      BY <1>3, <3>1 DEF Shutdown, ChannelDiscipline, Job
    <3>2. CASE active # None
      BY <1>3, <3>2 DEF Shutdown
    <3> QED BY <3>1, <3>2
  <2> QED BY <2>1 DEF ChannelDiscipline
<1> QED BY <1>1, <1>2, <1>3 DEF ServerStep

LEMMA NextChannel ==
  ASSUME Known, WorkerFits, ChannelDiscipline, [Next]_vars
  PROVE  ChannelDiscipline'
<1>1. ASSUME NEW r \in Requests, SubmitStep(r) \/ CancelStep(r) \/ DeleteAttempt(r)
      PROVE  ChannelDiscipline'
  <2>1. UNCHANGED channelVars
    BY <1>1 DEF SubmitStep, SubmitCheck, SubmitRefuse, SubmitAccept, CancelStep,
      CancelActive, CancelStarting, CancelQueued, DeleteAttempt, channelVars, BeginCancel
  <2>2. sup = "install" <=> sup' = "install"
    BY <1>1 DEF SubmitStep, SubmitCheck, SubmitRefuse, SubmitAccept, CancelStep,
      CancelActive, CancelStarting, CancelQueued, DeleteAttempt
  <2> QED BY <2>1, <2>2, ChannelFrame
<1>2. CASE \/ \E c \in Callers : OtherWorkStarts(c) \/ OtherWorkEnds(c)
           \/ DeadlinePasses \/ SettlePasses \/ UNCHANGED vars
  BY <1>2, ChannelFrame
  DEF OtherWorkStarts, OtherWorkEnds, DeadlinePasses, SettlePasses, vars, channelVars
<1> QED
  BY <1>1, <1>2, WorkerChannel, ServiceChannel, StartChannel, ServerChannel DEF Next

LEMMA InitChannel == Init => ChannelDiscipline
  BY DEF Init, ChannelDiscipline
-----------------------------------------------------------------------------
(* From the two: rows and history agree.                                     *)

LEMMA NextOutcomes ==
  ASSUME Known, WorkerFits, ChannelDiscipline, OutcomeDiscipline, [Next]_vars
  PROVE  OutcomeDiscipline'
<1> SUFFICES ASSUME NEW r \in Requests
             PROVE  /\ status'[r] = "succeeded" => r \in history'
                    /\ status'[r] = "blocked" => r \notin history' /\ worker'[r] = "dead"
  BY DEF OutcomeDiscipline
<1>1. ASSUME NEW q \in Requests, WorkerStep(q)
      PROVE  /\ status'[r] = "succeeded" => r \in history'
             /\ status'[r] = "blocked" => r \notin history' /\ worker'[r] = "dead"
  <2>1. status' = status /\ history \subseteq history'
    BY <1>1 DEF WorkerStep, WorkerFinishes, WorkerProgress, WorkerRecord, WorkerComplete,
                WorkerStopsEarly, WorkerDeliver, WorkerDies
  <2> QED BY <1>1, <2>1, WorkerLife DEF OutcomeDiscipline, Stopped
<1>2. ASSUME ~\E q \in Requests : WorkerStep(q)
      PROVE  /\ history' = history
             /\ worker[r] = "dead" => worker'[r] = "dead"
  <2>1. CASE SupSpawn
    BY <2>1, NoneIsNoRequest
    DEF SupSpawn, Known, WorkerFits, SlotDiscipline, StartPoints, TypeOK
  <2>2. CASE SupStop
    BY <2>2 DEF SupStop, StopProcess, Known, TypeOK
  <2>3. ASSUME NEW ok \in BOOLEAN, Shutdown(ok)
        PROVE  /\ history' = history
               /\ worker[r] = "dead" => worker'[r] = "dead"
    BY <2>3 DEF Shutdown, StopProcess, Known, TypeOK
  <2> QED BY <1>2, <2>1, <2>2, <2>3, WorkerFrame
<1>3. ASSUME Persisting(r), status'[r] # status[r]
      PROVE  /\ r = active /\ worker'[r] = worker[r]
             /\ worker[r] \in Stopped => worker[r] = "dead"
  <2>1. r = active /\ ~Live(r)
    BY <1>3 DEF Persisting, Known, SlotDiscipline, JobPoints, ServicePoints
  <2>2. CASE UNCHANGED <<worker, history>>
    BY <2>1, <2>2 DEF Live, Stopped
  <2>3. ~SupSpawn /\ ~SupStop /\ ~(\E ok \in BOOLEAN : Shutdown(ok))
    BY <1>3 DEF Persisting, SupSpawn, SupStop, Shutdown
  <2>4. ~\E q \in Requests : WorkerStep(q)
    BY <1>3 DEF WorkerStep, WorkerFinishes, WorkerProgress, WorkerRecord, WorkerComplete,
                WorkerStopsEarly, WorkerDeliver, WorkerDies
  <2> QED BY <2>2, <2>3, <2>4, WorkerFrame
<1>4. CASE ~\E q \in Requests : WorkerStep(q)
  <2>1. RowMove(r)
    BY RowMoves
  <2>2. CASE status'[r] = status[r]
    BY <1>2, <1>4, <2>2 DEF OutcomeDiscipline
  <2>3. CASE status'[r] # status[r]
    BY <1>2, <1>3, <1>4, <2>1, <2>3 DEF RowMove, ChannelDiscipline
  <2> QED BY <2>2, <2>3
<1> QED BY <1>1, <1>4

OutcomeInv ==
  Known /\ WorkerFits /\ ChannelDiscipline /\ OutcomeDiscipline

(* The inductive invariant of rows, workers, channel and history. *)
THEOREM OutcomesHold ==
  ASSUME DistinctHolders
  PROVE  Spec => []OutcomeInv
<1>1. Init => OutcomeInv
  BY InitType, InitDiscipline, InitRows, InitWorkers, InitChannel
  DEF OutcomeInv, Known, OutcomeDiscipline, Init
<1>2. OutcomeInv /\ [Next]_vars => OutcomeInv'
  BY NextType, NextDiscipline, NextRows, NextWorkers, NextChannel, NextOutcomes
  DEF OutcomeInv, Known
<1> QED BY <1>1, <1>2, PTL DEF Spec

(* A row says succeeded only of a recorded run, and blocked only of none,   *)
(* whatever the order in which the worker records, reports and dies, the    *)
(* supervisor reads, gives up and writes, and the server comes and goes.    *)
THEOREM OutcomeMatches ==
  ASSUME DistinctHolders
  PROVE  Spec => []OutcomeMatchesHistory
<1>1. OutcomeInv => OutcomeMatchesHistory
  BY DEF OutcomeInv, OutcomeDiscipline, OutcomeMatchesHistory
<1> QED BY <1>1, OutcomesHold, PTL
-----------------------------------------------------------------------------
(* The settle time: a worker found dead is given up only with an empty       *)
(* channel, and what ends a job by a report leaves no report behind.         *)

Silent(r) == worker[r] \in Stopped \cup {"none"}

SettleDiscipline ==
  /\ deadSince # "none" =>
       active # None /\ ~Live(active) /\ (sup \in {"escalate", "reap"} => chan = <<>>)
  /\ faults = 0 /\ terminal # "none" =>
       Silent(active) /\ \A i \in 1..Len(chan) : chan[i] \notin Reports

settleVars == <<deadSince, active, worker, sup, chan, faults, terminal>>

(* A fault is never forgotten. *)
LEMMA FaultsGrow ==
  ASSUME TypeOK, [Next]_vars, faults' = 0
  PROVE  faults = 0
<1>1. ASSUME NEW ok \in BOOLEAN, Attempt(ok)
      PROVE  faults = 0
  BY <1>1 DEF Attempt, TypeOK
<1>2. ASSUME NEW r \in Requests, SubmitStep(r) \/ CancelStep(r) \/ DeleteAttempt(r) \/ WorkerStep(r)
      PROVE  faults = 0
  BY <1>1, <1>2
  DEF SubmitStep, SubmitCheck, SubmitRefuse, SubmitAccept, CancelStep, CancelActive,
      BeginCancel, CancelStarting, CancelQueued, DeleteAttempt, WorkerStep, WorkerFinishes,
      WorkerProgress, WorkerRecord, WorkerComplete, WorkerStopsEarly, WorkerDeliver, WorkerDies
<1>3. ASSUME ServiceStep
      PROVE  faults = 0
  BY <1>1, <1>3
  DEF ServiceStep, SupTick, SupDrained, SupChannelError, SupEscalate, SupReap, SupStop,
      SupRetire, SupFree, SupHandle, SupPersist
<1>4. ASSUME StartStep
      PROVE  faults = 0
  BY <1>1, <1>4
  DEF StartStep, SupNothingToStart, SupReserve, SupSpawn, SupSpawnFails, SupInstall,
      SupMark, SupGiveUp, SupMarkRunning, SupCancelNow, BeginCancel
<1>5. ASSUME ServerStep
      PROVE  faults = 0
  BY <1>1, <1>5 DEF ServerStep, ShutdownBegins, ServerDies, Restart, Shutdown
<1>6. ASSUME \/ \E c \in Callers : OtherWorkStarts(c) \/ OtherWorkEnds(c)
             \/ DeadlinePasses \/ SettlePasses \/ UNCHANGED vars
      PROVE  faults = 0
  BY <1>6 DEF OtherWorkStarts, OtherWorkEnds, DeadlinePasses, SettlePasses, vars
<1> QED BY <1>2, <1>3, <1>4, <1>5, <1>6 DEF Next

LEMMA WorkerSettle ==
  ASSUME OutcomeInv, SettleDiscipline, NEW q \in Requests, WorkerStep(q)
  PROVE  SettleDiscipline'
<1> USE DEF OutcomeInv, Known
<1>1. UNCHANGED <<deadSince, active, sup, faults, terminal>>
  BY DEF WorkerStep, WorkerFinishes, WorkerProgress, WorkerRecord, WorkerComplete,
         WorkerStopsEarly, WorkerDeliver, WorkerDies
<1>2. active # None => active \in Requests
  BY DEF TypeOK
<1>3. (active # None /\ Silent(active)) => Silent(active)' /\ chan' = chan
  <2> SUFFICES ASSUME active # None, Silent(active)
               PROVE  Silent(active)' /\ chan' = chan
    OBVIOUS
  <2>1. Silent(active)'
    BY <1>1, <1>2, WorkerLife DEF Silent, Stopped
  <2>2. CASE WorkerProgress(q) \/ (WorkerDeliver(q) /\ q \notin strays)
    <3>1. Owned(q) /\ worker[q] \in {"running", "recorded"} \cup Reports
      BY <2>2 DEF WorkerProgress, WorkerDeliver, Owned, Live, Reports
    <3>2. q = active
      BY <3>1, OwnedIsJob DEF Job
    <3> QED BY <3>1, <3>2 DEF Silent, Stopped, Reports
  <2>3. CASE ~(WorkerProgress(q) \/ (WorkerDeliver(q) /\ q \notin strays))
    BY <2>1, <2>3 DEF WorkerStep, WorkerFinishes, WorkerRecord, WorkerComplete,
                      WorkerStopsEarly, WorkerDeliver, WorkerDies
  <2> QED BY <2>1, <2>2, <2>3
<1>4. (active # None /\ ~Live(active)) => ~Live(active)'
  BY <1>1, <1>2, WorkerLife DEF Live
<1>5. ~Live(active) => Silent(active)
  BY DEF Live, Silent, Stopped
<1> QED BY <1>1, <1>3, <1>4, <1>5 DEF SettleDiscipline, ChannelDiscipline

LEMMA ServiceSettle ==
  ASSUME OutcomeInv, SettleDiscipline, ServiceStep
  PROVE  SettleDiscipline'
<1> USE DEF OutcomeInv, Known, JobPoints, ServicePoints
<1>1. CASE SupTick \/ SupDrained \/ SupEscalate \/ SupFree
  <2>1. UNCHANGED <<deadSince, active, worker, chan, faults, terminal>>
    BY <1>1 DEF SupTick, SupDrained, SupEscalate, SupFree
  <2>2. sup' \in {"escalate", "reap"} => chan = <<>> \/ sup \in {"escalate", "reap"}
    BY <1>1 DEF SupTick, SupDrained, SupEscalate, SupFree
  <2> QED BY <2>1, <2>2 DEF SettleDiscipline, Live, Silent
<1>2. CASE SupChannelError
  <2>1. chan' = <<>> /\ faults' # 0 /\ UNCHANGED <<deadSince, active, worker>>
    BY <1>2 DEF SupChannelError, Attempt, TypeOK
  <2> QED BY <2>1 DEF SettleDiscipline, Live
<1>3. CASE SupReap
  <2>1. /\ UNCHANGED <<active, worker, chan, faults>> /\ sup' \in {"start", "stop"}
        /\ sup = "reap" /\ active # None /\ current = active
    BY <1>3, ServedIsJob DEF SupReap
  <2>2. \/ UNCHANGED <<terminal, deadSince>>
        \/ /\ ~Live(active) /\ terminal' = terminal
        \/ /\ ~Live(active) /\ deadSince = "passed"
    BY <1>3, <2>1 DEF SupReap, Settled
  <2>3. deadSince = "passed" => chan = <<>>
    BY <2>1 DEF SettleDiscipline
  <2>4. ~Live(active) => Silent(active)
    BY DEF Live, Silent, Stopped
  <2> QED BY <2>1, <2>2, <2>3, <2>4 DEF SettleDiscipline, Live, Silent
<1>4. CASE SupStop
  <2>1. /\ UNCHANGED <<deadSince, active, chan, faults, terminal>> /\ sup' = "persist"
        /\ active # None /\ active \in Requests
        /\ worker' = [worker EXCEPT ![active] = "dead"]
    BY <1>4, ServedIsJob DEF SupStop, StopProcess
  <2>2. worker'[active] = "dead"
    BY <2>1 DEF TypeOK
  <2> QED BY <2>1, <2>2 DEF SettleDiscipline, Live, Silent, Stopped
<1>5. CASE SupRetire
  BY <1>5 DEF SupRetire, SettleDiscipline
<1>6. ASSUME NEW ok \in BOOLEAN, SupPersist(ok)
      PROVE  SettleDiscipline'
  <2>1. UNCHANGED <<deadSince, active, worker, chan, terminal>> /\ sup' = "retire"
    BY <1>6 DEF SupPersist
  <2>2. faults' = 0 => faults = 0
    BY <1>6 DEF SupPersist, Attempt, TypeOK
  <2> QED BY <2>1, <2>2 DEF SettleDiscipline, Live, Silent
<1>7. ASSUME NEW ok \in BOOLEAN, SupHandle(ok)
      PROVE  SettleDiscipline'
  <2>1. /\ chan # <<>> /\ chan' = Tail(chan) /\ active # None /\ Job = active
        /\ UNCHANGED <<active, worker, deadSince>> /\ sup' \in {"drain", "service"}
    BY <1>7, ServedIsJob DEF SupHandle, Tick
  <2>2. /\ Head(chan) = chan[1] /\ 1 \in 1..Len(chan)
        /\ \A i \in 1..Len(chan') : chan'[i] = chan[i + 1] /\ i + 1 \in 1..Len(chan) /\ 1 # i + 1
    BY <2>1 DEF TypeOK
  <2>3. CASE chan[1] \in Reports
    <3>1. Silent(active) /\ \A i \in 1..Len(chan') : chan'[i] \notin Reports
      BY <2>1, <2>2, <2>3 DEF ChannelDiscipline, Silent
    <3> QED BY <2>1, <3>1 DEF SettleDiscipline, Live, Silent
  <2>4. CASE chan[1] \notin Reports
    <3>1. terminal' = terminal /\ (faults' = 0 => faults = 0)
      BY <1>7, <2>2, <2>4 DEF SupHandle, Attempt, TypeOK
    <3> QED BY <2>1, <2>2, <3>1 DEF SettleDiscipline, Live, Silent
  <2> QED BY <2>3, <2>4
<1> QED BY <1>1, <1>2, <1>3, <1>4, <1>5, <1>6, <1>7 DEF ServiceStep

LEMMA StartSettle ==
  ASSUME OutcomeInv, SettleDiscipline, StartStep
  PROVE  SettleDiscipline'
<1> USE DEF OutcomeInv, Known, JobPoints, ServicePoints, StartPoints
<1>1. CASE SupNothingToStart \/ \E ok \in BOOLEAN :
             SupMark(ok) \/ SupGiveUp(ok) \/ SupMarkRunning(ok) \/ SupCancelNow(ok)
  <2>1. UNCHANGED <<deadSince, active, worker, chan, terminal>>
        /\ sup' \notin {"escalate", "reap"}
    BY <1>1 DEF SupNothingToStart, SupMark, SupGiveUp, SupMarkRunning, SupCancelNow, Tick
  <2>2. faults' = 0 => faults = 0
    BY <1>1, FaultsGrow DEF Next, StartStep
  <2> QED BY <2>1, <2>2 DEF SettleDiscipline, Live, Silent
<1>2. CASE SupReserve \/ SupSpawn \/ SupSpawnFails \/ SupInstall
  <2>1. active = None
    BY <1>2 DEF SupReserve, SupSpawn, SupSpawnFails, SupInstall, MayStart, SlotTaken,
                SlotDiscipline
  <2>2. deadSince = "none" /\ terminal = "none"
    BY <2>1 DEF SettleDiscipline, ChannelDiscipline
  <2>3. UNCHANGED <<deadSince, terminal>>
    BY <1>2 DEF SupReserve, SupSpawn, SupSpawnFails, SupInstall
  <2> QED BY <2>2, <2>3 DEF SettleDiscipline
<1> QED BY <1>1, <1>2 DEF StartStep

LEMMA NextSettle ==
  ASSUME OutcomeInv, SettleDiscipline, [Next]_vars
  PROVE  SettleDiscipline'
<1> USE DEF OutcomeInv, Known
<1>1. ASSUME NEW r \in Requests, SubmitStep(r) \/ CancelStep(r) \/ DeleteAttempt(r)
      PROVE  SettleDiscipline'
  <2>1. /\ UNCHANGED <<deadSince, active, worker, chan, terminal>>
        /\ sup' \in {"escalate", "reap"} => sup' = sup
    BY <1>1 DEF SubmitStep, SubmitCheck, SubmitRefuse, SubmitAccept, CancelStep,
      CancelActive, CancelStarting, CancelQueued, DeleteAttempt, BeginCancel
  <2>2. faults' = 0 => faults = 0
    BY FaultsGrow
  <2> QED BY <2>1, <2>2 DEF SettleDiscipline, Live, Silent
<1>2. CASE \/ \E c \in Callers : OtherWorkStarts(c) \/ OtherWorkEnds(c)
           \/ DeadlinePasses \/ ShutdownBegins \/ Restart \/ UNCHANGED vars
  BY <1>2
  DEF OtherWorkStarts, OtherWorkEnds, DeadlinePasses, ShutdownBegins, Restart, vars,
      SettleDiscipline, Live, Silent
<1>3. CASE SettlePasses
  BY <1>3 DEF SettlePasses, SettleDiscipline, Live, Silent
<1>4. CASE ServerDies
  BY <1>4 DEF ServerDies, SettleDiscipline
<1>5. ASSUME NEW ok \in BOOLEAN, Shutdown(ok)
      PROVE  SettleDiscipline'
  <2>1. deadSince' = "none" /\ terminal' = "none"
    BY <1>5 DEF Shutdown, SettleDiscipline, ChannelDiscipline
  <2> QED BY <2>1 DEF SettleDiscipline
<1> QED
  BY <1>1, <1>2, <1>3, <1>4, <1>5, WorkerSettle, ServiceSettle, StartSettle
  DEF Next, ServerStep

(* As long as no read of the channel and no write has failed, a result that  *)
(* reached the channel is read before its job is given up.                   *)
THEOREM LateResultsRead ==
  ASSUME DistinctHolders
  PROVE  Spec => [](faults = 0 => LateResultHonoured)
<1>1. Init => SettleDiscipline
  BY DEF Init, SettleDiscipline
<1>2. OutcomeInv /\ SettleDiscipline /\ [Next]_vars => SettleDiscipline'
  BY NextSettle
<1>3. OutcomeInv /\ SettleDiscipline => (faults = 0 => LateResultHonoured)
  BY DEF OutcomeInv, Known, TypeOK, SettleDiscipline, LateResultHonoured, ToSet, Reports
<1> QED BY <1>1, <1>2, <1>3, OutcomesHold, PTL DEF Spec
-----------------------------------------------------------------------------
(* The order of the queue. *)

(* What the operators on the deque do.                                       *)

Distinct(s) == \A i, j \in 1..Len(s) : s[i] = s[j] => i = j

LEMMA KnownDeque ==
  ASSUME Known
  PROVE  /\ pending \in Seq(Requests) /\ Len(pending) \in Nat
         /\ \A i \in 1..Len(pending) :
              /\ pending[i] \in Requests /\ status[pending[i]] = "queued"
              /\ pending[i] \notin {startingId, active}
         /\ Distinct(pending)
  BY DEF Known, TypeOK, RowDiscipline, Distinct

LEMMA TailElements ==
  ASSUME NEW S, NEW s \in Seq(S), s # <<>>
  PROVE  /\ Tail(s) \in Seq(S) /\ Len(Tail(s)) = Len(s) - 1
         /\ Head(s) = s[1] /\ 1 \in 1..Len(s)
         /\ \A i \in 1..Len(Tail(s)) : Tail(s)[i] = s[i + 1] /\ i + 1 \in 1..Len(s)
  OBVIOUS

(* An element of what is left stood at the same place or one further on. *)
LEMMA DroppedElements ==
  ASSUME NEW S, NEW s \in Seq(S), NEW i \in 1..Len(s), NEW t, t = RemoveAt(s, i)
  PROVE  /\ t \in Seq(S) /\ Len(t) = Len(s) - 1
         /\ \A j \in 1..Len(t) : \E m \in 1..Len(s) :
              m # i /\ t[j] = s[m] /\ m = (IF j < i THEN j ELSE j + 1)
<1>1. t \in Seq(S) /\ Len(t) = Len(s) - 1
      /\ \A j \in 1..(Len(s) - 1) : t[j] = IF j < i THEN s[j] ELSE s[j + 1]
  BY RemoveAtElements
<1>2. ASSUME NEW j \in 1..Len(t)
      PROVE  \E m \in 1..Len(s) : m # i /\ t[j] = s[m] /\ m = (IF j < i THEN j ELSE j + 1)
  <2>1. CASE j < i
    BY <1>1, <2>1
  <2>2. CASE ~(j < i)
    <3>1. j + 1 \in 1..Len(s) /\ j + 1 # i /\ t[j] = s[j + 1]
      BY <1>1, <2>2
    <3> QED BY <2>2, <3>1
  <2> QED BY <2>1, <2>2
<1> QED BY <1>1, <1>2

LEMMA DequeDropped ==
  ASSUME Known, NEW i \in 1..Len(pending), pending' = RemoveAt(pending, i)
  PROVE  /\ pending' \in Seq(Requests) /\ Len(pending') = Len(pending) - 1
         /\ \A j \in 1..Len(pending') : \E m \in 1..Len(pending) :
              m # i /\ pending'[j] = pending[m] /\ m = (IF j < i THEN j ELSE j + 1)
<1>1. pending \in Seq(Requests)
  BY DEF Known, TypeOK
<1> QED BY <1>1, DroppedElements

(* A full renumbering gives each entry its place, and nobody else a new one. *)
LEMMA RenumberExact ==
  ASSUME position \in [Requests -> Nat], NEW s \in Seq(Requests), Distinct(s),
         NEW q \in Requests
  PROVE  /\ \A j \in 1..Len(s) : s[j] = q => Renumber(s, Len(s))[q] = j
         /\ (\A j \in 1..Len(s) : s[j] # q) => Renumber(s, Len(s))[q] = position[q]
<1>1. Renumber(s, Len(s))[q] = IF \E i \in 1..Len(s) : s[i] = q
                               THEN CHOOSE i \in 1..Len(s) : s[i] = q
                               ELSE position[q]
  BY DEF Renumber
<1>2. ASSUME NEW j \in 1..Len(s), s[j] = q
      PROVE  Renumber(s, Len(s))[q] = j
  <2>1. (CHOOSE i \in 1..Len(s) : s[i] = q) \in 1..Len(s)
        /\ s[CHOOSE i \in 1..Len(s) : s[i] = q] = q
    BY <1>2
  <2> QED BY <1>1, <1>2, <2>1 DEF Distinct
<1> QED BY <1>1, <1>2

(* Who may move the deque, or the two fields of the manager. *)
LEMMA QueueFrame ==
  ASSUME [Next]_vars,
         ~\E r \in Requests, ok \in BOOLEAN : SubmitAccept(r, ok) \/ CancelQueued(r, ok),
         ~SupReserve, ~SupSpawnFails, ~SupInstall, ~SupRetire, ~ServerDies,
         ~\E ok \in BOOLEAN : Shutdown(ok)
  PROVE  UNCHANGED <<pending, active, startingId>>
  BY DEF Next, SubmitStep, CancelStep, ServiceStep, StartStep, ServerStep, WorkerStep,
      WorkerFinishes, WorkerProgress, WorkerRecord, WorkerComplete, WorkerStopsEarly,
      WorkerDeliver, WorkerDies,
      SubmitCheck, SubmitRefuse, CancelActive, CancelStarting, BeginCancel,
      DeleteAttempt, OtherWorkStarts, OtherWorkEnds, SupTick, SupDrained, SupChannelError,
      SupEscalate, SupReap, SupStop, SupFree, SupHandle, SupPersist,
      SupNothingToStart, SupSpawn, SupMark, SupGiveUp,
      SupMarkRunning, SupCancelNow, DeadlinePasses, SettlePasses, ShutdownBegins,
      Restart, vars
-----------------------------------------------------------------------------
(* A request with a password is accepted only for an empty queue and a free  *)
(* slot, and whatever comes later stands behind it.                          *)

First == \A i \in 1..Len(pending) :
           pending[i] \in Credentialed => i = 1 /\ ~SlotTaken

LEMMA CredentialedStep ==
  ASSUME Known, CredentialedNeverBehind, [Next]_vars
  PROVE  CredentialedNeverBehind'
<1>1. CredentialedNeverBehind => First
  BY KnownDeque DEF CredentialedNeverBehind, First
<1>2. (pending' \in Seq(Requests) /\ First') => CredentialedNeverBehind'
  BY DEF CredentialedNeverBehind, First
<1>3. pending' \in Seq(Requests)
  BY NextType DEF Known, TypeOK
<1>4. ASSUME NEW r \in Requests, NEW ok \in BOOLEAN, SubmitAccept(r, ok)
      PROVE  First'
  <2>1. r \in Credentialed => pending = <<>> /\ ~SlotTaken
    BY <1>4 DEF SubmitAccept, MustWait
  <2>2. UNCHANGED <<active, startingId>> /\ SlotTaken' = SlotTaken
    BY <1>4 DEF SubmitAccept, SlotTaken
  <2>3. CASE pending' = pending
    BY <1>1, <2>2, <2>3 DEF First
  <2>4. CASE pending' = Append(pending, r)
    <3>1. /\ Len(pending') = Len(pending) + 1 /\ pending'[Len(pending) + 1] = r
          /\ \A i \in 1..Len(pending) : pending'[i] = pending[i]
      BY <2>4, KnownDeque
    <3>2. \A i \in 1..Len(pending') : i \in 1..Len(pending) \/ i = Len(pending) + 1
      BY <3>1, KnownDeque
    <3>3. pending = <<>> => Len(pending) = 0
      OBVIOUS
    <3>4. CASE r \in Credentialed
      BY <2>1, <2>2, <3>1, <3>2, <3>3, <3>4 DEF First
    <3>5. CASE r \notin Credentialed
      BY <1>1, <2>2, <3>1, <3>2, <3>5 DEF First
    <3> QED BY <3>4, <3>5
  <2> QED BY <1>4, <2>3, <2>4 DEF SubmitAccept, Enqueue
<1>5. ASSUME NEW r \in Requests, NEW ok \in BOOLEAN, CancelQueued(r, ok)
      PROVE  First'
  <2>1. PICK i \in 1..Len(pending) : pending' = RemoveAt(pending, i)
    BY <1>5 DEF CancelQueued, DropEntry
  <2>2. \A j \in 1..Len(pending') : \E m \in 1..Len(pending) :
          m # i /\ pending'[j] = pending[m] /\ m = (IF j < i THEN j ELSE j + 1)
    BY <2>1, DequeDropped
  <2>3. SlotTaken' = SlotTaken
    BY <1>5 DEF CancelQueued, SlotTaken
  <2>4. Len(pending') \in Nat
    BY <1>3
  <2> SUFFICES ASSUME NEW j \in 1..Len(pending'), pending'[j] \in Credentialed
               PROVE  j = 1 /\ ~SlotTaken'
    BY DEF First
  <2>5. PICK m \in 1..Len(pending) :
          m # i /\ pending'[j] = pending[m] /\ m = (IF j < i THEN j ELSE j + 1)
    BY <2>2
  <2>6. m = 1 /\ ~SlotTaken
    BY <1>1, <2>5 DEF First
  <2> QED BY <2>3, <2>4, <2>5, <2>6
<1>6. ASSUME SupReserve
      PROVE  First'
  <2>1. pending # <<>> /\ pending' = Tail(pending)
    BY <1>6 DEF SupReserve, MayStart
  <2>2. \A i \in 1..Len(pending') : pending'[i] = pending[i + 1] /\ i + 1 \in 1..Len(pending)
                                    /\ i + 1 # 1
    BY <2>1, <1>3, KnownDeque, TailElements
  <2>3. \A i \in 1..Len(pending') : pending'[i] \notin Credentialed
    BY <1>1, <2>2 DEF First
  <2> QED BY <2>3 DEF First
<1>7. ASSUME SupInstall \/ SupSpawnFails
      PROVE  First'
  <2>1. pending' = pending /\ SlotTaken
    BY <1>7, NoneIsNoRequest
    DEF SupInstall, SupSpawnFails, Known, SlotDiscipline, StartPoints, SlotTaken
  <2>2. \A i \in 1..Len(pending) : pending[i] \notin Credentialed
    BY <1>1, <2>1 DEF First
  <2> QED BY <2>1, <2>2 DEF First
<1>8. ASSUME SupRetire
      PROVE  First'
  <2>1. pending' = pending /\ SlotTaken
    BY <1>8 DEF SupRetire, Known, SlotDiscipline, JobPoints, ServicePoints, SlotTaken
  <2>2. \A i \in 1..Len(pending) : pending[i] \notin Credentialed
    BY <1>1, <2>1 DEF First
  <2> QED BY <2>1, <2>2 DEF First
<1>9. ASSUME ServerDies \/ \E ok \in BOOLEAN : Shutdown(ok)
      PROVE  First'
  <2>1. pending' = <<>> /\ Len(pending') = 0
    BY <1>9 DEF ServerDies, Shutdown
  <2> QED BY <2>1 DEF First
<1>10. ASSUME UNCHANGED <<pending, active, startingId>>
      PROVE  First'
  BY <1>1, <1>10 DEF First, SlotTaken
<1> QED
  BY <1>2, <1>3, <1>4, <1>5, <1>6, <1>7, <1>8, <1>9, <1>10, QueueFrame

(* What submit refuses is enough: later submissions, cancels, starts and a   *)
(* restart never bring a credentialed request behind another one.            *)
THEOREM CredentialedFirst ==
  ASSUME DistinctHolders
  PROVE  Spec => []CredentialedNeverBehind
<1>1. Init => CredentialedNeverBehind
  BY DEF Init, CredentialedNeverBehind
<1>2. OutcomeInv /\ CredentialedNeverBehind /\ [Next]_vars => CredentialedNeverBehind'
  BY CredentialedStep DEF OutcomeInv
<1> QED BY <1>1, <1>2, OutcomesHold, PTL DEF Spec
-----------------------------------------------------------------------------
(* While every write succeeds, a request's position is at most its place in  *)
(* the deque, positions and submissions ascend along it, and whoever is      *)
(* being started or is active comes before all of it.                        *)

Lead == IF startingId # None THEN startingId ELSE active

OrderDiscipline ==
  /\ \A i \in 1..Len(pending) : position[pending[i]] <= i
  /\ \A i, j \in 1..Len(pending) : i < j =>
       pending[i] < pending[j] /\ position[pending[i]] <= position[pending[j]]
  /\ Lead # None =>
       /\ position[Lead] <= 1
       /\ \A i \in 1..Len(pending) : Lead < pending[i] /\ 1 <= position[pending[i]]

LEMMA KnownLead ==
  ASSUME Known
  PROVE  /\ SlotTaken <=> Lead # None
         /\ Lead # None => Lead \in Requests /\ status[Lead] # "none"
         /\ \A i \in 1..Len(pending) : Lead # pending[i]
<1>1. \A i \in 1..Len(pending) : Lead # pending[i]
  BY KnownDeque DEF Lead
<1>2. Lead # None => Lead \in Requests /\ status[Lead] # "none"
  BY DEF Lead, Known, TypeOK, RowDiscipline, StartedStatuses, Ended, TerminalStatuses
<1> QED BY <1>1, <1>2, NoneIsNoRequest DEF Lead, SlotTaken

LEMMA AscendingDistinct ==
  ASSUME NEW s \in Seq(Requests), \A i, j \in 1..Len(s) : i < j => s[i] < s[j]
  PROVE  Distinct(s)
<1> SUFFICES ASSUME NEW i \in 1..Len(s), NEW j \in 1..Len(s), s[i] = s[j]
             PROVE  i = j
  BY DEF Distinct
<1>1. s[i] \in Requests
  OBVIOUS
<1>2. s[i] \in Nat
  BY <1>1, RequestsAreNumbered
<1>3. i \in Nat /\ j \in Nat
  OBVIOUS
<1> QED BY <1>2, <1>3

(* What the deque and the lead do not read may change. *)
LEMMA OrderFrame ==
  ASSUME Known, OrderDiscipline, UNCHANGED pending, Lead' \in {Lead, None},
         \A q \in Requests : \/ position'[q] = position[q]
                             \/ q = Lead /\ position'[q] = 0
                             \/ q # Lead /\ \A i \in 1..Len(pending) : q # pending[i]
  PROVE  OrderDiscipline'
<1>1. \A i \in 1..Len(pending) : position'[pending[i]] = position[pending[i]]
  BY KnownDeque, KnownLead
<1>2. Lead # None => position'[Lead] \in {position[Lead], 0}
  BY KnownLead
<1>3. Lead # None => position'[Lead] <= 1
  BY <1>2 DEF OrderDiscipline
<1>4. Lead' # None => Lead' = Lead
  OBVIOUS
<1>5. /\ \A i \in 1..Len(pending) : position'[pending[i]] <= i
      /\ \A i, j \in 1..Len(pending) : i < j =>
           pending[i] < pending[j] /\ position'[pending[i]] <= position'[pending[j]]
  BY <1>1 DEF OrderDiscipline
<1>6. Lead' # None => /\ position'[Lead'] <= 1
                      /\ \A i \in 1..Len(pending) :
                           Lead' < pending[i] /\ 1 <= position'[pending[i]]
  BY <1>1, <1>3, <1>4 DEF OrderDiscipline
<1> QED BY <1>5, <1>6 DEF OrderDiscipline

(* The deque is numbered from 1 on, and its lead keeps what it had. *)
LEMMA OrderRenumbered ==
  ASSUME Known, pending' \in Seq(Requests),
         \A i, j \in 1..Len(pending') : i < j => pending'[i] < pending'[j],
         \A i \in 1..Len(pending') : position'[pending'[i]] = i,
         Lead' # None => /\ position'[Lead'] <= 1
                         /\ \A i \in 1..Len(pending') : Lead' < pending'[i]
  PROVE  OrderDiscipline'
<1>1. \A i \in 1..Len(pending') : i \in Nat /\ 1 <= i
  OBVIOUS
<1>2. \A i, j \in 1..Len(pending') : i < j =>
        position'[pending'[i]] <= position'[pending'[j]]
  BY <1>1
<1>3. \A i \in 1..Len(pending') : position'[pending'[i]] <= i /\ 1 <= position'[pending'[i]]
  BY <1>1
<1> QED BY <1>1, <1>2, <1>3 DEF OrderDiscipline
LEMMA OrderSubmit ==
  ASSUME Known, OrderDiscipline, NEW r \in Requests, SubmitAccept(r, TRUE)
  PROVE  OrderDiscipline'
<1>1. /\ UNCHANGED <<active, startingId>> /\ pending' = Append(pending, r)
      /\ position' = [position EXCEPT ![r] = QueuePosition]
      /\ \A q \in Requests : status[q] # "none" => q < r
  BY DEF SubmitAccept, Enqueue
<1>2. r \in Nat /\ position \in [Requests -> Nat] /\ \A q \in Requests : q \in Nat
  BY RequestsAreNumbered DEF Known, TypeOK
<1>3. /\ Len(pending') = Len(pending) + 1 /\ pending'[Len(pending) + 1] = r
      /\ \A i \in 1..Len(pending) : pending'[i] = pending[i] /\ pending[i] < r
      /\ \A i \in 1..Len(pending') : i \in 1..Len(pending) \/ i = Len(pending) + 1
      /\ Len(pending) \in Nat
  BY <1>1, KnownDeque
<1>4. /\ position'[r] = Len(pending) + (IF Lead # None THEN 1 ELSE 0)
      /\ \A i \in 1..Len(pending) : position'[pending[i]] = position[pending[i]]
                                    /\ position[pending[i]] \in Nat
      /\ Lead # None => position'[Lead] = position[Lead] /\ Lead < r
  <2>1. \A q \in Requests : status[q] # "none" => q # r
    BY <1>1, <1>2
  <2> QED BY <1>1, <1>2, <2>1, KnownDeque, KnownLead DEF QueuePosition
<1>5. Lead' = Lead
  BY <1>1 DEF Lead
<1>6. \A i \in 1..Len(pending') : position'[pending'[i]] <= i
  BY <1>3, <1>4 DEF OrderDiscipline
<1>7. ASSUME NEW i \in 1..Len(pending'), NEW j \in 1..Len(pending'), i < j
      PROVE  pending'[i] < pending'[j] /\ position'[pending'[i]] <= position'[pending'[j]]
  <2>1. i \in 1..Len(pending)
    BY <1>3, <1>7
  <2>2. CASE j \in 1..Len(pending)
    BY <1>3, <1>4, <1>7, <2>1, <2>2 DEF OrderDiscipline
  <2>3. CASE j = Len(pending) + 1
    <3>1. position[pending[i]] <= Len(pending)
      BY <1>3, <1>4, <2>1 DEF OrderDiscipline
    <3>2. position'[r] >= Len(pending)
      BY <1>3, <1>4
    <3> QED BY <1>3, <1>4, <2>1, <2>3, <3>1, <3>2
  <2> QED BY <1>3, <2>2, <2>3
<1>8. ASSUME Lead # None
      PROVE  /\ position'[Lead] <= 1
             /\ \A i \in 1..Len(pending') : Lead < pending'[i] /\ 1 <= position'[pending'[i]]
  BY <1>3, <1>4, <1>8 DEF OrderDiscipline
<1> QED BY <1>5, <1>6, <1>7, <1>8 DEF OrderDiscipline

LEMMA OrderCancel ==
  ASSUME Known, OrderDiscipline, NEW r \in Requests, CancelQueued(r, TRUE)
  PROVE  OrderDiscipline'
<1>1. UNCHANGED <<active, startingId>> /\ Lead' = Lead
  BY DEF CancelQueued, Lead
<1>2. PICK i \in 1..Len(pending) :
        /\ pending[i] = r /\ pending' = RemoveAt(pending, i)
        /\ position' = [Renumber(RemoveAt(pending, i), Len(pending) - 1) EXCEPT ![r] = 0]
  BY DEF CancelQueued, DropEntry
<1>3. /\ pending' \in Seq(Requests) /\ Len(pending') = Len(pending) - 1
      /\ \A j \in 1..Len(pending') : \E m \in 1..Len(pending) :
           m # i /\ pending'[j] = pending[m] /\ m = (IF j < i THEN j ELSE j + 1)
  BY <1>2, DequeDropped
<1>4. Len(pending) \in Nat /\ Len(pending') \in Nat
  BY <1>3, KnownDeque
<1>5. ASSUME NEW j \in 1..Len(pending'), NEW l \in 1..Len(pending'), j < l
      PROVE  pending'[j] < pending'[l]
  BY <1>3, <1>4, <1>5 DEF OrderDiscipline
<1>6. Distinct(pending')
  BY <1>3, <1>5, AscendingDistinct
<1>7. \A j \in 1..Len(pending') : pending'[j] # r
  BY <1>2, <1>3, KnownDeque DEF Distinct
<1>8. position \in [Requests -> Nat]
  BY DEF Known, TypeOK
<1>9. \A q \in Requests \ {r} :
        /\ \A j \in 1..Len(pending') : pending'[j] = q => position'[q] = j
        /\ (\A j \in 1..Len(pending') : pending'[j] # q) => position'[q] = position[q]
  <2>1. \A q \in Requests \ {r} : position'[q] = Renumber(pending', Len(pending'))[q]
    BY <1>2, <1>3 DEF Renumber
  <2> QED BY <1>3, <1>6, <1>8, <2>1, RenumberExact
<1>10. \A j \in 1..Len(pending') : position'[pending'[j]] = j
  BY <1>3, <1>7, <1>9, KnownDeque
<1>11. ASSUME Lead # None
       PROVE  position'[Lead] <= 1 /\ \A j \in 1..Len(pending') : Lead < pending'[j]
  <2>1. Lead # r /\ Lead \in Requests /\ \A j \in 1..Len(pending') : pending'[j] # Lead
    BY <1>2, <1>3, <1>11, KnownLead
  <2> QED BY <1>3, <1>9, <1>11, <2>1 DEF OrderDiscipline
<1> QED BY <1>1, <1>3, <1>5, <1>10, <1>11, OrderRenumbered

LEMMA OrderReserve ==
  ASSUME Known, OrderDiscipline, SupReserve, faults' = faults
  PROVE  OrderDiscipline'
<1>1. /\ pending # <<>> /\ pending' = Tail(pending) /\ startingId' = Head(pending)
      /\ active = None /\ active' = None /\ Len(pending) \in Nat
      /\ position' = Renumber(Tail(pending), Len(pending) - 1)
  <2>1. faults \in Nat
    BY DEF Known, TypeOK
  <2> QED BY <2>1, KnownDeque DEF SupReserve, MayStart, SlotTaken, Attempt
<1>2. /\ pending' \in Seq(Requests) /\ Len(pending') = Len(pending) - 1
      /\ Head(pending) = pending[1] /\ 1 \in 1..Len(pending)
      /\ \A i \in 1..Len(pending') : pending'[i] = pending[i + 1] /\ i + 1 \in 1..Len(pending)
  BY <1>1, KnownDeque, TailElements
<1>3. Lead' = pending[1] /\ pending[1] \in Requests
  BY <1>1, <1>2, KnownDeque, NoneIsNoRequest DEF Lead
<1>4. \A i, j \in 1..Len(pending') : i < j => pending'[i] < pending'[j]
  BY <1>2 DEF OrderDiscipline
<1>5. Distinct(pending') /\ position \in [Requests -> Nat]
  BY <1>2, <1>4, AscendingDistinct DEF Known, TypeOK
<1>6. \A q \in Requests :
        /\ \A j \in 1..Len(pending') : pending'[j] = q => position'[q] = j
        /\ (\A j \in 1..Len(pending') : pending'[j] # q) => position'[q] = position[q]
  <2>1. position' = Renumber(pending', Len(pending'))
    BY <1>1, <1>2
  <2> QED BY <1>2, <1>5, <2>1, RenumberExact
<1>9. \A i \in 1..Len(pending') : position'[pending'[i]] = i
  BY <1>2, <1>6
<1>7. \A i \in 1..Len(pending') : pending[1] < pending'[i]
  BY <1>2 DEF OrderDiscipline
<1>8. position'[pending[1]] <= 1
  <2>1. \A j \in 1..Len(pending') : pending'[j] # pending[1]
    BY <1>2, KnownDeque DEF Distinct
  <2>2. position'[pending[1]] = position[pending[1]]
    BY <1>3, <1>6, <2>1
  <2> QED BY <1>2, <2>2 DEF OrderDiscipline
<1> QED BY <1>2, <1>3, <1>4, <1>7, <1>8, <1>9, OrderRenumbered
(* The steps that touch neither the deque nor the two fields nor a position. *)
LEMMA OrderAlone ==
  ASSUME Known, OrderDiscipline, UNCHANGED <<pending, active, startingId, position>>
  PROVE  OrderDiscipline'
<1>1. Lead' = Lead
  BY DEF Lead
<1> QED BY <1>1 DEF OrderDiscipline

LEMMA OrderEmptied ==
  ASSUME pending' = <<>>, active' = None, startingId' = None
  PROVE  OrderDiscipline'
<1>1. Len(pending') = 0 /\ Lead' = None
  BY DEF Lead
<1> QED BY <1>1 DEF OrderDiscipline

(* The terminal writes and mark_starting set the position of one row to 0,  *)
(* and that row is the lead's or is in no queue any more.                   *)
LEMMA OrderWrite ==
  ASSUME Known, OrderDiscipline, NEW ok \in BOOLEAN,
         SupMark(ok) \/ SupPersist(ok) \/ SupGiveUp(ok)
  PROVE  OrderDiscipline'
<1>1. UNCHANGED <<pending, active, startingId>> /\ Lead' = Lead
  BY DEF SupMark, SupPersist, SupGiveUp, Lead
<1>2. position' = position \/ position' = [position EXCEPT ![current] = 0]
  BY DEF SupMark, SupPersist, SupGiveUp
<1>3. current = Lead \/ \A i \in 1..Len(pending) : current # pending[i]
  <2>1. CASE SupGiveUp(ok)
    BY <2>1, KnownDeque DEF SupGiveUp, Known, RowDiscipline
  <2>2. CASE SupMark(ok) \/ SupPersist(ok)
    BY <2>2, NoneIsNoRequest
    DEF SupMark, SupPersist, Known, SlotDiscipline, StartPoints, JobPoints, ServicePoints, Lead
  <2> QED BY <2>1, <2>2
<1>4. \A q \in Requests : \/ position'[q] = position[q]
                          \/ q = Lead /\ position'[q] = 0
                          \/ q # Lead /\ \A i \in 1..Len(pending) : q # pending[i]
  BY <1>2, <1>3 DEF Known, TypeOK
<1> QED BY <1>1, <1>4, OrderFrame

LEMMA PositionFrame ==
  ASSUME [Next]_vars,
         ~\E r \in Requests, ok \in BOOLEAN : SubmitAccept(r, ok) \/ CancelQueued(r, ok),
         ~SupReserve, ~Restart,
         ~\E ok \in BOOLEAN : SupMark(ok) \/ SupPersist(ok) \/ SupGiveUp(ok) \/ Shutdown(ok)
  PROVE  position' = position
  BY DEF Next, SubmitStep, CancelStep, ServiceStep, StartStep, ServerStep, WorkerStep,
      WorkerFinishes, WorkerProgress, WorkerRecord, WorkerComplete, WorkerStopsEarly,
      WorkerDeliver, WorkerDies, SubmitCheck, SubmitRefuse, CancelActive, CancelStarting,
      BeginCancel, DeleteAttempt, OtherWorkStarts, OtherWorkEnds, SupTick, SupDrained,
      SupChannelError, SupEscalate, SupReap, SupStop, SupFree, SupHandle,
      SupNothingToStart, SupSpawn, SupSpawnFails, SupInstall, SupRetire, ServerDies,
      SupMarkRunning, SupCancelNow, DeadlinePasses, SettlePasses, ShutdownBegins, vars

LEMMA OrderStep ==
  ASSUME Known, faults = 0 => OrderDiscipline, [Next]_vars
  PROVE  (faults = 0 => OrderDiscipline)'
<1> SUFFICES ASSUME faults' = 0  PROVE OrderDiscipline'
  OBVIOUS
<1>1. faults = 0 /\ OrderDiscipline
  BY FaultsGrow DEF Known
<1>2. ASSUME NEW ok \in BOOLEAN, Attempt(ok)
      PROVE  ok = TRUE
  BY <1>1, <1>2 DEF Attempt
<1>3. ASSUME NEW r \in Requests, NEW ok \in BOOLEAN, SubmitAccept(r, ok)
      PROVE  OrderDiscipline'
  BY <1>1, <1>2, <1>3, OrderSubmit DEF SubmitAccept
<1>4. ASSUME NEW r \in Requests, NEW ok \in BOOLEAN, CancelQueued(r, ok)
      PROVE  OrderDiscipline'
  BY <1>1, <1>2, <1>4, OrderCancel DEF CancelQueued
<1>5. CASE SupReserve
  BY <1>1, <1>5, OrderReserve
<1>6. ASSUME NEW ok \in BOOLEAN, SupMark(ok) \/ SupPersist(ok) \/ SupGiveUp(ok)
      PROVE  OrderDiscipline'
  BY <1>1, <1>6, OrderWrite
<1>7. CASE SupInstall \/ SupSpawnFails \/ SupRetire
  <2>1. UNCHANGED <<pending, position>> /\ Lead' \in {Lead, None}
    BY <1>7, NoneIsNoRequest
    DEF SupInstall, SupSpawnFails, SupRetire, Lead, Known, SlotDiscipline, StartPoints,
        JobPoints, ServicePoints
  <2> QED BY <1>1, <2>1, OrderFrame
<1>8. CASE ServerDies \/ \E ok \in BOOLEAN : Shutdown(ok)
  BY <1>8, OrderEmptied DEF ServerDies, Shutdown
<1>9. CASE Restart
  <2>1. pending' = <<>> /\ active' = None /\ startingId' = None
    BY <1>9 DEF Restart, Known, SlotDiscipline, RowDiscipline, Up
  <2> QED BY <2>1, OrderEmptied
<1>10. CASE UNCHANGED <<pending, active, startingId, position>>
  BY <1>1, <1>10, OrderAlone
<1> QED
  BY <1>3, <1>4, <1>5, <1>6, <1>7, <1>8, <1>9, <1>10, QueueFrame, PositionFrame

LEMMA ServiceElements ==
  ASSUME NEW s \in Seq(Requests), NEW q \in Requests
  PROVE  /\ <<q>> \o s \in Seq(Requests) /\ Len(<<q>> \o s) = Len(s) + 1
         /\ (<<q>> \o s)[1] = q
         /\ \A i \in 1..Len(s) : (<<q>> \o s)[i + 1] = s[i]
         /\ \A i \in DOMAIN (<<q>> \o s) : i \in Nat /\ i <= Len(s) + 1 /\ i >= 1
  OBVIOUS

LEMMA OrderGivesService ==
  ASSUME Known, OrderDiscipline
  PROVE  StoreOrder
<1>1. pending \in Seq(Requests) /\ position \in [Requests -> Nat]
      /\ \A q \in Requests : q \in Nat
  BY RequestsAreNumbered DEF Known, TypeOK
<1>2. CASE ServiceOrder = <<>> \o pending
  <2>1. ServiceOrder = pending /\ DOMAIN pending = 1..Len(pending)
    BY <1>1, <1>2
  <2>2. \A i, j \in 1..Len(pending) : i < j =>
          pending[i] < pending[j] /\ position[pending[i]] <= position[pending[j]]
    BY DEF OrderDiscipline
  <2>3. \A i \in 1..Len(pending) : position[pending[i]] \in Nat
    BY <1>1, KnownDeque
  <2> QED BY <2>1, <2>2, <2>3 DEF StoreOrder
<1>3. CASE Lead # None /\ ServiceOrder = <<Lead>> \o pending
  <2>1. Lead \in Requests
    BY <1>3, KnownLead
  <2> DEFINE line == <<Lead>> \o pending
  <2>2. /\ line[1] = Lead
        /\ \A i \in 1..Len(pending) : line[i + 1] = pending[i]
        /\ \A i \in DOMAIN line : i \in Nat /\ i <= Len(pending) + 1 /\ i >= 1
    BY <1>1, <2>1, ServiceElements
  <2> HIDE DEF line
  <2>3. ASSUME NEW i \in DOMAIN line, i # 1
        PROVE  i - 1 \in 1..Len(pending) /\ line[i] = pending[i - 1]
    <3>1. i - 1 \in 1..Len(pending) /\ (i - 1) + 1 = i
      BY <1>1, <2>2, <2>3
    <3> QED BY <2>2, <3>1
  <2> SUFFICES ASSUME NEW i \in DOMAIN line, NEW j \in DOMAIN line, i < j
               PROVE  \/ position[line[i]] < position[line[j]]
                      \/ position[line[i]] = position[line[j]] /\ line[i] < line[j]
    BY <1>3 DEF StoreOrder, line
  <2>4. i \in Int /\ j \in Int /\ j # 1
    BY <2>2
  <2>5. /\ j - 1 \in 1..Len(pending) /\ line[j] = pending[j - 1]
        /\ position[line[j]] \in Nat
    BY <1>1, <2>3, <2>4, KnownDeque
  <2>6. CASE i = 1
    <3>1. line[i] = Lead /\ position[Lead] <= 1 /\ position[Lead] \in Nat
      BY <1>1, <1>3, <2>1, <2>2, <2>6 DEF OrderDiscipline
    <3>2. Lead < line[j] /\ 1 <= position[line[j]]
      BY <1>3, <2>5 DEF OrderDiscipline
    <3> QED BY <2>5, <3>1, <3>2
  <2>7. CASE i # 1
    <3>1. /\ i - 1 \in 1..Len(pending) /\ line[i] = pending[i - 1]
          /\ position[line[i]] \in Nat /\ i - 1 < j - 1
      BY <1>1, <2>3, <2>4, <2>7, KnownDeque
    <3>2. line[i] < line[j] /\ position[line[i]] <= position[line[j]]
      BY <2>5, <3>1 DEF OrderDiscipline
    <3> QED BY <2>5, <3>1, <3>2
  <2> QED BY <2>6, <2>7
<1>4. ServiceOrder = <<>> \o pending \/ (Lead # None /\ ServiceOrder = <<Lead>> \o pending)
  BY DEF ServiceOrder, Lead
<1> QED BY <1>2, <1>3, <1>4

(* As long as no write of a row has failed, what pending() lists is what the *)
(* manager serves, in its order: the renumbering under the lock keeps the    *)
(* store's order, and queue_position ties are broken by submission.  A       *)
(* renumbering that fails half way may leave two rows the wrong way round.   *)
THEOREM StoreListsService ==
  ASSUME DistinctHolders
  PROVE  Spec => [](faults = 0 => StoreOrder)
<1> DEFINE Ordered == faults = 0 => OrderDiscipline
<1>1. Init => Ordered
  <2>1. Init => Len(pending) = 0 /\ Lead = None
    BY DEF Init, Lead
  <2> QED BY <2>1 DEF OrderDiscipline
<1>2. OutcomeInv /\ Ordered /\ [Next]_vars => Ordered'
  BY OrderStep DEF OutcomeInv
<1>3. OutcomeInv /\ Ordered => (faults = 0 => StoreOrder)
  BY OrderGivesService DEF OutcomeInv
<1> QED BY <1>1, <1>2, <1>3, OutcomesHold, PTL DEF Spec
-----------------------------------------------------------------------------
(* The refinement of FifoService.  The line of the abstract service is the   *)
(* deque, with the reserved request before it until its worker is spawned.   *)

Line == IF startingId # None /\ worker[startingId] = "none"
        THEN <<startingId>> \o pending ELSE pending
Serving == IF Lead # None /\ Live(Lead) THEN Lead ELSE None
Seen == {r \in Requests : status[r] # "none"}

FifoMove ==
  \/ \E r \in Requests : /\ r \notin Seen /\ Seen' = Seen \cup {r}
                         /\ Line' \in {Line, Append(Line, r)}
                         /\ UNCHANGED Serving
  \/ Serving = None /\ Line # <<>> /\ Serving' = Head(Line) /\ Line' = Tail(Line)
     /\ UNCHANGED Seen
  \/ (\E i \in DOMAIN Line : Line' = RemoveAt(Line, i)) /\ UNCHANGED <<Serving, Seen>>
  \/ Serving # None /\ Serving' = None /\ UNCHANGED <<Line, Seen>>
  \/ Line' = <<>> /\ Serving' = None /\ UNCHANGED Seen
  \/ UNCHANGED <<Line, Serving, Seen>>

(* These are the abstract state and step that FifoRefined speaks of. *)
LEMMA ServingIs ==
  ASSUME SlotDiscipline
  PROVE  Serving = IF startingId # None /\ Live(startingId) THEN startingId
                   ELSE IF active # None /\ Live(active) THEN active ELSE None
  BY DEF Serving, Lead, SlotDiscipline

LEMMA MoveIsFifo ==
  ASSUME SlotDiscipline, SlotDiscipline', FifoMove
  PROVE  [Fifo!FifoNext]_(Fifo!fifoVars)
<1>1. /\ Serving = IF startingId # None /\ Live(startingId) THEN startingId
                   ELSE IF active # None /\ Live(active) THEN active ELSE None
      /\ Serving' = (IF startingId # None /\ Live(startingId) THEN startingId
                   ELSE IF active # None /\ Live(active) THEN active ELSE None)'
  BY ServingIs DEF Serving, Lead, SlotDiscipline
<1>2. CASE \E r \in Requests : /\ r \notin Seen /\ Seen' = Seen \cup {r}
                               /\ Line' \in {Line, Append(Line, r)}
                               /\ UNCHANGED Serving
  BY <1>1, <1>2 DEF Fifo!FifoNext, Fifo!Accept, Line, Seen
<1>3. CASE Serving = None /\ Line # <<>> /\ Serving' = Head(Line) /\ Line' = Tail(Line)
           /\ UNCHANGED Seen
  BY <1>1, <1>3 DEF Fifo!FifoNext, Fifo!Serve, Line, Seen
<1>4. CASE (\E i \in DOMAIN Line : Line' = RemoveAt(Line, i)) /\ UNCHANGED <<Serving, Seen>>
  BY <1>1, <1>4 DEF Fifo!FifoNext, Fifo!Withdraw, Line, Seen, RemoveAt, Fifo!RemoveAt
<1>5. CASE Serving # None /\ Serving' = None /\ UNCHANGED <<Line, Seen>>
  BY <1>1, <1>5 DEF Fifo!FifoNext, Fifo!Stop, Line, Seen
<1>6. CASE Line' = <<>> /\ Serving' = None /\ UNCHANGED Seen
  BY <1>1, <1>6 DEF Fifo!FifoNext, Fifo!Abandon, Line, Seen
<1>7. CASE UNCHANGED <<Line, Serving, Seen>>
  BY <1>1, <1>7 DEF Fifo!fifoVars, Line, Seen
<1> QED BY <1>2, <1>3, <1>4, <1>5, <1>6, <1>7 DEF FifoMove

LEMMA SeenFrame ==
  ASSUME Known, [Next]_vars, ~\E r \in Requests, ok \in BOOLEAN : SubmitAccept(r, ok)
  PROVE  Seen' = Seen
<1>1. \A r \in Requests : status[r] = "none" <=> status'[r] = "none"
  BY RowMoves DEF RowMove
<1> QED BY <1>1 DEF Seen

(* A worker of nobody stays nobody's and a dead one dead: what the line and  *)
(* the one served read of the workers changes only at a spawn.               *)
LEMMA WorkersOnlyEnd ==
  ASSUME Known, WorkerFits, [Next]_vars, ~SupSpawn, NEW r \in Requests
  PROVE  /\ Live(r)' => Live(r)
         /\ r = startingId /\ startingId' = startingId =>
              (worker[r] = "none" <=> worker'[r] = "none")
<1>1. CASE \E q \in Requests : WorkerStep(q)
  BY <1>1, WorkerLife DEF Live, Stopped
<1>2. CASE SupStop
  <2>1. worker' = [worker EXCEPT ![current] = "dead"] /\ current = active /\ active # None
    BY <1>2 DEF SupStop, StopProcess, Known, SlotDiscipline, JobPoints, ServicePoints
  <2>2. startingId = None
    BY <2>1 DEF Known, SlotDiscipline
  <2> QED BY <2>1, <2>2, NoneIsNoRequest DEF Live, Known, TypeOK
<1>3. ASSUME NEW ok \in BOOLEAN, Shutdown(ok)
      PROVE  /\ Live(r)' => Live(r)
             /\ startingId' = None
  BY <1>3 DEF Shutdown, StopProcess, Live, Known, TypeOK
<1>4. CASE UNCHANGED worker
  BY <1>4 DEF Live
<1> QED BY <1>1, <1>2, <1>3, <1>4, WorkerFrame, NoneIsNoRequest

LEMMA FifoAccept ==
  ASSUME Known, NEW r \in Requests, NEW ok \in BOOLEAN, SubmitAccept(r, ok)
  PROVE  FifoMove
<1>1. /\ UNCHANGED <<active, startingId, worker>> /\ pending' \in {pending, Append(pending, r)}
      /\ status' = [status EXCEPT ![r] = "queued"] /\ \A q \in Requests : status[q] # "none" => q < r
  BY DEF SubmitAccept, Enqueue
<1>2. status[r] = "none"
  <2>1. r \in Nat
    BY RequestsAreNumbered
  <2> QED BY <1>1, <2>1
<1>3. r \notin Seen /\ Seen' = Seen \cup {r}
  BY <1>1, <1>2 DEF Seen, Known, TypeOK
<1>4. UNCHANGED Serving
  BY <1>1 DEF Serving, Lead, Live
<1>5. Line' \in {Line, Append(Line, r)}
  <2>1. CASE startingId # None /\ worker[startingId] = "none"
    <3>1. startingId \in Requests
      BY <2>1 DEF Known, TypeOK
    <3>2. <<startingId>> \o Append(pending, r) = Append(<<startingId>> \o pending, r)
      BY <3>1, KnownDeque
    <3> QED BY <1>1, <2>1, <3>2 DEF Line
  <2>2. CASE ~(startingId # None /\ worker[startingId] = "none")
    BY <1>1, <2>2 DEF Line
  <2> QED BY <2>1, <2>2
<1> QED BY <1>3, <1>4, <1>5 DEF FifoMove

LEMMA RemoveBehind ==
  ASSUME NEW s \in Seq(Requests), NEW q \in Requests, NEW i \in 1..Len(s)
  PROVE  /\ i + 1 \in DOMAIN (<<q>> \o s)
         /\ RemoveAt(<<q>> \o s, i + 1) = <<q>> \o RemoveAt(s, i)
<1> DEFINE t == <<q>> \o s
<1>1. /\ t \in Seq(Requests) /\ Len(t) = Len(s) + 1 /\ t[1] = q
      /\ \A j \in 1..Len(s) : t[j + 1] = s[j]
      /\ Len(s) \in Nat /\ i + 1 \in 1..Len(t) /\ DOMAIN t = 1..Len(t)
  BY ServiceElements
<1> HIDE DEF t
<1>2. /\ RemoveAt(t, i + 1) \in Seq(Requests) /\ Len(RemoveAt(t, i + 1)) = Len(s)
      /\ \A j \in 1..Len(s) :
           RemoveAt(t, i + 1)[j] = IF j < i + 1 THEN t[j] ELSE t[j + 1]
  <2>1. Len(t) - 1 = Len(s)
    BY <1>1
  <2> QED BY <1>1, <2>1, RemoveAtElements
<1>3. /\ RemoveAt(s, i) \in Seq(Requests) /\ Len(RemoveAt(s, i)) = Len(s) - 1
      /\ \A j \in 1..(Len(s) - 1) : RemoveAt(s, i)[j] = IF j < i THEN s[j] ELSE s[j + 1]
  BY RemoveAtElements
<1> DEFINE u == <<q>> \o RemoveAt(s, i)
<1>4. /\ u \in Seq(Requests) /\ Len(u) = Len(s) /\ u[1] = q
      /\ \A j \in 1..(Len(s) - 1) : u[j + 1] = RemoveAt(s, i)[j]
  BY <1>1, <1>3, ServiceElements
<1> HIDE DEF u
<1>5. ASSUME NEW j \in 1..Len(s)
      PROVE  u[j] = RemoveAt(t, i + 1)[j]
  <2>1. CASE j = 1
    BY <1>1, <1>2, <1>4, <2>1
  <2>2. CASE j # 1
    <3>1. j - 1 \in 1..(Len(s) - 1) /\ (j - 1) + 1 = j /\ j - 1 \in 1..Len(s)
      BY <1>1, <2>2
    <3>2. u[j] = IF j - 1 < i THEN s[j - 1] ELSE s[j]
      BY <1>3, <1>4, <3>1
    <3>3. t[j] = s[j - 1] /\ t[j + 1] = s[j]
      BY <1>1, <3>1
    <3> QED BY <1>2, <3>1, <3>2, <3>3
  <2> QED BY <2>1, <2>2
<1>6. u = RemoveAt(t, i + 1)
  BY <1>2, <1>4, <1>5, SeqEqual
<1> QED BY <1>1, <1>6 DEF t, u

LEMMA RemoveFront ==
  ASSUME NEW s \in Seq(Requests), NEW q \in Requests
  PROVE  /\ 1 \in DOMAIN (<<q>> \o s)
         /\ RemoveAt(<<q>> \o s, 1) = s
<1>1. /\ <<q>> \o s \in Seq(Requests) /\ Len(<<q>> \o s) = Len(s) + 1
      /\ \A j \in 1..Len(s) : (<<q>> \o s)[j + 1] = s[j]
      /\ Len(s) \in Nat /\ 1 \in 1..Len(<<q>> \o s)
      /\ DOMAIN (<<q>> \o s) = 1..Len(<<q>> \o s)
  BY ServiceElements
<1>2. PICK t : t = <<q>> \o s
  OBVIOUS
<1>3. /\ RemoveAt(t, 1) \in Seq(Requests) /\ Len(RemoveAt(t, 1)) = Len(s)
      /\ \A j \in 1..Len(s) : RemoveAt(t, 1)[j] = t[j + 1]
  <2>1. Len(t) - 1 = Len(s) /\ \A j \in 1..Len(s) : ~(j < 1)
    BY <1>1, <1>2
  <2> QED BY <1>1, <1>2, <2>1, RemoveAtElements
<1>4. \A j \in 1..Len(s) : RemoveAt(t, 1)[j] = s[j]
  BY <1>1, <1>2, <1>3
<1>5. RemoveAt(t, 1) = s
  BY <1>3, <1>4, SeqEqual
<1> QED BY <1>1, <1>2, <1>5

LEMMA FifoWithdraw ==
  ASSUME Known, NEW r \in Requests, NEW ok \in BOOLEAN, CancelQueued(r, ok), Seen' = Seen
  PROVE  FifoMove
<1>1. UNCHANGED <<active, startingId, worker>>
  BY DEF CancelQueued
<1>2. PICK i \in 1..Len(pending) : pending' = RemoveAt(pending, i)
  BY DEF CancelQueued, DropEntry
<1>3. UNCHANGED Serving
  BY <1>1 DEF Serving, Lead, Live
<1>4. CASE startingId # None /\ worker[startingId] = "none"
  <2>1. startingId \in Requests /\ Line = <<startingId>> \o pending
    BY <1>4 DEF Known, TypeOK, Line
  <2>2. Line' = <<startingId>> \o RemoveAt(pending, i)
    BY <1>1, <1>2, <1>4 DEF Line
  <2>3. i + 1 \in DOMAIN Line /\ Line' = RemoveAt(Line, i + 1)
    BY <2>1, <2>2, KnownDeque, RemoveBehind
  <2> QED BY <1>3, <2>3 DEF FifoMove
<1>5. CASE ~(startingId # None /\ worker[startingId] = "none")
  <2>1. Line = pending /\ Line' = RemoveAt(Line, i) /\ i \in DOMAIN Line
    BY <1>1, <1>2, <1>5, KnownDeque DEF Line
  <2> QED BY <1>3, <2>1 DEF FifoMove
<1> QED BY <1>4, <1>5

(* The three steps that move a request from the line to the worker.          *)
LEMMA FifoStart ==
  ASSUME Known, WorkerFits, SupReserve \/ SupSpawn \/ SupSpawnFails, Seen' = Seen
  PROVE  FifoMove
<1>1. CASE SupReserve
  <2>1. /\ active = None /\ startingId = None /\ pending # <<>> /\ UNCHANGED <<active, worker>>
        /\ startingId' = Head(pending) /\ pending' = Tail(pending)
    BY <1>1 DEF SupReserve, MayStart, SlotTaken
  <2>2. /\ Head(pending) \in Requests /\ status[Head(pending)] = "queued"
        /\ <<Head(pending)>> \o Tail(pending) = pending
    BY <2>1, KnownDeque, TailElements
  <2>3. worker[Head(pending)] = "none"
    BY <2>2 DEF WorkerFits
  <2>4. Line' = Line
    BY <2>1, <2>2, <2>3, NoneIsNoRequest DEF Line
  <2>5. Serving = None /\ Serving' = None
    BY <2>1, <2>2, <2>3 DEF Serving, Lead, Live
  <2> QED BY <2>4, <2>5 DEF FifoMove
<1>2. CASE SupSpawn \/ SupSpawnFails
  <2>1. startingId # None /\ startingId \in Requests /\ current = startingId /\ active = None
    BY <1>2, NoneIsNoRequest
    DEF SupSpawn, SupSpawnFails, Known, SlotDiscipline, StartPoints, TypeOK
  <2>2. worker[startingId] = "none"
    BY <1>2, <2>1 DEF SupSpawn, SupSpawnFails, WorkerFits
  <2>3. Serving = None /\ Line = <<startingId>> \o pending
    BY <2>1, <2>2 DEF Serving, Line, Lead, Live
  <2>4. CASE SupSpawn
    <3>1. /\ worker'[startingId] = "running" /\ UNCHANGED <<pending, active, startingId>>
      BY <2>1, <2>4 DEF SupSpawn, Known, TypeOK
    <3>2. Serving' = startingId /\ Line' = pending
      BY <2>1, <3>1 DEF Serving, Line, Lead, Live
    <3>3. Line # <<>> /\ Head(Line) = startingId /\ Tail(Line) = pending
      BY <2>1, <2>3, KnownDeque
    <3> QED BY <2>3, <3>2, <3>3 DEF FifoMove
  <2>5. CASE SupSpawnFails
    <3>1. startingId' = None /\ UNCHANGED <<pending, active, worker>>
      BY <2>5 DEF SupSpawnFails
    <3>2. Serving' = None /\ Line' = pending
      BY <2>1, <3>1 DEF Serving, Line, Lead
    <3>3. 1 \in DOMAIN Line /\ RemoveAt(Line, 1) = pending
      BY <2>1, <2>3, KnownDeque, RemoveFront
    <3> QED BY <2>3, <3>2, <3>3 DEF FifoMove
  <2> QED BY <1>2, <2>4, <2>5
<1> QED BY <1>1, <1>2

LEMMA FifoHandOver ==
  ASSUME Known, WorkerFits, SupInstall \/ SupRetire, Seen' = Seen
  PROVE  FifoMove
<1>1. CASE SupInstall
  <2>1. /\ startingId # None /\ current = startingId /\ worker[startingId] # "none"
        /\ UNCHANGED <<pending, worker>> /\ startingId' = None /\ active' = current
    BY <1>1, NoneIsNoRequest
    DEF SupInstall, Known, SlotDiscipline, StartPoints, WorkerFits
  <2> QED BY <2>1 DEF FifoMove, Line, Serving, Lead, Live
<1>2. CASE SupRetire
  <2>1. /\ active # None /\ startingId = None /\ ~Live(active) /\ active' = None
        /\ UNCHANGED <<pending, worker, startingId>>
    BY <1>2 DEF SupRetire, Known, SlotDiscipline, JobPoints, ServicePoints
  <2> QED BY <2>1 DEF FifoMove, Line, Serving, Lead, Live
<1> QED BY <1>1, <1>2

(* Every other step only ends the worker being served, or nothing at all.    *)
LEMMA FifoRest ==
  ASSUME Known, WorkerFits, [Next]_vars, ~SupSpawn,
         UNCHANGED <<pending, active, startingId>>, Seen' = Seen
  PROVE  FifoMove
<1>1. Lead' = Lead /\ (Lead # None => Lead \in Requests)
  BY KnownLead DEF Lead
<1>2. Line' = Line
  <2>1. startingId # None => (worker[startingId] = "none" <=> worker'[startingId] = "none")
    BY WorkersOnlyEnd DEF Known, TypeOK
  <2> QED BY <2>1 DEF Line
<1>3. Lead # None /\ Live(Lead)' => Live(Lead)
  BY <1>1, WorkersOnlyEnd DEF Live
<1>4. Serving' \in {Serving, None}
  BY <1>1, <1>3 DEF Serving, Live
<1> QED BY <1>2, <1>4 DEF FifoMove

LEMMA FifoStep ==
  ASSUME Known, WorkerFits, [Next]_vars
  PROVE  FifoMove
<1>1. CASE \E r \in Requests, ok \in BOOLEAN : SubmitAccept(r, ok)
  BY <1>1, FifoAccept
<1>2. CASE ~\E r \in Requests, ok \in BOOLEAN : SubmitAccept(r, ok)
  <2>1. Seen' = Seen
    BY <1>2, SeenFrame
  <2>2. CASE \E r \in Requests, ok \in BOOLEAN : CancelQueued(r, ok)
    BY <2>1, <2>2, FifoWithdraw
  <2>3. CASE SupReserve \/ SupSpawn \/ SupSpawnFails
    BY <2>1, <2>3, FifoStart
  <2>4. CASE SupInstall \/ SupRetire
    BY <2>1, <2>4, FifoHandOver
  <2>5. CASE ServerDies \/ \E ok \in BOOLEAN : Shutdown(ok)
    <3>1. pending' = <<>> /\ startingId' = None /\ active' = None
      BY <2>5 DEF ServerDies, Shutdown
    <3> QED BY <2>1, <3>1 DEF FifoMove, Line, Serving, Lead
  <2>6. CASE UNCHANGED <<pending, active, startingId>> /\ ~SupSpawn
    BY <2>1, <2>6, FifoRest
  <2> QED BY <1>2, <2>2, <2>3, <2>4, <2>5, <2>6, QueueFrame
<1> QED BY <1>1, <1>2

(* The run queue implements the one-at-a-time FIFO service, crashes, failed  *)
(* writes and shutdowns included: no request is served twice, overtaken, or  *)
(* served while another worker of this server is alive.                      *)
THEOREM QueueIsFifo ==
  ASSUME DistinctHolders
  PROVE  Spec => FifoRefined
<1>1. Init => Fifo!FifoInit
  BY DEF Init, Fifo!FifoInit
<1>2. OutcomeInv /\ OutcomeInv' /\ [Next]_vars => [Fifo!FifoNext]_(Fifo!fifoVars)
  <2> SUFFICES ASSUME OutcomeInv, OutcomeInv', [Next]_vars
               PROVE  [Fifo!FifoNext]_(Fifo!fifoVars)
    OBVIOUS
  <2>1. FifoMove
    BY FifoStep DEF OutcomeInv
  <2> QED BY <2>1, MoveIsFifo DEF OutcomeInv, Known
<1> QED BY <1>1, <1>2, OutcomesHold, PTL DEF Spec, FifoRefined, Fifo!FifoSpec
=============================================================================
