------------------------------ MODULE RunQueue ------------------------------
(***************************************************************************)
(* The run queue of one data directory: RunQueueManager (runqueue.py) with *)
(* its supervisor thread, the run_state rows it keeps (run_state.py), the  *)
(* worker process it owns (worker.py) with the bounded event channel, and  *)
(* the server process that may stop and come back.                         *)
(*                                                                         *)
(* Threads and processes interleave at the points where the code takes or  *)
(* drops the manager's lock, writes a row, or signals a process.  `sup` is *)
(* the place the supervisor has reached; a server thread (submit, cancel,  *)
(* delete, shutdown) holds the lock, so each of its calls is one step.     *)
(***************************************************************************)
EXTENDS ExclusiveSlot, Naturals, SequencesExt

CONSTANTS
  Credentialed,  \* the requests that carry a workbook password
  Capacity,      \* IPC_QUEUE_CAPACITY, the bound of a worker's event channel
  MaxFaults,     \* bound on run_state writes that raise, and channel errors
  MaxRestarts    \* bound on how often the server process comes back

ASSUME RequestsAreNumbered == Requests \subseteq Nat  \* in submission order
ASSUME CredentialedAreRequests == Credentialed \subseteq Requests
ASSUME BoundsAreNat ==
  Capacity \in Nat \ {0} /\ MaxFaults \in Nat /\ MaxRestarts \in Nat

VARIABLES
  status,      \* run_state.status; "none" before and "deleted" after the row
  position,    \* run_state.queue_position
  history,     \* requests whose completed run record_run has committed
  server,      \* the hosting process: "up", "stopping", "stopped", "down"
  checked,     \* submit calls past the `closed` check, not yet in the lock
  pending,     \* _pending; the passwords held are those of its Credentialed
  active,      \* the request of _active
  startingId,  \* _starting_id
  cancelSet,   \* _cancel_requested
  sup,         \* where the supervisor thread is
  current,     \* the request the supervisor's tick works on
  terminal,    \* job.terminal_status
  deadline,    \* job.cancel_deadline; set together with the cancel flag
  ladder,      \* job.terminated and job.killed
  deadSince,   \* job.dead_since
  worker,      \* what each request's worker process is doing
  chan,        \* the event channel of the current job
  strays,      \* live workers whose server process is gone
  faults, restarts

storeVars == <<status, position>>
queueVars == <<checked, pending, active, startingId, cancelSet>>
supVars   == <<sup, current>>
jobVars   == <<terminal, deadline, ladder, deadSince>>
workVars  == <<worker, chan, strays, history>>
serverVars == <<server, restarts>>
vars == <<slotVars, storeVars, queueVars, supVars, jobVars, workVars,
          serverVars, faults>>

ActiveStatuses == {"queued", "starting", "running", "cancelling"}
TerminalStatuses == {"succeeded", "failed", "cancelled", "orphaned", "blocked"}
Statuses == ActiveStatuses \cup TerminalStatuses \cup {"none", "deleted"}
Reports == {"result", "cancelled", "error", "blocked"}
(* A worker in one of Reports has that message still to put. *)
WorkerStates == {"none", "running", "recorded", "exiting", "dead"} \cup Reports
(* Where the supervisor works on the job it found in _active. *)
ServicePoints == {"drain", "escalate", "reap", "stop", "persist", "retire"}
JobPoints == ServicePoints \cup {"run", "runCancelled", "cancelNow"}
(* Where it works on the request it has just taken from the deque. *)
StartPoints == {"mark", "spawn", "install"}
Points == JobPoints \cup StartPoints
            \cup {"off", "exited", "service", "start", "free", "giveup"}

Up == server # "down"
Closed == server \in {"stopping", "stopped"}
SlotTaken == active # None \/ startingId # None
Live(r) == worker[r] \notin {"none", "dead"}
CancelFlag(r) == r = active /\ deadline # "none"

TypeOK ==
  /\ SlotTypeOK
  /\ status \in [Requests -> Statuses]
  /\ position \in [Requests -> Nat]
  /\ history \subseteq Requests
  /\ server \in {"up", "stopping", "stopped", "down"}
  /\ checked \subseteq Requests
  /\ pending \in Seq(Requests)
  /\ active \in Requests \cup {None}
  /\ startingId \in Requests \cup {None}
  /\ current \in Requests \cup {None}
  /\ cancelSet \subseteq Requests
  /\ sup \in Points
  /\ terminal \in {"none", "succeeded", "failed", "cancelled", "blocked"}
  /\ deadline \in {"none", "armed", "passed"}
  /\ deadSince \in {"none", "armed", "passed"}
  /\ ladder \in {"none", "terminated", "killed"}
  /\ worker \in [Requests -> WorkerStates]
  /\ chan \in Seq(Reports \cup {"progress"})
  /\ strays \subseteq Requests
  /\ faults \in Nat /\ restarts \in Nat

Init ==
  /\ SlotInit
  /\ status = [r \in Requests |-> "none"]
  /\ position = [r \in Requests |-> 0]
  /\ history = {} /\ checked = {} /\ cancelSet = {} /\ strays = {}
  /\ server = "up"
  /\ pending = <<>> /\ chan = <<>>
  /\ active = None /\ startingId = None /\ current = None
  /\ sup = "off"
  /\ terminal = "none" /\ deadline = "none"
  /\ ladder = "none" /\ deadSince = "none"
  /\ worker = [r \in Requests |-> "none"]
  /\ faults = 0 /\ restarts = 0
-----------------------------------------------------------------------------
(* The run_state store: what each UPDATE does to the row of r.             *)

(* One write: it succeeds, or it raises and changes nothing. *)
Attempt(ok) ==
  IF ok THEN UNCHANGED faults ELSE faults < MaxFaults /\ faults' = faults + 1

Advance(r, from, to) ==
  [status EXCEPT ![r] = IF @ \in from THEN to ELSE @]

MarkStarting(r) == Advance(r, {"queued"}, "starting")
MarkRunning(r) == Advance(r, {"starting"}, "running")
UpdateProgress(r) == Advance(r, {"starting"}, "running")

(* Mutant: the UPDATE sets the status without the CASE on the old one. *)
RequestCancelAlways(r) == Advance(r, Statuses \ {"none", "deleted"}, "cancelling")
RequestCancel(r) == Advance(r, {"queued", "starting", "running"}, "cancelling")
(* The UPDATE has no guard on the status, and hits nothing without a row. *)
Finish(r, outcome) == Advance(r, Statuses \ {"none", "deleted"}, outcome)

(* queue_position after the first k entries of line have been renumbered. *)
Renumber(line, k) ==
  [r \in Requests |->
     IF \E i \in 1..k : line[i] = r
     THEN CHOOSE i \in 1..k : line[i] = r
     ELSE position[r]]
-----------------------------------------------------------------------------
(* Server threads: submit, cancel, delete, shutdown.                       *)

(* submit reads `closed` before it takes the lock. *)
SubmitCheck(r) ==
  /\ server = "up"
  /\ status[r] = "none"
  /\ r \notin checked
  /\ checked' = checked \cup {r}
  /\ UNCHANGED <<slotVars, storeVars, pending, active, startingId, cancelSet,
                 supVars, jobVars, workVars, serverVars, faults>>

(* Mutant: only the slot is looked at, not the deque. *)
MustWaitForSlot(r) == r \in Credentialed /\ SlotTaken
MustWait(r) == r \in Credentialed /\ (SlotTaken \/ pending # <<>>)

SubmitRefuse(r) ==
  /\ Up /\ r \in checked
  /\ MustWait(r)
  /\ checked' = checked \ {r}
  /\ UNCHANGED <<slotVars, storeVars, pending, active, startingId, cancelSet,
                 supVars, jobVars, workVars, serverVars, faults>>

QueuePosition == Len(pending) + (IF SlotTaken THEN 1 ELSE 0)

(* Mutant: the newest request goes first, appendleft for append. *)
EnqueueFirst(r) == <<r>> \o pending
Enqueue(r) == Append(pending, r)

(* The row is inserted; enqueue may still raise when it reads the row back, *)
(* and then the request never reaches the deque.  A supervisor thread that  *)
(* has ended is replaced.                                                   *)
SubmitAccept(r, ok) ==
  /\ Up /\ r \in checked
  /\ ~MustWait(r)
  /\ \A q \in Requests : status[q] # "none" => q < r
  /\ checked' = checked \ {r}
  /\ status' = [status EXCEPT ![r] = "queued"]
  /\ position' = [position EXCEPT ![r] = QueuePosition]
  /\ Attempt(ok)
  /\ pending' = IF ok THEN Enqueue(r) ELSE pending
  /\ sup' = IF ok /\ sup \in {"off", "exited"} THEN "service" ELSE sup
  /\ UNCHANGED <<slotVars, active, startingId, cancelSet, current, jobVars,
                 workVars, serverVars>>

(* _begin_cancel: once per job; the flag is set before the row is written. *)
BeginCancel(r, ok) ==
  /\ deadline' = IF deadline = "none" THEN "armed" ELSE deadline
  /\ status' = IF ok /\ deadline = "none" THEN RequestCancel(r) ELSE status
  /\ Attempt(ok)

CancelActive(r, ok) ==
  /\ Up /\ active = r
  /\ BeginCancel(r, ok)
  /\ UNCHANGED <<slotVars, position, queueVars, supVars, terminal, ladder,
                 deadSince, workVars, serverVars>>

CancelStarting(r, ok) ==
  /\ Up /\ active # r /\ startingId = r
  /\ cancelSet' = cancelSet \cup {r}
  /\ status' = IF ok THEN RequestCancel(r) ELSE status
  /\ Attempt(ok)
  /\ UNCHANGED <<slotVars, position, checked, pending, active, startingId,
                 supVars, jobVars, workVars, serverVars>>

(* Mutant: the entry stays in the deque. *)
KeepEntry(i) == pending
DropEntry(i) == RemoveAt(pending, i)

(* The entry leaves the deque, the rest is renumbered one row at a time,   *)
(* then the row is finished; a write that raises skips what comes after.   *)
CancelQueued(r, ok) ==
  /\ Up /\ r \notin {active, startingId}
  /\ \E i \in 1..Len(pending) : \E k \in 0..(Len(pending) - 1) :
       /\ pending[i] = r
       /\ ok => k = Len(pending) - 1
       /\ pending' = DropEntry(i)
       /\ position' = [Renumber(DropEntry(i), k) EXCEPT ![r] =
                         IF ok THEN 0 ELSE @]
  /\ status' = IF ok THEN Finish(r, "cancelled") ELSE status
  /\ Attempt(ok)
  /\ UNCHANGED <<slotVars, checked, active, startingId, cancelSet, supVars,
                 jobVars, workVars, serverVars>>

(* delete_terminal_attempt: run_id is set exactly on a succeeded row. *)
DeleteAttempt(r) ==
  /\ Up
  /\ status[r] \in TerminalStatuses \ {"succeeded"}
  /\ status' = [status EXCEPT ![r] = "deleted"]
  /\ UNCHANGED <<slotVars, position, queueVars, supVars, jobVars, workVars,
                 serverVars, faults>>
-----------------------------------------------------------------------------
(* The supervisor thread: one tick is _service_active, then _start_next.   *)
(* A write that raises ends the tick at once: _supervise logs it and goes  *)
(* on with the next tick, and the job it was working on stays as it is.    *)

Tick == sup' = "service" /\ current' = None

(* The loop condition, then the read of _active under the lock. *)
SupTick ==
  /\ Up /\ sup = "service"
  /\ sup' = IF Closed THEN "exited" ELSE IF active = None THEN "start" ELSE "drain"
  /\ current' = IF Closed THEN None ELSE active
  /\ UNCHANGED <<slotVars, storeVars, queueVars, jobVars, workVars, serverVars,
                 faults>>

OutcomeOf == [result |-> "succeeded", cancelled |-> "cancelled",
              error |-> "failed", blocked |-> "blocked"]

(* _handle on the oldest message. *)
SupHandle(ok) ==
  /\ Up /\ sup = "drain" /\ chan # <<>>
  /\ chan' = Tail(chan)
  /\ IF Head(chan) = "progress"
     THEN /\ status' = IF ok THEN UpdateProgress(current) ELSE status
          /\ Attempt(ok)
          /\ IF ok THEN UNCHANGED supVars ELSE Tick
          /\ UNCHANGED terminal
     ELSE /\ ok
          /\ terminal' = OutcomeOf[Head(chan)]
          /\ UNCHANGED <<status, faults, supVars>>
  /\ UNCHANGED <<slotVars, position, queueVars, deadline, ladder, deadSince,
                 worker, strays, history, serverVars>>

SupDrained ==
  /\ Up /\ sup = "drain" /\ chan = <<>>
  /\ sup' = "escalate"
  /\ UNCHANGED <<slotVars, storeVars, queueVars, current, jobVars, workVars,
                 serverVars, faults>>

(* get_nowait raises on a broken channel: what it held is lost. *)
SupChannelError ==
  /\ Up /\ sup = "drain"
  /\ Attempt(FALSE)
  /\ chan' = <<>>
  /\ terminal' = IF terminal = "none" THEN "failed" ELSE terminal
  /\ sup' = "escalate"
  /\ UNCHANGED <<slotVars, storeVars, queueVars, current, deadline, ladder,
                 deadSince, worker, strays, history, serverVars>>

(* Mutant: the ladder ends at SIGTERM. *)
TerminateAgain == "terminated"
NextSignal == IF ladder = "none" THEN "terminated" ELSE "killed"

(* _escalate_cancellation: SIGTERM at the first deadline, SIGKILL at the    *)
(* next; the worker dies of it later (WorkerDies), or ignores SIGTERM.      *)
SupEscalate ==
  /\ Up /\ sup = "escalate"
  /\ sup' = "reap"
  /\ IF deadline = "passed" /\ Live(current) /\ ladder # "killed"
     THEN /\ ladder' = NextSignal
          /\ deadline' = "armed"
     ELSE UNCHANGED <<ladder, deadline>>
  /\ UNCHANGED <<slotVars, storeVars, queueVars, current, terminal, deadSince,
                 workVars, serverVars, faults>>

(* Mutant: an exit without a message counts as a success. *)
SilentSuccess == IF deadline # "none" THEN "cancelled" ELSE "succeeded"
(* _record_silent_exit *)
SilentExit == IF deadline # "none" THEN "cancelled" ELSE "failed"

(* Mutant: a worker found dead is given up at once. *)
GiveUpAtOnce == TRUE
Settled == deadSince = "passed"

(* A worker found dead is given _EXIT_SETTLE_SECONDS for its last message. *)
SupReap ==
  /\ Up /\ sup = "reap"
  /\ IF terminal = "none" /\ ~Live(current)
     THEN /\ deadSince' = IF deadSince = "none" THEN "armed" ELSE deadSince
          /\ terminal' = IF Settled THEN SilentExit ELSE terminal
     ELSE UNCHANGED <<terminal, deadSince>>
  /\ IF terminal' = "none"
     THEN sup' = "start" /\ current' = None
     ELSE sup' = "stop" /\ UNCHANGED current
  /\ UNCHANGED <<slotVars, storeVars, queueVars, deadline, ladder, workVars,
                 serverVars, faults>>

StopProcess(r) == [worker EXCEPT ![r] = "dead"]

(* _finish: _stop_process and _release leave a dead process. *)
SupStop ==
  /\ Up /\ sup = "stop"
  /\ worker' = StopProcess(current)
  /\ sup' = "persist"
  /\ UNCHANGED <<slotVars, storeVars, queueVars, current, jobVars, chan, strays,
                 history, serverVars, faults>>

(* The terminal write; the finally clause runs whether it raised or not. *)
SupPersist(ok) ==
  /\ Up /\ sup = "persist"
  /\ status' = IF ok THEN Finish(current, terminal) ELSE status
  /\ position' = IF ok THEN [position EXCEPT ![current] = 0] ELSE position
  /\ Attempt(ok)
  /\ sup' = "retire"
  /\ UNCHANGED <<slotVars, queueVars, current, jobVars, workVars, serverVars>>

SupRetire ==
  /\ Up /\ sup = "retire"
  /\ active' = None
  /\ terminal' = "none" /\ deadline' = "none"
  /\ ladder' = "none" /\ deadSince' = "none"
  /\ chan' = <<>>
  /\ sup' = "free"
  /\ UNCHANGED <<slotVars, storeVars, checked, pending, startingId, cancelSet,
                 current, worker, strays, history, serverVars, faults>>

(* After a write that raised the tick ends here instead; the next one       *)
(* finds no active job and comes to the same place.                         *)
SupFree ==
  /\ Up /\ sup = "free"
  /\ Release(current)
  /\ sup' = "start" /\ current' = None
  /\ UNCHANGED <<calls, storeVars, queueVars, jobVars, workVars, serverVars,
                 faults>>

MayStart ==
  /\ ~SlotTaken /\ pending # <<>> /\ ~Closed
  /\ CanAcquire(Head(pending))

SupNothingToStart ==
  /\ Up /\ sup = "start"
  /\ ~MayStart
  /\ Tick
  /\ UNCHANGED <<slotVars, storeVars, queueVars, jobVars, workVars, serverVars,
                 faults>>

(* Under the lock: take the slot, reserve the head, renumber the rest. *)
SupReserve ==
  /\ Up /\ sup = "start"
  /\ MayStart
  /\ TryAcquire(Head(pending))
  /\ startingId' = Head(pending)
  /\ pending' = Tail(pending)
  /\ \E k \in 0..(Len(pending) - 1) :
       /\ position' = Renumber(Tail(pending), k)
       /\ Attempt(k = Len(pending) - 1)
       /\ IF k = Len(pending) - 1
          THEN sup' = "mark" /\ current' = Head(pending)
          ELSE Tick
  /\ UNCHANGED <<calls, status, checked, active, cancelSet, jobVars, workVars,
                 serverVars>>

(* set_queue_position and mark_starting: outside the lock and the try. *)
SupMark(ok) ==
  /\ Up /\ sup = "mark"
  /\ status' = IF ok THEN MarkStarting(current) ELSE status
  /\ position' = IF ok THEN [position EXCEPT ![current] = 0] ELSE position
  /\ Attempt(ok)
  /\ IF ok THEN sup' = "spawn" /\ UNCHANGED current ELSE Tick
  /\ UNCHANGED <<slotVars, queueVars, jobVars, workVars, serverVars>>

SupSpawn ==
  /\ Up /\ sup = "spawn"
  /\ worker' = [worker EXCEPT ![current] = "running"]
  /\ sup' = "install"
  /\ UNCHANGED <<slotVars, storeVars, queueVars, current, jobVars, chan, strays,
                 history, serverVars, faults>>

SupSpawnFails ==
  /\ Up /\ sup = "spawn"
  /\ startingId' = None
  /\ cancelSet' = cancelSet \ {current}
  /\ sup' = "giveup"
  /\ UNCHANGED <<slotVars, storeVars, checked, pending, active, current,
                 jobVars, workVars, serverVars, faults>>

(* The slot is released before the row is written. *)
SupGiveUp(ok) ==
  /\ Up /\ sup = "giveup"
  /\ Release(current)
  /\ status' = IF ok THEN Finish(current, "failed") ELSE status
  /\ position' = IF ok THEN [position EXCEPT ![current] = 0] ELSE position
  /\ Attempt(ok)
  /\ Tick
  /\ UNCHANGED <<calls, queueVars, jobVars, workVars, serverVars>>

SupInstall ==
  /\ Up /\ sup = "install"
  /\ active' = current
  /\ startingId' = None
  /\ sup' = IF current \in cancelSet THEN "runCancelled" ELSE "run"
  /\ cancelSet' = cancelSet \ {current}
  /\ UNCHANGED <<slotVars, storeVars, checked, pending, current, jobVars,
                 workVars, serverVars, faults>>

(* mark_running; a cancel that came while starting is acted on after it. *)
SupMarkRunning(ok) ==
  /\ Up /\ sup \in {"run", "runCancelled"}
  /\ status' = IF ok THEN MarkRunning(current) ELSE status
  /\ Attempt(ok)
  /\ IF ok /\ sup = "runCancelled"
     THEN sup' = "cancelNow" /\ UNCHANGED current
     ELSE Tick
  /\ UNCHANGED <<slotVars, position, queueVars, jobVars, workVars, serverVars>>

SupCancelNow(ok) ==
  /\ Up /\ sup = "cancelNow"
  /\ BeginCancel(current, ok)
  /\ Tick
  /\ UNCHANGED <<slotVars, position, queueVars, terminal, ladder, deadSince,
                 workVars, serverVars>>
-----------------------------------------------------------------------------
(* The clock: time.monotonic passes a deadline, or the settle time.        *)

DeadlinePasses ==
  /\ Up /\ deadline = "armed"
  /\ deadline' = "passed"
  /\ UNCHANGED <<slotVars, storeVars, queueVars, supVars, terminal, ladder,
                 deadSince, workVars, serverVars, faults>>

SettlePasses ==
  /\ Up /\ deadSince = "armed"
  /\ deadSince' = "passed"
  /\ UNCHANGED <<slotVars, storeVars, queueVars, supVars, terminal, deadline,
                 ladder, workVars, serverVars, faults>>
-----------------------------------------------------------------------------
(* The worker process of r.                                                *)

managerVars == <<slotVars, storeVars, queueVars, supVars, jobVars, serverVars,
                 faults>>

(* The newest progress is dropped when the channel is full. *)
WorkerProgress(r) ==
  /\ worker[r] \in {"running", "recorded"} /\ r \notin strays
  /\ Len(chan) < Capacity
  /\ chan' = Append(chan, "progress")
  /\ UNCHANGED <<managerVars, worker, strays, history>>

(* record_run commits; nothing after it looks at the cancel flag. *)
WorkerRecord(r) ==
  /\ worker[r] = "running"
  /\ worker' = [worker EXCEPT ![r] = "recorded"]
  /\ history' = history \cup {r}
  /\ UNCHANGED <<managerVars, chan, strays>>

WorkerComplete(r) ==
  /\ worker[r] = "recorded"
  /\ worker' = [worker EXCEPT ![r] = "result"]
  /\ UNCHANGED <<managerVars, chan, strays, history>>

(* perform_run raises before it has recorded anything.  The flag counts as  *)
(* set, too, once the worker sees that its server is gone.                  *)
WorkerStopsEarly(r) ==
  /\ worker[r] = "running"
  /\ \E report \in Reports \ {"result"} :
       /\ report = "cancelled" => CancelFlag(r) \/ r \in strays
       /\ worker' = [worker EXCEPT ![r] = report]
  /\ UNCHANGED <<managerVars, chan, strays, history>>

(* _deliver: a full channel that stays full drops the message. *)
WorkerDeliver(r) ==
  /\ worker[r] \in Reports
  /\ worker' = [worker EXCEPT ![r] = "exiting"]
  /\ chan' = IF r \in strays \/ Len(chan) = Capacity
              THEN chan ELSE Append(chan, worker[r])
  /\ UNCHANGED <<managerVars, strays, history>>

(* The process exits, crashes, or dies of a signal sent to it. *)
WorkerDies(r) ==
  /\ Live(r)
  /\ worker' = [worker EXCEPT ![r] = "dead"]
  /\ strays' = strays \ {r}
  /\ UNCHANGED <<managerVars, chan, history>>
-----------------------------------------------------------------------------
(* The server process.                                                     *)

ShutdownBegins ==
  /\ server = "up"
  /\ server' = "stopping"
  /\ UNCHANGED <<slotVars, storeVars, queueVars, supVars, jobVars, workVars,
                 restarts, faults>>

(* After the join: the deque is dropped, an active job is stopped, its slot *)
(* released and its row orphaned.                                           *)
Shutdown(ok) ==
  /\ server = "stopping" /\ sup \in {"off", "exited"}
  /\ server' = "stopped"
  /\ pending' = <<>> /\ cancelSet' = {} /\ startingId' = None /\ active' = None
  /\ IF active = None
     THEN ok /\ UNCHANGED <<holder, storeVars, jobVars, worker, chan, faults>>
     ELSE /\ worker' = StopProcess(active)
          /\ Release(active)
          /\ terminal' = "none" /\ deadline' = "none"
          /\ ladder' = "none" /\ deadSince' = "none" /\ chan' = <<>>
          /\ status' = IF ok THEN Finish(active, "orphaned") ELSE status
          /\ position' = IF ok THEN [position EXCEPT ![active] = 0] ELSE position
          /\ Attempt(ok)
  /\ UNCHANGED <<calls, checked, supVars, strays, history, restarts>>

(* The server process exits or is killed: its memory is gone, rows and live *)
(* workers stay.                                                            *)
ServerDies ==
  /\ Up
  /\ server' = "down"
  /\ SlotLost
  /\ checked' = {} /\ pending' = <<>> /\ cancelSet' = {}
  /\ active' = None /\ startingId' = None
  /\ sup' = "off" /\ current' = None
  /\ terminal' = "none" /\ deadline' = "none"
  /\ ladder' = "none" /\ deadSince' = "none" /\ chan' = <<>>
  /\ strays' = {r \in Requests : Live(r)}
  /\ UNCHANGED <<storeVars, worker, history, restarts, faults>>

(* A new server makes a new manager, which first calls mark_orphaned. *)
Restart ==
  /\ server = "down" /\ restarts < MaxRestarts
  /\ server' = "up" /\ restarts' = restarts + 1
  /\ status' = [r \in Requests |->
                  IF status[r] \in ActiveStatuses THEN "orphaned" ELSE status[r]]
  /\ position' = [r \in Requests |->
                  IF status[r] \in ActiveStatuses THEN 0 ELSE position[r]]
  /\ UNCHANGED <<slotVars, queueVars, supVars, jobVars, workVars, faults>>

(* Short exclusive work in the server process. *)
OtherWorkStarts(c) == Up /\ EnterExclusive(c)
  /\ UNCHANGED <<storeVars, queueVars, supVars, jobVars, workVars, serverVars,
                 faults>>
OtherWorkEnds(c) == Up /\ LeaveExclusive(c)
  /\ UNCHANGED <<storeVars, queueVars, supVars, jobVars, workVars, serverVars,
                 faults>>
-----------------------------------------------------------------------------
SubmitStep(r) ==
  \/ SubmitCheck(r) \/ SubmitRefuse(r) \/ \E ok \in BOOLEAN : SubmitAccept(r, ok)

CancelStep(r) == \E ok \in BOOLEAN :
  CancelActive(r, ok) \/ CancelStarting(r, ok) \/ CancelQueued(r, ok)

ServiceStep ==
  \/ SupTick \/ SupDrained \/ SupChannelError \/ SupEscalate \/ SupReap
  \/ SupStop \/ SupRetire \/ SupFree
  \/ \E ok \in BOOLEAN : SupHandle(ok) \/ SupPersist(ok)

StartStep ==
  \/ SupNothingToStart \/ SupReserve \/ SupSpawn \/ SupSpawnFails \/ SupInstall
  \/ \E ok \in BOOLEAN :
       SupMark(ok) \/ SupGiveUp(ok) \/ SupMarkRunning(ok) \/ SupCancelNow(ok)

WorkerFinishes(r) ==
  \/ WorkerRecord(r) \/ WorkerComplete(r) \/ WorkerStopsEarly(r)
  \/ WorkerDeliver(r) \/ WorkerDies(r)

WorkerStep(r) == WorkerProgress(r) \/ WorkerFinishes(r)

ServerStep ==
  \/ ShutdownBegins \/ ServerDies \/ Restart
  \/ \E ok \in BOOLEAN : Shutdown(ok)

Next ==
  \/ \E r \in Requests :
       SubmitStep(r) \/ CancelStep(r) \/ DeleteAttempt(r) \/ WorkerStep(r)
  \/ \E c \in Callers : OtherWorkStarts(c) \/ OtherWorkEnds(c)
  \/ ServiceStep \/ StartStep
  \/ DeadlinePasses \/ SettlePasses
  \/ ServerStep

Spec == Init /\ [][Next]_vars

(***************************************************************************)
(* Fairness.  The supervisor loops for ever and the clock runs on, a       *)
(* SIGKILL takes effect, and shutdown comes to its end.  The channel is    *)
(* seen empty again and again: a run reports finitely many progress        *)
(* events.  Nothing is assumed of a worker, which may hang.                *)
(***************************************************************************)
SupStep == ServiceStep \/ StartStep
Killed == active # None /\ ladder = "killed" /\ WorkerDies(active)

Fairness ==
  /\ WF_vars(SupStep) /\ SF_vars(SupDrained)
  /\ WF_vars(DeadlinePasses) /\ WF_vars(SettlePasses) /\ WF_vars(Killed)
  /\ \A ok \in BOOLEAN : WF_vars(Shutdown(ok))

FairSpec == Spec /\ Fairness

(* Beyond that: every run and every other exclusive job comes to its end. *)
WorkEnds ==
  /\ \A r \in Requests : WF_vars(WorkerFinishes(r))
  /\ \A c \in Callers : WF_vars(OtherWorkEnds(c))
-----------------------------------------------------------------------------
(* Properties.                                                             *)

Ended == TerminalStatuses \cup {"deleted"}
Owned(r) == Live(r) /\ r \notin strays

(* At most one heavy piece of work at a time: a worker process of this      *)
(* server, or the body of one run_exclusive call.  The slot, the deque and  *)
(* the process handle are three pieces of state under three locks.          *)
OneHeavyWorker ==
  LET Busy == {r \in Requests : Owned(r)} \cup Inside
  IN  \A x, y \in Busy : x = y

(* The worker of a request is alive only while the slot is held for it: the *)
(* process is joined before its slot is released, on every path.            *)
SlotCoversWorker == \A r \in Requests : Owned(r) => holder = r

(* How the slot, the two fields of the manager and the place of the         *)
(* supervisor go together: whoever is being started or is active holds the  *)
(* slot, a job that has left _active keeps it until the supervisor's last   *)
(* step, every owned worker is known to the manager, and the bodies of      *)
(* run_exclusive hold the slot under their own names.                       *)
SlotDiscipline ==
  /\ startingId # None => active = None /\ holder = startingId
  /\ active # None => holder = active
  /\ sup \in JobPoints => active # None /\ current = active
  /\ sup \in StartPoints => startingId # None /\ current = startingId
  /\ sup \in {"free", "giveup"} =>
       active = None /\ startingId = None /\ current # None /\ holder = current
  /\ \A r \in Requests :
       Owned(r) => r = active \/ (r = startingId /\ sup = "install")
  /\ sup \in {"persist", "retire"} => ~Live(active)
  /\ \A c \in Inside : holder = HolderOf[c]
  /\ ~Up => active = None /\ startingId = None /\ sup = "off"

(* How the rows go together with the memory of the manager: what waits in   *)
(* the deque is queued and is there once, what is being started or is       *)
(* active is shown as such up to the terminal write, and that write is made *)
(* once, with an outcome.                                                   *)
StartedStatuses == {"starting", "running", "cancelling"}

RowDiscipline ==
  /\ \A i \in 1..Len(pending) :
       /\ status[pending[i]] = "queued"
       /\ pending[i] \notin {startingId, active}
       /\ \A j \in 1..Len(pending) : pending[i] = pending[j] => i = j
  /\ startingId # None => status[startingId] \in {"queued", "starting", "cancelling"}
  /\ sup \in {"spawn", "install", "giveup"} =>
       status[current] \in {"starting", "cancelling"}
  /\ active # None => status[active] \in StartedStatuses \cup
                         (IF sup = "retire" THEN Ended ELSE {})
  /\ sup \in {"stop", "persist"} => terminal # "none"
  /\ ~Up => pending = <<>>

(* What the store shows of a request is true of it: one that is shown as    *)
(* ended or deleted is in no queue, is not being started and has no worker, *)
(* and a worker runs only for a request shown as started.                   *)
EndedIsOver ==
  \A r \in Requests :
    /\ status[r] \in Ended =>
         /\ r \notin ToSet(pending) \cup {startingId}
         /\ r = active => sup = "retire"
    /\ Owned(r) => status[r] \in StartedStatuses

(* A request is shown as succeeded only if its run is in the history, and   *)
(* as blocked only if no run was recorded for it.                           *)
OutcomeMatchesHistory ==
  \A r \in Requests :
    /\ status[r] = "succeeded" => r \in history
    /\ status[r] = "blocked" => r \notin history

(* A terminal status is never rewritten: not by a cancel that arrives after *)
(* the terminal write, not by a late progress message, not by a shutdown or *)
(* by mark_orphaned.  A row that is linked to a run is never deleted.       *)
TerminalIsFinal ==
  [][\A r \in Requests : status[r] \in Ended =>
       \/ status'[r] = status[r]
       \/ status'[r] = "deleted" /\ status[r] # "succeeded"]_vars

(* A result that reached the channel is not lost to the death of its worker *)
(* right after: by the time the job is given up the channel has been read.  *)
LateResultHonoured ==
  sup \in {"stop", "persist"} /\ terminal \in {"failed", "cancelled"}
    => "result" \notin ToSet(chan)

(* pending() of the store lists what the manager serves, in its order: by   *)
(* queue_position, and among equals by submission.                          *)
ServiceOrder ==
  (IF startingId # None THEN <<startingId>>
   ELSE IF active # None /\ status[active] \in ActiveStatuses THEN <<active>>
   ELSE <<>>) \o pending

StoreOrder ==
  \A i, j \in DOMAIN ServiceOrder :
    LET q == ServiceOrder[i]  r == ServiceOrder[j]
    IN  i < j => \/ position[q] < position[r]
                 \/ position[q] = position[r] /\ q < r

(* A request with a password is never behind another one in the queue.      *)
CredentialedNeverBehind ==
  \A i \in DOMAIN pending :
    pending[i] \in Credentialed => i = 1 /\ ~SlotTaken

(* The run queue implements the one-at-a-time FIFO service: a request       *)
(* leaves the line when its worker is spawned.                              *)
Fifo == INSTANCE FifoService WITH
  line <- IF startingId # None /\ worker[startingId] = "none"
          THEN <<startingId>> \o pending ELSE pending,
  serving <- IF startingId # None /\ Live(startingId) THEN startingId
             ELSE IF active # None /\ Live(active) THEN active ELSE None,
  seen <- {r \in Requests : status[r] # "none"}

FifoRefined == Fifo!FifoSpec

(* A cancellation that was asked for comes to an end even when the worker   *)
(* hangs and ignores every signal it can ignore.                            *)
CancelEnds ==
  \A r \in Requests :
    status[r] = "cancelling" ~> status[r] \in Ended \/ ~Up

(* A queued request does not wait for ever while the server lives, if what  *)
(* was started before it comes to its end.                                  *)
QueuedIsServed ==
  WorkEnds => \A r \in Requests :
    status[r] = "queued" ~> status[r] # "queued" \/ server # "up"
=============================================================================
