-------------------------- MODULE SetupCoordinator --------------------------
(***************************************************************************)
(* The setup scans of one session and input generation                     *)
(* (setup/coordinator.py), with the worker that runs them                  *)
(* (setup/preview_worker.py), the sidecar it fills (setup/preview_store.py)*)
(* and the pages that start, cancel, retry and discard them                *)
(* (ui/config_workspace.py).                                               *)
(*                                                                         *)
(* Page handlers run one at a time on the event loop; each start makes a   *)
(* scan thread of its own.  A step is what happens between two points      *)
(* where a scan thread and a handler can see each other: inside job._lock, *)
(* inside _lock, the two halves of _persist, the slot, the worker.         *)
(***************************************************************************)
EXTENDS Naturals, FiniteSets

CONSTANTS
  Pages,       \* pages that may show the workspace of this session
  MemberCount, \* workbook pairs of the session, scanned in this order
  Protected,   \* members whose workbooks need a password
  Others,      \* other calls of run_exclusive on the same data directory
  NameOf,      \* the holder name each of them passes
  None,
  MaxThreads,  \* bound: scan threads ever started
  MaxJobs,     \* bound: job objects ever made
  MaxCrashes   \* bound: ends of the server process

Members == 1..MemberCount

ASSUME MembersNumbered == MemberCount \in Nat \ {0} /\ Protected \subseteq Members
ASSUME BoundsAreNumbers == {MaxThreads, MaxJobs, MaxCrashes} \subseteq Nat
ASSUME OthersHaveNames ==
  DOMAIN NameOf = Others /\ \A c \in Others : NameOf[c] \notin Members \cup {None}
ASSUME NoneIsNoMember == None \notin Members

VARIABLES
  job,       \* the job objects made so far
  current,   \* the one SetupCoordinator._jobs has for this key, 0 if none
  row,       \* the setup_jobs row
  thread,    \* the scan threads, and the two events made with each
  page,      \* the job handle each open page keeps, 0 for a closed page
  handler,   \* what the page handler that is running does next
  writer,    \* who holds _persist_lock and found its job to be current
  sidecar,   \* members whose rows in setup-inspection.sqlite3 are all there
  cleaners,  \* threads whose end a cleanup thread of discard waits for
  holder, calls,  \* the exclusive slot
  overlap,   \* what has overlapped so far; see Overlap below
  crashes

vars == <<job, current, row, thread, page, handler, writer, sidecar, cleaners,
          holder, calls, overlap, crashes>>

Slot == INSTANCE ExclusiveSlot
  WITH Callers <- Others, Requests <- Members, HolderOf <- NameOf

Threads == 1..MaxThreads
Jobs == 1..MaxJobs
(* inventory_ready is treated like scanning by every reader and is left out. *)
Active == {"waiting_for_slot", "scanning", "partial_ready", "cancelling"}
Terminal == {"complete", "cancelled", "failed"}
Status == Active \cup Terminal \cup {"awaiting_inputs", "awaiting_credentials", "stale"}

NoJob == [status |-> "unmade", finished |-> FALSE, started |-> FALSE, thread |-> 0,
          passwords |-> {}, requires |-> FALSE, done |-> {}, payloads |-> FALSE,
          subscribers |-> {}]
NoThread == [pc |-> "unused", then |-> "ended", job |-> 0, member |-> 1, password |-> FALSE,
             outcome |-> "reading", events |-> 0, revoked |-> FALSE, cancelled |-> FALSE]
Idle == [step |-> "idle", job |-> 0, given |-> {}]

Made == {j \in Jobs : job[j] # NoJob}
Fresh == Jobs \ Made
NewJob == CHOOSE j \in Fresh : TRUE

(* job._thread.is_alive() *)
Alive(t) == t # 0 /\ thread[t].pc \notin {"unused", "ended"}
Started == {t \in Threads : thread[t].pc # "unused"}
NewThread == CHOOSE t \in Threads \ Started : TRUE

(* The events of a job are those of its last start.  Before the first start *)
(* nobody reads them.                                                       *)
Cancelled(j) == job[j].thread # 0 /\ thread[job[j].thread].cancelled
Revoked(j) == job[j].thread # 0 /\ thread[job[j].thread].revoked

(* cancel_event.set() and _lease_revoked.set() of job j. *)
Signal(j, revoke, cancel) ==
  IF job[j].thread = 0 THEN thread
  ELSE [thread EXCEPT ![job[j].thread].revoked = @ \/ revoke,
                      ![job[j].thread].cancelled = @ \/ cancel]

TypeOK ==
  /\ job \in [Jobs -> [status : Status \cup {"unmade"}, finished : BOOLEAN, started : BOOLEAN,
       thread : Threads \cup {0}, passwords : SUBSET Members, requires : BOOLEAN,
       done : SUBSET Members, payloads : BOOLEAN, subscribers : SUBSET Pages]]
  /\ current \in Made \cup {0}
  /\ row = None \/ row \in [status : Status, requires : BOOLEAN]
  /\ \A t \in Threads : Alive(t) => thread[t].job \in Made /\ thread[t].member \in Members
  /\ page \in [Pages -> Made \cup {0}]
  /\ handler.job \in Made \cup {0}
  /\ writer \subseteq Threads /\ Cardinality(writer) <= 1
  /\ sidecar \subseteq Members
  /\ cleaners \subseteq Started
  /\ Slot!SlotTypeOK

Init ==
  /\ job = [j \in Jobs |-> NoJob] /\ current = 0 /\ row = None
  /\ thread = [t \in Threads |-> NoThread]
  /\ page = [p \in Pages |-> 0] /\ handler = Idle /\ writer = {}
  /\ sidecar = {} /\ cleaners = {}
  /\ Slot!SlotInit
  /\ overlap = {} /\ crashes = 0

-----------------------------------------------------------------------------
(* Page handlers. *)

Free == handler = Idle

(* get_or_create without a job in memory: the row of an earlier process, or *)
(* of an evicted job, decides what the new job starts from.                 *)
Restored ==
  LET status == IF row = None THEN "awaiting_inputs"
                ELSE IF row.status \in Terminal THEN row.status
                ELSE IF row.status = "awaiting_credentials" \/ row.requires
                     THEN "awaiting_credentials" ELSE "stale"
  IN [NoJob EXCEPT !.status = status, !.finished = status \in Terminal]

(* Which jobs a page that opens starts: j is a job object. *)
StartsByItself(j, given) ==
  \/ j.status \in {"awaiting_inputs", "stale", "complete"}
  \/ j.status = "awaiting_credentials" /\ given # {}

(* start leaves a running job alone, and a complete one that is still whole. *)
NothingToStart(j) ==
  \/ j.started /\ Alive(j.thread)
  \/ j.status = "complete" /\ sidecar = Members

(* start: new events, the passwords of this call, and a thread.  made is the *)
(* object of job j.                                                          *)
StartJob(j, made, given) ==
  IF NothingToStart(made)
  THEN job' = [job EXCEPT ![j] = made] /\ handler' = Idle /\ UNCHANGED <<thread, overlap>>
  ELSE /\ Threads # Started
       /\ LET t == NewThread
          IN /\ job' = [job EXCEPT ![j] = [made EXCEPT !.thread = t, !.passwords = given,
                   !.requires = given # {}, !.done = {}, !.payloads = TRUE,
                   !.status = "waiting_for_slot", !.started = TRUE, !.finished = FALSE]]
             /\ thread' = [thread EXCEPT ![t] = [NoThread EXCEPT !.pc = "next", !.job = j]]
             /\ overlap' = IF \E u \in Threads : Alive(u) THEN overlap \cup {"threads"} ELSE overlap
       /\ handler' = [step |-> "persist", job |-> j, given |-> {}]

(* The page opens: attach and, for some statuses, start, with the passwords  *)
(* the vault still has.                                                      *)
Attach(p) ==
  /\ Free /\ page[p] = 0
  /\ current # 0 \/ Fresh # {}
  /\ \E given \in {{}, Protected} :
       LET j == IF current # 0 THEN current ELSE NewJob
           made == [IF current # 0 THEN job[j] ELSE Restored EXCEPT !.subscribers = @ \cup {p}]
       IN /\ current' = j
          /\ page' = [page EXCEPT ![p] = j]
          /\ IF StartsByItself(made, given) THEN StartJob(j, made, given)
             ELSE job' = [job EXCEPT ![j] = made] /\ UNCHANGED <<handler, thread, overlap>>

(* "Retry analysis", "Resume analysis": what the page shows is the status of *)
(* the handle it keeps, which another page may have replaced.                *)
OffersRetry(j) ==
  \/ job[j].status \in {"cancelled", "failed", "awaiting_credentials"}
  \/ job[j].finished /\ job[j].status # "complete"

(* restart replaces the current job by a new one; start follows. *)
Restart(p) ==
  /\ Free /\ page[p] # 0 /\ OffersRetry(page[p]) /\ Fresh # {}
  /\ LET j == NewJob
     IN /\ job' = [job EXCEPT ![j] = [NoJob EXCEPT !.status = "awaiting_inputs",
              !.subscribers = IF current = 0 THEN {} ELSE job[current].subscribers]]
        /\ thread' = IF current = 0 THEN thread ELSE Signal(current, TRUE, TRUE)
        /\ current' = j
        /\ page' = [page EXCEPT ![p] = j]
        /\ \E given \in {{}, Protected} :
             handler' = [step |-> "retry", job |-> j, given |-> given]

OffersCancel(j) == job[j].status \in Active /\ ~job[j].finished

(* cancel, of the job of the key; the page, or the server that shuts down. *)
CancelJob ==
  LET j == current
  IN /\ j # 0 /\ ~job[j].finished
     /\ thread' = Signal(j, TRUE, TRUE)
     /\ job' = [job EXCEPT ![j] =
          IF Alive(job[j].thread)
          THEN [@ EXCEPT !.passwords = {}, !.status = "cancelling"]
          ELSE [@ EXCEPT !.passwords = {}, !.status = "cancelled", !.finished = TRUE]]
     /\ handler' = [step |-> "persist", job |-> j, given |-> {}]

Cancel(p) ==
  /\ Free /\ page[p] # 0 /\ OffersCancel(page[p])
  /\ CancelJob

Demotes(j, p) ==
  /\ job[j].subscribers \subseteq {p}
  /\ job[j].status = "waiting_for_slot" /\ job[j].passwords # {}

(* Mutant: the passwords stay with the job. *)
DemotedKeeping(j) == [j EXCEPT !.subscribers = {}, !.status = "awaiting_credentials", !.started = FALSE]

Demoted(j) == [j EXCEPT !.subscribers = {}, !.passwords = {},
                        !.status = "awaiting_credentials", !.started = FALSE]

(* The page closes.  The last one takes the passwords of a scan that waits. *)
Detach(p) ==
  /\ Free /\ page[p] # 0
  /\ page' = [page EXCEPT ![p] = 0]
  /\ IF current = 0 THEN UNCHANGED <<job, thread, handler>>
     ELSE IF Demotes(current, p)
     THEN /\ job' = [job EXCEPT ![current] = Demoted(@)]
          /\ thread' = Signal(current, TRUE, FALSE)
          /\ handler' = [step |-> "persist", job |-> current, given |-> {}]
     ELSE /\ job' = [job EXCEPT ![current].subscribers = @ \ {p}]
          /\ UNCHANGED <<thread, handler>>

(* discard: forget the job, then delete its row and reclaim the sidecar. *)
Discard ==
  /\ Free /\ (current # 0 \/ row # None)
  /\ thread' = IF current = 0 THEN thread ELSE Signal(current, TRUE, TRUE)
  /\ job' = IF current = 0 THEN job ELSE [job EXCEPT ![current].passwords = {}]
  /\ current' = 0
  /\ handler' = [step |-> "delete", job |-> current, given |-> {}]

DeleteRows ==
  /\ handler.step = "delete"
  /\ row' = None
  /\ LET t == IF handler.job = 0 THEN 0 ELSE job[handler.job].thread
     IN IF Alive(t)
        THEN cleaners' = cleaners \cup {t} /\ sidecar' \in {{}, sidecar}
        ELSE sidecar' = {} /\ UNCHANGED cleaners
  /\ handler' = Idle

(* The cleanup thread: it removes what the generation has by then, which may *)
(* be the work of a later scan.                                              *)
Reclaim(t) ==
  /\ t \in cleaners /\ ~Alive(t)
  /\ sidecar' = {}
  /\ cleaners' = cleaners \ {t}
  /\ overlap' = IF current # 0 THEN overlap \cup {"reclaim"} ELSE overlap

(* evict_terminal, run from every page's poll; the 60 seconds are over. *)
EvictTerminal ==
  /\ Free /\ current # 0
  /\ job[current].finished /\ job[current].subscribers = {}
  /\ current' = 0

-----------------------------------------------------------------------------
(* _persist: one writer at a time; the job is compared with the current one  *)
(* first, and its snapshot taken then, both under _persist_lock.             *)

Snapshot(j) == [status |-> job[j].status, requires |-> job[j].requires]

(* Only handlers change _jobs, so that both halves are one step here. *)
PersistHandler ==
  /\ handler.step \in {"persist", "retry"} /\ writer = {}
  /\ row' = IF handler.job = current THEN Snapshot(current) ELSE row
  /\ handler' = IF handler.step = "retry" THEN [handler EXCEPT !.step = "start"] ELSE Idle

(* The start that follows a restart. *)
StartRetry ==
  /\ handler.step = "start"
  /\ StartJob(handler.job, job[handler.job], handler.given)

(* A thread that ends keeps its events only. *)
Go(t, pc) ==
  thread' = [thread EXCEPT ![t] = IF pc # "ended" THEN [@ EXCEPT !.pc = pc, !.then = "ended"]
    ELSE [NoThread EXCEPT !.pc = pc, !.revoked = thread[t].revoked, !.cancelled = thread[t].cancelled]]

(* Mutant: the row is written without asking whether the job is current. *)
PersistBlind(t) ==
  /\ thread[t].pc = "persist" /\ writer = {}
  /\ row' = Snapshot(thread[t].job) /\ writer' = {}
  /\ Go(t, thread[t].then)

PersistThread(t) ==
  /\ thread[t].pc = "persist"
  /\ \/ /\ writer = {} /\ thread[t].job = current
        /\ writer' = {t} /\ UNCHANGED <<row, thread>>
     \/ /\ writer = {} /\ thread[t].job # current
        /\ Go(t, thread[t].then) /\ UNCHANGED <<row, writer>>
     \/ /\ writer = {t}
        /\ row' = Snapshot(thread[t].job) /\ writer' = {}
        /\ Go(t, thread[t].then)

-----------------------------------------------------------------------------
(* The scan thread, _run_job.  The checks of _is_current and cancel_event    *)
(* are made outside job._lock, so they are steps of their own.               *)

Stopped(j) == current # j \/ Cancelled(j)

GoPersist(t, then) == thread' = [thread EXCEPT ![t].pc = "persist", ![t].then = then]

LoopHead(t) ==
  /\ thread[t].pc = "next"
  /\ Go(t, IF Stopped(thread[t].job) THEN "final" ELSE "wait")

(* A revoked lease ends the thread at once, without a final status. *)
WaitForSlot(t) ==
  /\ thread[t].pc = "wait"
  /\ LET j == thread[t].job
     IN IF Revoked(j) THEN Go(t, "ended") /\ UNCHANGED job
        ELSE /\ job' = [job EXCEPT ![j].status = "waiting_for_slot"]
             /\ thread' = [thread EXCEPT ![t] = [@ EXCEPT !.pc = "persist", !.then = "slot",
                             !.password = thread[t].member \in job[j].passwords]]

(* run_exclusive under the name of session and member, and the head of       *)
(* run_member, which looks at both events.                                   *)
Dispatch(t) ==
  LET j == thread[t].job
  IN IF Revoked(j) \/ Cancelled(j)
     THEN /\ thread' = [thread EXCEPT ![t] = [@ EXCEPT !.pc = "leave", !.outcome = "failed",
                                                        !.password = FALSE]]
          /\ UNCHANGED job
     ELSE /\ job' = [job EXCEPT ![j].status = "scanning", ![j].passwords = @ \ {thread[t].member}]
          /\ GoPersist(t, "spawn")

(* Mutant: the slot is taken whoever holds it. *)
EnterSlotAlways(t) ==
  thread[t].pc = "slot" /\ Slot!TakeAlways(thread[t].member) /\ Dispatch(t)

EnterSlot(t) ==
  thread[t].pc = "slot" /\ Slot!TryAcquire(thread[t].member) /\ Dispatch(t)

(* QueueBusyError: wait on the event the job has at this moment. *)
SlotBusy(t) ==
  /\ thread[t].pc = "slot" /\ ~Slot!CanAcquire(thread[t].member)
  /\ thread' = [thread EXCEPT ![t].pc = "busy", ![t].events = job[thread[t].job].thread]

BusyWait(t) ==
  /\ thread[t].pc = "busy"
  /\ IF thread[thread[t].events].revoked THEN Go(t, "ended")
     ELSE thread' = [thread EXCEPT ![t].pc = "next", ![t].events = 0]

(* The worker process: it deletes the rows of the member first.  The parent  *)
(* listens to the cancel event the job has now.                              *)
Spawn(t) ==
  /\ thread[t].pc = "spawn"
  /\ sidecar' = sidecar \ {thread[t].member}
  /\ thread' = [thread EXCEPT ![t].pc = "scan", ![t].outcome = "reading",
                              ![t].events = job[thread[t].job].thread]

(* The sheets are read and reported; _update_progress looks at the job       *)
(* before it takes the lock.                                                 *)
ScanSheets(t) ==
  /\ thread[t].pc = "scan" /\ thread[t].outcome = "reading"
  /\ thread' = [thread EXCEPT ![t].outcome = "sheets",
                  ![t].pc = IF Stopped(thread[t].job) THEN "scan" ELSE "progress"]
  /\ UNCHANGED sidecar

UpdateProgress(t) ==
  /\ thread[t].pc = "progress"
  /\ job' = [job EXCEPT ![thread[t].job].status = "partial_ready"]
  /\ GoPersist(t, "scan")

SaveResult(t) ==
  /\ thread[t].pc = "scan" /\ thread[t].outcome = "sheets"
  /\ (thread[t].member \notin Protected \/ thread[t].password)
  /\ sidecar' = sidecar \cup {thread[t].member}
  /\ thread' = [thread EXCEPT ![t].outcome = "done"]

(* The worker's answer, its failure or silence, or the cancel event; the     *)
(* child is gone when run_setup_scan_worker returns.                         *)
ScanReturns(t) ==
  /\ thread[t].pc = "scan"
  /\ \E outcome \in {"done", "missing", "failed"} :
       /\ outcome = "done" => thread[t].outcome = "done"
       /\ outcome = "missing" => thread[t].member \in Protected /\ thread[t].outcome # "done"
       /\ thread' = [thread EXCEPT ![t] = [@ EXCEPT !.pc = "leave", !.outcome = outcome,
                                          !.events = 0, !.password = FALSE]]
  /\ UNCHANGED sidecar

(* Mutant: the slot is not given back. *)
LeaveSlotKept(t) ==
  /\ thread[t].pc = "leave"
  /\ Slot!KeepSlot(thread[t].member)
  /\ Go(t, IF Stopped(thread[t].job) THEN "final" ELSE "apply")

(* The finally clause of run_exclusive; then the thread looks whether the    *)
(* outcome still counts.                                                     *)
LeaveSlot(t) ==
  /\ thread[t].pc = "leave"
  /\ Slot!Release(thread[t].member)
  /\ Go(t, IF Stopped(thread[t].job) THEN "final" ELSE "apply")

(* Where the thread goes after this member. *)
NextMember(t) == IF thread[t].member + 1 \in Members THEN "next" ELSE "final"

(* Mutant: a scan without a result counts as done. *)
CountsAlways(outcome) == outcome # "missing"
Counts(outcome) == outcome = "done"

Apply(t) ==
  /\ thread[t].pc = "apply"
  /\ LET j == thread[t].job
         m == thread[t].member
     IN IF thread[t].outcome = "missing"
        THEN /\ job' = [job EXCEPT ![j] = [@ EXCEPT !.requires = TRUE, !.passwords = {},
                        !.status = "awaiting_credentials", !.started = FALSE]]
             /\ GoPersist(t, "ended")
        ELSE /\ job' = IF Counts(thread[t].outcome)
                       THEN [job EXCEPT ![j].done = @ \cup {m}, ![j].payloads = TRUE] ELSE job
             /\ thread' = [thread EXCEPT ![t] = [@ EXCEPT !.pc = "persist", !.then = NextMember(t), !.outcome = "reading",
                             !.member = IF m + 1 \in Members THEN m + 1 ELSE m]]

(* Mutant: the cancel event is not looked at once more. *)
FinalStatusLate(j) ==
  IF job[j].done = Members THEN "complete"
  ELSE IF job[j].payloads THEN "partial_ready" ELSE "failed"

(* The status a job ends in.  The payloads are filled in by start, so        *)
(* "failed" is left only to a job whose payloads were cleared.               *)
FinalStatus(j) ==
  IF Cancelled(j) THEN "cancelled"
  ELSE IF job[j].done = Members THEN "complete"
  ELSE IF job[j].payloads THEN "partial_ready" ELSE "failed"

(* Mutant: a cancelled job is left as it is. *)
SettleUncancelled(t) ==
  /\ thread[t].pc = "final"
  /\ LET j == thread[t].job
     IN IF Stopped(j) THEN Go(t, "ended") /\ UNCHANGED job
        ELSE /\ job' = [job EXCEPT ![j] = [@ EXCEPT !.status = FinalStatus(j), !.started = FALSE]]
             /\ GoPersist(t, "finish")

Settle(t) ==
  /\ thread[t].pc = "final"
  /\ LET j == thread[t].job
     IN IF current # j THEN Go(t, "ended") /\ UNCHANGED job
        ELSE /\ job' = [job EXCEPT ![j].status = FinalStatus(j),
                        ![j].payloads = IF Cancelled(j) THEN FALSE ELSE @, ![j].started = FALSE]
             /\ GoPersist(t, "finish")

Finish(t) ==
  /\ thread[t].pc = "finish"
  /\ job' = [job EXCEPT ![thread[t].job].finished = TRUE]
  /\ Go(t, "ended")

(* What each kind of step of a scan thread leaves alone. *)
Control(t) == (LoopHead(t) \/ SlotBusy(t) \/ BusyWait(t))
  /\ UNCHANGED <<job, row, writer, sidecar, holder>>
Locked(t) == (WaitForSlot(t) \/ UpdateProgress(t) \/ Apply(t) \/ Settle(t) \/ Finish(t))
  /\ UNCHANGED <<row, writer, sidecar, holder>>
Worker(t) == (Spawn(t) \/ ScanSheets(t) \/ SaveResult(t) \/ ScanReturns(t))
  /\ UNCHANGED <<job, row, writer, holder>>
Exclusive(t) == (EnterSlot(t) \/ (LeaveSlot(t) /\ UNCHANGED job)) /\ UNCHANGED <<row, writer, sidecar>>

ThreadStep(t) ==
  /\ \/ Control(t) \/ Locked(t) \/ Worker(t) \/ Exclusive(t)
     \/ PersistThread(t) /\ UNCHANGED <<job, sidecar, holder>>
  /\ UNCHANGED <<current, page, handler, cleaners, calls, overlap, crashes>>

HandlerStep ==
  /\ \/ StartRetry /\ UNCHANGED <<row, sidecar, cleaners>>
     \/ PersistHandler /\ UNCHANGED <<job, thread, sidecar, cleaners, overlap>>
     \/ DeleteRows /\ UNCHANGED <<job, thread, overlap>>
  /\ UNCHANGED <<current, page, writer, holder, calls, crashes>>

(* The user's clicks, and the timer of an open page. *)
PageStep ==
  /\ \/ \E p \in Pages : Attach(p)
     \/ \E p \in Pages : Restart(p) /\ UNCHANGED overlap
     \/ \E p \in Pages : Cancel(p) /\ UNCHANGED <<current, page, overlap>>
     \/ \E p \in Pages : Detach(p) /\ UNCHANGED <<current, overlap>>
     \/ Discard /\ UNCHANGED <<page, overlap>>
     \/ EvictTerminal /\ UNCHANGED <<job, thread, page, handler, overlap>>
  /\ UNCHANGED <<row, writer, sidecar, cleaners, holder, calls, crashes>>

CleanupStep(t) ==
  Reclaim(t) /\ UNCHANGED <<job, current, row, thread, page, handler, writer, holder, calls, crashes>>

OtherLeaves(c) ==
  Slot!LeaveExclusive(c)
  /\ UNCHANGED <<job, current, row, thread, page, handler, writer, sidecar, cleaners, overlap, crashes>>
OtherEnters(c) ==
  Slot!EnterExclusive(c)
  /\ UNCHANGED <<job, current, row, thread, page, handler, writer, sidecar, cleaners, overlap, crashes>>

(* The server process ends: the row and the sidecar stay. *)
Crash ==
  /\ crashes < MaxCrashes
  /\ crashes' = crashes + 1
  /\ current' = 0 /\ handler' = Idle /\ writer' = {} /\ cleaners' = {}
  /\ page' = [p \in Pages |-> 0]
  /\ thread' = [t \in Threads |-> IF t \in Started THEN [NoThread EXCEPT !.pc = "ended"] ELSE NoThread]
  /\ job' = [j \in Jobs |-> IF j \in Made THEN [NoJob EXCEPT !.status = "stale"] ELSE NoJob]
  /\ Slot!SlotLost
  /\ UNCHANGED <<row, sidecar, overlap>>

Next ==
  \/ PageStep \/ HandlerStep \/ Crash
  \/ \E t \in Threads : ThreadStep(t) \/ CleanupStep(t)
  \/ \E c \in Others : OtherEnters(c) \/ OtherLeaves(c)

Spec == Init /\ [][Next]_vars

(* The scan threads and the running handler are scheduled, a worker answers  *)
(* or is given up, and other heavy work ends.  Nobody must click.            *)
FairSpec ==
  /\ Spec
  /\ WF_vars(HandlerStep)
  /\ \A t \in Threads : WF_vars(ThreadStep(t)) /\ WF_vars(CleanupStep(t))
  /\ \A c \in Others : WF_vars(OtherLeaves(c))

-----------------------------------------------------------------------------
(* The job objects somebody still refers to. *)
Held == {j \in Made : j \in {current, handler.job} \/ (\E p \in Pages : page[p] = j)
                      \/ \E t \in Threads : Alive(t) /\ thread[t].job = j}

Settled == handler = Idle /\ writer = {} /\ \A t \in Threads : thread[t].pc # "persist"

(* What reconnecting pages and the next server read is what the job says,    *)
(* whenever no _persist is under way: neither a delayed snapshot of this job *)
(* nor one of a replaced job may stay in the row (_persist).                 *)
RowIsCurrent ==
  Settled /\ current # 0 /\ job[current].thread # 0 => row = Snapshot(current)

(* A cancelled scan never ends complete, however late the worker's result is *)
(* (cancel, _run_job).                                                       *)
CancelWins ==
  current # 0 /\ Cancelled(current) => job[current].status # "complete"

(* A job that waits for passwords, or is being cancelled, keeps none of      *)
(* those it was given (detach, cancel, _run_job).                            *)
PasswordsGone ==
  \A j \in Held : job[j].status \in {"awaiting_credentials", "cancelling", "cancelled"}
    => job[j].passwords = {}

InBody == {t \in Threads : Alive(t) /\ (thread[t].pc \in {"spawn", "scan", "progress", "leave"}
            \/ (thread[t].pc = "persist" /\ thread[t].then \in {"spawn", "scan"}))}

(* Setup scans and the other heavy work exclude each other, for as long as   *)
(* no second scan thread of the generation is started beside a live one      *)
(* (run_exclusive, start).                                                   *)
ScansAlone == overlap = {} => Cardinality(InBody) + Cardinality(Slot!Inside) <= 1

(* A complete job has all its rows in the sidecar, for the previews and for  *)
(* a later start, unless an old thread or an old cleanup worked on the       *)
(* generation beside it (start, discard, delete_generation).                 *)
CompleteIsWhole ==
  overlap = {} /\ current # 0 /\ job[current].status = "complete"
    => sidecar = Members

(* A scan thread ends: it neither waits for the slot forever nor for its     *)
(* worker (_run_job, run_setup_scan_worker).                                 *)
ThreadsEnd == \A t \in Threads : Alive(t) ~> ~Alive(t)

(* A cancel that finds the worker running settles the job, however late the  *)
(* worker notices (cancel, run_setup_scan_worker, _run_job).                 *)
CancelledScanSettles ==
  \A t \in Threads : (t \in InBody /\ current = thread[t].job /\ Cancelled(current))
    ~> (current = 0 \/ job[current].status # "cancelling")

(* A scan comes to its end, by itself or by a cancel.                        *)
ScansEnd == ThreadsEnd /\ CancelledScanSettles

(* Once cancelled, a job is settled: the pages that wait for it leave the    *)
(* spinner, and it can be retried (cancel, _run_job).                        *)
CancelSettles ==
  \A j \in Jobs : (current = j /\ job[j].status = "cancelling")
                  ~> (current # j \/ job[j].status # "cancelling")
=============================================================================
