----------------------------- MODULE SetupProofs -----------------------------
(***************************************************************************)
(* What holds of the setup scans for any number of pages, workbook pairs,  *)
(* scan threads, restarts and ends of the server.                          *)
(***************************************************************************)
EXTENDS SetupCoordinator, FiniteSetTheorems, TLAPS

-----------------------------------------------------------------------------
(* Types. *)

Pcs == {"unused", "next", "wait", "persist", "slot", "busy", "spawn", "scan", "progress",
        "leave", "apply", "final", "finish", "ended"}
Thens == {"ended", "slot", "spawn", "scan", "next", "final", "finish"}

JobRecords ==
  [status : Status \cup {"unmade"}, finished : BOOLEAN, started : BOOLEAN,
   thread : Threads \cup {0}, passwords : SUBSET Members, requires : BOOLEAN,
   done : SUBSET Members, payloads : BOOLEAN, subscribers : SUBSET Pages]
ThreadRecords ==
  [pc : Pcs, then : Thens, job : Jobs \cup {0}, member : Members, password : BOOLEAN,
   outcome : {"reading", "sheets", "done", "missing", "failed"},
   events : Threads \cup {0}, revoked : BOOLEAN, cancelled : BOOLEAN]
HandlerRecords ==
  [step : {"idle", "persist", "retry", "start", "delete"}, job : Jobs \cup {0}, given : SUBSET Members]

JobTypes ==
  /\ job \in [Jobs -> JobRecords]
  /\ \A j \in Jobs : job[j].status = "unmade" => job[j] = NoJob
  /\ current \in Made \cup {0}
  /\ page \in [Pages -> Made \cup {0}]
  /\ handler \in HandlerRecords /\ handler.job \in Made \cup {0}

(* A live thread has a job, which has had a start. *)
ThreadTypes ==
  /\ thread \in [Threads -> ThreadRecords]
  /\ \A t \in Threads : Alive(t) => thread[t].job \in Made /\ job[thread[t].job].thread # 0
  /\ \A t \in Threads : thread[t].pc = "busy" => thread[t].events # 0

RestTypes ==
  /\ row = None \/ row \in [status : Status, requires : BOOLEAN]
  /\ writer \subseteq Threads /\ Cardinality(writer) <= 1
  /\ sidecar \subseteq Members
  /\ cleaners \subseteq Started
  /\ Slot!SlotTypeOK
  /\ overlap \subseteq {"threads", "reclaim"}

Types == JobTypes /\ ThreadTypes /\ RestTypes

(* A handler between its steps works on the current job; only a discard     *)
(* works on one that is forgotten.  The job of a restart has not started.   *)
HandlerDiscipline ==
  /\ handler.step = "idle" => handler = Idle
  /\ handler.step \in {"persist", "retry", "start"} => handler.job = current /\ current # 0
  /\ handler.step \in {"retry", "start"} => job[current].thread = 0
  /\ handler.step = "delete" => current = 0

LEMMA NumbersFacts ==
  /\ 0 \notin Threads /\ 0 \notin Jobs /\ 0 \notin Members /\ 1 \in Members
  /\ MemberCount \in Members
  /\ Protected \subseteq Members
  BY MembersNumbered, BoundsAreNumbers DEF Threads, Jobs, Members

LEMMA InitTypes == Init => Types
<1>1. Cardinality({}) = 0
  BY FS_EmptySet
<1>. QED
  BY <1>1, NumbersFacts DEF Init, Types, JobTypes, ThreadTypes, RestTypes, JobRecords, ThreadRecords,
     HandlerRecords, NoJob, NoThread, Idle, Made, Started, Alive, Pcs, Thens, Slot!SlotInit, Slot!SlotTypeOK

(* What is made stays made. *)
LEMMA MadeByStatus ==
  ASSUME JobTypes
  PROVE Made = {j \in Jobs : job[j].status # "unmade"}
<1>1. NoJob.status = "unmade"
  BY DEF NoJob
<1>. QED
  BY <1>1 DEF JobTypes, Made

LEMMA FreshJob ==
  ASSUME Fresh # {}
  PROVE NewJob \in Jobs /\ NewJob \notin Made
BY DEF Fresh, NewJob

LEMMA FreshThread ==
  ASSUME Threads # Started
  PROVE NewThread \in Threads /\ NewThread \notin Started
<1>1. Started \subseteq Threads
  BY DEF Started
<1>2. \E t : t \in Threads \ Started
  BY <1>1
<1>. QED
  BY <1>2 DEF NewThread

LEMMA SignalTypes ==
  ASSUME Types, NEW j \in Jobs, NEW revoke \in BOOLEAN, NEW cancel \in BOOLEAN,
         thread' = Signal(j, revoke, cancel)
  PROVE /\ thread' \in [Threads -> ThreadRecords]
        /\ \A t \in Threads :
             /\ thread'[t].pc = thread[t].pc /\ thread'[t].then = thread[t].then
             /\ thread'[t].job = thread[t].job /\ thread'[t].member = thread[t].member
             /\ thread'[t].outcome = thread[t].outcome /\ thread'[t].events = thread[t].events
             /\ thread[t].revoked => thread'[t].revoked
             /\ thread[t].cancelled => thread'[t].cancelled
             /\ job[j].thread # t => thread'[t] = thread[t]
  <1>1. job[j].thread \in Threads \cup {0}
    BY DEF Types, JobTypes, JobRecords
  <1>k. thread \in [Threads -> ThreadRecords]
    BY DEF Types, ThreadTypes
  <1>2. CASE job[j].thread = 0
    BY <1>2, <1>k DEF Signal
  <1>3. CASE job[j].thread # 0
    <2>. DEFINE u == job[j].thread
                revoked == thread[u].revoked \/ revoke
                cancelled == thread[u].cancelled \/ cancel
                new == [thread[u] EXCEPT !.revoked = revoked, !.cancelled = cancelled]
    <2>1. u \in Threads
      BY <1>1, <1>3
    <2>2. thread[u] \in ThreadRecords
      BY <1>k, <2>1
    <2>3. thread' = [thread EXCEPT ![u] = new]
      BY <1>3, <1>k, <2>1, <2>2 DEF Signal, ThreadRecords
    <2>4. revoked \in BOOLEAN /\ cancelled \in BOOLEAN
      OBVIOUS
    <2>5. (thread[u].revoked => revoked) /\ (thread[u].cancelled => cancelled)
      OBVIOUS
    <2>. HIDE DEF revoked, cancelled
    <2>6. /\ new \in ThreadRecords
          /\ new.pc = thread[u].pc /\ new.then = thread[u].then /\ new.job = thread[u].job
          /\ new.member = thread[u].member /\ new.outcome = thread[u].outcome /\ new.events = thread[u].events
          /\ thread[u].revoked => new.revoked
          /\ thread[u].cancelled => new.cancelled
      BY <2>2, <2>4, <2>5 DEF ThreadRecords
    <2>7. u = job[j].thread
      OBVIOUS
    <2>. HIDE DEF new, u
    <2>8. thread'[u] = new /\ \A t \in Threads \ {u} : thread'[t] = thread[t]
      BY <1>k, <2>1, <2>3
    <2>9. thread' \in [Threads -> ThreadRecords]
      BY <1>k, <2>1, <2>3, <2>6
    <2>10. ASSUME NEW t \in Threads
           PROVE /\ thread'[t].pc = thread[t].pc /\ thread'[t].then = thread[t].then
                 /\ thread'[t].job = thread[t].job /\ thread'[t].member = thread[t].member
                 /\ thread'[t].outcome = thread[t].outcome /\ thread'[t].events = thread[t].events
                 /\ thread[t].revoked => thread'[t].revoked
                 /\ thread[t].cancelled => thread'[t].cancelled
                 /\ u # t => thread'[t] = thread[t]
      <3>1. CASE t = u
        <4>1. thread'[t] = new
          BY <2>8, <3>1
        <4>. QED
          BY <2>6, <3>1, <4>1
      <3>2. CASE t # u
        <4>1. thread'[t] = thread[t]
          BY <2>8, <3>2
        <4>. QED
          BY <4>1
      <3>. QED
        BY <3>1, <3>2
    <2>. QED
      BY <2>7, <2>9, <2>10
  <1>. QED
    BY <1>2, <1>3

LEMMA StartJobTypes ==
  ASSUME Types, NEW j \in Jobs, NEW made \in JobRecords, NEW given \in SUBSET Members,
         made.status # "unmade", job[j].thread # 0 => made.thread # 0,
         StartJob(j, made, given)
  PROVE /\ job' \in [Jobs -> JobRecords]
        /\ \A k \in Jobs \ {j} : job'[k] = job[k]
        /\ job'[j].status # "unmade"
        /\ job[j].thread # 0 => job'[j].thread # 0
        /\ handler' \in HandlerRecords /\ handler'.job \in {0, j}
        /\ thread' \in [Threads -> ThreadRecords]
        /\ \A t \in Threads : thread'[t] = thread[t] \/ (thread'[t].pc = "next" /\ thread'[t].job = j /\ job'[j].thread # 0)
        /\ overlap' \subseteq {"threads", "reclaim"}
  <1>1. CASE NothingToStart(made)
    <2>1. job' = [job EXCEPT ![j] = made] /\ handler' = Idle /\ thread' = thread /\ overlap' = overlap
      BY <1>1 DEF StartJob
    <2>2. Idle \in HandlerRecords /\ Idle.job = 0
      BY NumbersFacts DEF Idle, HandlerRecords
    <2>. QED
      BY <2>1, <2>2 DEF Types, JobTypes, ThreadTypes, RestTypes
  <1>2. CASE ~NothingToStart(made)
    <2>. DEFINE t == NewThread
         new == [made EXCEPT !.thread = t, !.passwords = given,
                   !.requires = given # {}, !.done = {}, !.payloads = TRUE,
                   !.status = "waiting_for_slot", !.started = TRUE, !.finished = FALSE]
         th == [NoThread EXCEPT !.pc = "next", !.job = j]
         h == [step |-> "persist", job |-> j, given |-> {}]
    <2>1. /\ Threads # Started /\ job' = [job EXCEPT ![j] = new]
          /\ thread' = [thread EXCEPT ![t] = th]
          /\ overlap' = (IF \E u \in Threads : Alive(u) THEN overlap \cup {"threads"} ELSE overlap)
          /\ handler' = h
      BY <1>2 DEF StartJob
    <2>2. t \in Threads
      BY <2>1, FreshThread
    <2>3. new \in JobRecords /\ new.status = "waiting_for_slot" /\ new.thread = t
      BY <2>2, NumbersFacts DEF JobRecords, Status, Active
    <2>4. th \in ThreadRecords /\ th.pc = "next" /\ th.job = j
      BY NumbersFacts DEF ThreadRecords, NoThread, Pcs, Thens
    <2>5. h \in HandlerRecords /\ h.job = j
      BY DEF HandlerRecords
    <2>6. t # 0
      BY <2>2, NumbersFacts
    <2>. HIDE DEF t, new, th, h
    <2>. QED
      BY <2>1, <2>2, <2>3, <2>4, <2>5, <2>6 DEF Types, JobTypes, ThreadTypes, RestTypes
  <1>. QED
    BY <1>1, <1>2

(* The job a page attaches to, and the job a restart makes. *)
LEMMA RestoredJob ==
  ASSUME Types
  PROVE Restored \in JobRecords /\ Restored.status \in Status /\ Restored.thread = 0
        /\ Restored.passwords = {} /\ Restored.done = {} /\ Restored.subscribers = {}
        /\ Restored.started = FALSE
        /\ (Restored.status = "complete" => row # None /\ row.status = "complete")
  <1>. DEFINE status == IF row = None THEN "awaiting_inputs"
                ELSE IF row.status \in Terminal THEN row.status
                ELSE IF row.status = "awaiting_credentials" \/ row.requires
                     THEN "awaiting_credentials" ELSE "stale"
  <1>1. status \in Status /\ (status = "complete" => row # None /\ row.status = "complete")
    BY DEF Types, RestTypes, Status, Terminal
  <1>2. Restored = [NoJob EXCEPT !.status = status, !.finished = status \in Terminal]
    BY DEF Restored
  <1>3. NoJob \in JobRecords
    BY DEF JobRecords, NoJob
  <1>. HIDE DEF status
  <1>. DEFINE ended == status \in Terminal
  <1>4. ended \in BOOLEAN
    OBVIOUS
  <1>5. Restored = [NoJob EXCEPT !.status = status, !.finished = ended]
    BY <1>2
  <1>. HIDE DEF ended
  <1>6. [NoJob EXCEPT !.status = status, !.finished = ended] \in JobRecords
    BY <1>1, <1>3, <1>4 DEF JobRecords
  <1>. QED
    BY <1>1, <1>5, <1>6 DEF NoJob

(* What the job types need of a step: jobs stay made, and keep their thread. *)
LEMMA JobTypesKept ==
  ASSUME Types, job' \in [Jobs -> JobRecords],
         \A k \in Jobs : job'[k] = job[k] \/ job'[k].status # "unmade",
         current' \in Made' \cup {0},
         \A p \in Pages : page'[p] \in Made' \cup {0}, DOMAIN page' = Pages, page' = [p \in Pages |-> page'[p]],
         handler' \in HandlerRecords, handler'.job \in Made' \cup {0}
  PROVE JobTypes'
  <1>1. \A k \in Jobs : job'[k].status = "unmade" => job'[k] = NoJob
    BY DEF Types, JobTypes
  <1>. QED
    BY <1>1 DEF JobTypes

LEMMA MadeGrows ==
  ASSUME Types, job' \in [Jobs -> JobRecords],
         \A k \in Jobs : job'[k] = job[k] \/ job'[k].status # "unmade"
  PROVE Made \subseteq Made' /\ \A k \in Jobs : job'[k].status # "unmade" => k \in Made'
  <1>1. NoJob.status = "unmade"
    BY DEF NoJob
  <1>. QED
    BY <1>1 DEF Types, JobTypes, Made

(* A live thread keeps its job, whose thread is never unset. *)
LEMMA ThreadTypesKept ==
  ASSUME Types, thread' \in [Threads -> ThreadRecords], Made \subseteq Made',
         \A k \in Jobs : job[k].thread # 0 => job'[k].thread # 0,
         \A t \in Threads :
           \/ thread'[t].pc = "ended"
           \/ /\ thread'[t].job = thread[t].job
              /\ thread'[t].pc # "unused" => thread[t].pc \notin {"unused", "ended"}
              /\ thread'[t].pc = "busy" => thread'[t].events # 0
           \/ /\ thread'[t].job \in Made' /\ job'[thread'[t].job].thread # 0
              /\ thread'[t].pc = "next"
  PROVE ThreadTypes'
  BY DEF Types, ThreadTypes, JobTypes, Alive, Made

LEMMA StartJobKeeps ==
  ASSUME Types, NEW j \in Jobs, NEW made \in JobRecords, NEW given \in SUBSET Members,
         made.status # "unmade", job[j].thread # 0 => made.thread # 0,
         StartJob(j, made, given),
         current' = j, \A p \in Pages : page'[p] \in {page[p], j}, page' = [p \in Pages |-> page'[p]],
         UNCHANGED <<row, writer, sidecar, cleaners, holder, calls>>
  PROVE Types'
  <1>1. /\ job' \in [Jobs -> JobRecords]
        /\ \A k \in Jobs \ {j} : job'[k] = job[k]
        /\ job'[j].status # "unmade"
        /\ job[j].thread # 0 => job'[j].thread # 0
        /\ handler' \in HandlerRecords /\ handler'.job \in {0, j}
        /\ thread' \in [Threads -> ThreadRecords]
        /\ \A t \in Threads : thread'[t] = thread[t] \/ (thread'[t].pc = "next" /\ thread'[t].job = j /\ job'[j].thread # 0)
        /\ overlap' \subseteq {"threads", "reclaim"}
    BY StartJobTypes
  <1>2. Made \subseteq Made' /\ j \in Made'
    BY <1>1, MadeGrows
  <1>3. JobTypes'
    BY <1>1, <1>2, JobTypesKept DEF Types, JobTypes
  <1>4. ThreadTypes'
    <2>1. \A t \in Threads : thread[t].pc = "busy" => thread[t].events # 0
      BY DEF Types, ThreadTypes
    <2>2. \A k \in Jobs : job[k].thread # 0 => job'[k].thread # 0
      BY <1>1
    <2>3. \A t \in Threads :
           \/ thread'[t].pc = "ended"
           \/ /\ thread'[t].job = thread[t].job
              /\ thread'[t].pc # "unused" => thread[t].pc \notin {"unused", "ended"}
              /\ thread'[t].pc = "busy" => thread'[t].events # 0
           \/ /\ thread'[t].job \in Made' /\ job'[thread'[t].job].thread # 0
              /\ thread'[t].pc = "next"
      BY <1>1, <1>2, <2>1
    <2>. QED
      BY <1>1, <1>2, <2>2, <2>3, ThreadTypesKept
  <1>5. Started \subseteq Started'
    BY <1>1 DEF Started
  <1>6. Slot!SlotTypeOK'
    BY DEF Types, RestTypes, Slot!SlotTypeOK, Slot!Names
  <1>. QED
    BY <1>1, <1>3, <1>4, <1>5, <1>6 DEF Types, RestTypes

LEMMA StatusIsMade == \A status \in Status : status # "unmade"
  BY DEF Status, Active, Terminal

LEMMA AttachTypes ==
  ASSUME Types, NEW p \in Pages, Attach(p),
         UNCHANGED <<row, writer, sidecar, cleaners, holder, calls, crashes>>
  PROVE Types'
  <1>. DEFINE j == IF current # 0 THEN current ELSE NewJob
  <1>1. PICK given \in {{}, Protected} :
       LET made == [IF current # 0 THEN job[j] ELSE Restored EXCEPT !.subscribers = @ \cup {p}]
       IN /\ current' = j
          /\ page' = [page EXCEPT ![p] = j]
          /\ IF StartsByItself(made, given) THEN StartJob(j, made, given)
             ELSE job' = [job EXCEPT ![j] = made] /\ UNCHANGED <<handler, thread, overlap>>
    BY DEF Attach
  <1>. DEFINE base == IF current # 0 THEN job[j] ELSE Restored
              made == [base EXCEPT !.subscribers = @ \cup {p}]
  <1>2. j \in Jobs
    BY FreshJob DEF Attach, Types, JobTypes, Made
  <1>3. base \in JobRecords /\ base.status # "unmade" /\ (job[j].thread # 0 => base.thread # 0)
    <2>1. CASE current # 0
      <3>1. current \in Made
        BY <2>1 DEF Types, JobTypes
      <3>. QED
        BY <2>1, <3>1, MadeByStatus DEF Types, JobTypes
    <2>2. CASE current = 0
      <3>1. j \in Jobs /\ j \notin Made
        BY <2>2, FreshJob DEF Attach
      <3>2. job[j] = NoJob
        BY <3>1 DEF Made
      <3>. QED
        BY <2>2, <3>2, RestoredJob, StatusIsMade DEF NoJob
    <2>. QED
      BY <2>1, <2>2
  <1>4. made \in JobRecords /\ made.status = base.status /\ made.thread = base.thread
    BY <1>3 DEF JobRecords
  <1>5. current' = j /\ page' = [page EXCEPT ![p] = j]
          /\ IF StartsByItself(made, given) THEN StartJob(j, made, given)
             ELSE job' = [job EXCEPT ![j] = made] /\ UNCHANGED <<handler, thread, overlap>>
    BY <1>1
  <1>6. given \in SUBSET Members
    BY <1>1, NumbersFacts
  <1>7. \A q \in Pages : page'[q] \in {page[q], j} /\ page' = [v \in Pages |-> page'[v]]
    BY <1>5 DEF Types, JobTypes
  <1>. HIDE DEF j, base, made
  <1>8. CASE StartsByItself(made, given)
    BY <1>2, <1>3, <1>4, <1>5, <1>6, <1>7, <1>8, StartJobKeeps
  <1>9. CASE ~StartsByItself(made, given)
    <2>1. job' = [job EXCEPT ![j] = made] /\ UNCHANGED <<handler, thread, overlap>>
      BY <1>5, <1>9
    <2>2. job' \in [Jobs -> JobRecords] /\ \A k \in Jobs : job'[k] = job[k] \/ job'[k].status # "unmade"
      BY <2>1, <1>2, <1>3, <1>4 DEF Types, JobTypes
    <2>3. Made \subseteq Made' /\ j \in Made'
      BY <2>1, <2>2, <1>2, <1>3, <1>4, MadeGrows DEF Types, JobTypes
    <2>4. JobTypes'
      BY <2>1, <2>2, <2>3, <1>5, <1>7, JobTypesKept DEF Types, JobTypes
    <2>5. \A k \in Jobs : job[k].thread # 0 => job'[k].thread # 0
      BY <2>1, <1>2, <1>3, <1>4 DEF Types, JobTypes
    <2>6. ThreadTypes'
      BY <2>1, <2>3, <2>5 DEF Types, ThreadTypes, JobTypes, Alive, Made
    <2>. QED
      BY <2>1, <2>4, <2>6 DEF Types, RestTypes, Started, Slot!SlotTypeOK, Slot!Names
  <1>. QED
    BY <1>8, <1>9

LEMMA RestTypesKept ==
  ASSUME Types, thread' \in [Threads -> ThreadRecords],
         \A t \in Threads : thread'[t].pc = "unused" => thread[t].pc = "unused",
         UNCHANGED <<row, writer, sidecar, cleaners, holder, calls>>, overlap' \subseteq {"threads", "reclaim"}
  PROVE RestTypes'
  <1>1. Started \subseteq Started'
    BY DEF Started
  <1>. QED
    BY <1>1 DEF Types, RestTypes, Slot!SlotTypeOK, Slot!Names

LEMMA SignalledTypes ==
  ASSUME Types, NEW j \in Jobs, NEW revoke \in BOOLEAN, NEW cancel \in BOOLEAN,
         thread' = Signal(j, revoke, cancel),
         \A k \in Jobs : job'[k].thread = job[k].thread \/ job[k].thread = 0, Made \subseteq Made'
  PROVE /\ thread' \in [Threads -> ThreadRecords] /\ ThreadTypes'
        /\ \A t \in Threads : thread'[t].pc = "unused" => thread[t].pc = "unused"
  <1>1. thread' \in [Threads -> ThreadRecords]
        /\ \A t \in Threads :
             /\ thread'[t].pc = thread[t].pc /\ thread'[t].job = thread[t].job
             /\ thread'[t].events = thread[t].events
    BY SignalTypes
  <1>2. \A k \in Jobs : job[k].thread # 0 => job'[k].thread # 0
    OBVIOUS
  <1>. QED
    BY <1>1, <1>2 DEF Types, ThreadTypes, JobTypes, Made, Alive

LEMMA PageTypes ==
  ASSUME Types, PageStep
  PROVE Types'
  <1>. USE NumbersFacts, StatusIsMade
  <1>0. UNCHANGED <<row, writer, sidecar, cleaners, holder, calls, crashes>>
    BY DEF PageStep
  <1>t. \A k \in Jobs : job[k] \in JobRecords
    BY DEF Types, JobTypes
  <1>c. current # 0 => current \in Jobs /\ current \in Made /\ job[current].status # "unmade"
    BY MadeByStatus DEF Types, JobTypes
  <1>p. \A q \in Pages : page[q] \in Made \cup {0}
    BY DEF Types, JobTypes
  <1>1. ASSUME NEW p \in Pages, Attach(p) PROVE Types'
    BY <1>0, <1>1, AttachTypes
  <1>2. ASSUME NEW p \in Pages, Restart(p), UNCHANGED overlap PROVE Types'
    <2>. DEFINE j == NewJob
         new == [NoJob EXCEPT !.status = "awaiting_inputs",
              !.subscribers = IF current = 0 THEN {} ELSE job[current].subscribers]
    <2>1. /\ job' = [job EXCEPT ![j] = new]
          /\ thread' = IF current = 0 THEN thread ELSE Signal(current, TRUE, TRUE)
          /\ current' = j
          /\ page' = [page EXCEPT ![p] = j]
          /\ \E given \in {{}, Protected} :
             handler' = [step |-> "retry", job |-> j, given |-> given]
      BY <1>2 DEF Restart
    <2>2. j \in Jobs /\ j \notin Made
      BY <1>2, FreshJob DEF Restart
    <2>3. new \in JobRecords /\ new.status = "awaiting_inputs"
      BY <1>c, <1>t DEF NoJob, JobRecords, Status
    <2>4. job[j].thread = 0
      BY <2>2 DEF Made, NoJob
    <2>. HIDE DEF j, new
    <2>5. job' \in [Jobs -> JobRecords] /\ \A k \in Jobs : job'[k] = job[k] \/ job'[k].status # "unmade"
      BY <2>1, <2>2, <2>3 DEF Types, JobTypes
    <2>6. Made \subseteq Made' /\ j \in Made'
      BY <2>1, <2>2, <2>3, <2>5, MadeGrows DEF Types, JobTypes
    <2>7. handler' \in HandlerRecords /\ handler'.job = j
      BY <2>1, <2>2 DEF HandlerRecords
    <2>8. \A q \in Pages : page'[q] \in Made' \cup {0}
      BY <2>1, <2>6, <1>p DEF Types, JobTypes
    <2>9. page' = [q \in Pages |-> page'[q]]
      BY <2>1 DEF Types, JobTypes
    <2>10. JobTypes'
      BY <2>1, <2>2, <2>5, <2>6, <2>7, <2>8, <2>9, JobTypesKept
    <2>11. \A k \in Jobs : job'[k].thread = job[k].thread \/ job[k].thread = 0
      BY <2>1, <2>2, <2>4 DEF Types, JobTypes
    <2>12. thread' \in [Threads -> ThreadRecords] /\ ThreadTypes'
           /\ \A t \in Threads : thread'[t].pc = "unused" => thread[t].pc = "unused"
      <3>1. CASE current # 0
        BY <3>1, <2>1, <2>6, <2>11, <1>c, SignalledTypes
      <3>2. CASE current = 0
        BY <3>2, <2>1, <2>6, <2>11 DEF Types, ThreadTypes, JobTypes, Alive, Made
      <3>. QED
        BY <3>1, <3>2
    <2>. QED
      BY <1>0, <1>2, <2>10, <2>12, RestTypesKept DEF Types, RestTypes
  <1>3. ASSUME NEW p \in Pages, Cancel(p), UNCHANGED <<current, page, overlap>> PROVE Types'
    <2>. DEFINE j == current
         new == IF Alive(job[j].thread)
          THEN [job[j] EXCEPT !.passwords = {}, !.status = "cancelling"]
          ELSE [job[j] EXCEPT !.passwords = {}, !.status = "cancelled", !.finished = TRUE]
    <2>1. /\ j # 0 /\ thread' = Signal(j, TRUE, TRUE)
          /\ job' = [job EXCEPT ![j] = new]
          /\ handler' = [step |-> "persist", job |-> j, given |-> {}]
      BY <1>3 DEF Cancel, CancelJob
    <2>2. j \in Jobs
      BY <2>1, <1>c
    <2>3. new \in JobRecords /\ new.status # "unmade" /\ new.thread = job[j].thread
      BY <2>2, <1>t DEF JobRecords, Status, Active, Terminal
    <2>. HIDE DEF new
    <2>5. job' \in [Jobs -> JobRecords] /\ \A k \in Jobs : job'[k] = job[k] \/ job'[k].status # "unmade"
      BY <2>1, <2>2, <2>3 DEF Types, JobTypes
    <2>6. Made \subseteq Made'
      BY <2>5, MadeGrows
    <2>7. handler' \in HandlerRecords /\ handler'.job = j
      BY <2>1, <2>2 DEF HandlerRecords
    <2>10. JobTypes'
      BY <1>3, <2>1, <2>5, <2>6, <2>7, <1>c, <1>p, JobTypesKept DEF Types, JobTypes
    <2>11. \A k \in Jobs : job'[k].thread = job[k].thread \/ job[k].thread = 0
      BY <2>1, <2>2, <2>3 DEF Types, JobTypes
    <2>12. thread' \in [Threads -> ThreadRecords] /\ ThreadTypes'
           /\ \A t \in Threads : thread'[t].pc = "unused" => thread[t].pc = "unused"
      BY <2>1, <2>2, <2>6, <2>11, SignalledTypes
    <2>. QED
      BY <1>0, <1>3, <2>10, <2>12, RestTypesKept DEF Types, RestTypes
  <1>4. ASSUME NEW p \in Pages, Detach(p), UNCHANGED <<current, overlap>> PROVE Types'
    <2>1. page' = [page EXCEPT ![p] = 0]
      BY <1>4 DEF Detach
    <2>2. \A q \in Pages : page'[q] \in Made \cup {0}
      BY <2>1, <1>p DEF Types, JobTypes
    <2>3. page' = [q \in Pages |-> page'[q]]
      BY <2>1 DEF Types, JobTypes
    <2>4. CASE current = 0
      <3>1. UNCHANGED <<job, thread, handler>>
        BY <1>4, <2>4 DEF Detach
      <3>2. Made' = Made
        BY <3>1 DEF Made
      <3>. QED
        BY <1>0, <1>4, <2>1, <2>2, <2>3, <3>1, <3>2, RestTypesKept DEF Types, JobTypes, ThreadTypes, RestTypes, Alive
    <2>5. CASE current # 0 /\ Demotes(current, p)
      <3>1. /\ job' = [job EXCEPT ![current] = Demoted(@)]
            /\ thread' = Signal(current, TRUE, FALSE)
            /\ handler' = [step |-> "persist", job |-> current, given |-> {}]
        BY <1>4, <2>5 DEF Detach
      <3>. DEFINE new == Demoted(job[current])
      <3>2. new \in JobRecords /\ new.status # "unmade" /\ new.thread = job[current].thread
        BY <2>5, <1>c, <1>t DEF JobRecords, Status, Demoted
      <3>3. job' = [job EXCEPT ![current] = new]
        BY <3>1, <2>5, <1>c DEF Types, JobTypes
      <3>. HIDE DEF new
      <3>5. job' \in [Jobs -> JobRecords] /\ \A k \in Jobs : job'[k] = job[k] \/ job'[k].status # "unmade"
        BY <3>3, <3>2, <2>5, <1>c DEF Types, JobTypes
      <3>6. Made \subseteq Made'
        BY <3>5, MadeGrows
      <3>7. handler' \in HandlerRecords /\ handler'.job = current
        BY <3>1, <2>5, <1>c DEF HandlerRecords
      <3>10. JobTypes'
        BY <1>4, <2>2, <2>3, <3>5, <3>6, <3>7, <1>c, <1>p, <2>5, JobTypesKept DEF Types, JobTypes
      <3>11. \A k \in Jobs : job'[k].thread = job[k].thread \/ job[k].thread = 0
        BY <3>3, <3>2, <2>5 DEF Types, JobTypes
      <3>12. thread' \in [Threads -> ThreadRecords] /\ ThreadTypes'
           /\ \A t \in Threads : thread'[t].pc = "unused" => thread[t].pc = "unused"
        BY <3>1, <2>5, <1>c, <3>6, <3>11, SignalledTypes
      <3>. QED
        BY <1>0, <1>4, <3>10, <3>12, RestTypesKept DEF Types, RestTypes
    <2>6. CASE current # 0 /\ ~Demotes(current, p)
      <3>. DEFINE new == [job[current] EXCEPT !.subscribers = @ \ {p}]
      <3>1. job' = [job EXCEPT ![current] = new] /\ UNCHANGED <<thread, handler>>
        BY <1>4, <2>6, <1>c DEF Detach, Types, JobTypes
      <3>2. new \in JobRecords /\ new.status # "unmade" /\ new.thread = job[current].thread
        BY <2>6, <1>c, <1>t DEF JobRecords
      <3>. HIDE DEF new
      <3>5. job' \in [Jobs -> JobRecords] /\ \A k \in Jobs : job'[k] = job[k] \/ job'[k].status # "unmade"
        BY <3>1, <3>2, <2>6, <1>c DEF Types, JobTypes
      <3>6. Made \subseteq Made'
        BY <3>5, MadeGrows
      <3>10. JobTypes'
        BY <1>4, <2>2, <2>3, <3>1, <3>5, <3>6, <1>c, <1>p, <2>6, JobTypesKept DEF Types, JobTypes
      <3>11. \A k \in Jobs : job'[k].thread = job[k].thread
        BY <3>1, <3>2, <2>6 DEF Types, JobTypes
      <3>12. ThreadTypes'
        BY <3>1, <3>6, <3>11 DEF Types, ThreadTypes, JobTypes, Made, Alive
      <3>. QED
        BY <1>0, <1>4, <3>1, <3>10, <3>12, RestTypesKept DEF Types, RestTypes, ThreadTypes
    <2>. QED
      BY <2>4, <2>5, <2>6
  <1>5. ASSUME Discard, UNCHANGED <<page, overlap>> PROVE Types'
    <2>1. /\ thread' = IF current = 0 THEN thread ELSE Signal(current, TRUE, TRUE)
          /\ job' = IF current = 0 THEN job ELSE [job EXCEPT ![current].passwords = {}]
          /\ current' = 0
          /\ handler' = [step |-> "delete", job |-> current, given |-> {}]
      BY <1>5 DEF Discard
    <2>2. job' \in [Jobs -> JobRecords]
          /\ \A k \in Jobs : job'[k].status = job[k].status /\ job'[k].thread = job[k].thread
      BY <2>1, <1>c, <1>t DEF Types, JobTypes, JobRecords
    <2>3. \A k \in Jobs : job'[k] = job[k] \/ job'[k].status # "unmade"
      BY <2>1, <2>2, <1>c DEF Types, JobTypes
    <2>6. Made \subseteq Made'
      BY <2>2, <2>3, MadeGrows
    <2>7. handler' \in HandlerRecords /\ handler'.job = current
      BY <2>1, <1>c DEF HandlerRecords
    <2>10. JobTypes'
      BY <1>5, <2>1, <2>2, <2>3, <2>6, <2>7, <1>c, <1>p, JobTypesKept DEF Types, JobTypes
    <2>12. thread' \in [Threads -> ThreadRecords] /\ ThreadTypes'
           /\ \A t \in Threads : thread'[t].pc = "unused" => thread[t].pc = "unused"
      <3>1. CASE current # 0
        BY <3>1, <2>1, <2>2, <2>6, <1>c, SignalledTypes
      <3>2. CASE current = 0
        BY <3>2, <2>1, <2>2, <2>6 DEF Types, ThreadTypes, JobTypes, Alive, Made
      <3>. QED
        BY <3>1, <3>2
    <2>. QED
      BY <1>0, <1>5, <2>10, <2>12, RestTypesKept DEF Types, RestTypes
  <1>6. ASSUME EvictTerminal, UNCHANGED <<job, thread, page, handler, overlap>> PROVE Types'
    BY <1>0, <1>6 DEF EvictTerminal, Types, JobTypes, ThreadTypes, RestTypes, Made, Alive, Started,
       Slot!SlotTypeOK, Slot!Names
  <1>. QED
    BY <1>1, <1>2, <1>3, <1>4, <1>5, <1>6 DEF PageStep

LEMMA HandlerTypes ==
  ASSUME Types, HandlerDiscipline, HandlerStep
  PROVE Types'
  <1>. USE NumbersFacts, StatusIsMade
  <1>0. UNCHANGED <<current, page, writer, holder, calls, crashes>>
    BY DEF HandlerStep
  <1>h. handler \in HandlerRecords /\ handler.job \in Made \cup {0}
    BY DEF Types, JobTypes
  <1>c. current # 0 => current \in Jobs /\ job[current] \in JobRecords /\ job[current].status \in Status
    BY MadeByStatus DEF Types, JobTypes, JobRecords
  <1>1. ASSUME StartRetry, UNCHANGED <<row, sidecar, cleaners>> PROVE Types'
    <2>. DEFINE j == handler.job
                made == job[j]
                given == handler.given
    <2>1. StartJob(j, made, given)
      BY <1>1 DEF StartRetry
    <2>2. j = current /\ current # 0 /\ j \in Jobs /\ made \in JobRecords /\ made.status # "unmade"
      BY <1>1, <1>c DEF StartRetry, HandlerDiscipline
    <2>3. given \in SUBSET Members
      BY <1>h DEF HandlerRecords
    <2>4. job[j].thread # 0 => made.thread # 0
      OBVIOUS
    <2>5. /\ \A p \in Pages : page'[p] \in {page[p], j}
          /\ page' = [q \in Pages |-> page'[q]]
      BY <1>0 DEF Types, JobTypes
    <2>. HIDE DEF j, made, given
    <2>. QED
      BY <1>0, <1>1, <2>1, <2>2, <2>3, <2>4, <2>5, StartJobKeeps
  <1>2. ASSUME PersistHandler, UNCHANGED <<job, thread, sidecar, cleaners, overlap>> PROVE Types'
    <2>1. handler' \in HandlerRecords /\ handler'.job \in Made' \cup {0}
      BY <1>2, <1>h DEF PersistHandler, HandlerRecords, Idle, Made
    <2>2. row' = None \/ row' \in [status : Status, requires : BOOLEAN]
      <3>1. handler.job = current => Snapshot(current) \in [status : Status, requires : BOOLEAN]
        BY <1>2, <1>c DEF PersistHandler, HandlerDiscipline, Snapshot, JobRecords
      <3>. QED
        BY <3>1, <1>2 DEF PersistHandler, Types, RestTypes
    <2>. QED
      BY <1>0, <1>2, <2>1, <2>2 DEF Types, JobTypes, ThreadTypes, RestTypes, Made, Alive, Started, Slot!SlotTypeOK, Slot!Names
  <1>3. ASSUME DeleteRows, UNCHANGED <<job, thread, overlap>> PROVE Types'
    <2>1. handler' \in HandlerRecords /\ handler'.job = 0
      BY <1>3 DEF DeleteRows, HandlerRecords, Idle
    <2>2. cleaners' \subseteq Started' /\ sidecar' \subseteq Members
      BY <1>3, <1>h DEF DeleteRows, Types, RestTypes, JobTypes, JobRecords, Made, Started, Alive
    <2>. QED
      BY <1>0, <1>3, <2>1, <2>2 DEF DeleteRows, Types, JobTypes, ThreadTypes, RestTypes, Made, Alive, Started, Slot!SlotTypeOK, Slot!Names
  <1>. QED
    BY <1>1, <1>2, <1>3 DEF HandlerStep

(* A step of thread t changes its own record, and the job of t.              *)
LEMMA OneThreadTypes ==
  ASSUME Types, NEW t \in Threads, NEW th \in ThreadRecords,
         thread' = [thread EXCEPT ![t] = th],
         th.pc \notin {"unused", "ended"} => Alive(t) /\ th.job = thread[t].job,
         th.pc = "busy" => th.events # 0, th.pc # "unused",
         job' \in [Jobs -> JobRecords],
         \A k \in Jobs : job'[k].thread = job[k].thread,
         \A k \in Jobs : job'[k] = job[k] \/ job'[k].status # "unmade",
         UNCHANGED <<current, page, handler, cleaners, calls, overlap>>
  PROVE /\ JobTypes' /\ ThreadTypes' /\ cleaners' \subseteq Started'
  <1>1. Made \subseteq Made'
    BY MadeGrows
  <1>2. JobTypes'
    BY <1>1, JobTypesKept DEF Types, JobTypes
  <1>3. ThreadTypes'
    <2>1. thread' \in [Threads -> ThreadRecords]
      BY DEF Types, ThreadTypes
    <2>2. ASSUME NEW u \in Threads, Alive(u)'
          PROVE thread'[u].job \in Made' /\ job'[thread'[u].job].thread # 0
      <3>1. Alive(u) /\ thread'[u].job = thread[u].job
        BY <2>2 DEF Types, ThreadTypes, Alive
      <3>2. thread[u].job \in Made /\ thread[u].job \in Jobs /\ job[thread[u].job].thread # 0
        BY <3>1 DEF Types, ThreadTypes, Made
      <3>. QED
        BY <1>1, <3>1, <3>2
    <2>3. \A u \in Threads : thread'[u].pc = "busy" => thread'[u].events # 0
      BY DEF Types, ThreadTypes
    <2>. QED
      BY <2>1, <2>2, <2>3 DEF ThreadTypes
  <1>4. Started \subseteq Started'
    BY DEF Started, Types, ThreadTypes
  <1>. QED
    BY <1>2, <1>3, <1>4 DEF Types, RestTypes

LEMMA SlotTypesKept ==
  ASSUME Types, holder' \in {holder, None} \cup Members, UNCHANGED calls
  PROVE Slot!SlotTypeOK'
BY DEF Types, RestTypes, Slot!SlotTypeOK, Slot!Names

(* Every step of a scan thread: what it makes of its own record, and of the  *)
(* job.                                                                      *)
LEMMA ThreadStepShape ==
  ASSUME Types, NEW t \in Threads, ThreadStep(t)
  PROVE /\ Alive(t) /\ thread[t].job \in Made /\ thread[t].job \in Jobs
        /\ job[thread[t].job].thread \in Threads
        /\ job[thread[t].job] \in JobRecords /\ job[thread[t].job].status \in Status
        /\ thread[t] \in ThreadRecords
        /\ UNCHANGED <<current, page, handler, cleaners, calls, overlap, crashes>>
  <1>1. thread[t].pc \notin {"unused", "ended"}
    BY DEF ThreadStep, Control, Locked, Worker, Exclusive, LoopHead, SlotBusy, BusyWait, WaitForSlot,
       UpdateProgress, Apply, Settle, Finish, Spawn, ScanSheets, SaveResult, ScanReturns, EnterSlot,
       LeaveSlot, PersistThread
  <1>2. Alive(t)
    BY <1>1, NumbersFacts DEF Alive
  <1>3. thread[t].job \in Made /\ thread[t].job \in Jobs /\ job[thread[t].job].thread # 0
    BY <1>2 DEF Types, ThreadTypes, Made
  <1>. QED
    BY <1>2, <1>3, MadeByStatus DEF Types, ThreadTypes, JobTypes, JobRecords, ThreadStep

LEMMA GoTypes ==
  ASSUME Types, NEW t \in Threads, NEW pc \in Pcs, Go(t, pc)
  PROVE /\ thread'[t] \in ThreadRecords /\ thread' = [thread EXCEPT ![t] = thread'[t]]
        /\ thread'[t].pc = pc
        /\ pc # "ended" => thread'[t].job = thread[t].job /\ thread'[t].member = thread[t].member
                           /\ thread'[t].outcome = thread[t].outcome /\ thread'[t].events = thread[t].events
                           /\ thread'[t].then = "ended"
        /\ thread'[t].revoked = thread[t].revoked /\ thread'[t].cancelled = thread[t].cancelled
  <1>0. thread \in [Threads -> ThreadRecords] /\ thread[t] \in ThreadRecords
    BY DEF Types, ThreadTypes
  <1>1. CASE pc = "ended"
    <2>. DEFINE th == [NoThread EXCEPT !.pc = pc, !.revoked = thread[t].revoked, !.cancelled = thread[t].cancelled]
    <2>1. thread' = [thread EXCEPT ![t] = th]
      BY <1>1, <1>0 DEF Go
    <2>2. th \in ThreadRecords /\ th.pc = pc /\ th.revoked = thread[t].revoked /\ th.cancelled = thread[t].cancelled
      BY <1>0, NumbersFacts DEF ThreadRecords, NoThread, Thens
    <2>. HIDE DEF th
    <2>. QED
      BY <1>0, <1>1, <2>1, <2>2
  <1>2. CASE pc # "ended"
    <2>. DEFINE th == [thread[t] EXCEPT !.pc = pc, !.then = "ended"]
    <2>1. thread' = [thread EXCEPT ![t] = th]
      BY <1>2, <1>0 DEF Go
    <2>2. /\ th \in ThreadRecords /\ th.pc = pc /\ th.revoked = thread[t].revoked /\ th.cancelled = thread[t].cancelled
          /\ th.job = thread[t].job /\ th.member = thread[t].member /\ th.then = "ended"
          /\ th.outcome = thread[t].outcome /\ th.events = thread[t].events
      BY <1>0 DEF ThreadRecords, Thens
    <2>. HIDE DEF th
    <2>. QED
      BY <1>0, <1>2, <2>1, <2>2
  <1>. QED
    BY <1>1, <1>2

LEMMA ThreadStepTypes ==
  ASSUME Types, NEW t \in Threads, ThreadStep(t)
  PROVE /\ Types'
        /\ thread' = [thread EXCEPT ![t] = thread'[t]]
        /\ job' = [job EXCEPT ![thread[t].job] = job'[thread[t].job]]
        /\ job'[thread[t].job].thread = job[thread[t].job].thread
        /\ thread'[t].pc \notin {"unused", "ended"} => thread'[t].job = thread[t].job
        /\ thread'[t].revoked = thread[t].revoked /\ thread'[t].cancelled = thread[t].cancelled
  <1>. USE NumbersFacts, StatusIsMade
  <1>. DEFINE j == thread[t].job
  <1>0. /\ Alive(t) /\ j \in Made /\ j \in Jobs
        /\ job[j].thread \in Threads
        /\ job[j] \in JobRecords /\ job[j].status \in Status
        /\ thread[t] \in ThreadRecords
        /\ UNCHANGED <<current, page, handler, cleaners, calls, overlap, crashes>>
    BY ThreadStepShape
  <1>k. job \in [Jobs -> JobRecords] /\ thread \in [Threads -> ThreadRecords]
    BY DEF Types, JobTypes, ThreadTypes
  (* The thread's own record stays a record, and its job stays. *)
  <1>. DEFINE Good == /\ thread'[t] \in ThreadRecords /\ thread' = [thread EXCEPT ![t] = thread'[t]]
                      /\ thread'[t].pc \notin {"unused", "ended"} => thread'[t].job = j
                      /\ thread'[t].pc = "busy" => thread'[t].events # 0
                      /\ thread'[t].pc # "unused"
                      /\ thread'[t].revoked = thread[t].revoked /\ thread'[t].cancelled = thread[t].cancelled
  <1>1. Good
    <2>g. ASSUME NEW pc \in Pcs \ {"unused", "busy"}, Go(t, pc) PROVE Good
      BY <2>g, GoTypes
    <2>p. ASSUME NEW then \in Thens, GoPersist(t, then) PROVE Good
      BY <2>p, <1>0, <1>k DEF GoPersist, ThreadRecords, Pcs, Thens
    <2>1. ASSUME LoopHead(t) PROVE Good
      BY <2>1, <1>0, <1>k, <2>g DEF LoopHead, ThreadRecords, Pcs, Thens
    <2>2. ASSUME SlotBusy(t) PROVE Good
      BY <2>2, <1>0, <1>k DEF SlotBusy, ThreadRecords, Pcs, Thens
    <2>3. ASSUME BusyWait(t) PROVE Good
      BY <2>3, <1>0, <1>k, <2>g DEF BusyWait, ThreadRecords, Pcs, Thens
    <2>4. ASSUME WaitForSlot(t) PROVE Good
      <3>1. CASE Revoked(j)
        BY <3>1, <2>4, <2>g DEF WaitForSlot, Pcs
      <3>2. CASE ~Revoked(j)
        <4>. DEFINE password == thread[t].member \in job[j].passwords
                    new == [thread[t] EXCEPT !.pc = "persist", !.then = "slot", !.password = password]
        <4>1. thread' = [thread EXCEPT ![t] = new]
          BY <3>2, <2>4, <1>k DEF WaitForSlot
        <4>2. password \in BOOLEAN
          OBVIOUS
        <4>. HIDE DEF password
        <4>3. /\ new \in ThreadRecords /\ new.job = j
              /\ new.revoked = thread[t].revoked /\ new.cancelled = thread[t].cancelled
              /\ new.pc = "persist"
          BY <4>2, <1>0 DEF ThreadRecords, Pcs, Thens
        <4>. HIDE DEF new
        <4>. QED
          BY <4>1, <4>3, <1>k
      <3>. QED
        BY <3>1, <3>2
    <2>5. ASSUME UpdateProgress(t) PROVE Good
      BY <2>5, <1>0, <1>k, <2>p DEF UpdateProgress, ThreadRecords, Pcs, Thens
    <2>6. ASSUME Apply(t) PROVE Good
      <3>1. CASE thread[t].outcome = "missing"
        BY <3>1, <2>6, <2>p DEF Apply, Thens
      <3>2. CASE thread[t].outcome # "missing"
        <4>. DEFINE then == NextMember(t)
                    m == IF thread[t].member + 1 \in Members THEN thread[t].member + 1 ELSE thread[t].member
                    new == [thread[t] EXCEPT !.pc = "persist", !.then = then, !.outcome = "reading", !.member = m]
        <4>1. thread' = [thread EXCEPT ![t] = new]
          BY <3>2, <2>6, <1>k DEF Apply
        <4>2. then \in Thens /\ m \in Members
          BY <1>0 DEF Thens, NextMember, ThreadRecords
        <4>. HIDE DEF then, m
        <4>3. /\ new \in ThreadRecords /\ new.job = j
              /\ new.revoked = thread[t].revoked /\ new.cancelled = thread[t].cancelled
              /\ new.pc = "persist"
          BY <4>2, <1>0 DEF ThreadRecords, Pcs
        <4>. HIDE DEF new
        <4>. QED
          BY <4>1, <4>3, <1>k
      <3>. QED
        BY <3>1, <3>2
    <2>7. ASSUME Settle(t) PROVE Good
      BY <2>7, <1>0, <1>k, <2>g, <2>p DEF Settle, ThreadRecords, Pcs, Thens
    <2>8. ASSUME Finish(t) PROVE Good
      BY <2>8, <1>0, <1>k, <2>g DEF Finish, ThreadRecords, Pcs, Thens
    <2>9. ASSUME Spawn(t) PROVE Good
      BY <2>9, <1>0, <1>k DEF Spawn, ThreadRecords, Pcs, Thens
    <2>10. ASSUME ScanSheets(t) PROVE Good
      BY <2>10, <1>0, <1>k DEF ScanSheets, ThreadRecords, Pcs, Thens
    <2>11. ASSUME SaveResult(t) PROVE Good
      BY <2>11, <1>0, <1>k DEF SaveResult, ThreadRecords, Pcs, Thens
    <2>12. ASSUME ScanReturns(t) PROVE Good
      <3>1. PICK outcome \in {"done", "missing", "failed"} :
              thread' = [thread EXCEPT ![t] = [@ EXCEPT !.pc = "leave", !.outcome = outcome,
                                          !.events = 0, !.password = FALSE]]
        BY <2>12 DEF ScanReturns
      <3>. DEFINE new == [thread[t] EXCEPT !.pc = "leave", !.outcome = outcome, !.events = 0, !.password = FALSE]
      <3>2. /\ new \in ThreadRecords /\ new.job = j
              /\ new.revoked = thread[t].revoked /\ new.cancelled = thread[t].cancelled
              /\ new.pc = "leave"
        BY <1>0 DEF ThreadRecords, Pcs
      <3>3. thread' = [thread EXCEPT ![t] = new]
        BY <3>1, <1>k
      <3>. HIDE DEF new
      <3>. QED
        BY <3>2, <3>3, <1>k
    <2>13. ASSUME EnterSlot(t) PROVE Good
      <3>1. CASE Revoked(j) \/ Cancelled(j)
        <4>. DEFINE new == [thread[t] EXCEPT !.pc = "leave", !.outcome = "failed", !.password = FALSE]
        <4>1. thread' = [thread EXCEPT ![t] = new]
          BY <3>1, <2>13, <1>k DEF EnterSlot, Dispatch
        <4>2. /\ new \in ThreadRecords /\ new.job = j
              /\ new.revoked = thread[t].revoked /\ new.cancelled = thread[t].cancelled
              /\ new.pc = "leave"
          BY <1>0 DEF ThreadRecords, Pcs
        <4>. HIDE DEF new
        <4>. QED
          BY <4>1, <4>2, <1>k
      <3>2. CASE ~(Revoked(j) \/ Cancelled(j))
        BY <3>2, <2>13, <2>p DEF EnterSlot, Dispatch, Thens
      <3>. QED
        BY <3>1, <3>2
    <2>14. ASSUME LeaveSlot(t) PROVE Good
      BY <2>14, <1>0, <1>k, <2>g DEF LeaveSlot, ThreadRecords, Pcs, Thens
    <2>15. ASSUME PersistThread(t) PROVE Good
      BY <2>15, <1>0, <1>k, <2>g DEF PersistThread, ThreadRecords, Pcs, Thens
    <2>. QED
      BY <2>1, <2>2, <2>3, <2>4, <2>5, <2>6, <2>7, <2>8, <2>9, <2>10, <2>11, <2>12, <2>13, <2>14, <2>15 DEF ThreadStep, Control, Locked, Worker, Exclusive
  (* The job's own record stays a record, and its thread stays. *)
  <1>. DEFINE JobGood == /\ job'[j] \in JobRecords /\ job' = [job EXCEPT ![j] = job'[j]]
                         /\ job'[j].thread = job[j].thread /\ job'[j].status \in Status
  <1>2. JobGood
    <2>g. ASSUME NEW new \in JobRecords, new.thread = job[j].thread, new.status \in Status,
                 job' = [job EXCEPT ![j] = new]
          PROVE JobGood
      BY <2>g, <1>0, <1>k
    <2>u. ASSUME UNCHANGED job PROVE JobGood
      BY <2>u, <1>0, <1>k
    <2>1. ASSUME WaitForSlot(t) PROVE JobGood
      BY <2>1, <2>u, <1>0, <1>k DEF WaitForSlot, JobRecords, Status, Active
    <2>2. ASSUME UpdateProgress(t) PROVE JobGood
      BY <2>2, <1>0, <1>k DEF UpdateProgress, JobRecords, Status, Active
    <2>3. ASSUME Apply(t) PROVE JobGood
      <3>m. thread[t].member \in Members
        BY <1>0 DEF ThreadRecords
      <3>1. CASE thread[t].outcome = "missing"
        <4>. DEFINE new == [job[j] EXCEPT !.requires = TRUE, !.passwords = {},
                        !.status = "awaiting_credentials", !.started = FALSE]
        <4>1. job' = [job EXCEPT ![j] = new]
          BY <3>1, <2>3, <1>k DEF Apply
        <4>2. new \in JobRecords /\ new.thread = job[j].thread /\ new.status \in Status
          BY <1>0 DEF JobRecords, Status
        <4>. HIDE DEF new
        <4>. QED
          BY <4>1, <4>2, <2>g
      <3>2. CASE thread[t].outcome # "missing" /\ Counts(thread[t].outcome)
        <4>. DEFINE new == [job[j] EXCEPT !.done = @ \cup {thread[t].member}, !.payloads = TRUE]
        <4>1. job' = [job EXCEPT ![j] = new]
          BY <3>2, <2>3, <1>0, <1>k DEF Apply
        <4>2. new \in JobRecords /\ new.thread = job[j].thread /\ new.status \in Status
          BY <1>0, <3>m DEF JobRecords
        <4>. HIDE DEF new
        <4>. QED
          BY <4>1, <4>2, <2>g
      <3>3. CASE thread[t].outcome # "missing" /\ ~Counts(thread[t].outcome)
        BY <3>3, <2>3, <2>u DEF Apply
      <3>. QED
        BY <3>1, <3>2, <3>3
    <2>4. ASSUME Settle(t) PROVE JobGood
      <3>1. CASE current # j
        BY <3>1, <2>4, <2>u DEF Settle
      <3>2. CASE current = j
        <4>. DEFINE status == FinalStatus(j)
                    payloads == IF Cancelled(j) THEN FALSE ELSE job[j].payloads
                    new == [job[j] EXCEPT !.status = status, !.payloads = payloads, !.started = FALSE]
        <4>1. job' = [job EXCEPT ![j] = new]
          BY <3>2, <2>4, <1>0, <1>k DEF Settle
        <4>2. status \in Status /\ payloads \in BOOLEAN
          BY <1>0 DEF JobRecords, FinalStatus, Status, Active, Terminal
        <4>. HIDE DEF status, payloads
        <4>3. new \in JobRecords /\ new.thread = job[j].thread /\ new.status \in Status
          BY <4>2, <1>0 DEF JobRecords
        <4>. HIDE DEF new
        <4>. QED
          BY <4>1, <4>3, <2>g
      <3>. QED
        BY <3>1, <3>2
    <2>5. ASSUME Finish(t) PROVE JobGood
      BY <2>5, <1>0, <1>k DEF Finish, JobRecords
    <2>6. ASSUME EnterSlot(t) PROVE JobGood
      BY <2>6, <2>u, <1>0, <1>k DEF EnterSlot, JobRecords, Status, Active, Dispatch
    <2>. QED
      BY <1>0, <1>k, <2>1, <2>2, <2>3, <2>4, <2>5, <2>6 DEF ThreadStep, Control, Locked, Worker, Exclusive
  <1>3. job' \in [Jobs -> JobRecords]
        /\ (\A k \in Jobs : job'[k].thread = job[k].thread)
        /\ (\A k \in Jobs : job'[k] = job[k] \/ job'[k].status # "unmade")
    BY <1>0, <1>k, <1>2
  <1>. DEFINE th == thread'[t]
  <1>4. /\ th \in ThreadRecords /\ thread' = [thread EXCEPT ![t] = th]
        /\ th.pc \notin {"unused", "ended"} => Alive(t) /\ th.job = thread[t].job
        /\ th.pc = "busy" => th.events # 0
        /\ th.pc # "unused"
    BY <1>0, <1>1
  <1>10. /\ thread' = [thread EXCEPT ![t] = thread'[t]]
         /\ job' = [job EXCEPT ![thread[t].job] = job'[thread[t].job]]
         /\ job'[thread[t].job].thread = job[thread[t].job].thread
         /\ thread'[t].pc \notin {"unused", "ended"} => thread'[t].job = thread[t].job
         /\ thread'[t].revoked = thread[t].revoked /\ thread'[t].cancelled = thread[t].cancelled
    BY <1>1, <1>2
  <1>. HIDE DEF j, th
  <1>5. JobTypes' /\ ThreadTypes' /\ cleaners' \subseteq Started'
    BY <1>0, <1>3, <1>4, OneThreadTypes
  <1>6. row' = None \/ row' \in [status : Status, requires : BOOLEAN]
    <2>1. row' = row \/ row' = Snapshot(j)
      BY DEF ThreadStep, Control, Locked, Worker, Exclusive, PersistThread, j
    <2>. QED
      BY <2>1, <1>0 DEF Types, RestTypes, Snapshot, JobRecords
  <1>7. writer' \subseteq Threads /\ Cardinality(writer') <= 1
    <2>2. Cardinality({}) = 0 /\ Cardinality({t}) = 1
      BY FS_EmptySet, FS_Singleton
    <2>1. writer' \in {writer, {}, {t}}
      BY DEF ThreadStep, Control, Locked, Worker, Exclusive, PersistThread
    <2>. QED
      BY <2>1, <2>2 DEF Types, RestTypes
  <1>8. sidecar' \subseteq Members
    <2>1. thread[t].member \in Members
      BY <1>0 DEF ThreadRecords
    <2>. QED
      BY <2>1 DEF ThreadStep, Control, Locked, Worker, Exclusive, Spawn, ScanSheets, SaveResult, ScanReturns,
         Types, RestTypes
  <1>9. holder' \in {holder, None} \cup Members
    <2>1. thread[t].member \in Members
      BY <1>0 DEF ThreadRecords
    <2>. QED
      BY <2>1 DEF ThreadStep, Control, Locked, Worker, Exclusive, EnterSlot, LeaveSlot, Slot!TryAcquire, Slot!Release
  <1>. QED
    BY <1>0, <1>5, <1>6, <1>7, <1>8, <1>9, <1>10, SlotTypesKept DEF Types, RestTypes

LEMMA CrashTypes ==
  ASSUME Types, Crash
  PROVE Types' /\ HandlerDiscipline'
  <1>. USE NumbersFacts
  <1>. DEFINE ended == [NoThread EXCEPT !.pc = "ended"]
              stale == [NoJob EXCEPT !.status = "stale"]
  <1>1. ended \in ThreadRecords /\ ended.pc = "ended" /\ NoThread \in ThreadRecords /\ NoThread.pc = "unused"
    BY DEF ThreadRecords, NoThread, Pcs, Thens
  <1>2. stale \in JobRecords /\ stale.status = "stale" /\ NoJob \in JobRecords
    BY DEF JobRecords, NoJob, Status
  <1>3. /\ thread' = [t \in Threads |-> IF t \in Started THEN ended ELSE NoThread]
        /\ job' = [j \in Jobs |-> IF j \in Made THEN stale ELSE NoJob]
        /\ current' = 0 /\ handler' = Idle /\ writer' = {} /\ cleaners' = {}
        /\ page' = [p \in Pages |-> 0]
        /\ UNCHANGED <<row, sidecar, overlap>>
    BY DEF Crash
  <1>4. Idle \in HandlerRecords /\ Idle.job = 0 /\ Idle.step = "idle"
    BY DEF HandlerRecords, Idle
  <1>5. Cardinality({}) = 0
    BY FS_EmptySet
  <1>. HIDE DEF ended, stale
  <1>6. JobTypes' /\ HandlerDiscipline'
    BY <1>2, <1>3, <1>4 DEF JobTypes, HandlerDiscipline
  <1>7. ThreadTypes'
    BY <1>1, <1>3 DEF ThreadTypes, Alive
  <1>8. Slot!SlotTypeOK'
    BY DEF Crash, Slot!SlotLost, Slot!SlotTypeOK, Slot!Names, Types, RestTypes
  <1>. QED
    BY <1>3, <1>5, <1>6, <1>7, <1>8 DEF Types, RestTypes

LEMMA CleanupTypes ==
  ASSUME Types, NEW t \in Threads, CleanupStep(t)
  PROVE Types'
BY DEF CleanupStep, Reclaim, Types, JobTypes, ThreadTypes, RestTypes, Made, Alive, Started,
   Slot!SlotTypeOK, Slot!Names

LEMMA OtherTypes ==
  ASSUME Types, NEW c \in Others, OtherEnters(c) \/ OtherLeaves(c)
  PROVE Types'
  <1>1. UNCHANGED <<job, current, row, thread, page, handler, writer, sidecar, cleaners, overlap, crashes>>
    BY DEF OtherEnters, OtherLeaves
  <1>2. Slot!SlotTypeOK'
    BY DEF OtherEnters, OtherLeaves, Slot!EnterExclusive, Slot!LeaveExclusive, Slot!TryAcquire, Slot!Release,
       Types, RestTypes, Slot!SlotTypeOK, Slot!Names
  <1>. QED
    BY <1>1, <1>2 DEF Types, JobTypes, ThreadTypes, RestTypes, Made, Alive, Started

LEMMA IdleTypes ==
  ASSUME Types, UNCHANGED vars
  PROVE Types'
BY DEF vars, Types, JobTypes, ThreadTypes, RestTypes, Made, Alive, Started, Slot!SlotTypeOK, Slot!Names

(* A start writes its own thread and job only, and leaves a job that runs.   *)
LEMMA StartJobHandler ==
  ASSUME NEW j, NEW made, NEW given, j # 0, StartJob(j, made, given), current' = j
  PROVE HandlerDiscipline'
  <1>1. handler' = Idle \/ handler' = [step |-> "persist", job |-> j, given |-> {}]
    BY DEF StartJob
  <1>. QED
    BY <1>1 DEF HandlerDiscipline, Idle

LEMMA HandlerInduction ==
  ASSUME Types, HandlerDiscipline, [Next]_vars
  PROVE HandlerDiscipline'
  <1>. USE NumbersFacts
  <1>c. current # 0 => current \in Jobs /\ current \in Made
    BY DEF Types, JobTypes, Made
  <1>1. ASSUME NEW p \in Pages, Attach(p) PROVE HandlerDiscipline'
    <2>. DEFINE j == IF current # 0 THEN current ELSE NewJob
    <2>1. j # 0 /\ current' = j
      BY <1>1, <1>c, FreshJob DEF Attach
    <2>2. PICK given \in {{}, Protected} : \E made :
            \/ StartJob(j, made, given)
            \/ UNCHANGED handler
      BY <1>1 DEF Attach
    <2>3. CASE UNCHANGED handler
      BY <2>3, <1>1 DEF Attach, Free, HandlerDiscipline, Idle
    <2>. HIDE DEF j
    <2>. QED
      BY <2>1, <2>2, <2>3, StartJobHandler
  <1>2. ASSUME NEW p \in Pages, Restart(p) PROVE HandlerDiscipline'
    <2>. DEFINE j == NewJob
    <2>1. j # 0 /\ j \in Jobs
      BY <1>2, FreshJob DEF Restart
    <2>2. current' = j /\ \E given \in {{}, Protected} :
             handler' = [step |-> "retry", job |-> j, given |-> given]
      BY <1>2 DEF Restart
    <2>3. job'[j].thread = 0
      BY <1>2, <2>1 DEF Restart, NoJob, Types, JobTypes
    <2>. HIDE DEF j
    <2>. QED
      BY <2>1, <2>2, <2>3 DEF HandlerDiscipline
  <1>3. ASSUME NEW p \in Pages, Cancel(p), UNCHANGED current PROVE HandlerDiscipline'
    BY <1>3 DEF Cancel, CancelJob, HandlerDiscipline
  <1>4. ASSUME NEW p \in Pages, Detach(p), UNCHANGED current PROVE HandlerDiscipline'
    <2>1. handler = Idle /\ \/ handler' = handler
                            \/ current # 0 /\ handler' = [step |-> "persist", job |-> current, given |-> {}]
      BY <1>4 DEF Detach, Free
    <2>. QED
      BY <1>4, <2>1 DEF HandlerDiscipline, Idle
  <1>5. ASSUME Discard PROVE HandlerDiscipline'
    BY <1>5 DEF Discard, HandlerDiscipline
  <1>6. ASSUME EvictTerminal, UNCHANGED handler PROVE HandlerDiscipline'
    BY <1>6 DEF EvictTerminal, HandlerDiscipline, Free, Idle
  <1>7. ASSUME StartRetry, UNCHANGED current PROVE HandlerDiscipline'
    BY <1>7, StartJobHandler DEF StartRetry, HandlerDiscipline
  <1>8. ASSUME PersistHandler, UNCHANGED <<job, current>> PROVE HandlerDiscipline'
    <2>1. CASE handler.step = "retry"
      <3>1. handler \in HandlerRecords
        BY DEF Types, JobTypes
      <3>2. handler' = [handler EXCEPT !.step = "start"]
        BY <1>8, <2>1 DEF PersistHandler
      <3>3. handler'.step = "start" /\ handler'.job = handler.job
        BY <3>1, <3>2 DEF HandlerRecords
      <3>. QED
        BY <1>8, <2>1, <3>3 DEF HandlerDiscipline
    <2>2. CASE handler.step # "retry"
      BY <1>8, <2>2 DEF PersistHandler, HandlerDiscipline, Idle
    <2>. QED
      BY <2>1, <2>2
  <1>9. ASSUME DeleteRows PROVE HandlerDiscipline'
    BY <1>9 DEF DeleteRows, HandlerDiscipline, Idle
  <1>10. ASSUME NEW t \in Threads, ThreadStep(t) PROVE HandlerDiscipline'
    <2>1. handler' = handler /\ current' = current
      BY <1>10 DEF ThreadStep
    <2>2. \A k \in Jobs : job'[k].thread = job[k].thread
      BY <1>10, ThreadStepTypes, ThreadStepShape DEF Types, JobTypes
    <2>. QED
      BY <2>1, <2>2, <1>c DEF HandlerDiscipline
  <1>11. ASSUME UNCHANGED <<job, current, handler>> PROVE HandlerDiscipline'
    BY <1>11 DEF HandlerDiscipline
  <1>12. ASSUME Crash PROVE HandlerDiscipline'
    BY <1>12, CrashTypes
  <1>. QED
    BY <1>1, <1>2, <1>3, <1>4, <1>5, <1>6, <1>7, <1>8, <1>9, <1>10, <1>11, <1>12
       DEF Next, PageStep, HandlerStep, CleanupStep, OtherEnters, OtherLeaves, vars

LEMMA NextTypes ==
  ASSUME Types, HandlerDiscipline, [Next]_vars
  PROVE Types'
BY PageTypes, HandlerTypes, CrashTypes, ThreadStepTypes, CleanupTypes, OtherTypes, IdleTypes DEF Next

(* What every later argument starts from. *)
Base == Types /\ HandlerDiscipline

LEMMA BaseAlways == Spec => []Base
  <1>1. Init => Base
    BY InitTypes DEF Base, Init, HandlerDiscipline, Idle
  <1>2. Base /\ [Next]_vars => Base'
    BY NextTypes, HandlerInduction DEF Base
  <1>. QED
    BY <1>1, <1>2, PTL DEF Spec

(* The setup coordinator's state stays well-formed: a live scan thread has a *)
(* job that was started, and every handle a page or a handler keeps is of a  *)
(* job that was made (coordinator.py).                                       *)
THEOREM SetupTypes == Spec => []TypeOK
  <1>1. Base => TypeOK
    BY MadeByStatus DEF Base, Types, JobTypes, ThreadTypes, RestTypes, TypeOK, JobRecords, ThreadRecords
  <1>. QED
    BY <1>1, BaseAlways, PTL

-----------------------------------------------------------------------------
(* Cancelling, and the passwords. *)

(* The passwords of a job go when it is cancelled, and a job that is         *)
(* cancelled and current gets none again, nor a status of success.           *)
CancelDiscipline ==
  /\ current # 0 /\ Cancelled(current) => job[current].status # "complete" /\ job[current].passwords = {}
  /\ \A j \in Jobs : job[j].status \in {"awaiting_credentials", "cancelling", "cancelled"} => job[j].passwords = {}

(* A start gives the job a thread, and events of its own. *)
LEMMA StartJobCancel ==
  ASSUME Types, NEW j \in Jobs, NEW made \in JobRecords, NEW given \in SUBSET Members,
         made.status # "unmade", StartJob(j, made, given), current' = j,
         made.thread # 0 /\ thread[made.thread].cancelled => made.status # "complete" /\ made.passwords = {},
         made.status \in {"awaiting_credentials", "cancelling", "cancelled"} => made.passwords = {},
         \A k \in Jobs : job[k].status \in {"awaiting_credentials", "cancelling", "cancelled"} => job[k].passwords = {}
  PROVE CancelDiscipline'
  <1>1. CASE NothingToStart(made)
    <2>1. job' = [job EXCEPT ![j] = made] /\ thread' = thread
      BY <1>1 DEF StartJob
    <2>. QED
      BY <2>1 DEF CancelDiscipline, Cancelled, Types, JobTypes
  <1>2. CASE ~NothingToStart(made)
    <2>. DEFINE t == NewThread
         new == [made EXCEPT !.thread = t, !.passwords = given,
                   !.requires = given # {}, !.done = {}, !.payloads = TRUE,
                   !.status = "waiting_for_slot", !.started = TRUE, !.finished = FALSE]
         th == [NoThread EXCEPT !.pc = "next", !.job = j]
    <2>1. /\ Threads # Started /\ job' = [job EXCEPT ![j] = new]
          /\ thread' = [thread EXCEPT ![t] = th]
      BY <1>2 DEF StartJob
    <2>2. t \in Threads
      BY <2>1, FreshThread
    <2>3. new.status = "waiting_for_slot" /\ new.thread = t
      BY DEF JobRecords
    <2>4. ~th.cancelled
      BY DEF NoThread
    <2>. HIDE DEF t, new, th
    <2>. QED
      BY <2>1, <2>2, <2>3, <2>4 DEF CancelDiscipline, Cancelled, Types, JobTypes, ThreadTypes
  <1>. QED
    BY <1>1, <1>2

LEMMA CancelInduction ==
  ASSUME Base, CancelDiscipline, [Next]_vars
  PROVE CancelDiscipline'
  <1>. USE NumbersFacts DEF Base
  <1>c. current # 0 => current \in Jobs /\ current \in Made /\ job[current] \in JobRecords
    BY DEF Types, JobTypes, Made
  <1>k. job \in [Jobs -> JobRecords] /\ thread \in [Threads -> ThreadRecords]
    BY DEF Types, JobTypes, ThreadTypes
  <1>1. ASSUME NEW p \in Pages, Attach(p) PROVE CancelDiscipline'
    <2>. DEFINE j == IF current # 0 THEN current ELSE NewJob
                base == IF current # 0 THEN job[j] ELSE Restored
                made == [base EXCEPT !.subscribers = @ \cup {p}]
    <2>1. PICK given \in {{}, Protected} :
          /\ current' = j
          /\ IF StartsByItself(made, given) THEN StartJob(j, made, given)
             ELSE job' = [job EXCEPT ![j] = made] /\ UNCHANGED <<handler, thread, overlap>>
      BY <1>1 DEF Attach
    <2>2. j \in Jobs /\ base \in JobRecords /\ base.status # "unmade"
      <3>1. CASE current # 0
        BY <3>1, <1>c, MadeByStatus DEF Types
      <3>2. CASE current = 0
        <4>1. j \in Jobs
          BY <3>2, <1>1, FreshJob DEF Attach
        <4>2. base = Restored
          BY <3>2
        <4>. HIDE DEF j, base
        <4>. QED
          BY <4>1, <4>2, RestoredJob, StatusIsMade
      <3>. QED
        BY <3>1, <3>2
    <2>3. base.thread # 0 => current # 0 /\ base = job[current] /\ base.thread = job[current].thread
      BY RestoredJob
    <2>4. /\ made \in JobRecords /\ made.status = base.status /\ made.thread = base.thread
          /\ made.passwords = base.passwords
      BY <2>2 DEF JobRecords
    <2>5. made.thread # 0 /\ thread[made.thread].cancelled => made.status # "complete" /\ made.passwords = {}
      BY <2>3, <2>4 DEF CancelDiscipline, Cancelled
    <2>6. made.status \in {"awaiting_credentials", "cancelling", "cancelled"} => made.passwords = {}
      BY <2>4, <2>2, RestoredJob DEF CancelDiscipline
    <2>7. given \in SUBSET Members
      OBVIOUS
    <2>. HIDE DEF j, base, made
    <2>8. CASE StartsByItself(made, given)
      BY <2>1, <2>2, <2>4, <2>5, <2>6, <2>7, <2>8, StartJobCancel DEF CancelDiscipline
    <2>9. CASE ~StartsByItself(made, given)
      BY <2>1, <2>2, <2>5, <2>6, <2>9, <1>k DEF CancelDiscipline, Cancelled
    <2>. QED
      BY <2>8, <2>9
  <1>2. ASSUME NEW p \in Pages, Restart(p) PROVE CancelDiscipline'
    <2>. DEFINE j == NewJob
    <2>1. j \in Jobs /\ current' = j
      BY <1>2, FreshJob DEF Restart
    <2>. DEFINE new == [NoJob EXCEPT !.status = "awaiting_inputs",
              !.subscribers = IF current = 0 THEN {} ELSE job[current].subscribers]
    <2>2. job' = [job EXCEPT ![j] = new] /\ new.status = "awaiting_inputs" /\ new.thread = 0
      BY <1>2 DEF Restart, NoJob
    <2>. HIDE DEF j, new
    <2>. QED
      BY <1>k, <2>1, <2>2 DEF CancelDiscipline, Cancelled
  <1>3. ASSUME NEW p \in Pages, Cancel(p), UNCHANGED current PROVE CancelDiscipline'
    <2>1. current \in Jobs /\ job'[current].passwords = {} /\ job'[current].status \in {"cancelling", "cancelled"}
          /\ \A k \in Jobs \ {current} : job'[k] = job[k]
      BY <1>3, <1>c, <1>k DEF Cancel, CancelJob, JobRecords
    <2>. QED
      BY <1>3, <2>1 DEF CancelDiscipline
  <1>4. ASSUME NEW p \in Pages, Detach(p), UNCHANGED current PROVE CancelDiscipline'
    <2>1. CASE current = 0
      BY <1>4, <2>1 DEF Detach, CancelDiscipline
    <2>2. CASE current # 0 /\ Demotes(current, p)
      <3>1. job'[current].passwords = {} /\ job'[current].status = "awaiting_credentials"
            /\ \A k \in Jobs \ {current} : job'[k] = job[k]
        <4>1. job' = [job EXCEPT ![current] = Demoted(@)]
          BY <1>4, <2>2 DEF Detach
        <4>2. Demoted(job[current]).passwords = {} /\ Demoted(job[current]).status = "awaiting_credentials"
          BY <2>2, <1>c DEF Demoted, JobRecords
        <4>. QED
          BY <4>1, <4>2, <2>2, <1>c, <1>k
      <3>. QED
        BY <1>4, <2>2, <1>c, <3>1 DEF CancelDiscipline
    <2>3. CASE current # 0 /\ ~Demotes(current, p)
      <3>1. /\ thread' = thread
            /\ \A k \in Jobs : job'[k].passwords = job[k].passwords /\ job'[k].status = job[k].status
                               /\ job'[k].thread = job[k].thread
        BY <1>4, <2>3, <1>c, <1>k DEF Detach, JobRecords
      <3>. QED
        BY <1>4, <2>3, <1>c, <3>1 DEF CancelDiscipline, Cancelled
    <2>. QED
      BY <2>1, <2>2, <2>3
  <1>5. ASSUME Discard PROVE CancelDiscipline'
    <2>1. /\ current' = 0
          /\ \A k \in Jobs : job'[k].status = job[k].status
                             /\ (job'[k].passwords = job[k].passwords \/ job'[k].passwords = {})
      BY <1>5, <1>c, <1>k DEF Discard, JobRecords
    <2>. QED
      BY <2>1 DEF CancelDiscipline
  <1>6. ASSUME EvictTerminal, UNCHANGED job PROVE CancelDiscipline'
    BY <1>6 DEF EvictTerminal, CancelDiscipline
  <1>7. ASSUME StartRetry, UNCHANGED current PROVE CancelDiscipline'
    <2>. DEFINE j == handler.job
                made == job[j]
                given == handler.given
    <2>1. StartJob(j, made, given)
      BY <1>7 DEF StartRetry
    <2>2. j = current /\ current # 0 /\ j \in Jobs /\ made \in JobRecords /\ made.status # "unmade" /\ made.thread = 0
      <3>1. j = current /\ current # 0 /\ job[current].thread = 0
        BY <1>7 DEF StartRetry, HandlerDiscipline
      <3>2. job[current].status # "unmade"
        BY <3>1, <1>c, MadeByStatus DEF Types
      <3>. QED
        BY <1>c, <3>1, <3>2
    <2>3. given \in SUBSET Members
      BY DEF Types, JobTypes, HandlerRecords
    <2>4. made.status \in {"awaiting_credentials", "cancelling", "cancelled"} => made.passwords = {}
      BY <2>2 DEF CancelDiscipline
    <2>. HIDE DEF j, made, given
    <2>. QED
      BY <1>7, <2>1, <2>2, <2>3, <2>4, StartJobCancel DEF CancelDiscipline
  <1>8. ASSUME NEW t \in Threads, ThreadStep(t) PROVE CancelDiscipline'
    <2>. DEFINE j == thread[t].job
    <2>0. /\ j \in Jobs /\ job[j] \in JobRecords /\ current' = current
          /\ thread' = [thread EXCEPT ![t] = thread'[t]]
          /\ job' = [job EXCEPT ![j] = job'[j]]
          /\ job'[j].thread = job[j].thread
          /\ thread'[t].cancelled = thread[t].cancelled
      BY <1>8, ThreadStepShape, ThreadStepTypes
    <2>1. \A k \in Jobs : job[k].thread \in Threads \cup {0} /\ job'[k].thread = job[k].thread
      BY <1>k, <2>0 DEF JobRecords
    <2>2. \A u \in Threads : thread'[u].cancelled = thread[u].cancelled
      BY <1>k, <2>0
    <2>3. \A k \in Jobs : Cancelled(k)' = Cancelled(k)
      BY <2>1, <2>2 DEF Cancelled
    <2>. DEFINE Good == /\ current = j /\ Cancelled(j) => job'[j].status # "complete" /\ job'[j].passwords = {}
                        /\ job'[j].status \in {"awaiting_credentials", "cancelling", "cancelled"} => job'[j].passwords = {}
    <2>4. Good
      <3>u. ASSUME UNCHANGED job PROVE Good
        BY <3>u, <2>0 DEF CancelDiscipline
      <3>1. ASSUME WaitForSlot(t) PROVE Good
        BY <3>1, <3>u, <2>0, <1>k DEF WaitForSlot, JobRecords, CancelDiscipline
      <3>2. ASSUME UpdateProgress(t) PROVE Good
        BY <3>2, <2>0, <1>k DEF UpdateProgress, JobRecords, CancelDiscipline
      <3>3. ASSUME Apply(t) PROVE Good
        <4>1. CASE thread[t].outcome = "missing"
          <5>1. job'[j].passwords = {} /\ job'[j].status = "awaiting_credentials"
            <6>. DEFINE new == [job[j] EXCEPT !.requires = TRUE, !.passwords = {},
                                  !.status = "awaiting_credentials", !.started = FALSE]
            <6>1. job' = [job EXCEPT ![j] = new]
              BY <4>1, <3>3, <1>k DEF Apply
            <6>2. new.passwords = {} /\ new.status = "awaiting_credentials"
              BY <2>0 DEF JobRecords
            <6>. HIDE DEF new
            <6>. QED
              BY <6>1, <6>2, <2>0, <1>k
          <5>. QED
            BY <5>1
        <4>2. CASE thread[t].outcome # "missing"
          <5>1. job'[j].passwords = job[j].passwords /\ job'[j].status = job[j].status
            BY <4>2, <3>3, <2>0, <1>k DEF Apply, JobRecords
          <5>. QED
            BY <5>1, <2>0 DEF CancelDiscipline
        <4>. QED
          BY <4>1, <4>2
      <3>4. ASSUME Settle(t) PROVE Good
        BY <3>4, <3>u, <2>0, <1>k DEF Settle, FinalStatus, JobRecords, CancelDiscipline
      <3>5. ASSUME Finish(t) PROVE Good
        BY <3>5, <2>0, <1>k DEF Finish, JobRecords, CancelDiscipline
      <3>6. ASSUME EnterSlot(t) PROVE Good
        BY <3>6, <3>u, <2>0, <1>k DEF EnterSlot, Dispatch, JobRecords, CancelDiscipline
      <3>. QED
        BY <1>8, <3>u, <3>1, <3>2, <3>3, <3>4, <3>5, <3>6 DEF ThreadStep, Control, Locked, Worker, Exclusive
    <2>5. \A k \in Jobs \ {j} : job'[k] = job[k]
      BY <2>0, <1>k
    <2>. QED
      BY <1>c, <2>0, <2>3, <2>4, <2>5 DEF CancelDiscipline
  <1>9. ASSUME UNCHANGED <<job, current, thread>> PROVE CancelDiscipline'
    BY <1>9 DEF CancelDiscipline, Cancelled
  <1>10. ASSUME Crash PROVE CancelDiscipline'
    BY <1>10 DEF Crash, CancelDiscipline, NoJob
  <1>. QED
    BY <1>1, <1>2, <1>3, <1>4, <1>5, <1>6, <1>7, <1>8, <1>9, <1>10
       DEF Next, PageStep, HandlerStep, CleanupStep, OtherEnters, OtherLeaves, PersistHandler, DeleteRows, vars

LEMMA CancelAlways == Spec => []CancelDiscipline
  <1>1. Init => CancelDiscipline
    BY DEF Init, CancelDiscipline, NoJob
  <1>. QED
    BY <1>1, BaseAlways, CancelInduction, PTL DEF Spec

(* A setup scan that was cancelled never becomes complete, whenever its      *)
(* worker answers and whatever else runs (cancel, _run_job).                 *)
THEOREM CancelIsFinal == Spec => []CancelWins
  <1>1. CancelDiscipline => CancelWins
    BY DEF CancelDiscipline, CancelWins
  <1>. QED
    BY <1>1, CancelAlways, PTL

(* A setup job that waits for passwords or was cancelled holds none, also a  *)
(* job that only an old page or a late thread still refers to (detach,       *)
(* cancel, discard, _run_job).                                               *)
THEOREM PasswordsDropped == Spec => []PasswordsGone
  <1>1. CancelDiscipline => PasswordsGone
    BY DEF CancelDiscipline, PasswordsGone, Held, Made
  <1>. QED
    BY <1>1, CancelAlways, PTL

-----------------------------------------------------------------------------
(* The row of the current job. *)

(* What a page that opens attaches to, and what it does with it. *)
LEMMA AttachShape ==
  ASSUME Types, NEW p \in Pages, Attach(p)
  PROVE \E j \in Jobs, base \in JobRecords, made \in JobRecords, given \in SUBSET Members :
          /\ current' = j
          /\ current # 0 => j = current /\ base = job[current]
          /\ current = 0 => j \notin Made /\ job[j] = NoJob /\ base = Restored
          /\ base.status # "unmade" /\ made.status = base.status /\ made.requires = base.requires
          /\ made.thread = base.thread /\ made.done = base.done /\ made.finished = base.finished
          /\ made.started = base.started
          /\ made.passwords = base.passwords
          /\ \/ StartsByItself(made, given) /\ StartJob(j, made, given)
             \/ /\ ~StartsByItself(made, given)
                /\ job' = [job EXCEPT ![j] = made] /\ UNCHANGED <<handler, thread, overlap>>
  <1>. DEFINE j == IF current # 0 THEN current ELSE NewJob
              base == IF current # 0 THEN job[j] ELSE Restored
              made == [base EXCEPT !.subscribers = @ \cup {p}]
  <1>1. PICK given \in {{}, Protected} :
          /\ current' = j
          /\ IF StartsByItself(made, given) THEN StartJob(j, made, given)
             ELSE job' = [job EXCEPT ![j] = made] /\ UNCHANGED <<handler, thread, overlap>>
    BY DEF Attach
  <1>2. /\ j \in Jobs /\ base \in JobRecords /\ base.status # "unmade"
        /\ current # 0 => j = current /\ base = job[current]
        /\ current = 0 => j \notin Made /\ job[j] = NoJob /\ base = Restored
    <2>1. CASE current # 0
      <3>1. current \in Made
        BY <2>1 DEF Types, JobTypes
      <3>. QED
        BY <2>1, <3>1, MadeByStatus DEF Types, JobTypes
    <2>2. CASE current = 0
      <3>1. NewJob \in Jobs /\ NewJob \notin Made
        BY <2>2, FreshJob DEF Attach
      <3>2. job[NewJob] = NoJob
        BY <3>1 DEF Made
      <3>3. j = NewJob /\ base = Restored
        BY <2>2
      <3>. HIDE DEF j, base
      <3>. QED
        BY <2>2, <3>1, <3>2, <3>3, RestoredJob, StatusIsMade
    <2>. QED
      BY <2>1, <2>2
  <1>3. /\ made \in JobRecords /\ made.status = base.status /\ made.requires = base.requires
        /\ made.thread = base.thread /\ made.done = base.done /\ made.finished = base.finished
        /\ made.started = base.started /\ made.passwords = base.passwords
    BY <1>2 DEF JobRecords
  <1>4. given \in SUBSET Members
    BY NumbersFacts
  <1>. HIDE DEF j, base, made
  <1>. QED
    BY <1>1, <1>2, <1>3, <1>4

(* start does nothing, or leaves a job that a thread runs and whose row is   *)
(* about to be written.                                                      *)
LEMMA StartJobEither ==
  ASSUME Types, NEW j \in Jobs, NEW made \in JobRecords, NEW given \in SUBSET Members,
         StartJob(j, made, given)
  PROVE \/ /\ NothingToStart(made) /\ handler' = Idle /\ UNCHANGED <<thread, overlap>>
           /\ job' = [job EXCEPT ![j] = made]
        \/ /\ ~NothingToStart(made) /\ handler'.step = "persist" /\ handler'.job = j
           /\ \E t \in Threads \ Started :
                /\ thread' = [thread EXCEPT ![t] = [NoThread EXCEPT !.pc = "next", !.job = j]]
                /\ job'[j].thread = t /\ job'[j].status = "waiting_for_slot" /\ job'[j].done = {}
                /\ \A k \in Jobs \ {j} : job'[k] = job[k]
                /\ overlap' = IF \E u \in Threads : Alive(u) THEN overlap \cup {"threads"} ELSE overlap
  <1>1. CASE NothingToStart(made)
    BY <1>1 DEF StartJob
  <1>2. CASE ~NothingToStart(made)
    <2>. DEFINE t == NewThread
         new == [made EXCEPT !.thread = t, !.passwords = given,
                   !.requires = given # {}, !.done = {}, !.payloads = TRUE,
                   !.status = "waiting_for_slot", !.started = TRUE, !.finished = FALSE]
    <2>1. /\ Threads # Started /\ job' = [job EXCEPT ![j] = new]
          /\ thread' = [thread EXCEPT ![t] = [NoThread EXCEPT !.pc = "next", !.job = j]]
          /\ overlap' = IF \E u \in Threads : Alive(u) THEN overlap \cup {"threads"} ELSE overlap
          /\ handler' = [step |-> "persist", job |-> j, given |-> {}]
      BY <1>2 DEF StartJob
    <2>2. t \in Threads \ Started
      BY <2>1, FreshThread
    <2>3. new.status = "waiting_for_slot" /\ new.thread = t /\ new.done = {}
      BY DEF JobRecords
    <2>. HIDE DEF t, new
    <2>. QED
      BY <1>2, <2>1, <2>2, <2>3 DEF Types, JobTypes
  <1>. QED
    BY <1>1, <1>2

(* A writer's job was the current one when it looked.  It still is, unless   *)
(* nothing is current, or the current job has no row of its own to lose, or  *)
(* a handler will write the row once more.                                   *)
WriterDiscipline ==
  \A t \in writer :
    /\ thread[t].pc = "persist"
    /\ \/ thread[t].job = current \/ current = 0
       \/ job[current].thread = 0 \/ handler.step = "persist"

(* The row is the current job's, or somebody is about to write it. *)
RowDiscipline ==
  current # 0 /\ job[current].thread # 0 =>
    \/ row = Snapshot(current) \/ handler.step = "persist"
    \/ \E t \in Threads : thread[t].pc = "persist" /\ thread[t].job = current

RowInv == WriterDiscipline /\ RowDiscipline

(* Steps that leave the threads' places, the writer and the current job's    *)
(* row and thread alone.                                                     *)
LEMMA RowKept ==
  ASSUME RowInv, UNCHANGED <<row, writer, current>>, handler.step # "persist" \/ handler'.step = "persist",
         \A t \in Threads : thread'[t].pc = thread[t].pc /\ thread'[t].job = thread[t].job,
         current # 0 => /\ job'[current].thread = job[current].thread
                        /\ job'[current].status = job[current].status
                        /\ job'[current].requires = job[current].requires,
         writer \subseteq Threads
  PROVE RowInv'
BY DEF RowInv, WriterDiscipline, RowDiscipline, Snapshot

(* Steps after which a handler writes the row, or nobody's row is current.   *)
LEMMA RowFresh ==
  ASSUME RowInv, UNCHANGED writer, writer \subseteq Threads,
         \A t \in writer : thread'[t].pc = thread[t].pc,
         current' = 0 \/ job'[current'].thread = 0 \/ handler'.step = "persist"
  PROVE RowInv'
BY DEF RowInv, WriterDiscipline, RowDiscipline

LEMMA RowInduction ==
  ASSUME Base, RowInv, [Next]_vars
  PROVE RowInv'
  <1>. USE NumbersFacts DEF Base
  <1>c. current # 0 => current \in Jobs /\ current \in Made /\ job[current] \in JobRecords
    BY DEF Types, JobTypes, Made
  <1>k. job \in [Jobs -> JobRecords] /\ thread \in [Threads -> ThreadRecords] /\ writer \subseteq Threads
    BY DEF Types, JobTypes, ThreadTypes, RestTypes
  <1>w. \A t \in writer : t \in Started
    BY <1>k DEF RowInv, WriterDiscipline, Started
  <1>1. ASSUME NEW p \in Pages, Attach(p), UNCHANGED <<row, writer>> PROVE RowInv'
    <2>1. PICK j \in Jobs, base \in JobRecords, made \in JobRecords, given \in SUBSET Members :
          /\ current' = j
          /\ current # 0 => j = current /\ base = job[current]
          /\ current = 0 => j \notin Made /\ job[j] = NoJob /\ base = Restored
          /\ base.status # "unmade" /\ made.status = base.status /\ made.requires = base.requires
          /\ made.thread = base.thread
          /\ \/ StartsByItself(made, given) /\ StartJob(j, made, given)
             \/ /\ ~StartsByItself(made, given)
                /\ job' = [job EXCEPT ![j] = made] /\ UNCHANGED <<handler, thread, overlap>>
      BY <1>1, AttachShape
    <2>2. handler = Idle /\ Idle.step = "idle"
      BY <1>1 DEF Attach, Free, Idle
    <2>3. CASE job' = [job EXCEPT ![j] = made] /\ thread' = thread
      <3>1. job'[j] = made
        BY <2>3, <1>k
      <3>2. CASE current # 0
        <4>1. /\ job'[current].thread = job[current].thread
              /\ job'[current].status = job[current].status
              /\ job'[current].requires = job[current].requires
          BY <2>1, <3>1, <3>2
        <4>2. current' = current
          BY <2>1, <3>2
        <4>. QED
          BY <1>1, <2>2, <2>3, <4>1, <4>2, <1>k, RowKept
      <3>3. CASE current = 0
        <4>1. job'[current'].thread = 0
          BY <2>1, <3>1, <3>3, RestoredJob
        <4>. QED
          BY <1>1, <2>3, <4>1, <1>k, RowFresh
      <3>. QED
        BY <3>2, <3>3
    <2>4. CASE handler'.step = "persist" /\ \E t \in Threads \ Started :
                thread' = [thread EXCEPT ![t] = [NoThread EXCEPT !.pc = "next", !.job = j]]
      <3>1. \A t \in writer : thread'[t].pc = thread[t].pc
        BY <2>4, <1>w, <1>k
      <3>. QED
        BY <1>1, <2>4, <3>1, <1>k, RowFresh
    <2>. QED
      BY <2>1, <2>3, <2>4, StartJobEither
  <1>2. ASSUME NEW p \in Pages, Restart(p), UNCHANGED <<row, writer>> PROVE RowInv'
    <2>1. current' \in Jobs /\ job'[current'].thread = 0
      <3>1. NewJob \in Jobs
        BY <1>2, FreshJob DEF Restart
      <3>. DEFINE new == [NoJob EXCEPT !.status = "awaiting_inputs",
              !.subscribers = IF current = 0 THEN {} ELSE job[current].subscribers]
      <3>2. job' = [job EXCEPT ![NewJob] = new] /\ new.thread = 0 /\ current' = NewJob
        BY <1>2 DEF Restart, NoJob
      <3>. HIDE DEF new
      <3>. QED
        BY <3>1, <3>2, <1>k
    <2>2. \A t \in Threads : thread'[t].pc = thread[t].pc
      BY <1>2, <1>c, SignalTypes DEF Restart
    <2>. QED
      BY <1>2, <2>1, <2>2, <1>k, RowFresh
  <1>3. ASSUME NEW p \in Pages, Cancel(p), UNCHANGED <<row, writer, current>> PROVE RowInv'
    <2>1. current # 0 /\ thread' = Signal(current, TRUE, TRUE) /\ handler'.step = "persist"
      BY <1>3 DEF Cancel, CancelJob
    <2>2. \A t \in Threads : thread'[t].pc = thread[t].pc
      BY <2>1, <1>c, SignalTypes
    <2>. QED
      BY <1>3, <2>1, <2>2, <1>k, RowFresh
  <1>4. ASSUME NEW p \in Pages, Detach(p), UNCHANGED <<row, writer, current>> PROVE RowInv'
    <2>1. CASE current = 0
      BY <1>4, <2>1, <1>k, RowFresh DEF Detach
    <2>2. CASE current # 0 /\ Demotes(current, p)
      <3>1. thread' = Signal(current, TRUE, FALSE) /\ handler'.step = "persist"
        BY <1>4, <2>2 DEF Detach
      <3>2. \A t \in Threads : thread'[t].pc = thread[t].pc
        BY <2>2, <3>1, <1>c, SignalTypes
      <3>. QED
        BY <1>4, <3>1, <3>2, <1>k, RowFresh
    <2>3. CASE current # 0 /\ ~Demotes(current, p)
      <3>1. job' = [job EXCEPT ![current].subscribers = @ \ {p}] /\ UNCHANGED <<thread, handler>>
        BY <1>4, <2>3 DEF Detach
      <3>2. /\ job'[current].thread = job[current].thread
            /\ job'[current].status = job[current].status
            /\ job'[current].requires = job[current].requires
        BY <2>3, <3>1, <1>c, <1>k DEF JobRecords
      <3>. QED
        BY <1>4, <3>1, <3>2, <1>k, RowKept
    <2>. QED
      BY <2>1, <2>2, <2>3
  <1>5. ASSUME Discard, UNCHANGED <<row, writer>> PROVE RowInv'
    <2>1. \A t \in Threads : thread'[t].pc = thread[t].pc
      BY <1>5, <1>c, SignalTypes DEF Discard
    <2>. QED
      BY <1>5, <2>1, <1>k, RowFresh DEF Discard
  <1>6. ASSUME EvictTerminal, UNCHANGED <<row, writer, thread>> PROVE RowInv'
    BY <1>6, <1>k, RowFresh DEF EvictTerminal
  <1>7. ASSUME StartRetry, UNCHANGED <<row, writer, current>> PROVE RowInv'
    <2>. DEFINE j == handler.job
                made == job[j]
                given == handler.given
    <2>1. StartJob(j, made, given)
      BY <1>7 DEF StartRetry
    <2>2. j = current /\ current # 0 /\ j \in Jobs /\ made \in JobRecords /\ made.thread = 0
      BY <1>7, <1>c DEF StartRetry, HandlerDiscipline
    <2>3. given \in SUBSET Members
      BY DEF Types, JobTypes, HandlerRecords
    <2>. HIDE DEF j, made, given
    <2>4. CASE job' = [job EXCEPT ![j] = made] /\ thread' = thread
      <3>1. job'[current'].thread = 0
        BY <1>7, <2>2, <2>4, <1>k
      <3>. QED
        BY <1>7, <2>4, <3>1, <1>k, RowFresh
    <2>5. CASE handler'.step = "persist" /\ \E t \in Threads \ Started :
                thread' = [thread EXCEPT ![t] = [NoThread EXCEPT !.pc = "next", !.job = j]]
      <3>1. \A t \in writer : thread'[t].pc = thread[t].pc
        BY <2>5, <1>w, <1>k
      <3>. QED
        BY <1>7, <2>5, <3>1, <1>k, RowFresh
    <2>. QED
      BY <2>1, <2>2, <2>3, <2>4, <2>5, StartJobEither
  <1>8. ASSUME PersistHandler, UNCHANGED <<job, thread, current, writer>> PROVE RowInv'
    <2>1. handler.job = current /\ row' = Snapshot(current) /\ writer = {}
      BY <1>8 DEF PersistHandler, HandlerDiscipline
    <2>. QED
      BY <1>8, <2>1 DEF RowInv, WriterDiscipline, RowDiscipline, Snapshot
  <1>9. ASSUME DeleteRows, UNCHANGED <<thread, current, writer>> PROVE RowInv'
    <2>1. current = 0
      BY <1>9 DEF DeleteRows, HandlerDiscipline
    <2>. QED
      BY <1>9, <2>1, <1>k, RowFresh
  <1>10. ASSUME NEW t \in Threads, ThreadStep(t) PROVE RowInv'
    <2>. DEFINE j == thread[t].job
    <2>0. /\ j \in Jobs /\ job[j] \in JobRecords /\ UNCHANGED <<current, handler>>
          /\ thread' = [thread EXCEPT ![t] = thread'[t]]
          /\ job' = [job EXCEPT ![j] = job'[j]]
          /\ job'[j].thread = job[j].thread
          /\ thread'[t].pc \notin {"unused", "ended"} => thread'[t].job = j
      BY <1>10, ThreadStepShape, ThreadStepTypes
    <2>1. /\ \A k \in Jobs : job'[k].thread = job[k].thread
          /\ \A k \in Jobs \ {j} : job'[k] = job[k]
          /\ \A u \in Threads \ {t} : thread'[u] = thread[u]
      BY <1>k, <2>0
    (* The row of the job is out of date only while the thread writes it. *)
    <2>. DEFINE Same == job'[j].status = job[j].status /\ job'[j].requires = job[j].requires
                Good == Same \/ thread'[t].pc = "persist"
    <2>2. Good
      <3>g. ASSUME NEW then \in Thens, GoPersist(t, then) PROVE thread'[t].pc = "persist"
        BY <3>g, <1>k DEF GoPersist, ThreadRecords
      <3>1. ASSUME WaitForSlot(t) PROVE Good
        <4>1. CASE Revoked(j)
          BY <3>1, <4>1 DEF WaitForSlot
        <4>2. CASE ~Revoked(j)
          <5>. DEFINE password == thread[t].member \in job[j].passwords
                      new == [thread[t] EXCEPT !.pc = "persist", !.then = "slot", !.password = password]
          <5>1. thread' = [thread EXCEPT ![t] = new]
            BY <3>1, <4>2, <1>k DEF WaitForSlot
          <5>2. new.pc = "persist"
            BY <1>k DEF ThreadRecords
          <5>. HIDE DEF new
          <5>. QED
            BY <5>1, <5>2, <1>k
        <4>. QED
          BY <4>1, <4>2
      <3>2. ASSUME UpdateProgress(t) PROVE Good
        BY <3>2, <3>g DEF UpdateProgress, Thens
      <3>3. ASSUME Apply(t) PROVE Good
        <4>1. CASE thread[t].outcome = "missing"
          BY <3>3, <3>g, <4>1 DEF Apply, Thens
        <4>2. CASE thread[t].outcome # "missing"
          <5>. DEFINE m == IF thread[t].member + 1 \in Members THEN thread[t].member + 1 ELSE thread[t].member
                      then == NextMember(t)
                      new == [thread[t] EXCEPT !.pc = "persist", !.then = then, !.outcome = "reading", !.member = m]
          <5>1. thread' = [thread EXCEPT ![t] = new]
            BY <3>3, <4>2, <1>k DEF Apply
          <5>. HIDE DEF m, then
          <5>2. new.pc = "persist"
            BY <1>k DEF ThreadRecords
          <5>. HIDE DEF new
          <5>. QED
            BY <5>1, <5>2, <1>k
        <4>. QED
          BY <4>1, <4>2
      <3>4. ASSUME Settle(t) PROVE Good
        BY <3>4, <3>g DEF Settle, Thens
      <3>5. ASSUME Finish(t) PROVE Good
        BY <3>5, <2>0, <1>k DEF Finish, JobRecords
      <3>6. ASSUME EnterSlot(t) PROVE Good
        BY <3>6, <3>g DEF EnterSlot, Dispatch, Thens
      <3>. QED
        BY <1>10, <3>1, <3>2, <3>3, <3>4, <3>5, <3>6 DEF ThreadStep, Control, Locked, Worker, Exclusive
    <2>3. CASE ~PersistThread(t)
      <3>1. UNCHANGED <<row, writer>>
        BY <1>10, <2>3 DEF ThreadStep, Control, Locked, Worker, Exclusive
      <3>2. thread[t].pc # "persist"
        BY <1>10, <2>3 DEF ThreadStep, Control, Locked, Worker, Exclusive, LoopHead, SlotBusy, BusyWait, WaitForSlot,
           UpdateProgress, Apply, Settle, Finish, Spawn, ScanSheets, SaveResult, ScanReturns, EnterSlot, LeaveSlot
      <3>3. t \notin writer
        BY <3>2 DEF RowInv, WriterDiscipline
      <3>4. WriterDiscipline'
        BY <2>0, <2>1, <3>1, <3>3, <1>c, <1>k DEF RowInv, WriterDiscipline
      <3>5. RowDiscipline'
        BY <2>0, <2>1, <2>2, <3>1, <3>2, <1>c DEF RowInv, RowDiscipline, Snapshot
      <3>. QED
        BY <3>4, <3>5 DEF RowInv
    <2>4. CASE PersistThread(t)
      <3>0. UNCHANGED job
        BY <1>10, <2>4 DEF ThreadStep, Control, Locked, Worker, Exclusive, LoopHead, SlotBusy, BusyWait, WaitForSlot,
           UpdateProgress, Apply, Settle, Finish, Spawn, ScanSheets, SaveResult, ScanReturns, EnterSlot, LeaveSlot, PersistThread
      <3>1. CASE writer = {} /\ j = current /\ writer' = {t} /\ UNCHANGED <<row, thread>>
        BY <2>0, <2>4, <3>0, <3>1 DEF PersistThread, RowInv, WriterDiscipline, RowDiscipline, Snapshot
      <3>2. CASE writer = {} /\ j # current /\ UNCHANGED <<row, writer>>
        BY <2>0, <2>1, <3>0, <3>2 DEF RowInv, WriterDiscipline, RowDiscipline, Snapshot
      <3>3. CASE writer = {t} /\ row' = Snapshot(j) /\ writer' = {}
        <4>1. WriterDiscipline'
          BY <3>3 DEF WriterDiscipline
        <4>2. j = current \/ current = 0 \/ job[current].thread = 0 \/ handler.step = "persist"
          BY <3>3 DEF RowInv, WriterDiscipline
        <4>3. RowDiscipline'
          BY <2>0, <3>0, <3>3, <4>2 DEF RowDiscipline, Snapshot
        <4>. QED
          BY <4>1, <4>3 DEF RowInv
      <3>. QED
        BY <2>4, <3>1, <3>2, <3>3 DEF PersistThread
    <2>. QED
      BY <2>3, <2>4
  <1>11. ASSUME UNCHANGED <<job, current, thread, handler, writer, row>> PROVE RowInv'
    BY <1>11 DEF RowInv, WriterDiscipline, RowDiscipline, Snapshot
  <1>12. ASSUME Crash PROVE RowInv'
    BY <1>12 DEF Crash, RowInv, WriterDiscipline, RowDiscipline
  <1>. QED
    BY <1>1, <1>2, <1>3, <1>4, <1>5, <1>6, <1>7, <1>8, <1>9, <1>10, <1>11, <1>12
       DEF Next, PageStep, HandlerStep, CleanupStep, OtherEnters, OtherLeaves, vars

LEMMA RowAlways == Spec => []RowInv
  <1>1. Init => RowInv
    BY DEF Init, RowInv, WriterDiscipline, RowDiscipline
  <1>. QED
    BY <1>1, BaseAlways, RowInduction, PTL DEF Spec

(* The row of the setup job, from which pages reconnect and a new server     *)
(* goes on, is that of the current job as soon as no write is under way,     *)
(* however threads of replaced jobs, restarts and discards interleave        *)
(* (_persist).                                                               *)
THEOREM RowAgrees == Spec => []RowIsCurrent
  <1>1. Base /\ RowInv => RowIsCurrent
    <2>1. Settled => handler.step # "persist" /\ ~\E t \in Threads : thread[t].pc = "persist"
      BY DEF Settled, Idle
    <2>. QED
      BY <2>1 DEF RowInv, RowDiscipline, RowIsCurrent
  <1>. QED
    BY <1>1, BaseAlways, RowAlways, PTL

-----------------------------------------------------------------------------
(* The slot. *)

(* No two calls of run_exclusive pass the same name.  Nothing in the slot    *)
(* enforces it; it is an assumption on the callers.                          *)
DistinctNames == \A c, d \in Others : NameOf[c] = NameOf[d] => c = d

Body(th) == th.pc \in {"spawn", "scan", "progress", "leave"}
            \/ (th.pc = "persist" /\ th.then \in {"spawn", "scan"})

(* As long as no scan was started beside a live one, there is one thread. *)
OneThread == "threads" \notin overlap => \A t, u \in Threads : Alive(t) /\ Alive(u) => t = u

(* Who is inside is the holder. *)
HolderDiscipline ==
  /\ "threads" \notin overlap => \A t \in InBody : holder = thread[t].member
  /\ \A c \in Slot!Inside : holder = NameOf[c]

SlotInv == OneThread /\ HolderDiscipline

LEMMA BodyFacts ==
  ASSUME ThreadTypes
  PROVE /\ InBody = {t \in Threads : Body(thread[t])}
        /\ \A t \in Threads : Body(thread[t]) => Alive(t)
BY NumbersFacts DEF InBody, Body, Alive

(* Steps that start no thread and leave the slot alone. *)
LEMMA SlotKept ==
  ASSUME SlotInv, ThreadTypes, ThreadTypes', UNCHANGED <<holder, calls>>, overlap \subseteq overlap',
         \A t \in Threads : Alive(t)' => Alive(t),
         \A t \in Threads : Body(thread'[t]) => Body(thread[t]) /\ thread'[t].member = thread[t].member
  PROVE SlotInv'
  <1>1. \A t \in InBody' : t \in InBody /\ thread'[t].member = thread[t].member
    BY BodyFacts DEF InBody, Body
  <1>. QED
    BY <1>1 DEF SlotInv, OneThread, HolderDiscipline, Slot!Inside

LEMMA SignalSlot ==
  ASSUME Base, Base', SlotInv, UNCHANGED <<holder, calls, overlap>>,
         thread' = thread \/ \E j \in Jobs, revoke, cancel \in BOOLEAN : thread' = Signal(j, revoke, cancel)
  PROVE SlotInv'
  <1>1. \A t \in Threads : /\ thread'[t].pc = thread[t].pc /\ thread'[t].then = thread[t].then
                           /\ thread'[t].member = thread[t].member
    BY SignalTypes DEF Base
  <1>. QED
    BY <1>1, SlotKept DEF Base, Types, Alive, Body

LEMMA StartSlot ==
  ASSUME Base, Base', SlotInv, NEW j \in Jobs, NEW made \in JobRecords, NEW given \in SUBSET Members,
         StartJob(j, made, given), UNCHANGED <<holder, calls>>
  PROVE SlotInv'
  <1>. USE NumbersFacts
  <1>k. thread \in [Threads -> ThreadRecords]
    BY DEF Base, Types, ThreadTypes
  <1>1. CASE UNCHANGED <<thread, overlap>>
    BY <1>1, SignalSlot
  <1>2. ASSUME NEW t \in Threads \ Started, thread' = [thread EXCEPT ![t] = [NoThread EXCEPT !.pc = "next", !.job = j]],
               overlap' = IF \E u \in Threads : Alive(u) THEN overlap \cup {"threads"} ELSE overlap
        PROVE SlotInv'
    <2>1. /\ \A u \in Threads \ {t} : thread'[u] = thread[u]
          /\ thread'[t].pc = "next"
      BY <1>2, <1>k DEF NoThread
    <2>2. ~Body(thread'[t])
      BY <2>1 DEF Body
    <2>3. InBody' \subseteq InBody /\ \A u \in InBody' : thread'[u].member = thread[u].member
      BY <2>1 DEF InBody, Alive, Body
    <2>4. OneThread'
      <3>1. CASE \E u \in Threads : Alive(u)
        BY <1>2, <3>1 DEF OneThread
      <3>2. CASE ~\E u \in Threads : Alive(u)
        BY <1>2, <2>1, <3>2 DEF OneThread, Alive
      <3>. QED
        BY <3>1, <3>2
    <2>5. overlap \subseteq overlap'
      BY <1>2
    <2>. QED
      BY <2>3, <2>4, <2>5 DEF SlotInv, HolderDiscipline, Slot!Inside
  <1>. QED
    <2>1. CASE NothingToStart(made)
      BY <1>1, <2>1 DEF StartJob
    <2>2. CASE ~NothingToStart(made)
      <3>1. NewThread \in Threads \ Started
        BY <2>2, FreshThread DEF StartJob
      <3>2. /\ thread' = [thread EXCEPT ![NewThread] = [NoThread EXCEPT !.pc = "next", !.job = j]]
            /\ overlap' = IF \E u \in Threads : Alive(u) THEN overlap \cup {"threads"} ELSE overlap
        BY <2>2 DEF StartJob
      <3>. QED
        BY <3>1, <3>2, <1>2
    <2>. QED
      BY <2>1, <2>2

(* A step of a scan thread outside of the two that take and give the slot    *)
(* does not bring the thread into its body.                                  *)
LEMMA BodySteps ==
  ASSUME Base, NEW t \in Threads, ThreadStep(t), ~EnterSlot(t), Body(thread'[t])
  PROVE Body(thread[t]) /\ thread'[t].member = thread[t].member /\ ~LeaveSlot(t)
  <1>. DEFINE Good == Body(thread[t]) /\ thread'[t].member = thread[t].member /\ ~LeaveSlot(t)
  <1>k. thread \in [Threads -> ThreadRecords] /\ thread[t] \in ThreadRecords
    BY DEF Base, Types, ThreadTypes
  <1>g. ASSUME NEW pc \in Pcs \ {"spawn", "scan", "progress", "leave", "persist"}, Go(t, pc) PROVE FALSE
    BY <1>g, GoTypes DEF Base, Body
  <1>p. ASSUME NEW then \in Thens \ {"spawn", "scan"}, GoPersist(t, then) PROVE FALSE
    <2>1. thread'[t].pc = "persist" /\ thread'[t].then = then
      BY <1>p, <1>k DEF GoPersist, ThreadRecords
    <2>. QED
      BY <2>1 DEF Body
  <1>1. ASSUME LoopHead(t) PROVE FALSE
    BY <1>1, <1>g DEF LoopHead, Pcs
  <1>2. ASSUME SlotBusy(t) PROVE FALSE
    BY <1>2, <1>k DEF SlotBusy, Body, ThreadRecords
  <1>3. ASSUME BusyWait(t) PROVE FALSE
    BY <1>3, <1>g, <1>k DEF BusyWait, Body, ThreadRecords, Pcs
  <1>4. ASSUME WaitForSlot(t) PROVE FALSE
    <2>1. CASE Revoked(thread[t].job)
      BY <1>4, <2>1, <1>g DEF WaitForSlot, Pcs
    <2>2. CASE ~Revoked(thread[t].job)
      <3>. DEFINE password == thread[t].member \in job[thread[t].job].passwords
                  new == [thread[t] EXCEPT !.pc = "persist", !.then = "slot", !.password = password]
      <3>1. thread' = [thread EXCEPT ![t] = new]
        BY <1>4, <2>2, <1>k DEF WaitForSlot
      <3>2. new.pc = "persist" /\ new.then = "slot"
        BY <1>k DEF ThreadRecords
      <3>. HIDE DEF new
      <3>. QED
        BY <3>1, <3>2, <1>k DEF Body
    <2>. QED
      BY <2>1, <2>2
  <1>5. ASSUME UpdateProgress(t) PROVE Good
    <2>1. thread'[t].member = thread[t].member
      BY <1>5, <1>k DEF UpdateProgress, GoPersist, ThreadRecords
    <2>. QED
      BY <1>5, <2>1 DEF UpdateProgress, LeaveSlot, Body
  <1>6. ASSUME Apply(t) PROVE FALSE
    <2>1. CASE thread[t].outcome = "missing"
      BY <1>6, <2>1, <1>p DEF Apply, Thens
    <2>2. CASE thread[t].outcome # "missing"
      <3>. DEFINE m == IF thread[t].member + 1 \in Members THEN thread[t].member + 1 ELSE thread[t].member
                  then == NextMember(t)
                  new == [thread[t] EXCEPT !.pc = "persist", !.then = then, !.outcome = "reading", !.member = m]
      <3>1. thread' = [thread EXCEPT ![t] = new]
        BY <1>6, <2>2, <1>k DEF Apply
      <3>2. then \in {"next", "final"}
        BY DEF NextMember
      <3>. HIDE DEF m, then
      <3>3. new.pc = "persist" /\ new.then = then
        BY <1>k DEF ThreadRecords
      <3>. HIDE DEF new
      <3>. QED
        BY <3>1, <3>2, <3>3, <1>k DEF Body
    <2>. QED
      BY <2>1, <2>2
  <1>7. ASSUME Settle(t) PROVE FALSE
    BY <1>7, <1>g, <1>p DEF Settle, Pcs, Thens
  <1>8. ASSUME Finish(t) PROVE FALSE
    BY <1>8, <1>g DEF Finish, Pcs
  <1>9. ASSUME Spawn(t) PROVE Good
    BY <1>9, <1>k DEF Spawn, LeaveSlot, Body, ThreadRecords
  <1>10. ASSUME ScanSheets(t) PROVE Good
    BY <1>10, <1>k DEF ScanSheets, LeaveSlot, Body, ThreadRecords
  <1>11. ASSUME SaveResult(t) PROVE Good
    BY <1>11, <1>k DEF SaveResult, LeaveSlot, Body, ThreadRecords
  <1>12. ASSUME ScanReturns(t) PROVE Good
    <2>1. PICK outcome \in {"done", "missing", "failed"} :
              thread' = [thread EXCEPT ![t] = [@ EXCEPT !.pc = "leave", !.outcome = outcome,
                                          !.events = 0, !.password = FALSE]]
      BY <1>12 DEF ScanReturns
    <2>2. thread'[t].member = thread[t].member
      BY <2>1, <1>k DEF ThreadRecords
    <2>. QED
      BY <1>12, <2>2 DEF ScanReturns, LeaveSlot, Body
  <1>13. ASSUME LeaveSlot(t) PROVE FALSE
    BY <1>13, <1>g DEF LeaveSlot, Pcs
  <1>14. ASSUME PersistThread(t) PROVE Good
    <2>1. CASE UNCHANGED thread
      BY <1>14, <2>1 DEF PersistThread, LeaveSlot, Body
    <2>2. CASE Go(t, thread[t].then)
      <3>1. thread[t].then \in Thens /\ Thens \subseteq Pcs
        BY <1>k DEF ThreadRecords, Thens, Pcs
      <3>2. thread[t].then \in {"spawn", "scan"}
        BY <2>2, <3>1, <1>g DEF Thens
      <3>3. thread'[t].member = thread[t].member
        BY <2>2, <3>1, <3>2, GoTypes DEF Base
      <3>. QED
        BY <1>14, <3>2, <3>3 DEF PersistThread, LeaveSlot, Body
    <2>. QED
      BY <1>14, <2>1, <2>2 DEF PersistThread
  <1>. QED
    BY <1>1, <1>2, <1>3, <1>4, <1>5, <1>6, <1>7, <1>8, <1>9, <1>10, <1>11, <1>12, <1>13, <1>14
       DEF ThreadStep, Control, Locked, Worker, Exclusive

LEMMA SlotInduction ==
  ASSUME DistinctNames, Base, SlotInv, [Next]_vars
  PROVE SlotInv'
  <1>. USE NumbersFacts
  <1>b. Base'
    BY NextTypes, HandlerInduction DEF Base
  <1>c. current # 0 => current \in Jobs
    BY DEF Base, Types, JobTypes, Made
  <1>k. thread \in [Threads -> ThreadRecords]
    BY DEF Base, Types, ThreadTypes
  <1>m. \A c \in Others : NameOf[c] \notin Members \cup {None}
    BY OthersHaveNames
  <1>n. None \notin Members
    BY NoneIsNoMember
  <1>i. InBody = {u \in Threads : Body(thread[u])} /\ InBody' = {u \in Threads : Body(thread'[u])}
    <2>1. InBody = {u \in Threads : Body(thread[u])}
      BY BodyFacts DEF Base, Types
    <2>2. ASSUME NEW u \in Threads PROVE Alive(u)' <=> thread'[u].pc \notin {"unused", "ended"}
      BY DEF Alive
    <2>. QED
      BY <2>1, <2>2 DEF InBody, Body
  <1>1. ASSUME NEW p \in Pages, Attach(p), UNCHANGED <<holder, calls>> PROVE SlotInv'
    BY <1>1, <1>b, AttachShape, StartSlot, SignalSlot DEF Base
  <1>2. ASSUME StartRetry, UNCHANGED <<holder, calls>> PROVE SlotInv'
    <2>. DEFINE j == handler.job
                made == job[j]
                given == handler.given
    <2>1. StartJob(j, made, given)
      BY <1>2 DEF StartRetry
    <2>2. j \in Jobs /\ made \in JobRecords /\ given \in SUBSET Members
      BY <1>2, <1>c DEF StartRetry, Base, HandlerDiscipline, Types, JobTypes, HandlerRecords
    <2>. HIDE DEF j, made, given
    <2>. QED
      BY <1>2, <1>b, <2>1, <2>2, StartSlot
  <1>3. ASSUME UNCHANGED <<holder, calls, overlap>>,
               thread' = thread \/ \E j \in Jobs, revoke, cancel \in BOOLEAN : thread' = Signal(j, revoke, cancel)
        PROVE SlotInv'
    BY <1>3, <1>b, SignalSlot
  <1>4. ASSUME NEW p \in Pages, Restart(p) \/ Cancel(p) \/ Detach(p), UNCHANGED <<holder, calls, overlap>>
        PROVE SlotInv'
    <2>1. thread' = thread \/ (current # 0 /\ thread' \in {Signal(current, TRUE, TRUE), Signal(current, TRUE, FALSE)})
      BY <1>4 DEF Restart, Cancel, CancelJob, Detach
    <2>. QED
      BY <1>3, <1>4, <1>c, <2>1
  <1>5. ASSUME Discard, UNCHANGED <<holder, calls, overlap>> PROVE SlotInv'
    <2>1. thread' = thread \/ (current # 0 /\ thread' = Signal(current, TRUE, TRUE))
      BY <1>5 DEF Discard
    <2>. QED
      BY <1>3, <1>5, <1>c, <2>1
  <1>6. ASSUME NEW t \in Threads, ThreadStep(t) PROVE SlotInv'
    <2>0. /\ Alive(t) /\ UNCHANGED <<calls, overlap>> /\ thread[t].member \in Members
          /\ \A u \in Threads \ {t} : thread'[u] = thread[u]
      BY <1>6, <1>k, ThreadStepShape, ThreadStepTypes DEF Base, ThreadRecords
    <2>1. \A u \in Threads : Alive(u)' => Alive(u)
      BY <2>0 DEF Alive
    <2>2. OneThread'
      BY <2>0, <2>1 DEF SlotInv, OneThread
    <2>3. CASE EnterSlot(t)
      <3>1. holder \in {None, thread[t].member} /\ holder' = thread[t].member
        BY <2>3 DEF EnterSlot, Slot!TryAcquire, Slot!CanAcquire
      <3>2. Slot!Inside = {}
        BY <3>1, <2>0, <1>m DEF SlotInv, HolderDiscipline, Slot!Inside
      <3>3. ASSUME "threads" \notin overlap', NEW u \in InBody' PROVE holder' = thread'[u].member
        <4>1. u = t
          <5>1. Alive(u)'
            BY <3>3 DEF InBody
          <5>. QED
            BY <3>3, <5>1, <2>0, <2>1 DEF SlotInv, OneThread, InBody
        <4>2. thread'[t].member = thread[t].member
          <5>1. \/ thread' = [thread EXCEPT ![t] = [@ EXCEPT !.pc = "leave", !.outcome = "failed", !.password = FALSE]]
                \/ thread' = [thread EXCEPT ![t].pc = "persist", ![t].then = "spawn"]
            BY <2>3 DEF EnterSlot, Dispatch, GoPersist
          <5>2. thread[t] \in ThreadRecords
            BY <1>k
          <5>. QED
            BY <5>1, <5>2, <1>k DEF ThreadRecords
        <4>. QED
          BY <3>1, <4>1, <4>2
      <3>4. Slot!Inside' = {}
        BY <2>0, <3>2 DEF Slot!Inside
      <3>. QED
        BY <2>2, <3>3, <3>4 DEF SlotInv, HolderDiscipline
    <2>4. CASE LeaveSlot(t)
      <3>1. ~EnterSlot(t)
        BY <2>4 DEF LeaveSlot, EnterSlot
      <3>2. t \notin InBody'
        BY <1>6, <2>4, <3>1, <1>i, BodySteps
      <3>3. ASSUME "threads" \notin overlap PROVE InBody' = {}
        BY <3>2, <2>0, <3>3, <1>i, BodyFacts DEF SlotInv, OneThread, Base, Types
      <3>4. holder' = IF holder = thread[t].member THEN None ELSE holder
        BY <2>4 DEF LeaveSlot, Slot!Release
      <3>5. \A c \in Slot!Inside : holder' = NameOf[c]
        BY <3>4, <2>0, <1>m DEF SlotInv, HolderDiscipline, Slot!Inside
      <3>6. Slot!Inside' = Slot!Inside
        BY <2>0 DEF Slot!Inside
      <3>. QED
        BY <2>0, <2>2, <3>3, <3>5, <3>6 DEF SlotInv, HolderDiscipline
    <2>5. CASE ~EnterSlot(t) /\ ~LeaveSlot(t)
      <3>1. holder' = holder
        BY <1>6, <2>5 DEF ThreadStep, Control, Locked, Worker, Exclusive
      <3>2. \A u \in Threads : Body(thread'[u]) => Body(thread[u]) /\ thread'[u].member = thread[u].member
        BY <1>6, <2>0, <2>5, BodySteps
      <3>. QED
        BY <1>b, <2>0, <2>1, <3>1, <3>2, SlotKept DEF Base, Types
    <2>. QED
      BY <2>3, <2>4, <2>5
  <1>7. ASSUME NEW c \in Others, OtherEnters(c) PROVE SlotInv'
    <2>1. /\ UNCHANGED <<thread, overlap>> /\ calls[c] = "idle" /\ calls' = [calls EXCEPT ![c] = "inside"]
          /\ holder \in {None, NameOf[c]} /\ holder' = NameOf[c]
      BY <1>7 DEF OtherEnters, Slot!EnterExclusive, Slot!TryAcquire, Slot!CanAcquire
    <2>2. OneThread' /\ InBody' = InBody
      BY <2>1 DEF SlotInv, OneThread, InBody, Alive
    <2>3. "threads" \notin overlap => InBody = {}
      <3>1. \A u \in InBody : thread[u].member \in Members
        BY <1>k DEF InBody, ThreadRecords
      <3>. QED
        BY <2>1, <3>1, <1>m, <1>n DEF SlotInv, HolderDiscipline
    <2>4. Slot!Inside = {}
      BY <2>1, <1>m DEF SlotInv, HolderDiscipline, Slot!Inside, DistinctNames
    <2>5. Slot!Inside' = {c}
      BY <2>1, <2>4 DEF Slot!Inside, Base, Types, RestTypes, Slot!SlotTypeOK
    <2>. QED
      BY <2>1, <2>2, <2>3, <2>5 DEF SlotInv, HolderDiscipline
  <1>8. ASSUME NEW c \in Others, OtherLeaves(c) PROVE SlotInv'
    <2>1. /\ UNCHANGED <<thread, overlap>> /\ calls[c] = "inside" /\ calls' = [calls EXCEPT ![c] = "done"]
          /\ holder' = IF holder = NameOf[c] THEN None ELSE holder
      BY <1>8 DEF OtherLeaves, Slot!LeaveExclusive, Slot!Release
    <2>2. OneThread' /\ InBody' = InBody /\ \A u \in InBody : thread'[u].member = thread[u].member
      BY <2>1 DEF SlotInv, OneThread, InBody, Alive
    <2>3. holder = NameOf[c] /\ Slot!Inside = {c}
      BY <2>1 DEF SlotInv, HolderDiscipline, Slot!Inside, DistinctNames
    <2>4. "threads" \notin overlap => InBody = {}
      <3>1. \A u \in InBody : thread[u].member \in Members
        BY <1>k DEF InBody, ThreadRecords
      <3>. QED
        BY <2>3, <3>1, <1>m DEF SlotInv, HolderDiscipline
    <2>5. Slot!Inside' = {}
      BY <2>1, <2>3 DEF Slot!Inside, Base, Types, RestTypes, Slot!SlotTypeOK
    <2>. QED
      BY <2>1, <2>2, <2>4, <2>5 DEF SlotInv, HolderDiscipline
  <1>9. ASSUME Crash PROVE SlotInv'
    <2>1. \A u \in Threads : ~Alive(u)'
      BY <1>9 DEF Crash, Alive, NoThread
    <2>2. Slot!Inside' = {}
      BY <1>9 DEF Crash, Slot!SlotLost, Slot!Inside
    <2>. QED
      BY <2>1, <2>2 DEF SlotInv, OneThread, HolderDiscipline, InBody
  <1>10. ASSUME NEW t \in Threads, CleanupStep(t) PROVE SlotInv'
    BY <1>10, <1>b, SlotKept DEF CleanupStep, Reclaim, Base, Types, Alive, Body
  <1>. QED
    BY <1>1, <1>2, <1>3, <1>4, <1>5, <1>6, <1>7, <1>8, <1>9, <1>10
       DEF Next, PageStep, HandlerStep, PersistHandler, DeleteRows, EvictTerminal, vars

LEMMA SlotAlways == ASSUME DistinctNames PROVE Spec => []SlotInv
  <1>1. Init => SlotInv
    BY DEF Init, SlotInv, OneThread, HolderDiscipline, InBody, Alive, NoThread, Slot!SlotInit, Slot!Inside
  <1>. QED
    BY <1>1, BaseAlways, SlotInduction, PTL DEF Spec

(* At most one piece of heavy work is under way: two setup scans never read  *)
(* at once, and a scan never beside a call of run_exclusive, for as long as  *)
(* no scan thread of the generation is started beside a live one             *)
(* (run_exclusive, start).                                                   *)
THEOREM ScansExclude ==
  ASSUME DistinctNames
  PROVE Spec => []ScansAlone
  <1>1. Base /\ SlotInv => ScansAlone
    <2>. SUFFICES ASSUME Base, SlotInv, overlap = {}
                  PROVE Cardinality(InBody) + Cardinality(Slot!Inside) <= 1
      BY DEF ScansAlone
    <2>. USE DEF SlotInv, OneThread, HolderDiscipline
    <2>1. \A u \in InBody : thread[u].member \in Members /\ Alive(u) /\ u \in Threads
      BY DEF Base, Types, ThreadTypes, ThreadRecords, InBody
    <2>2. Cardinality({}) = 0 /\ \A x : Cardinality({x}) = 1
      BY FS_EmptySet, FS_Singleton
    <2>3. CASE \E t \in InBody : TRUE
      <3>1. PICK t \in InBody : TRUE
        BY <2>3
      <3>2. InBody = {t}
        BY <2>1, <3>1
      <3>3. Slot!Inside = {}
        BY <2>1, <3>1, OthersHaveNames DEF Slot!Inside
      <3>. QED
        <4>1. Cardinality(InBody) = 1
          BY <2>2, <3>2
        <4>2. Cardinality(Slot!Inside) = 0
          BY <2>2, <3>3
        <4>. QED
          BY <4>1, <4>2
    <2>4. CASE InBody = {} /\ \E c \in Slot!Inside : TRUE
      <3>1. PICK c \in Slot!Inside : TRUE
        BY <2>4
      <3>2. Slot!Inside = {c}
        BY <3>1 DEF Slot!Inside, DistinctNames
      <3>. QED
        <4>1. Cardinality(InBody) = 0
          BY <2>2, <2>4
        <4>2. Cardinality(Slot!Inside) = 1
          BY <2>2, <3>2
        <4>. QED
          BY <4>1, <4>2
    <2>5. CASE InBody = {} /\ Slot!Inside = {}
      BY <2>2, <2>5
    <2>. QED
      BY <2>3, <2>4, <2>5
  <1>. QED
    BY <1>1, BaseAlways, SlotAlways, PTL

-----------------------------------------------------------------------------
(* The rows of a complete job. *)

(* Live threads: a step makes none, or is a start. *)
LEMMA AliveSteps ==
  ASSUME Base, [Next]_vars
  PROVE \/ (\A t \in Threads : Alive(t)' => Alive(t)) /\ overlap \subseteq overlap'
        \/ \E t \in Threads : /\ \A u \in Threads \ {t} : Alive(u)' => Alive(u)
                              /\ overlap' = IF \E u \in Threads : Alive(u) THEN overlap \cup {"threads"} ELSE overlap
  <1>. USE NumbersFacts
  <1>. DEFINE Kept == (\A t \in Threads : Alive(t)' => Alive(t)) /\ overlap \subseteq overlap'
              Starts == \E t \in Threads : /\ \A u \in Threads \ {t} : Alive(u)' => Alive(u)
                              /\ overlap' = IF \E u \in Threads : Alive(u) THEN overlap \cup {"threads"} ELSE overlap
  <1>c. current # 0 => current \in Jobs
    BY DEF Base, Types, JobTypes, Made
  <1>k. thread \in [Threads -> ThreadRecords]
    BY DEF Base, Types, ThreadTypes
  <1>u. ASSUME UNCHANGED <<thread, overlap>> PROVE Kept
    BY <1>u DEF Alive
  <1>s. ASSUME UNCHANGED overlap, current # 0, thread' \in {Signal(current, TRUE, TRUE), Signal(current, TRUE, FALSE)}
        PROVE Kept
    <2>1. \A t \in Threads : thread'[t].pc = thread[t].pc
      BY <1>s, <1>c, SignalTypes DEF Base
    <2>. QED
      BY <1>s, <2>1 DEF Alive
  <1>j. ASSUME NEW j \in Jobs, NEW made \in JobRecords, NEW given \in SUBSET Members, StartJob(j, made, given)
        PROVE Kept \/ Starts
    <2>1. CASE NothingToStart(made)
      BY <1>j, <1>u, <2>1 DEF StartJob
    <2>2. CASE ~NothingToStart(made)
      <3>1. NewThread \in Threads
        BY <1>j, <2>2, FreshThread DEF StartJob
      <3>. DEFINE t == NewThread
                  th == [NoThread EXCEPT !.pc = "next", !.job = j]
      <3>2. /\ thread' = [thread EXCEPT ![t] = th]
            /\ overlap' = IF \E u \in Threads : Alive(u) THEN overlap \cup {"threads"} ELSE overlap
        BY <1>j, <2>2 DEF StartJob
      <3>. HIDE DEF t, th
      <3>3. \A u \in Threads \ {t} : thread'[u] = thread[u]
        BY <3>2, <1>k
      <3>4. \A u \in Threads \ {t} : Alive(u)' => Alive(u)
        BY <3>3 DEF Alive
      <3>5. t \in Threads
        BY <3>1 DEF t
      <3>. QED
        BY <3>2, <3>4, <3>5
    <2>. QED
      BY <2>1, <2>2
  <1>. HIDE DEF Kept, Starts
  <1>1. ASSUME NEW p \in Pages, Attach(p) PROVE Kept \/ Starts
    BY <1>1, <1>u, <1>j, AttachShape DEF Base
  <1>2. ASSUME StartRetry, UNCHANGED current PROVE Kept \/ Starts
    <2>1. handler.job \in Jobs /\ job[handler.job] \in JobRecords /\ handler.given \in SUBSET Members
      BY <1>2, <1>c DEF StartRetry, Base, HandlerDiscipline, Types, JobTypes, HandlerRecords
    <2>. QED
      BY <1>2, <1>j, <2>1 DEF StartRetry
  <1>3. ASSUME NEW p \in Pages, Restart(p) \/ Cancel(p) \/ Detach(p), UNCHANGED overlap PROVE Kept
    <2>1. thread' = thread \/ (current # 0 /\ thread' \in {Signal(current, TRUE, TRUE), Signal(current, TRUE, FALSE)})
      BY <1>3 DEF Restart, Cancel, CancelJob, Detach
    <2>. QED
      BY <1>3, <1>u, <1>s, <2>1
  <1>4. ASSUME Discard, UNCHANGED overlap PROVE Kept
    <2>1. thread' = thread \/ (current # 0 /\ thread' = Signal(current, TRUE, TRUE))
      BY <1>4 DEF Discard
    <2>. QED
      BY <1>4, <1>u, <1>s, <2>1
  <1>5. ASSUME NEW t \in Threads, ThreadStep(t) PROVE Kept
    <2>1. Alive(t) /\ UNCHANGED overlap /\ \A u \in Threads \ {t} : thread'[u] = thread[u]
      BY <1>5, <1>k, ThreadStepShape, ThreadStepTypes DEF Base
    <2>. QED
      BY <2>1 DEF Kept, Alive
  <1>6. ASSUME Crash PROVE Kept
    BY <1>6 DEF Crash, Alive, NoThread, Kept
  <1>7. ASSUME NEW t \in Threads, CleanupStep(t) PROVE Kept
    BY <1>7 DEF CleanupStep, Reclaim, Kept, Alive
  <1>8. Kept \/ Starts
    BY <1>u, <1>1, <1>2, <1>3, <1>4, <1>5, <1>6, <1>7
       DEF Next, PageStep, HandlerStep, PersistHandler, DeleteRows, EvictTerminal, OtherEnters, OtherLeaves, vars
  <1>. QED
    BY <1>8 DEF Kept, Starts

LEMMA OneThreadInduction ==
  ASSUME Base, OneThread, [Next]_vars
  PROVE OneThread' /\ (overlap' = {} => overlap = {})
  <1>1. CASE (\A t \in Threads : Alive(t)' => Alive(t)) /\ overlap \subseteq overlap'
    BY <1>1 DEF OneThread
  <1>2. ASSUME NEW t \in Threads, \A u \in Threads \ {t} : Alive(u)' => Alive(u),
               overlap' = IF \E u \in Threads : Alive(u) THEN overlap \cup {"threads"} ELSE overlap
        PROVE OneThread' /\ (overlap' = {} => overlap = {})
    BY <1>2 DEF OneThread
  <1>. QED
    BY <1>1, <1>2, AliveSteps

LEMMA OneThreadAlways == Spec => []OneThread
  <1>1. Init => OneThread
    BY DEF Init, OneThread, Alive, NoThread
  <1>. QED
    BY <1>1, BaseAlways, OneThreadInduction, PTL DEF Spec

Finishing(t) == thread[t].pc = "finish" \/ (thread[t].pc = "persist" /\ thread[t].then = "finish")
PreFinish(t) == Alive(t) /\ ~Finishing(t)
PastLast(t) == Finishing(t) \/ thread[t].pc = "final" \/ (thread[t].pc = "persist" /\ thread[t].then = "final")

(* Before its last steps a thread has no complete job beside it, neither in  *)
(* memory nor in the row a page could restore; a start that found a complete *)
(* row has yet to write it.                                                  *)
NotYetComplete ==
  \A t \in Threads : PreFinish(t) =>
    /\ current # 0 => job[current].status # "complete"
    /\ job[thread[t].job].status # "complete"
    /\ row = None \/ row.status # "complete" \/ (handler.step = "persist" /\ thread[t].job = current)

(* The thread of the current job has put in the sidecar what it counts, and  *)
(* works on a member behind those it counts.                                 *)
DoneIsThere ==
  \A t \in Threads : Alive(t) /\ thread[t].job = current =>
    /\ job[current].done \subseteq sidecar
    /\ PastLast(t) \/ \A m \in job[current].done : m < thread[t].member
    /\ thread[t].outcome = "done" => thread[t].member \in sidecar

WholeDiscipline == overlap = {} => CompleteIsWhole /\ NotYetComplete /\ DoneIsThere

(* Steps of handlers and pages that signal at most. *)
LEMMA WholeKept ==
  ASSUME Base, OneThread, WholeDiscipline, handler.step # "persist", UNCHANGED sidecar,
         overlap' = {} => overlap = {},
         row' = row \/ row' = None,
         \A t \in Threads : /\ thread'[t].pc = thread[t].pc /\ thread'[t].then = thread[t].then
                            /\ thread'[t].job = thread[t].job /\ thread'[t].member = thread[t].member
                            /\ thread'[t].outcome = thread[t].outcome,
         \A k \in Made : job'[k].done = job[k].done
                         /\ (job'[k].status = "complete" => job[k].status = "complete"),
         \/ current' \in {current, 0}
         \/ current' \in Jobs \ Made /\ job'[current'].status # "complete"
  PROVE WholeDiscipline'
  <1>. SUFFICES ASSUME overlap' = {} PROVE CompleteIsWhole' /\ NotYetComplete' /\ DoneIsThere'
    BY DEF WholeDiscipline
  <1>0. CompleteIsWhole /\ NotYetComplete /\ DoneIsThere /\ overlap = {}
    BY DEF WholeDiscipline
  <1>c. current # 0 => current \in Made
    BY DEF Base, Types, JobTypes
  <1>j. \A t \in Threads : Alive(t) => thread[t].job \in Made /\ thread[t].job # 0
    BY NumbersFacts DEF Base, Types, ThreadTypes, Made
  <1>a. \A t \in Threads : (Alive(t)' <=> Alive(t)) /\ (PreFinish(t)' <=> PreFinish(t)) /\ (PastLast(t)' <=> PastLast(t))
    BY DEF Alive, PreFinish, PastLast, Finishing
  <1>1. CompleteIsWhole'
    BY <1>0, <1>c DEF CompleteIsWhole
  <1>2. NotYetComplete'
    <2>. SUFFICES ASSUME NEW t \in Threads, PreFinish(t)'
                  PROVE /\ current' # 0 => job'[current'].status # "complete"
                        /\ job'[thread'[t].job].status # "complete"
                        /\ row' = None \/ row'.status # "complete"
      BY DEF NotYetComplete
    <2>1. PreFinish(t) /\ thread'[t].job = thread[t].job /\ thread[t].job \in Made
      BY <1>a, <1>j DEF PreFinish
    <2>. QED
      BY <1>0, <1>c, <2>1 DEF NotYetComplete
  <1>3. DoneIsThere'
    <2>. SUFFICES ASSUME NEW t \in Threads, Alive(t)', thread'[t].job = current'
                  PROVE /\ job'[current'].done \subseteq sidecar'
                        /\ PastLast(t)' \/ \A m \in job'[current'].done : m < thread'[t].member
                        /\ thread'[t].outcome = "done" => thread'[t].member \in sidecar'
      BY DEF DoneIsThere
    <2>1. Alive(t) /\ thread[t].job = current' /\ current' \in Made /\ current' = current
      BY <1>a, <1>j
    <2>. QED
      BY <1>0, <1>a, <2>1 DEF DoneIsThere
  <1>. QED
    BY <1>1, <1>2, <1>3

(* A start does nothing to a scan under way; the one it makes is alone. *)
LEMMA WholeStart ==
  ASSUME Base, OneThread, WholeDiscipline, handler.step # "persist", UNCHANGED <<sidecar, row>>,
         NEW j \in Jobs, NEW made \in JobRecords, NEW given \in SUBSET Members,
         StartJob(j, made, given), current' = j,
         current # 0 => j = current /\ made.status = job[j].status /\ made.done = job[j].done,
         current = 0 => j \notin Made /\ made.thread = 0
                        /\ (made.status = "complete" => row # None /\ row.status = "complete")
  PROVE WholeDiscipline'
  <1>. USE NumbersFacts
  <1>k. job \in [Jobs -> JobRecords] /\ thread \in [Threads -> ThreadRecords]
    BY DEF Base, Types, JobTypes, ThreadTypes
  <1>j. \A t \in Threads : Alive(t) => thread[t].job \in Made /\ thread[t].job # 0
    BY DEF Base, Types, ThreadTypes, Made
  <1>1. CASE NothingToStart(made)
    <2>. SUFFICES ASSUME overlap' = {} PROVE CompleteIsWhole' /\ NotYetComplete' /\ DoneIsThere'
      BY DEF WholeDiscipline
    <2>0. /\ job' = [job EXCEPT ![j] = made] /\ UNCHANGED <<thread, overlap>>
          /\ handler' = Idle
      BY <1>1 DEF StartJob
    <2>1. CompleteIsWhole /\ NotYetComplete /\ DoneIsThere
      BY <2>0 DEF WholeDiscipline
    <2>2. job'[j] = made /\ \A k \in Jobs \ {j} : job'[k] = job[k]
      BY <2>0, <1>k
    <2>3. \A t \in Threads : (Alive(t)' <=> Alive(t)) /\ (PreFinish(t)' <=> PreFinish(t)) /\ (PastLast(t)' <=> PastLast(t))
      BY <2>0 DEF Alive, PreFinish, PastLast, Finishing
    <2>4. CASE current # 0
      BY <2>0, <2>1, <2>2, <2>3, <2>4, <1>j DEF CompleteIsWhole, NotYetComplete, DoneIsThere, PreFinish, Made
    <2>5. CASE current = 0
      <3>1. made.status = "complete" /\ sidecar = Members
        BY <1>1, <2>5 DEF NothingToStart, Alive
      <3>2. \A t \in Threads : ~PreFinish(t)
        BY <2>1, <2>5, <3>1 DEF NotYetComplete
      <3>3. \A t \in Threads : Alive(t) => thread[t].job # j
        BY <2>5, <1>j
      <3>. QED
        BY <2>0, <2>3, <3>1, <3>2, <3>3 DEF CompleteIsWhole, NotYetComplete, DoneIsThere
    <2>. QED
      BY <2>4, <2>5
  <1>2. CASE ~NothingToStart(made)
    <2>. SUFFICES ASSUME overlap' = {} PROVE CompleteIsWhole' /\ NotYetComplete' /\ DoneIsThere'
      BY DEF WholeDiscipline
    <2>1. PICK t \in Threads \ Started :
                /\ thread' = [thread EXCEPT ![t] = [NoThread EXCEPT !.pc = "next", !.job = j]]
                /\ job'[j].thread = t /\ job'[j].status = "waiting_for_slot" /\ job'[j].done = {}
                /\ \A k \in Jobs \ {j} : job'[k] = job[k]
                /\ overlap' = IF \E u \in Threads : Alive(u) THEN overlap \cup {"threads"} ELSE overlap
      BY <1>2, StartJobEither DEF Base
    <2>2. handler'.step = "persist"
      BY <1>2, StartJobEither DEF Base
    <2>3. \A u \in Threads : ~Alive(u)
      BY <2>1
    <2>4. thread'[t].job = j /\ thread'[t].outcome = "reading" /\ \A u \in Threads \ {t} : ~Alive(u)'
      BY <2>1, <2>3, <1>k DEF NoThread, Alive
    <2>. QED
      BY <2>1, <2>2, <2>4 DEF CompleteIsWhole, NotYetComplete, DoneIsThere, PreFinish
  <1>. QED
    BY <1>1, <1>2

(* What a step of the only scan thread does to its member, its job's count   *)
(* and the sidecar.                                                          *)
LEMMA DoneSteps ==
  ASSUME Base, NEW t \in Threads, ThreadStep(t), thread[t].job = current, current # 0,
         job[current].done \subseteq sidecar,
         PastLast(t) \/ \A m \in job[current].done : m < thread[t].member,
         thread[t].outcome = "done" => thread[t].member \in sidecar,
         Alive(t)'
  PROVE /\ job'[current].done \subseteq sidecar'
        /\ PastLast(t)' \/ \A m \in job'[current].done : m < thread'[t].member
        /\ thread'[t].outcome = "done" => thread'[t].member \in sidecar'
  <1>. USE NumbersFacts
  <1>. DEFINE j == thread[t].job
              Good == /\ job'[j].done \subseteq sidecar'
                      /\ PastLast(t)' \/ \A m \in job'[j].done : m < thread'[t].member
                      /\ thread'[t].outcome = "done" => thread'[t].member \in sidecar'
  <1>k. /\ job \in [Jobs -> JobRecords] /\ thread \in [Threads -> ThreadRecords]
        /\ thread[t] \in ThreadRecords /\ thread[t].member \in Members /\ j \in Jobs /\ job[j] \in JobRecords
        /\ job[j].done \subseteq Members /\ sidecar \subseteq Members
    BY ThreadStepShape DEF Base, Types, JobTypes, ThreadTypes, RestTypes, ThreadRecords, JobRecords
  <1>n. \A m \in Members : m \in Nat
    BY DEF Members
  <1>a. thread'[t].pc # "ended"
    BY DEF Alive
  <1>d. /\ job[j].done \subseteq sidecar
        /\ PastLast(t) \/ \A m \in job[j].done : m < thread[t].member
        /\ thread[t].outcome = "done" => thread[t].member \in sidecar
    OBVIOUS
  (* The thread moves on, and what is counted stays. *)
  <1>same. ASSUME job'[j].done = job[j].done, sidecar \subseteq sidecar',
                  thread'[t].member = thread[t].member,
                  thread'[t].outcome \in {thread[t].outcome, "reading", "sheets", "failed", "missing"},
                  PastLast(t) => PastLast(t)'
           PROVE Good
    BY <1>same, <1>d
  <1>go. ASSUME NEW pc \in Pcs, Go(t, pc)
         PROVE /\ thread'[t].pc = pc /\ thread'[t].then = "ended" /\ thread'[t].member = thread[t].member
               /\ thread'[t].outcome = thread[t].outcome
    BY <1>go, <1>a, GoTypes DEF Base
  <1>p. ASSUME NEW then \in Thens, GoPersist(t, then)
        PROVE /\ thread'[t].pc = "persist" /\ thread'[t].then = then
              /\ thread'[t].member = thread[t].member /\ thread'[t].outcome = thread[t].outcome
    BY <1>p, <1>k DEF GoPersist, ThreadRecords
  <1>1. ASSUME LoopHead(t), UNCHANGED <<job, sidecar>> PROVE Good
    <2>1. ~PastLast(t) /\ thread'[t].member = thread[t].member /\ thread'[t].outcome = thread[t].outcome
      BY <1>1, <1>go DEF LoopHead, PastLast, Finishing, Pcs
    <2>. QED
      BY <1>1, <1>same, <2>1
  <1>2. ASSUME SlotBusy(t), UNCHANGED <<job, sidecar>> PROVE Good
    <2>1. ~PastLast(t) /\ thread'[t].member = thread[t].member /\ thread'[t].outcome = thread[t].outcome
      BY <1>2, <1>k DEF SlotBusy, PastLast, Finishing, ThreadRecords
    <2>. QED
      BY <1>2, <1>same, <2>1
  <1>3. ASSUME BusyWait(t), UNCHANGED <<job, sidecar>> PROVE Good
    <2>1. ~PastLast(t) /\ thread'[t].member = thread[t].member /\ thread'[t].outcome = thread[t].outcome
      BY <1>3, <1>k, <1>go DEF BusyWait, PastLast, Finishing, ThreadRecords, Pcs
    <2>. QED
      BY <1>3, <1>same, <2>1
  <1>4. ASSUME WaitForSlot(t), UNCHANGED sidecar PROVE Good
    <2>1. ~Revoked(j)
      BY <1>4, <1>go, <1>a DEF WaitForSlot, Pcs
    <2>. DEFINE password == thread[t].member \in job[j].passwords
                new == [thread[t] EXCEPT !.pc = "persist", !.then = "slot", !.password = password]
    <2>2. thread' = [thread EXCEPT ![t] = new]
      BY <1>4, <2>1, <1>k DEF WaitForSlot
    <2>3. new.member = thread[t].member /\ new.outcome = thread[t].outcome
      BY <1>k DEF ThreadRecords
    <2>. HIDE DEF new
    <2>4. ~PastLast(t) /\ thread'[t].member = thread[t].member /\ thread'[t].outcome = thread[t].outcome
      BY <1>4, <2>2, <2>3, <1>k DEF WaitForSlot, PastLast, Finishing
    <2>5. job'[j].done = job[j].done
      BY <1>4, <2>1, <1>k DEF WaitForSlot, JobRecords
    <2>. QED
      BY <1>4, <1>same, <2>4, <2>5
  <1>5. ASSUME UpdateProgress(t), UNCHANGED sidecar PROVE Good
    <2>1. ~PastLast(t) /\ thread'[t].member = thread[t].member /\ thread'[t].outcome = thread[t].outcome
      BY <1>5, <1>p DEF UpdateProgress, PastLast, Finishing, Thens
    <2>2. job'[j].done = job[j].done
      BY <1>5, <1>k DEF UpdateProgress, JobRecords
    <2>. QED
      BY <1>5, <1>same, <2>1, <2>2
  <1>6. ASSUME Apply(t), UNCHANGED sidecar PROVE Good
    <2>0. ~PastLast(t)
      BY <1>6 DEF Apply, PastLast, Finishing
    <2>1. CASE thread[t].outcome = "missing"
      <3>1. thread'[t].member = thread[t].member /\ thread'[t].outcome = thread[t].outcome
        BY <1>6, <2>1, <1>p DEF Apply, Thens
      <3>. DEFINE new == [job[j] EXCEPT !.requires = TRUE, !.passwords = {},
                                  !.status = "awaiting_credentials", !.started = FALSE]
      <3>2. job' = [job EXCEPT ![j] = new]
        BY <1>6, <2>1, <1>k DEF Apply
      <3>3. new.done = job[j].done
        BY <1>k DEF JobRecords
      <3>. HIDE DEF new
      <3>4. job'[j].done = job[j].done
        BY <3>2, <3>3, <1>k
      <3>. QED
        BY <1>6, <1>same, <2>0, <3>1, <3>4
    <2>2. CASE thread[t].outcome # "missing"
      <3>. DEFINE m == thread[t].member
                  n == IF m + 1 \in Members THEN m + 1 ELSE m
                  then == NextMember(t)
                  new == [thread[t] EXCEPT !.pc = "persist", !.then = then, !.outcome = "reading", !.member = n]
      <3>1. thread' = [thread EXCEPT ![t] = new]
        BY <1>6, <2>2, <1>k DEF Apply
      <3>2. then = IF m + 1 \in Members THEN "next" ELSE "final"
        BY DEF NextMember
      <3>. HIDE DEF n, then
      <3>3. new.pc = "persist" /\ new.then = then /\ new.outcome = "reading" /\ new.member = n
        BY <1>k DEF ThreadRecords
      <3>. HIDE DEF new
      <3>4. /\ thread'[t].pc = "persist" /\ thread'[t].then = then /\ thread'[t].outcome = "reading"
            /\ thread'[t].member = n
        BY <3>1, <3>3, <1>k
      <3>5. job'[j].done = job[j].done \/ (job'[j].done = job[j].done \cup {m} /\ m \in sidecar)
        <4>1. CASE Counts(thread[t].outcome)
          <5>1. job' = [job EXCEPT ![j].done = @ \cup {m}, ![j].payloads = TRUE]
            BY <1>6, <2>2, <4>1 DEF Apply
          <5>2. job'[j].done = job[j].done \cup {m}
            BY <5>1, <1>k DEF JobRecords
          <5>. QED
            BY <4>1, <5>2, <1>d DEF Counts
        <4>2. CASE ~Counts(thread[t].outcome)
          BY <1>6, <2>2, <4>2 DEF Apply
        <4>. QED
          BY <4>1, <4>2
      <3>6. job'[j].done \subseteq sidecar'
        BY <1>6, <1>d, <3>5
      <3>7. \A k \in job'[j].done : k <= m
        BY <1>d, <1>k, <1>n, <2>0, <3>5
      <3>8. PastLast(t)' \/ \A k \in job'[j].done : k < thread'[t].member
        <4>1. CASE m + 1 \in Members
          <5>1. thread'[t].member = m + 1
            BY <3>4, <4>1 DEF n
          <5>2. \A k \in job'[j].done : k \in Nat
            BY <3>5, <1>k, <1>n
          <5>. QED
            BY <3>7, <5>1, <5>2, <1>k, <1>n
        <4>2. CASE m + 1 \notin Members
          BY <3>2, <3>4, <4>2 DEF PastLast
        <4>. QED
          BY <4>1, <4>2
      <3>. QED
        BY <3>4, <3>6, <3>8
    <2>. QED
      BY <2>1, <2>2
  <1>7. ASSUME Settle(t), UNCHANGED sidecar PROVE Good
    <2>1. current = j
      OBVIOUS
    <2>2. job' = [job EXCEPT ![j].status = FinalStatus(j),
                        ![j].payloads = IF Cancelled(j) THEN FALSE ELSE @, ![j].started = FALSE]
          /\ GoPersist(t, "finish")
      BY <1>7, <2>1 DEF Settle
    <2>3. job'[j].done = job[j].done
      BY <2>2, <1>k DEF JobRecords
    <2>4. PastLast(t)' /\ thread'[t].member = thread[t].member /\ thread'[t].outcome = thread[t].outcome
      BY <2>2, <1>p DEF PastLast, Finishing, Thens
    <2>. QED
      BY <1>7, <1>same, <2>3, <2>4
  <1>8. ASSUME Finish(t) PROVE FALSE
    BY <1>8, <1>go, <1>a DEF Finish, Pcs
  <1>9. ASSUME Spawn(t), UNCHANGED job PROVE Good
    <2>1. ~PastLast(t) /\ thread'[t].member = thread[t].member /\ thread'[t].outcome = "reading"
      BY <1>9, <1>k DEF Spawn, PastLast, Finishing, ThreadRecords
    <2>2. \A m \in job[j].done : m < thread[t].member /\ m # thread[t].member
      BY <1>d, <1>k, <1>n, <2>1
    <2>3. sidecar' = sidecar \ {thread[t].member}
      BY <1>9 DEF Spawn
    <2>. QED
      BY <1>9, <1>d, <2>1, <2>2, <2>3
  <1>10. ASSUME ScanSheets(t), UNCHANGED job PROVE Good
    <2>1. ~PastLast(t) /\ thread'[t].member = thread[t].member /\ thread'[t].outcome = "sheets" /\ sidecar' = sidecar
      BY <1>10, <1>k DEF ScanSheets, PastLast, Finishing, ThreadRecords
    <2>. QED
      BY <1>10, <1>same, <2>1
  <1>11. ASSUME SaveResult(t), UNCHANGED job PROVE Good
    <2>1. ~PastLast(t) /\ thread'[t].member = thread[t].member /\ sidecar' = sidecar \cup {thread[t].member}
      BY <1>11, <1>k DEF SaveResult, PastLast, Finishing, ThreadRecords
    <2>. QED
      BY <1>11, <1>d, <2>1
  <1>12. ASSUME ScanReturns(t), UNCHANGED job PROVE Good
    <2>1. PICK outcome \in {"done", "missing", "failed"} :
            /\ outcome = "done" => thread[t].outcome = "done"
            /\ thread' = [thread EXCEPT ![t] = [@ EXCEPT !.pc = "leave", !.outcome = outcome,
                                          !.events = 0, !.password = FALSE]]
      BY <1>12 DEF ScanReturns
    <2>2. thread'[t].member = thread[t].member /\ thread'[t].outcome = outcome
      BY <2>1, <1>k DEF ThreadRecords
    <2>3. ~PastLast(t) /\ sidecar' = sidecar
      BY <1>12 DEF ScanReturns, PastLast, Finishing
    <2>. QED
      BY <1>12, <1>same, <2>1, <2>2, <2>3
  <1>13. ASSUME EnterSlot(t), UNCHANGED sidecar PROVE Good
    <2>0. ~PastLast(t)
      BY <1>13 DEF EnterSlot, PastLast, Finishing
    <2>1. CASE Revoked(j) \/ Cancelled(j)
      <3>1. thread' = [thread EXCEPT ![t] = [@ EXCEPT !.pc = "leave", !.outcome = "failed", !.password = FALSE]]
            /\ UNCHANGED job
        BY <1>13, <2>1 DEF EnterSlot, Dispatch
      <3>2. thread'[t].member = thread[t].member /\ thread'[t].outcome = "failed"
        BY <3>1, <1>k DEF ThreadRecords
      <3>. QED
        BY <1>13, <1>same, <2>0, <3>1, <3>2
    <2>2. CASE ~(Revoked(j) \/ Cancelled(j))
      <3>1. /\ job' = [job EXCEPT ![j].status = "scanning", ![j].passwords = @ \ {thread[t].member}]
            /\ GoPersist(t, "spawn")
        BY <1>13, <2>2 DEF EnterSlot, Dispatch
      <3>2. job'[j].done = job[j].done
        BY <3>1, <1>k DEF JobRecords
      <3>. QED
        BY <1>13, <1>same, <2>0, <3>1, <3>2, <1>p DEF Thens
    <2>. QED
      BY <2>1, <2>2
  <1>14. ASSUME LeaveSlot(t), UNCHANGED <<job, sidecar>> PROVE Good
    <2>1. ~PastLast(t) /\ thread'[t].member = thread[t].member /\ thread'[t].outcome = thread[t].outcome
      BY <1>14, <1>go DEF LeaveSlot, PastLast, Finishing, Pcs
    <2>. QED
      BY <1>14, <1>same, <2>1
  <1>15. ASSUME PersistThread(t), UNCHANGED <<job, sidecar>> PROVE Good
    <2>1. CASE UNCHANGED thread
      BY <1>15, <1>same, <2>1 DEF PastLast, Finishing
    <2>2. CASE Go(t, thread[t].then)
      <3>1. thread[t].then \in Pcs
        BY <1>k DEF ThreadRecords, Thens, Pcs
      <3>2. /\ thread'[t].pc = thread[t].then /\ thread'[t].member = thread[t].member
            /\ thread'[t].outcome = thread[t].outcome
        BY <2>2, <3>1, <1>go
      <3>3. PastLast(t) => PastLast(t)'
        BY <1>15, <3>2 DEF PersistThread, PastLast, Finishing
      <3>. QED
        BY <1>15, <1>same, <3>2, <3>3
    <2>. QED
      BY <1>15, <2>1, <2>2 DEF PersistThread
  <1>16. Good
    BY <1>1, <1>2, <1>3, <1>4, <1>5, <1>6, <1>7, <1>8, <1>9, <1>10, <1>11, <1>12, <1>13, <1>14, <1>15
       DEF ThreadStep, Control, Locked, Worker, Exclusive
  <1>. QED
    BY <1>16

(* A job becomes complete in the last check of its thread only, with every   *)
(* member counted.                                                           *)
LEMMA CompleteSteps ==
  ASSUME Base, NEW t \in Threads, ThreadStep(t)
  PROVE /\ PreFinish(t)' => PreFinish(t)
        /\ \/ job'[thread[t].job].status = job[thread[t].job].status
           \/ job'[thread[t].job].status # "complete"
           \/ /\ current = thread[t].job /\ job[thread[t].job].done = Members
              /\ sidecar' = sidecar /\ ~PreFinish(t)'
        /\ ~PreFinish(t) => /\ sidecar' = sidecar
                            /\ job'[thread[t].job].status = job[thread[t].job].status
  <1>. USE NumbersFacts
  <1>. DEFINE j == thread[t].job
  <1>k. /\ job \in [Jobs -> JobRecords] /\ thread \in [Threads -> ThreadRecords]
        /\ thread[t] \in ThreadRecords /\ j \in Jobs /\ job[j] \in JobRecords /\ Alive(t)
    BY ThreadStepShape DEF Base, Types, JobTypes, ThreadTypes
  <1>p. ASSUME NEW then \in Thens, GoPersist(t, then)
        PROVE thread'[t].pc = "persist" /\ thread'[t].then = then
    BY <1>p, <1>k DEF GoPersist, ThreadRecords
  <1>1. CASE Finishing(t)
    <2>1. CASE Finish(t)
      <3>1. thread'[t].pc = "ended"
        BY <2>1, GoTypes DEF Finish, Pcs, Base
      <3>2. job'[j].status = job[j].status
        BY <2>1, <1>k DEF Finish, JobRecords
      <3>3. sidecar' = sidecar
        BY <2>1 DEF ThreadStep, Control, Locked, Worker, Exclusive, LoopHead, SlotBusy, BusyWait, WaitForSlot,
           UpdateProgress, Apply, Settle, Finish, Spawn, ScanSheets, SaveResult, ScanReturns, EnterSlot, LeaveSlot, PersistThread
      <3>. QED
        BY <1>1, <3>1, <3>2, <3>3 DEF PreFinish, Alive
    <2>2. CASE PersistThread(t)
      <3>0. UNCHANGED <<job, sidecar>>
        BY <2>2 DEF ThreadStep, Control, Locked, Worker, Exclusive, LoopHead, SlotBusy, BusyWait, WaitForSlot,
           UpdateProgress, Apply, Settle, Finish, Spawn, ScanSheets, SaveResult, ScanReturns, EnterSlot, LeaveSlot, PersistThread
      <3>1. thread' = thread \/ Go(t, thread[t].then)
        BY <2>2 DEF PersistThread
      <3>2. thread[t].then = "finish"
        BY <1>1, <2>2 DEF PersistThread, Finishing
      <3>3. Finishing(t)'
        BY <1>1, <3>1, <3>2, GoTypes DEF Finishing, Pcs, Base
      <3>. QED
        BY <1>1, <3>0, <3>3 DEF PreFinish
    <2>. QED
      BY <1>1, <2>1, <2>2 DEF Finishing, ThreadStep, Control, Locked, Worker, Exclusive, LoopHead, SlotBusy, BusyWait, WaitForSlot,
         UpdateProgress, Apply, Settle, Spawn, ScanSheets, SaveResult, ScanReturns, EnterSlot, LeaveSlot
  <1>2. CASE ~Finishing(t)
    <2>1. PreFinish(t)
      BY <1>2, <1>k DEF PreFinish
    <2>. DEFINE Good == \/ job'[j].status = job[j].status
                        \/ job'[j].status # "complete"
                        \/ /\ current = j /\ job[j].done = Members /\ sidecar' = sidecar /\ ~PreFinish(t)'
    <2>2. ASSUME WaitForSlot(t) PROVE Good
      BY <2>2, <1>k DEF WaitForSlot, JobRecords
    <2>3. ASSUME UpdateProgress(t) PROVE Good
      BY <2>3, <1>k DEF UpdateProgress, JobRecords
    <2>4. ASSUME Apply(t) PROVE Good
      <3>1. CASE thread[t].outcome = "missing"
        <4>. DEFINE new == [job[j] EXCEPT !.requires = TRUE, !.passwords = {},
                                  !.status = "awaiting_credentials", !.started = FALSE]
        <4>1. job' = [job EXCEPT ![j] = new]
          BY <2>4, <3>1, <1>k DEF Apply
        <4>2. new.status = "awaiting_credentials"
          BY <1>k DEF JobRecords
        <4>. HIDE DEF new
        <4>. QED
          BY <4>1, <4>2, <1>k
      <3>2. CASE thread[t].outcome # "missing"
        BY <2>4, <3>2, <1>k DEF Apply, JobRecords
      <3>. QED
        BY <3>1, <3>2
    <2>5. ASSUME Settle(t), UNCHANGED sidecar PROVE Good
      <3>1. CASE current # j
        BY <2>5, <3>1 DEF Settle
      <3>2. CASE current = j
        <4>1. job' = [job EXCEPT ![j].status = FinalStatus(j),
                        ![j].payloads = IF Cancelled(j) THEN FALSE ELSE @, ![j].started = FALSE]
              /\ GoPersist(t, "finish")
          BY <2>5, <3>2 DEF Settle
        <4>2. job'[j].status = FinalStatus(j)
          BY <4>1, <1>k DEF JobRecords
        <4>3. ~PreFinish(t)'
          BY <4>1, <1>p DEF PreFinish, Finishing, Thens
        <4>. QED
          BY <2>5, <3>2, <4>2, <4>3 DEF FinalStatus
      <3>. QED
        BY <3>1, <3>2
    <2>6. ASSUME Finish(t) PROVE Good
      BY <2>6, <1>k DEF Finish, JobRecords
    <2>7. ASSUME EnterSlot(t) PROVE Good
      BY <2>7, <1>k DEF EnterSlot, Dispatch, JobRecords
    <2>8. Good
      BY <2>2, <2>3, <2>4, <2>5, <2>6, <2>7 DEF ThreadStep, Control, Locked, Worker, Exclusive
    <2>. QED
      BY <2>1, <2>8
  <1>. QED
    BY <1>1, <1>2

LEMMA WholeThread ==
  ASSUME Base, OneThread, WholeDiscipline, NEW t \in Threads, ThreadStep(t)
  PROVE WholeDiscipline'
  <1>. USE NumbersFacts
  <1>. DEFINE j == thread[t].job
  <1>0. /\ Alive(t) /\ j \in Jobs /\ j # 0
        /\ UNCHANGED <<current, handler, overlap>>
        /\ thread' = [thread EXCEPT ![t] = thread'[t]]
        /\ job' = [job EXCEPT ![j] = job'[j]]
        /\ thread'[t].pc \notin {"unused", "ended"} => thread'[t].job = j
    BY ThreadStepShape, ThreadStepTypes DEF Base
  <1>k. /\ job \in [Jobs -> JobRecords] /\ thread \in [Threads -> ThreadRecords] /\ sidecar \subseteq Members
    BY DEF Base, Types, JobTypes, ThreadTypes, RestTypes
  <1>. SUFFICES ASSUME overlap = {} PROVE CompleteIsWhole' /\ NotYetComplete' /\ DoneIsThere'
    BY <1>0 DEF WholeDiscipline
  <1>1. CompleteIsWhole /\ NotYetComplete /\ DoneIsThere
    BY DEF WholeDiscipline
  <1>2. \A u \in Threads : Alive(u) => u = t
    BY <1>0 DEF OneThread
  <1>3. \A u \in Threads : Alive(u)' => u = t
    <2>1. \A u \in Threads \ {t} : thread'[u] = thread[u]
      BY <1>0, <1>k
    <2>. QED
      BY <2>1, <1>2 DEF Alive
  <1>4. \A k \in Jobs \ {j} : job'[k] = job[k]
    BY <1>0, <1>k
  <1>5. CompleteIsWhole'
    <2>. SUFFICES ASSUME current # 0, job'[current].status = "complete" PROVE sidecar' = Members
      BY <1>0 DEF CompleteIsWhole
    <2>1. CASE PreFinish(t)
      <3>1. job[current].status # "complete"
        BY <1>1, <2>1 DEF NotYetComplete
      <3>2. current = j /\ job[j].done = Members /\ sidecar' = sidecar
        BY <1>4, <2>1, <3>1, CompleteSteps DEF Base, Types, JobTypes, Made
      <3>. QED
        BY <1>0, <1>1, <1>k, <3>2 DEF DoneIsThere
    <2>2. CASE ~PreFinish(t)
      <3>1. sidecar' = sidecar /\ job'[j].status = job[j].status
        BY <2>2, CompleteSteps
      <3>. QED
        BY <1>1, <1>4, <3>1 DEF CompleteIsWhole, Base, Types, JobTypes, Made
    <2>. QED
      BY <2>1, <2>2
  <1>6. CASE ~Alive(t)'
    BY <1>3, <1>5, <1>6 DEF NotYetComplete, DoneIsThere, PreFinish
  <1>7. CASE Alive(t)'
    <2>0. thread'[t].job = j
      BY <1>0, <1>7 DEF Alive
    <2>2. NotYetComplete'
      <3>. SUFFICES ASSUME PreFinish(t)'
                    PROVE /\ current # 0 => job'[current].status # "complete"
                          /\ job'[j].status # "complete"
                          /\ row' = None \/ row'.status # "complete" \/ (handler.step = "persist" /\ j = current)
        BY <1>0, <1>3, <2>0 DEF NotYetComplete, PreFinish
      <3>1. PreFinish(t)
        BY CompleteSteps
      <3>2. job[j].status # "complete" /\ (current # 0 => job[current].status # "complete")
        BY <1>1, <3>1 DEF NotYetComplete
      <3>3. job'[j].status # "complete"
        BY <3>2, CompleteSteps
      <3>4. current # 0 => job'[current].status # "complete"
        BY <1>4, <3>2, <3>3 DEF Base, Types, JobTypes, Made
      <3>5. row' = row \/ row' = Snapshot(j)
        BY DEF ThreadStep, Control, Locked, Worker, Exclusive, PersistThread
      <3>6. Snapshot(j).status # "complete"
        BY <3>2 DEF Snapshot
      <3>. QED
        BY <1>1, <3>1, <3>3, <3>4, <3>5, <3>6 DEF NotYetComplete
    <2>3. DoneIsThere'
      <3>. SUFFICES ASSUME j = current
                    PROVE /\ job'[current].done \subseteq sidecar'
                          /\ PastLast(t)' \/ \A m \in job'[current].done : m < thread'[t].member
                          /\ thread'[t].outcome = "done" => thread'[t].member \in sidecar'
        BY <1>0, <1>3, <2>0 DEF DoneIsThere
      <3>1. /\ job[current].done \subseteq sidecar
            /\ PastLast(t) \/ \A m \in job[current].done : m < thread[t].member
            /\ thread[t].outcome = "done" => thread[t].member \in sidecar
        BY <1>0, <1>1 DEF DoneIsThere
      <3>. QED
        BY <1>0, <1>7, <3>1, DoneSteps
    <2>. QED
      BY <1>5, <2>2, <2>3
  <1>. QED
    BY <1>6, <1>7

LEMMA WholeInduction ==
  ASSUME Base, OneThread, WholeDiscipline, [Next]_vars
  PROVE WholeDiscipline'
  <1>. USE NumbersFacts
  <1>o. overlap' = {} => overlap = {}
    BY OneThreadInduction
  <1>c. current # 0 => current \in Jobs /\ current \in Made
    BY DEF Base, Types, JobTypes, Made
  <1>k. job \in [Jobs -> JobRecords] /\ thread \in [Threads -> ThreadRecords]
    BY DEF Base, Types, JobTypes, ThreadTypes
  <1>s. ASSUME thread' = thread \/ (current # 0 /\ thread' \in {Signal(current, TRUE, TRUE), Signal(current, TRUE, FALSE)})
        PROVE \A t \in Threads : /\ thread'[t].pc = thread[t].pc /\ thread'[t].then = thread[t].then
                            /\ thread'[t].job = thread[t].job /\ thread'[t].member = thread[t].member
                            /\ thread'[t].outcome = thread[t].outcome
    BY <1>s, <1>c, SignalTypes DEF Base
  <1>i. Idle.step = "idle"
    BY DEF Idle
  <1>1. ASSUME NEW p \in Pages, Attach(p), UNCHANGED <<row, sidecar>> PROVE WholeDiscipline'
    <2>1. PICK j \in Jobs, base \in JobRecords, made \in JobRecords, given \in SUBSET Members :
          /\ current' = j
          /\ current # 0 => j = current /\ base = job[current]
          /\ current = 0 => j \notin Made /\ job[j] = NoJob /\ base = Restored
          /\ made.status = base.status /\ made.done = base.done /\ made.thread = base.thread
          /\ \/ StartsByItself(made, given) /\ StartJob(j, made, given)
             \/ /\ ~StartsByItself(made, given)
                /\ job' = [job EXCEPT ![j] = made] /\ UNCHANGED <<handler, thread, overlap>>
      BY <1>1, AttachShape DEF Base
    <2>2. handler.step = "idle"
      BY <1>1, <1>i DEF Attach, Free
    <2>3. current = 0 => made.thread = 0 /\ (made.status = "complete" => row # None /\ row.status = "complete")
      BY <2>1, RestoredJob DEF Base
    <2>4. CASE StartJob(j, made, given)
      BY <1>1, <2>1, <2>2, <2>3, <2>4, WholeStart
    <2>5. CASE ~StartsByItself(made, given) /\ job' = [job EXCEPT ![j] = made] /\ thread' = thread
      <3>1. job'[j] = made /\ made.status # "complete" /\ \A k \in Jobs \ {j} : job'[k] = job[k]
        BY <2>5, <1>k DEF StartsByItself
      <3>2. \A k \in Made : job'[k].done = job[k].done
                         /\ (job'[k].status = "complete" => job[k].status = "complete")
        BY <2>1, <3>1 DEF Made
      <3>3. \/ current' = current
            \/ current' \in Jobs \ Made /\ job'[current'].status # "complete"
        BY <2>1, <3>1
      <3>. QED
        BY <1>1, <1>o, <2>2, <2>5, <3>2, <3>3, WholeKept
    <2>. QED
      BY <2>1, <2>4, <2>5
  <1>2. ASSUME NEW p \in Pages, Restart(p), UNCHANGED <<row, sidecar>> PROVE WholeDiscipline'
    <2>. DEFINE new == [NoJob EXCEPT !.status = "awaiting_inputs",
              !.subscribers = IF current = 0 THEN {} ELSE job[current].subscribers]
                j == NewJob
    <2>1. job' = [job EXCEPT ![j] = new] /\ new.status = "awaiting_inputs" /\ current' = j
      BY <1>2 DEF Restart, NoJob
    <2>2. j \in Jobs /\ j \notin Made
      BY <1>2, FreshJob DEF Restart
    <2>. HIDE DEF new, j
    <2>3. current' \in Jobs \ Made /\ job'[current'].status # "complete" /\ \A k \in Jobs \ {j} : job'[k] = job[k]
      BY <2>1, <2>2, <1>k
    <2>4. thread' = thread \/ (current # 0 /\ thread' = Signal(current, TRUE, TRUE))
      BY <1>2 DEF Restart
    <2>5. \A k \in Made : job'[k] = job[k]
      BY <2>2, <2>3 DEF Made
    <2>. QED
      BY <1>2, <1>i, <1>o, <1>s, <2>3, <2>4, <2>5, WholeKept DEF Restart, Free
  <1>3. ASSUME NEW p \in Pages, Cancel(p), UNCHANGED <<row, sidecar, current>> PROVE WholeDiscipline'
    <2>1. current # 0 /\ thread' = Signal(current, TRUE, TRUE) /\ handler.step = "idle"
      BY <1>3, <1>i DEF Cancel, CancelJob, Free
    <2>2. job'[current].done = job[current].done /\ job'[current].status # "complete"
      BY <1>3, <1>c, <1>k DEF Cancel, CancelJob, JobRecords
    <2>3. \A k \in Jobs \ {current} : job'[k] = job[k]
      BY <1>3, <1>k DEF Cancel, CancelJob
    <2>4. \A k \in Made : job'[k].done = job[k].done
                         /\ (job'[k].status = "complete" => job[k].status = "complete")
      BY <2>2, <2>3 DEF Made
    <2>. QED
      BY <1>3, <1>o, <1>s, <2>1, <2>4, WholeKept
  <1>4. ASSUME NEW p \in Pages, Detach(p), UNCHANGED <<row, sidecar, current>> PROVE WholeDiscipline'
    <2>1. handler.step = "idle"
      BY <1>4, <1>i DEF Detach, Free
    <2>2. thread' = thread \/ (current # 0 /\ thread' = Signal(current, TRUE, FALSE))
      BY <1>4 DEF Detach
    <2>3. \A k \in Made : job'[k].done = job[k].done
                         /\ (job'[k].status = "complete" => job[k].status = "complete")
      <3>1. CASE current = 0
        BY <1>4, <3>1 DEF Detach
      <3>2. CASE current # 0 /\ Demotes(current, p)
        <4>1. job' = [job EXCEPT ![current] = Demoted(@)]
          BY <1>4, <3>2 DEF Detach
        <4>2. Demoted(job[current]).done = job[current].done /\ Demoted(job[current]).status = "awaiting_credentials"
          BY <3>2, <1>c, <1>k DEF Demoted, JobRecords
        <4>. QED
          BY <4>1, <4>2, <3>2, <1>c, <1>k DEF Made
      <3>3. CASE current # 0 /\ ~Demotes(current, p)
        <4>1. job' = [job EXCEPT ![current].subscribers = @ \ {p}]
          BY <1>4, <3>3 DEF Detach
        <4>. QED
          BY <4>1, <3>3, <1>c, <1>k DEF Made, JobRecords
      <3>. QED
        BY <3>1, <3>2, <3>3
    <2>. QED
      BY <1>4, <1>o, <1>s, <2>1, <2>2, <2>3, WholeKept
  <1>5. ASSUME Discard, UNCHANGED <<row, sidecar>> PROVE WholeDiscipline'
    <2>1. handler.step = "idle" /\ current' = 0
      BY <1>5, <1>i DEF Discard, Free
    <2>2. thread' = thread \/ (current # 0 /\ thread' = Signal(current, TRUE, TRUE))
      BY <1>5 DEF Discard
    <2>3. \A k \in Made : job'[k].done = job[k].done /\ job'[k].status = job[k].status
      BY <1>5, <1>c, <1>k DEF Discard, JobRecords, Made
    <2>. QED
      BY <1>5, <1>o, <1>s, <2>1, <2>2, <2>3, WholeKept
  <1>6. ASSUME EvictTerminal, UNCHANGED <<row, sidecar, job, thread>> PROVE WholeDiscipline'
    <2>1. handler.step = "idle" /\ current' = 0
      BY <1>6, <1>i DEF EvictTerminal, Free
    <2>. QED
      BY <1>6, <1>o, <2>1, WholeKept
  <1>7. ASSUME StartRetry, UNCHANGED <<row, sidecar, current>> PROVE WholeDiscipline'
    <2>. DEFINE j == handler.job
                made == job[j]
                given == handler.given
    <2>1. StartJob(j, made, given)
      BY <1>7 DEF StartRetry
    <2>2. j = current /\ current # 0 /\ j \in Jobs /\ made \in JobRecords /\ handler.step # "persist"
          /\ made.status = job[j].status /\ made.done = job[j].done
      BY <1>7, <1>c DEF StartRetry, Base, HandlerDiscipline, Types, JobTypes
    <2>3. given \in SUBSET Members
      BY DEF Base, Types, JobTypes, HandlerRecords
    <2>. HIDE DEF made, given, j
    <2>. QED
      BY <1>7, <2>1, <2>2, <2>3, WholeStart
  <1>8. ASSUME PersistHandler, UNCHANGED <<job, thread, current, sidecar, overlap>> PROVE WholeDiscipline'
    <2>1. current # 0 /\ row' = Snapshot(current)
      BY <1>8 DEF PersistHandler, Base, HandlerDiscipline
    <2>2. overlap = {} => NotYetComplete'
      BY <1>8, <2>1 DEF WholeDiscipline, NotYetComplete, Snapshot, PreFinish, Finishing, Alive
    <2>3. overlap = {} => CompleteIsWhole' /\ DoneIsThere'
      BY <1>8 DEF WholeDiscipline, CompleteIsWhole, DoneIsThere, PastLast, Finishing, Alive
    <2>. QED
      BY <1>8, <2>2, <2>3 DEF WholeDiscipline
  <1>9. ASSUME DeleteRows, UNCHANGED <<job, thread, current, overlap>> PROVE WholeDiscipline'
    <2>1. current = 0 /\ row' = None
      BY <1>9 DEF DeleteRows, Base, HandlerDiscipline
    <2>2. \A t \in Threads : Alive(t) => thread[t].job # 0
      BY DEF Base, Types, ThreadTypes, Made
    <2>3. overlap = {} => NotYetComplete'
      BY <1>9, <2>1 DEF WholeDiscipline, NotYetComplete, PreFinish, Finishing, Alive
    <2>. QED
      BY <1>9, <2>1, <2>2, <2>3 DEF WholeDiscipline, CompleteIsWhole, DoneIsThere, Alive
  <1>10. ASSUME NEW t \in Threads, CleanupStep(t) PROVE WholeDiscipline'
    <2>1. UNCHANGED <<job, current, row, thread, handler>>
      BY <1>10 DEF CleanupStep
    <2>2. overlap' = {} => overlap = {} /\ current = 0
      BY <1>10 DEF CleanupStep, Reclaim
    <2>3. \A u \in Threads : Alive(u) => thread[u].job # 0
      BY DEF Base, Types, ThreadTypes, Made
    <2>4. overlap' = {} => NotYetComplete'
      BY <2>1, <2>2 DEF WholeDiscipline, NotYetComplete, PreFinish, Finishing, Alive
    <2>. QED
      BY <2>1, <2>2, <2>3, <2>4 DEF WholeDiscipline, CompleteIsWhole, DoneIsThere, Alive
  <1>11. ASSUME UNCHANGED <<job, current, row, thread, handler, sidecar, overlap>> PROVE WholeDiscipline'
    BY <1>11 DEF WholeDiscipline, CompleteIsWhole, NotYetComplete, DoneIsThere, PreFinish, PastLast, Finishing, Alive
  <1>12. ASSUME Crash PROVE WholeDiscipline'
    <2>1. current' = 0 /\ \A u \in Threads : ~Alive(u)'
      BY <1>12 DEF Crash, Alive, NoThread
    <2>. QED
      BY <2>1 DEF WholeDiscipline, CompleteIsWhole, NotYetComplete, DoneIsThere, PreFinish
  <1>. QED
    BY <1>1, <1>2, <1>3, <1>4, <1>5, <1>6, <1>7, <1>8, <1>9, <1>10, <1>11, <1>12, WholeThread
       DEF Next, PageStep, HandlerStep, OtherEnters, OtherLeaves, vars

LEMMA WholeAlways == Spec => []WholeDiscipline
  <1>1. Init => WholeDiscipline
    BY DEF Init, WholeDiscipline, CompleteIsWhole, NotYetComplete, DoneIsThere, PreFinish, Alive, NoThread
  <1>. QED
    BY <1>1, BaseAlways, OneThreadAlways, WholeInduction, PTL DEF Spec

(* A setup job that is complete has the rows of every member in the sidecar: *)
(* a later start and the previews can rely on the status, unless an old      *)
(* thread or an old cleanup worked on the generation beside it (start,       *)
(* discard, delete_generation).                                              *)
THEOREM CompleteMeansWhole == Spec => []CompleteIsWhole
  <1>1. WholeDiscipline => CompleteIsWhole
    BY DEF WholeDiscipline, CompleteIsWhole
  <1>. QED
    BY <1>1, WholeAlways, PTL
=============================================================================
