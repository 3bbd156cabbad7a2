---------------------------- MODULE OfficeWorker ----------------------------
(***************************************************************************)
(* Formula texts by way of desktop Excel (io/excel_formula.py and the      *)
(* process it starts, io/excel_formula_worker.py).  The reader starts a    *)
(* worker process; the worker starts Excel, writes down its number and the *)
(* time it was created, and starts a thread that ends Excel should the     *)
(* reader die; the reader ends an Excel that outlives its worker.  Excel   *)
(* and the numbers of processes belong to Windows.  What is read from the  *)
(* workbook is FormulaText.                                                *)
(***************************************************************************)
EXTENDS Naturals

CONSTANT MaxFaults   \* bound: calls that fail, workers that crash

VARIABLES
  reader,    \* _run_excel_worker: where it is
  handle,    \* _terminate_owned_excel: the process opened by its number
  child,     \* the worker process: where it is
  watch,     \* _watch_parent
  excel,     \* the Excel process
  open,      \* Excel has the copy of the workbook open
  status,    \* excel-status.json has been written
  pid,       \* whose the number written there is
  stranger,  \* another program that was given that number
  dir,       \* the work directory; stuck: it could not be removed
  denied,    \* Windows refused to end Excel
  faults

officeVars == <<reader, handle, child, watch, excel, open, status, pid, stranger, dir, denied, faults>>

OfficeTypeOK ==
  /\ reader \in {"waits", "expired", "waits first", "kills", "exited", "waits last", "leaves", "done",
                "dead", "dead last"}
  /\ handle \in {"none", "excel", "stranger"}
  /\ child \in {"new", "dispatched", "known", "works", "reads", "closes", "answers", "gone"}
  /\ watch \in {"off", "starts", "waits"}
  /\ excel \in {"none", "up", "quits", "gone"}
  /\ open \in BOOLEAN /\ status \in BOOLEAN /\ denied \in BOOLEAN
  /\ pid \in {"none", "excel", "stranger"} /\ stranger \in {"none", "alive", "gone"}
  /\ dir \in {"there", "gone", "stuck"} /\ faults \in 0..MaxFaults

OfficeInit ==
  /\ reader = "waits" /\ handle = "none" /\ child = "new" /\ watch = "off"
  /\ excel = "none" /\ open = FALSE /\ status = FALSE
  /\ pid = "none" /\ stranger = "none" /\ dir = "there" /\ denied = FALSE /\ faults = 0

readerVars == <<reader, handle, dir, denied>>
childVars == <<child, watch, status>>
processVars == <<excel, open, pid, stranger>>

Alive == excel \in {"up", "quits"}
ExcelEnds == excel' = "gone" /\ open' = FALSE
ReaderDead == reader \in {"dead", "dead last"}
Fault == faults < MaxFaults /\ faults' = faults + 1

-----------------------------------------------------------------------------
(* The worker process.  Any step on Excel fails once Excel is gone.          *)

Goes(to) == child' = to

(* Without a desktop Excel the call fails and leaves nothing. *)
Dispatch ==
  /\ child = "new"
  /\ \/ Goes("dispatched") /\ excel' = "up" /\ pid' = "excel"
     \/ Goes("answers") /\ UNCHANGED <<excel, pid>>
  /\ UNCHANGED <<readerVars, watch, status, open, stranger, faults>>

(* Written by a rename, so that it is there whole or not at all. *)
Identify ==
  /\ child = "dispatched"
  /\ \/ Alive /\ Goes("known") /\ status' = TRUE
     \/ Goes("closes") /\ UNCHANGED status
  /\ UNCHANGED <<readerVars, watch, processVars, faults>>

StartWatch ==
  /\ child = "known" /\ Goes("works") /\ watch' = "starts"
  /\ UNCHANGED <<readerVars, status, processVars, faults>>

OpenWorkbook ==
  /\ child = "works"
  /\ \/ Alive /\ Goes("reads") /\ open' = TRUE
     \/ Goes("closes") /\ UNCHANGED open
  /\ UNCHANGED <<readerVars, watch, status, excel, pid, stranger, faults>>

ReadFormulas ==
  /\ child = "reads" /\ Goes("closes")
  /\ UNCHANGED <<readerVars, watch, status, processVars, faults>>

(* The finally clause: what closing the workbook and quitting raise is       *)
(* suppressed.                                                               *)
Close ==
  /\ child = "closes" /\ Goes("answers")
  /\ \/ /\ excel' = (IF excel = "up" THEN "quits" ELSE excel)
        /\ open' = FALSE /\ UNCHANGED faults
     \/ Alive /\ Fault /\ UNCHANGED <<excel, open>>
  /\ UNCHANGED <<readerVars, watch, status, pid, stranger>>

(* result.json, good or not, and the end of the process with its thread. *)
Answer ==
  /\ child = "answers" /\ Goes("gone") /\ watch' = "off"
  /\ UNCHANGED <<readerVars, status, processVars, faults>>

ChildDies ==
  /\ child # "gone" /\ Goes("gone") /\ watch' = "off" /\ Fault
  /\ UNCHANGED <<readerVars, status, processVars>>

(* The reader may be dead before the thread has opened it.  An OSError ends  *)
(* Excel; the error of the Windows library, if it is no OSError, only ends   *)
(* the thread.                                                               *)
WatchReader ==
  /\ watch = "starts"
  /\ \/ ~ReaderDead /\ watch' = "waits" /\ UNCHANGED <<child, excel, open, faults>>
     \/ ReaderDead /\ watch' = "off" /\ Goes("gone") /\ ExcelEnds /\ UNCHANGED faults
     \/ ReaderDead /\ watch' = "off" /\ Fault /\ UNCHANGED <<child, excel, open>>
  /\ UNCHANGED <<readerVars, status, pid, stranger>>

ReaderGone ==
  /\ watch = "waits" /\ ReaderDead /\ watch' = "off" /\ Goes("gone") /\ ExcelEnds
  /\ UNCHANGED <<readerVars, status, pid, stranger, faults>>

ChildStep ==
  \/ Dispatch \/ Identify \/ StartWatch \/ OpenWorkbook \/ ReadFormulas \/ Close \/ Answer \/ ChildDies
  \/ WatchReader \/ ReaderGone
-----------------------------------------------------------------------------
(* Windows.                                                                  *)

ExcelQuits ==
  /\ excel = "quits" /\ ExcelEnds
  /\ UNCHANGED <<readerVars, childVars, pid, stranger, faults>>

(* A number is given away again when its process is gone and no handle on it *)
(* is open; the worker closes its handle before it answers.                  *)
NumberReused ==
  /\ excel = "gone" /\ pid = "excel" /\ handle = "none" /\ child \in {"answers", "gone"}
  /\ pid' = "stranger" /\ stranger' = "alive"
  /\ UNCHANGED <<readerVars, childVars, excel, open, faults>>
-----------------------------------------------------------------------------
(* The reader.                                                               *)

ReaderGoes(to) == reader' = to

Communicated ==
  /\ reader = "waits" /\ child = "gone" /\ ReaderGoes("exited")
  /\ UNCHANGED <<handle, dir, denied, childVars, processVars, faults>>

Expires ==
  /\ reader = "waits" /\ ReaderGoes("expired")
  /\ UNCHANGED <<handle, dir, denied, childVars, processVars, faults>>

(* _terminate_owned_excel, before its wait of ten seconds: no status file,   *)
(* or no process of that number, and there is nothing to end.                *)
Running == (pid = "excel" /\ Alive) \/ (pid = "stranger" /\ stranger = "alive")
Look(at, to, next) ==
  /\ reader = at
  /\ IF status /\ Running
     THEN ReaderGoes(to) /\ handle' = pid
     ELSE ReaderGoes(next) /\ UNCHANGED handle
  /\ UNCHANGED <<dir, denied, childVars, processVars, faults>>

(* Mutant: a process is known by its number alone. *)
AnyOwned == handle # "none"
Owned == handle = "excel"

(* After the wait: it has ended by itself, or it was not created when the    *)
(* status file says, or it is ended now, which Windows may refuse.           *)
EndOwned(at, next) ==
  /\ reader = at /\ ReaderGoes(next) /\ handle' = "none"
  /\ \/ ~(IF handle = "excel" THEN Alive ELSE stranger = "alive")
        /\ UNCHANGED <<excel, open, stranger, denied, faults>>
     \/ ~Owned /\ UNCHANGED <<excel, open, stranger, denied, faults>>
     \/ /\ Owned /\ handle = "excel" /\ Alive /\ ExcelEnds
        /\ UNCHANGED <<stranger, denied, faults>>
     \/ /\ Owned /\ handle = "stranger" /\ stranger' = "gone"
        /\ UNCHANGED <<excel, open, denied, faults>>
     \/ /\ Owned /\ Fault /\ denied' = TRUE
        /\ UNCHANGED <<excel, open, stranger>>
  /\ UNCHANGED <<dir, childVars, pid>>

KillWorker ==
  /\ reader = "kills" /\ ReaderGoes("exited") /\ Goes("gone") /\ watch' = "off"
  /\ UNCHANGED <<handle, dir, denied, status, processVars, faults>>

(* Mutant: Excel is ended at the timeout only. *)
LastLookSkipped ==
  /\ reader = "exited" /\ ReaderGoes("leaves")
  /\ UNCHANGED <<handle, dir, denied, childVars, processVars, faults>>

(* The finally clause, after an answer and after a timeout. *)
LastLook == Look("exited", "waits last", "leaves")

(* A file that is open cannot be removed: the error is not one that the      *)
(* loader takes for a missing formula text, and the read of the workbook     *)
(* fails.                                                                    *)
RemoveDirectory ==
  /\ reader = "leaves" /\ ReaderGoes("done")
  /\ dir' = IF open THEN "stuck" ELSE "gone"
  /\ UNCHANGED <<handle, denied, childVars, processVars, faults>>

(* The QC worker or scan process the reader runs in is killed: a cancelled   *)
(* run, a machine that goes down.  The directory stays, with the copy.  An   *)
(* Excel whose worker is gone by then has nobody left to end it.             *)
ReaderDies ==
  /\ reader # "done" /\ ~ReaderDead /\ handle' = "none"
  /\ ReaderGoes(IF child = "gone" THEN "dead last" ELSE "dead")
  /\ UNCHANGED <<dir, denied, childVars, processVars, faults>>

ReaderStep ==
  \/ Communicated \/ Expires
  \/ Look("expired", "waits first", "kills") \/ EndOwned("waits first", "kills")
  \/ KillWorker
  \/ LastLook \/ EndOwned("waits last", "leaves")
  \/ RemoveDirectory \/ ReaderDies

OfficeNext == ChildStep \/ ExcelQuits \/ NumberReused \/ ReaderStep
OfficeSpec == OfficeInit /\ [][OfficeNext]_officeVars

-----------------------------------------------------------------------------
(* When the read is over and the worker gone, no Excel of the program is     *)
(* left: wherever the worker was when it timed out, unless it had not        *)
(* written the number of the Excel it had started, or Windows refused; after *)
(* a death of the reader that the worker outlives, unless something else     *)
(* failed as well.  A workbook is never open when its directory is removed   *)
(* (_run_excel_worker, _watch_parent, _terminate_owned_excel).               *)
ExcelIsEnded ==
  /\ reader = "done" /\ excel = "up" => ~status \/ denied
  /\ reader = "dead" /\ child = "gone" /\ excel = "up" => faults > 0
  /\ dir = "stuck" => denied

(* No program that was given the number of an Excel that is gone is ended    *)
(* for it (_terminate_owned_excel).                                          *)
OthersLive == stranger # "gone"
=============================================================================
