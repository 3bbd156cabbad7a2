--------------------------- MODULE ComparisonProofs ---------------------------
(***************************************************************************)
(* Proofs about the components of MCComparison, for every value of their   *)
(* constants.  One component moves in a behaviour, so each invariant is    *)
(* that of its component, under the guard that the behaviour is of it.     *)
(***************************************************************************)
EXTENDS MCComparison, FiniteSetTheorems, TLAPS

(* A step is one of the component that moves, or changes nothing of it.     *)
LEMMA StaysApart ==
  ASSUME [ComparisonNext]_comparisonVars
  PROVE  /\ part' = part
         /\ part = "cache" => Cache!Next \/ UNCHANGED cacheVars
         /\ part = "office" => Office!OfficeNext \/ UNCHANGED officeVars
         /\ part = "run" => Qc!QcNext \/ UNCHANGED qcVars
         /\ part = "package" => Package!PackageNext \/ UNCHANGED packageVars
         /\ part = "carry" => Carry!CarryNext \/ UNCHANGED carryVars
<1>1. CASE UNCHANGED comparisonVars
  BY <1>1 DEF comparisonVars
<1>2. CASE ComparisonNext
  BY <1>2 DEF ComparisonNext, OthersStill
<1> QED
  BY <1>1, <1>2

(* In the initial state the component that moves is in its own.             *)
LEMMA BeginsApart ==
  ASSUME ComparisonInit
  PROVE  /\ part = "cache" => Cache!Init
         /\ part = "office" => Office!OfficeInit
         /\ part = "run" => Qc!QcInit
         /\ part = "package" => Package!PackageInit
         /\ part = "carry" => Carry!CarryInit
  BY DEF ComparisonInit
-----------------------------------------------------------------------------
(* Excel's process (OfficeWorker).                                           *)

(* Until the worker has started Excel there is none; its number is Excel's  *)
(* until it is given away; it is written down before the workbook is open.  *)
ExcelIsStarted ==
  /\ pid \in {"none", "excel", "stranger"}
  /\ child = "new" => excel = "none" /\ ~status
  /\ excel = "none" <=> pid = "none"
  /\ status => pid # "none"
  /\ pid = "stranger" => excel = "gone"
  /\ child \in {"known", "works", "reads"} => status
  /\ open => status /\ Office!Alive
  /\ watch # "off" => status /\ child \in {"works", "reads", "closes", "answers"}

(* The reader has a process open while it waits for its end.                *)
HandleIsOpen ==
  /\ handle # "none" <=> reader \in {"waits first", "waits last"}
  /\ handle # "none" => handle = pid

(* The reader leaves after its worker, and with Excel ended if it could     *)
(* be; a worker that outlives its reader ends Excel.                        *)
ExcelGoesFirst ==
  /\ reader \in {"exited", "waits last", "leaves", "done", "dead last"} => child = "gone"
  /\ reader = "waits last" /\ Office!Alive => handle = "excel"
  /\ reader \in {"leaves", "done"} /\ Office!Alive => ~status \/ denied

(* A worker that ends leaves an Excel that runs only when something failed. *)
OnlyFaultsLeave ==
  /\ child = "answers" /\ excel = "up" => faults > 0
  /\ reader = "dead" /\ child = "gone" /\ excel = "up" => faults > 0

(* A directory stays only where Excel was denied; no other program is gone. *)
OthersStay ==
  /\ dir = "stuck" => denied
  /\ stranger # "gone" /\ (stranger = "alive" <=> pid = "stranger")

OfficeInv ==
  /\ faults \in Nat /\ ExcelIsStarted /\ HandleIsOpen
  /\ ExcelGoesFirst /\ OnlyFaultsLeave /\ OthersStay

(* Before the read starts nothing runs and nothing is open.                 *)
LEMMA OfficeBegins == Office!OfficeInit => OfficeInv
  BY DEF Office!OfficeInit, OfficeInv, ExcelIsStarted, HandleIsOpen, ExcelGoesFirst,
     OnlyFaultsLeave, OthersStay, Office!Alive

(* A step that changes none of its variables keeps it.                      *)
LEMMA OfficeStays ==
  ASSUME OfficeInv, UNCHANGED officeVars
  PROVE  OfficeInv'
  BY DEF officeVars, OfficeInv, ExcelIsStarted, HandleIsOpen, ExcelGoesFirst,
     OnlyFaultsLeave, OthersStay, Office!Alive

(* A fault is one of those the bound allows.                                *)
LEMMA FaultCounts ==
  ASSUME OfficeInv, Office!Fault
  PROVE  faults' \in Nat /\ faults' > 0
  BY OfficeConstants DEF OfficeInv, Office!Fault

(* The worker process, with the thread that watches its reader.             *)
LEMMA ChildSteps ==
  ASSUME OfficeInv, Office!ChildStep
  PROVE  OfficeInv'
<1> USE DEF OfficeInv, Office!Alive, Office!readerVars, Office!childVars, Office!processVars,
  Office!Goes
<1>1. CASE Office!Dispatch
  <2>1. faults' \in Nat
    BY <1>1 DEF Office!Dispatch
  <2>2. ExcelIsStarted'
    BY <1>1 DEF ExcelIsStarted, Office!Dispatch
  <2>3. HandleIsOpen'
    BY <1>1 DEF ExcelIsStarted, HandleIsOpen, Office!Dispatch
  <2>4. ExcelGoesFirst'
    BY <1>1 DEF ExcelIsStarted, HandleIsOpen, ExcelGoesFirst, Office!Dispatch
  <2>5. OnlyFaultsLeave'
    BY <1>1 DEF ExcelIsStarted, HandleIsOpen, OnlyFaultsLeave, Office!Dispatch
  <2>6. OthersStay'
    BY <1>1 DEF ExcelIsStarted, HandleIsOpen, ExcelGoesFirst, OthersStay, Office!Dispatch
  <2> QED
    BY <2>1, <2>2, <2>3, <2>4, <2>5, <2>6
<1>2. CASE Office!Identify
  <2>1. faults' \in Nat
    BY <1>2 DEF Office!Identify
  <2>2. ExcelIsStarted'
    BY <1>2 DEF ExcelIsStarted, Office!Identify
  <2>3. HandleIsOpen'
    BY <1>2 DEF ExcelIsStarted, HandleIsOpen, Office!Identify
  <2>4. ExcelGoesFirst'
    BY <1>2 DEF ExcelIsStarted, HandleIsOpen, ExcelGoesFirst, Office!Identify
  <2>5. OnlyFaultsLeave'
    BY <1>2 DEF ExcelIsStarted, HandleIsOpen, OnlyFaultsLeave, Office!Identify
  <2>6. OthersStay'
    BY <1>2 DEF ExcelIsStarted, HandleIsOpen, ExcelGoesFirst, OthersStay, Office!Identify
  <2> QED
    BY <2>1, <2>2, <2>3, <2>4, <2>5, <2>6
<1>3. CASE Office!StartWatch
  <2>1. faults' \in Nat
    BY <1>3 DEF Office!StartWatch
  <2>2. ExcelIsStarted'
    BY <1>3 DEF ExcelIsStarted, Office!StartWatch
  <2>3. HandleIsOpen'
    BY <1>3 DEF ExcelIsStarted, HandleIsOpen, Office!StartWatch
  <2>4. ExcelGoesFirst'
    BY <1>3 DEF ExcelIsStarted, HandleIsOpen, ExcelGoesFirst, Office!StartWatch
  <2>5. OnlyFaultsLeave'
    BY <1>3 DEF ExcelIsStarted, HandleIsOpen, OnlyFaultsLeave, Office!StartWatch
  <2>6. OthersStay'
    BY <1>3 DEF ExcelIsStarted, HandleIsOpen, ExcelGoesFirst, OthersStay, Office!StartWatch
  <2> QED
    BY <2>1, <2>2, <2>3, <2>4, <2>5, <2>6
<1>4. CASE Office!OpenWorkbook
  <2>1. faults' \in Nat
    BY <1>4 DEF Office!OpenWorkbook
  <2>2. ExcelIsStarted'
    BY <1>4 DEF ExcelIsStarted, Office!OpenWorkbook
  <2>3. HandleIsOpen'
    BY <1>4 DEF ExcelIsStarted, HandleIsOpen, Office!OpenWorkbook
  <2>4. ExcelGoesFirst'
    BY <1>4 DEF ExcelIsStarted, HandleIsOpen, ExcelGoesFirst, Office!OpenWorkbook
  <2>5. OnlyFaultsLeave'
    BY <1>4 DEF ExcelIsStarted, HandleIsOpen, OnlyFaultsLeave, Office!OpenWorkbook
  <2>6. OthersStay'
    BY <1>4 DEF ExcelIsStarted, HandleIsOpen, ExcelGoesFirst, OthersStay, Office!OpenWorkbook
  <2> QED
    BY <2>1, <2>2, <2>3, <2>4, <2>5, <2>6
<1>5. CASE Office!ReadFormulas
  <2>1. faults' \in Nat
    BY <1>5 DEF Office!ReadFormulas
  <2>2. ExcelIsStarted'
    BY <1>5 DEF ExcelIsStarted, Office!ReadFormulas
  <2>3. HandleIsOpen'
    BY <1>5 DEF ExcelIsStarted, HandleIsOpen, Office!ReadFormulas
  <2>4. ExcelGoesFirst'
    BY <1>5 DEF ExcelIsStarted, HandleIsOpen, ExcelGoesFirst, Office!ReadFormulas
  <2>5. OnlyFaultsLeave'
    BY <1>5 DEF ExcelIsStarted, HandleIsOpen, OnlyFaultsLeave, Office!ReadFormulas
  <2>6. OthersStay'
    BY <1>5 DEF ExcelIsStarted, HandleIsOpen, ExcelGoesFirst, OthersStay, Office!ReadFormulas
  <2> QED
    BY <2>1, <2>2, <2>3, <2>4, <2>5, <2>6
<1>6. CASE Office!Close
  <2>1. faults' \in Nat
    BY <1>6, FaultCounts DEF Office!Close
  <2>2. ExcelIsStarted'
    BY <1>6 DEF ExcelIsStarted, Office!Close
  <2>3. HandleIsOpen'
    BY <1>6 DEF ExcelIsStarted, HandleIsOpen, Office!Close
  <2>4. ExcelGoesFirst'
    BY <1>6 DEF ExcelIsStarted, HandleIsOpen, ExcelGoesFirst, Office!Close
  <2>5. OnlyFaultsLeave'
    BY <1>6, FaultCounts DEF ExcelIsStarted, HandleIsOpen, OnlyFaultsLeave, Office!Close
  <2>6. OthersStay'
    BY <1>6 DEF ExcelIsStarted, HandleIsOpen, ExcelGoesFirst, OthersStay, Office!Close
  <2> QED
    BY <2>1, <2>2, <2>3, <2>4, <2>5, <2>6
<1>7. CASE Office!Answer
  <2>1. faults' \in Nat
    BY <1>7 DEF Office!Answer
  <2>2. ExcelIsStarted'
    BY <1>7 DEF ExcelIsStarted, Office!Answer
  <2>3. HandleIsOpen'
    BY <1>7 DEF ExcelIsStarted, HandleIsOpen, Office!Answer
  <2>4. ExcelGoesFirst'
    BY <1>7 DEF ExcelIsStarted, HandleIsOpen, ExcelGoesFirst, Office!Answer
  <2>5. OnlyFaultsLeave'
    BY <1>7 DEF ExcelIsStarted, HandleIsOpen, OnlyFaultsLeave, Office!Answer
  <2>6. OthersStay'
    BY <1>7 DEF ExcelIsStarted, HandleIsOpen, ExcelGoesFirst, OthersStay, Office!Answer
  <2> QED
    BY <2>1, <2>2, <2>3, <2>4, <2>5, <2>6
<1>8. CASE Office!ChildDies
  <2>1. faults' \in Nat
    BY <1>8, FaultCounts DEF Office!ChildDies
  <2>2. ExcelIsStarted'
    BY <1>8 DEF ExcelIsStarted, Office!ChildDies
  <2>3. HandleIsOpen'
    BY <1>8 DEF ExcelIsStarted, HandleIsOpen, Office!ChildDies
  <2>4. ExcelGoesFirst'
    BY <1>8 DEF ExcelIsStarted, HandleIsOpen, ExcelGoesFirst, Office!ChildDies
  <2>5. OnlyFaultsLeave'
    BY <1>8, FaultCounts DEF ExcelIsStarted, HandleIsOpen, OnlyFaultsLeave, Office!ChildDies
  <2>6. OthersStay'
    BY <1>8 DEF ExcelIsStarted, HandleIsOpen, ExcelGoesFirst, OthersStay, Office!ChildDies
  <2> QED
    BY <2>1, <2>2, <2>3, <2>4, <2>5, <2>6
<1>9. CASE Office!WatchReader
  <2>1. faults' \in Nat
    BY <1>9, FaultCounts DEF Office!WatchReader, Office!ReaderDead, Office!ExcelEnds
  <2>2. ExcelIsStarted'
    <3>1. /\ UNCHANGED <<status, pid>> /\ watch = "starts"
          /\ \/ UNCHANGED <<child, excel, open>>
             \/ watch' = "off" /\ child' = "gone" /\ excel' = "gone" /\ open' = FALSE
      BY <1>9 DEF Office!WatchReader, Office!ExcelEnds
    <3>2. CASE UNCHANGED <<child, excel, open>>
      BY <3>1, <3>2 DEF ExcelIsStarted
    <3>3. CASE watch' = "off" /\ child' = "gone" /\ excel' = "gone" /\ open' = FALSE
      BY <3>1, <3>3 DEF ExcelIsStarted
    <3> QED
      BY <3>1, <3>2, <3>3
  <2>3. HandleIsOpen'
    BY <1>9 DEF ExcelIsStarted, HandleIsOpen, Office!WatchReader, Office!ReaderDead,
       Office!ExcelEnds
  <2>4. ExcelGoesFirst'
    BY <1>9 DEF ExcelIsStarted, HandleIsOpen, ExcelGoesFirst, Office!WatchReader,
       Office!ReaderDead, Office!ExcelEnds
  <2>5. OnlyFaultsLeave'
    BY <1>9, FaultCounts DEF ExcelIsStarted, HandleIsOpen, OnlyFaultsLeave,
       Office!WatchReader, Office!ReaderDead, Office!ExcelEnds
  <2>6. OthersStay'
    BY <1>9 DEF ExcelIsStarted, HandleIsOpen, ExcelGoesFirst, OthersStay, Office!WatchReader,
       Office!ReaderDead, Office!ExcelEnds
  <2> QED
    BY <2>1, <2>2, <2>3, <2>4, <2>5, <2>6
<1>10. CASE Office!ReaderGone
  <2>1. faults' \in Nat
    BY <1>10 DEF Office!ReaderGone, Office!ReaderDead, Office!ExcelEnds
  <2>2. ExcelIsStarted'
    BY <1>10 DEF ExcelIsStarted, Office!ReaderGone, Office!ReaderDead, Office!ExcelEnds
  <2>3. HandleIsOpen'
    BY <1>10 DEF ExcelIsStarted, HandleIsOpen, Office!ReaderGone, Office!ReaderDead,
       Office!ExcelEnds
  <2>4. ExcelGoesFirst'
    BY <1>10 DEF ExcelIsStarted, HandleIsOpen, ExcelGoesFirst, Office!ReaderGone,
       Office!ReaderDead, Office!ExcelEnds
  <2>5. OnlyFaultsLeave'
    BY <1>10 DEF ExcelIsStarted, HandleIsOpen, OnlyFaultsLeave, Office!ReaderGone,
       Office!ReaderDead, Office!ExcelEnds
  <2>6. OthersStay'
    BY <1>10 DEF ExcelIsStarted, HandleIsOpen, ExcelGoesFirst, OthersStay, Office!ReaderGone,
       Office!ReaderDead, Office!ExcelEnds
  <2> QED
    BY <2>1, <2>2, <2>3, <2>4, <2>5, <2>6
<1> QED
  BY <1>1, <1>2, <1>3, <1>4, <1>5, <1>6, <1>7, <1>8, <1>9, <1>10 DEF Office!ChildStep

(* What the reader does, and what is done to it.                             *)
LEMMA ReaderSteps ==
  ASSUME OfficeInv, Office!ReaderStep
  PROVE  OfficeInv'
<1> USE DEF OfficeInv, Office!Alive, Office!childVars, Office!processVars, Office!ReaderGoes
<1>1. CASE Office!Communicated
  <2>1. faults' \in Nat
    BY <1>1 DEF Office!Communicated
  <2>2. ExcelIsStarted'
    BY <1>1 DEF ExcelIsStarted, Office!Communicated
  <2>3. HandleIsOpen'
    BY <1>1 DEF ExcelIsStarted, HandleIsOpen, Office!Communicated
  <2>4. ExcelGoesFirst'
    BY <1>1 DEF ExcelIsStarted, HandleIsOpen, ExcelGoesFirst, Office!Communicated
  <2>5. OnlyFaultsLeave'
    BY <1>1 DEF ExcelIsStarted, HandleIsOpen, OnlyFaultsLeave, Office!Communicated
  <2>6. OthersStay'
    BY <1>1 DEF ExcelIsStarted, HandleIsOpen, ExcelGoesFirst, OthersStay, Office!Communicated
  <2> QED
    BY <2>1, <2>2, <2>3, <2>4, <2>5, <2>6
<1>2. CASE Office!Expires
  <2>1. faults' \in Nat
    BY <1>2 DEF Office!Expires
  <2>2. ExcelIsStarted'
    BY <1>2 DEF ExcelIsStarted, Office!Expires
  <2>3. HandleIsOpen'
    BY <1>2 DEF ExcelIsStarted, HandleIsOpen, Office!Expires
  <2>4. ExcelGoesFirst'
    BY <1>2 DEF ExcelIsStarted, HandleIsOpen, ExcelGoesFirst, Office!Expires
  <2>5. OnlyFaultsLeave'
    BY <1>2 DEF ExcelIsStarted, HandleIsOpen, OnlyFaultsLeave, Office!Expires
  <2>6. OthersStay'
    BY <1>2 DEF ExcelIsStarted, HandleIsOpen, ExcelGoesFirst, OthersStay, Office!Expires
  <2> QED
    BY <2>1, <2>2, <2>3, <2>4, <2>5, <2>6
<1>3. CASE Office!Look("expired", "waits first", "kills")
  <2>1. faults' \in Nat
    BY <1>3 DEF Office!Look, Office!Running
  <2>2. ExcelIsStarted'
    BY <1>3 DEF ExcelIsStarted, Office!Look, Office!Running
  <2>3. HandleIsOpen'
    BY <1>3 DEF ExcelIsStarted, HandleIsOpen, Office!Look, Office!Running
  <2>4. ExcelGoesFirst'
    BY <1>3 DEF ExcelIsStarted, HandleIsOpen, ExcelGoesFirst, Office!Look, Office!Running
  <2>5. OnlyFaultsLeave'
    BY <1>3 DEF ExcelIsStarted, HandleIsOpen, OnlyFaultsLeave, Office!Look, Office!Running
  <2>6. OthersStay'
    BY <1>3 DEF ExcelIsStarted, HandleIsOpen, ExcelGoesFirst, OthersStay, Office!Look,
       Office!Running
  <2> QED
    BY <2>1, <2>2, <2>3, <2>4, <2>5, <2>6
<1>4. CASE Office!EndOwned("waits first", "kills")
  <2>1. faults' \in Nat
    BY <1>4, FaultCounts DEF Office!EndOwned, Office!Owned, Office!ExcelEnds
  <2>2. ExcelIsStarted'
    <3>1. UNCHANGED <<child, watch, status, pid>>
      BY <1>4 DEF Office!EndOwned
    <3>2. UNCHANGED <<excel, open>> \/ (Office!Alive /\ excel' = "gone" /\ open' = FALSE)
      BY <1>4 DEF Office!EndOwned, Office!ExcelEnds
    <3> QED
      BY <3>1, <3>2 DEF ExcelIsStarted
  <2>3. HandleIsOpen'
    BY <1>4 DEF ExcelIsStarted, HandleIsOpen, Office!EndOwned, Office!Owned, Office!ExcelEnds
  <2>4. ExcelGoesFirst'
    BY <1>4 DEF ExcelIsStarted, HandleIsOpen, ExcelGoesFirst, Office!EndOwned, Office!Owned,
       Office!ExcelEnds
  <2>5. OnlyFaultsLeave'
    BY <1>4, FaultCounts DEF ExcelIsStarted, HandleIsOpen, OnlyFaultsLeave, Office!EndOwned,
       Office!Owned, Office!ExcelEnds
  <2>6. OthersStay'
    BY <1>4 DEF ExcelIsStarted, HandleIsOpen, ExcelGoesFirst, OthersStay, Office!EndOwned,
       Office!Owned, Office!ExcelEnds
  <2> QED
    BY <2>1, <2>2, <2>3, <2>4, <2>5, <2>6
<1>5. CASE Office!KillWorker
  <2>1. faults' \in Nat
    BY <1>5 DEF Office!KillWorker, Office!Goes
  <2>2. ExcelIsStarted'
    BY <1>5 DEF ExcelIsStarted, Office!KillWorker, Office!Goes
  <2>3. HandleIsOpen'
    BY <1>5 DEF ExcelIsStarted, HandleIsOpen, Office!KillWorker, Office!Goes
  <2>4. ExcelGoesFirst'
    BY <1>5 DEF ExcelIsStarted, HandleIsOpen, ExcelGoesFirst, Office!KillWorker, Office!Goes
  <2>5. OnlyFaultsLeave'
    BY <1>5 DEF ExcelIsStarted, HandleIsOpen, OnlyFaultsLeave, Office!KillWorker, Office!Goes
  <2>6. OthersStay'
    BY <1>5 DEF ExcelIsStarted, HandleIsOpen, ExcelGoesFirst, OthersStay, Office!KillWorker,
       Office!Goes
  <2> QED
    BY <2>1, <2>2, <2>3, <2>4, <2>5, <2>6
<1>6. CASE Office!LastLook
  <2>1. faults' \in Nat
    BY <1>6 DEF Office!LastLook, Office!Look, Office!Running
  <2>2. ExcelIsStarted'
    BY <1>6 DEF ExcelIsStarted, Office!LastLook, Office!Look, Office!Running
  <2>3. HandleIsOpen'
    BY <1>6 DEF ExcelIsStarted, HandleIsOpen, Office!LastLook, Office!Look, Office!Running
  <2>4. ExcelGoesFirst'
    BY <1>6 DEF ExcelIsStarted, HandleIsOpen, ExcelGoesFirst, Office!LastLook, Office!Look,
       Office!Running
  <2>5. OnlyFaultsLeave'
    BY <1>6 DEF ExcelIsStarted, HandleIsOpen, OnlyFaultsLeave, Office!LastLook, Office!Look,
       Office!Running
  <2>6. OthersStay'
    BY <1>6 DEF ExcelIsStarted, HandleIsOpen, ExcelGoesFirst, OthersStay, Office!LastLook,
       Office!Look, Office!Running
  <2> QED
    BY <2>1, <2>2, <2>3, <2>4, <2>5, <2>6
<1>7. CASE Office!EndOwned("waits last", "leaves")
  <2>1. faults' \in Nat
    BY <1>7, FaultCounts DEF Office!EndOwned, Office!Owned, Office!ExcelEnds
  <2>2. ExcelIsStarted'
    <3>1. UNCHANGED <<child, watch, status, pid>>
      BY <1>7 DEF Office!EndOwned
    <3>2. UNCHANGED <<excel, open>> \/ (Office!Alive /\ excel' = "gone" /\ open' = FALSE)
      BY <1>7 DEF Office!EndOwned, Office!ExcelEnds
    <3> QED
      BY <3>1, <3>2 DEF ExcelIsStarted
  <2>3. HandleIsOpen'
    BY <1>7 DEF ExcelIsStarted, HandleIsOpen, Office!EndOwned, Office!Owned, Office!ExcelEnds
  <2>4. ExcelGoesFirst'
    BY <1>7 DEF ExcelIsStarted, HandleIsOpen, ExcelGoesFirst, Office!EndOwned, Office!Owned,
       Office!ExcelEnds
  <2>5. OnlyFaultsLeave'
    BY <1>7, FaultCounts DEF ExcelIsStarted, HandleIsOpen, OnlyFaultsLeave, Office!EndOwned,
       Office!Owned, Office!ExcelEnds
  <2>6. OthersStay'
    BY <1>7 DEF ExcelIsStarted, HandleIsOpen, ExcelGoesFirst, OthersStay, Office!EndOwned,
       Office!Owned, Office!ExcelEnds
  <2> QED
    BY <2>1, <2>2, <2>3, <2>4, <2>5, <2>6
<1>8. CASE Office!RemoveDirectory
  <2>1. faults' \in Nat
    BY <1>8 DEF Office!RemoveDirectory
  <2>2. ExcelIsStarted'
    BY <1>8 DEF ExcelIsStarted, Office!RemoveDirectory
  <2>3. HandleIsOpen'
    BY <1>8 DEF ExcelIsStarted, HandleIsOpen, Office!RemoveDirectory
  <2>4. ExcelGoesFirst'
    BY <1>8 DEF ExcelIsStarted, HandleIsOpen, ExcelGoesFirst, Office!RemoveDirectory
  <2>5. OnlyFaultsLeave'
    BY <1>8 DEF ExcelIsStarted, HandleIsOpen, OnlyFaultsLeave, Office!RemoveDirectory
  <2>6. OthersStay'
    BY <1>8 DEF ExcelIsStarted, HandleIsOpen, ExcelGoesFirst, OthersStay, Office!RemoveDirectory
  <2> QED
    BY <2>1, <2>2, <2>3, <2>4, <2>5, <2>6
<1>9. CASE Office!ReaderDies
  <2>1. faults' \in Nat
    BY <1>9 DEF Office!ReaderDies, Office!ReaderDead
  <2>2. ExcelIsStarted'
    BY <1>9 DEF ExcelIsStarted, Office!ReaderDies, Office!ReaderDead
  <2>3. HandleIsOpen'
    BY <1>9 DEF ExcelIsStarted, HandleIsOpen, Office!ReaderDies, Office!ReaderDead
  <2>4. ExcelGoesFirst'
    BY <1>9 DEF ExcelIsStarted, HandleIsOpen, ExcelGoesFirst, Office!ReaderDies,
       Office!ReaderDead
  <2>5. OnlyFaultsLeave'
    BY <1>9 DEF ExcelIsStarted, HandleIsOpen, OnlyFaultsLeave, Office!ReaderDies,
       Office!ReaderDead
  <2>6. OthersStay'
    BY <1>9 DEF ExcelIsStarted, HandleIsOpen, ExcelGoesFirst, OthersStay, Office!ReaderDies,
       Office!ReaderDead
  <2> QED
    BY <2>1, <2>2, <2>3, <2>4, <2>5, <2>6
<1> QED
  BY <1>1, <1>2, <1>3, <1>4, <1>5, <1>6, <1>7, <1>8, <1>9 DEF Office!ReaderStep

(* Every step of a read is one of its reader or of its worker.              *)
LEMMA OfficeSteps ==
  ASSUME OfficeInv, Office!OfficeNext
  PROVE  OfficeInv'
<1> USE DEF OfficeInv, ExcelIsStarted, HandleIsOpen, ExcelGoesFirst,
     OnlyFaultsLeave, OthersStay, Office!Alive,
        Office!readerVars, Office!childVars
<1>1. CASE Office!ExcelQuits
  BY <1>1 DEF Office!ExcelQuits, Office!ExcelEnds
<1>2. CASE Office!NumberReused
  BY <1>2 DEF Office!NumberReused
<1> QED
  BY <1>1, <1>2, ChildSteps, ReaderSteps DEF Office!OfficeNext

(* When the read is over, no Excel that was started for it is left but one   *)
(* that Windows would not end or whose number was not written down; and no   *)
(* other program is ended for it (_terminate_owned_excel, _watch_parent).    *)
THEOREM OwnExcelEnds == ComparisonSpec => []OnlyOwnExcelEnds
<1> DEFINE Inv == part = "office" => OfficeInv
<1>1. ComparisonInit => Inv
  BY BeginsApart, OfficeBegins
<1>2. Inv /\ [ComparisonNext]_comparisonVars => Inv'
  BY StaysApart, OfficeSteps, OfficeStays
<1>3. Inv => OnlyOwnExcelEnds
  BY DEF OfficeInv, ExcelGoesFirst, OnlyFaultsLeave, OthersStay, OnlyOwnExcelEnds,
     Office!ExcelIsEnded, Office!OthersLive, Office!Alive
<1> QED
  BY <1>1, <1>2, <1>3, PTL DEF ComparisonSpec
-----------------------------------------------------------------------------
(* The components count as the proofs do. *)
LEMMA CountsAlike ==
  ASSUME NEW S
  PROVE  /\ Cache!Cardinality(S) = Cardinality(S) /\ Carry!Cardinality(S) = Cardinality(S)
         /\ Qc!Cardinality(S) = Cardinality(S)
  BY DEF Cardinality, Cache!Cardinality, Carry!Cardinality, Qc!Cardinality
-----------------------------------------------------------------------------
(* The cache of extracted formulas (FormulaCache). *)
(* What is going to be removed.  Once every publication has been followed   *)
(* by a list of what is there, what no list names is within the bound.      *)
Planned == UNION {user[u].plan : u \in {v \in Users : user[v].pc = "evict"}}
RestIsBounded ==
  damage = 0 /\ (\A u \in Users : user[u].pc # "list") => Cardinality(Cache!Present \ Planned) <= MaxEntries

(* The part of the types that the bound rests on. *)
UserFits(r) ==
  /\ {"pc", "plan"} \subseteq DOMAIN r
  /\ r.plan \in SUBSET Keys
CacheInv ==
  /\ damage \in Nat
  /\ DOMAIN entry = Keys /\ DOMAIN user = Users
  /\ \A u \in Users : UserFits(user[u])
  /\ RestIsBounded

(* An empty cache is within its bound.                                      *)
LEMMA CacheBegins == Cache!Init => CacheInv
<1> SUFFICES ASSUME Cache!Init PROVE CacheInv
  OBVIOUS
<1>1. \A u \in Users : UserFits(user[u])
  BY DEF Cache!Init, Cache!Idle, UserFits
<1>2. Cache!Present \ Planned = {}
  BY DEF Cache!Init, Cache!Present
<1>3. RestIsBounded
  BY <1>2, CacheConstants, FS_EmptySet DEF RestIsBounded
<1> QED
  BY <1>1, <1>3 DEF CacheInv, Cache!Init

(* Less of it is still within the bound. *)
LEMMA FewerStay ==
  ASSUME CacheInv, damage' = damage, Cache!Present' \ Planned' \subseteq Cache!Present \ Planned,
         \A u \in Users : user[u].pc = "list" => user'[u].pc = "list"
  PROVE  RestIsBounded'
<1>1. IsFiniteSet(Cache!Present \ Planned)
  BY CacheConstants, FS_Subset DEF Cache!Present
<1>2. Cardinality(Cache!Present' \ Planned') <= Cardinality(Cache!Present \ Planned)
  BY <1>1, FS_Subset
<1>3. Cardinality(Cache!Present' \ Planned') \in Nat /\ Cardinality(Cache!Present \ Planned) \in Nat
  BY <1>1, FS_Subset, FS_CardinalityType
<1> QED
  BY <1>2, <1>3, CacheConstants DEF CacheInv, RestIsBounded

(* One process moves, to a record that fits. *)
LEMMA OneMoves ==
  ASSUME CacheInv, NEW u \in Users, NEW r, UserFits(r), user' = [user EXCEPT ![u] = r]
  PROVE  /\ DOMAIN user' = Users
         /\ \A v \in Users : UserFits(user'[v])
         /\ user'[u] = r /\ \A v \in Users \ {u} : user'[v] = user[v]
<1>1. DOMAIN user = Users /\ \A v \in Users : UserFits(user[v])
  BY DEF CacheInv
<1>2. user' = [v \in Users |-> IF v = u THEN r ELSE user[v]]
  BY <1>1
<1> QED
  BY <1>1, <1>2

(* A process that does nothing fits.                                        *)
LEMMA FitsIdle == UserFits(Cache!Idle)
  BY DEF UserFits, Cache!Idle

(* The records of a process after its steps. *)
LEMMA PcFits ==
  ASSUME NEW r, UserFits(r), NEW pc
  PROVE  UserFits([r EXCEPT !.pc = pc]) /\ [r EXCEPT !.pc = pc].pc = pc
  BY DEF UserFits

(* A list of the entries that are there, or of some of them.                *)
LEMMA PlanFits ==
  ASSUME NEW r, UserFits(r), NEW plan \in SUBSET Keys
  PROVE  /\ UserFits([r EXCEPT !.plan = plan])
         /\ [r EXCEPT !.plan = plan].plan = plan /\ [r EXCEPT !.plan = plan].pc = r.pc
  BY DEF UserFits

(* The same, with which the process starts to unlink.                       *)
LEMMA EvictFits ==
  ASSUME NEW r, UserFits(r), NEW plan \in SUBSET Keys
  PROVE  /\ UserFits([r EXCEPT !.plan = plan, !.pc = "evict"])
         /\ [r EXCEPT !.plan = plan, !.pc = "evict"].plan = plan
         /\ [r EXCEPT !.plan = plan, !.pc = "evict"].pc = "evict"
  BY DEF UserFits

(* A step that changes none of its variables keeps it.                      *)
LEMMA CacheStays ==
  ASSUME CacheInv, UNCHANGED cacheVars
  PROVE  CacheInv'
  BY DEF cacheVars, CacheInv, RestIsBounded, Cache!Present, Planned, UserFits

(* A process that is not evicting moves, and nothing is published.          *)
LEMMA Elsewhere ==
  ASSUME CacheInv, NEW u \in Users, NEW r, UserFits(r), user' = [user EXCEPT ![u] = r],
         user[u].pc \notin {"list", "evict"} \/ (user[u].pc = "evict" /\ user[u].plan = {}),
         DOMAIN entry' = Keys, Cache!Present' \subseteq Cache!Present, damage' = damage
  PROVE  CacheInv'
<1>1. \A v \in Users : UserFits(user[v])
  BY DEF CacheInv
<1>2. Planned \subseteq Planned'
  BY <1>1, OneMoves DEF Planned
<1>3. \A v \in Users : user[v].pc = "list" => user'[v].pc = "list"
  BY OneMoves
<1>4. RestIsBounded'
  BY <1>2, <1>3, FewerStay
<1> QED
  BY <1>4, OneMoves DEF CacheInv

(* Every step keeps it; a listing brings the rest into bounds.              *)
LEMMA CacheSteps ==
  ASSUME CacheInv, Cache!Next
  PROVE  CacheInv'
<1>0. /\ damage \in Nat /\ DOMAIN entry = Keys /\ DOMAIN user = Users
      /\ \A u \in Users : UserFits(user[u])
  BY DEF CacheInv
<1>1. ASSUME NEW u \in Users, NEW k \in Keys, Cache!Lookup(u, k) PROVE CacheInv'
  <2> DEFINE r == [Cache!Idle EXCEPT !.key = k,
                !.pc = IF k \in Cache!Present THEN "read" ELSE "extract",
                !.sees = IF k \in Cache!Present THEN entry[k].good ELSE None]
  <2>1. user' = [user EXCEPT ![u] = r] /\ entry' = entry /\ damage' = damage /\ user[u].pc = "idle"
    BY <1>1 DEF Cache!Lookup
  <2>2. UserFits(r)
    BY <1>1 DEF UserFits, Cache!Idle
  <2> HIDE DEF r
  <2> QED
    <3>1. Cache!Present' \subseteq Cache!Present
      BY <2>1 DEF Cache!Present
    <3>2. DOMAIN entry' = Keys
      BY <1>0, <2>1
    <3> QED
      BY <3>1, <3>2, <2>1, <2>2, Elsewhere
<1>2. ASSUME NEW u \in Users, Cache!Hit(u) PROVE CacheInv'
  <2>1. DOMAIN entry' = Keys /\ Cache!Present' \subseteq Cache!Present
    BY <1>0, <1>2 DEF Cache!Hit, Cache!Touch, Cache!Present
  <2> QED
    BY <1>2, <2>1, FitsIdle, Elsewhere DEF Cache!Hit
<1>3. ASSUME NEW u \in Users, Cache!Unusable(u) PROVE CacheInv'
  BY <1>0, <1>3, PcFits, Elsewhere DEF Cache!Unusable, Cache!Goes, Cache!Present
<1>4. ASSUME NEW u \in Users, Cache!Quarantine(u) PROVE CacheInv'
  <2>1. DOMAIN entry' = Keys /\ Cache!Present' \subseteq Cache!Present
    BY <1>0, <1>4 DEF Cache!Quarantine, Cache!Present
  <2> QED
    BY <1>0, <1>4, <2>1, PcFits, Elsewhere DEF Cache!Quarantine, Cache!Goes
<1>5. ASSUME NEW u \in Users, Cache!Extract(u) PROVE CacheInv'
  BY <1>0, <1>5, PcFits, FitsIdle, Elsewhere DEF Cache!Extract, Cache!Goes, Cache!Present
<1>6. ASSUME NEW u \in Users, Cache!Publish(u) PROVE CacheInv'
  <2>1. user' = [user EXCEPT ![u] = [user[u] EXCEPT !.pc = "list"]] /\ damage' = damage
    BY <1>0, <1>6 DEF Cache!Publish, Cache!Goes
  <2>2. UserFits([user[u] EXCEPT !.pc = "list"]) /\ [user[u] EXCEPT !.pc = "list"].pc = "list"
    BY <1>0, PcFits
  <2>3. user'[u].pc = "list"
    BY <2>1, <2>2, OneMoves
  <2>4. DOMAIN entry' = Keys
    BY <1>0, <1>6 DEF Cache!Publish
  <2> QED
    BY <1>0, <2>1, <2>2, <2>3, <2>4, OneMoves DEF CacheInv, RestIsBounded
<1>7. ASSUME NEW u \in Users, Cache!List(u) PROVE CacheInv'
  <2>1. PICK V \in Cache!Oldest(u) : user' = [user EXCEPT ![u] = [user[u] EXCEPT !.plan = V, !.pc = "evict"]]
    BY <1>0, <1>7 DEF Cache!List
  <2> DEFINE r == [user[u] EXCEPT !.plan = V, !.pc = "evict"]
  <2>2. V \in SUBSET Keys
    BY <2>1 DEF Cache!Oldest, Cache!Eldest, Cache!Present
  <2>3. UserFits(r) /\ r.plan = V /\ r.pc = "evict"
    BY <1>0, <2>2, EvictFits
  <2> HIDE DEF r
  <2>4. user'[u] = r
    BY <2>1, <2>3, OneMoves DEF r
  <2>5. Cache!Present' \ Planned' \subseteq Cache!Present \ V
    BY <1>7, <2>3, <2>4 DEF Cache!List, Planned, Cache!Present
  <2>6. IsFiniteSet(Cache!Present) /\ IsFiniteSet(V) /\ IsFiniteSet(Cache!Present \ V) /\ V \subseteq Cache!Present
    BY <2>1, CacheConstants, FS_Subset DEF Cache!Oldest, Cache!Eldest, Cache!Present
  <2>7. Cardinality(Cache!Present \ V) = Cardinality(Cache!Present) - Cardinality(V)
    <3>1. Cache!Present \cap V = V
      BY <2>6
    <3> QED
      BY <3>1, <2>6, FS_Difference
  <2>8. Cardinality(Cache!Present \ V) <= MaxEntries
    BY <2>1, <2>6, <2>7, FS_CardinalityType, CacheConstants, CountsAlike
       DEF Cache!Oldest, Cache!Eldest
  <2>9. Cardinality(Cache!Present' \ Planned') <= MaxEntries
    BY <2>5, <2>6, <2>8, FS_Subset, FS_CardinalityType, CacheConstants
  <2> QED
    BY <1>0, <1>7, <2>1, <2>3, <2>9, OneMoves DEF r, CacheInv, RestIsBounded, Cache!List
<1>8. ASSUME NEW u \in Users, Cache!Evict(u) PROVE CacheInv'
  <2>1. CASE user[u].plan = {}
    BY <1>0, <1>8, <2>1, FitsIdle, Elsewhere DEF Cache!Evict, Cache!Present
  <2>2. CASE user[u].plan # {}
    <3>1. PICK k \in user[u].plan : /\ entry' = [entry EXCEPT ![k] = None]
                                    /\ user' = [user EXCEPT ![u].plan = @ \ {k}]
      BY <1>8, <2>2 DEF Cache!Evict
    <3> DEFINE r == [user[u] EXCEPT !.plan = user[u].plan \ {k}]
    <3>2. user' = [user EXCEPT ![u] = r]
      BY <1>0, <3>1
    <3>3. user[u].plan \ {k} \in SUBSET Keys
      BY <1>0 DEF UserFits
    <3>4. UserFits(r) /\ r.plan = user[u].plan \ {k} /\ r.pc = user[u].pc
      BY <1>0, <3>3, PlanFits
    <3> HIDE DEF r
    <3>5. user'[u] = r /\ \A v \in Users \ {u} : user'[v] = user[v]
      BY <3>2, <3>4, OneMoves
    <3>6. Cache!Present' = Cache!Present \ {k} /\ DOMAIN entry' = Keys
      BY <1>0, <3>1 DEF Cache!Present
    <3>7. Planned \subseteq Planned' \cup {k}
      BY <3>4, <3>5 DEF Planned
    <3>8. \A v \in Users : user'[v].pc = user[v].pc
      BY <3>4, <3>5
    <3>9. RestIsBounded'
      BY <1>8, <3>6, <3>7, <3>8, FewerStay DEF Cache!Evict
    <3> QED
      BY <1>0, <1>8, <3>2, <3>4, <3>6, <3>9, OneMoves DEF CacheInv, Cache!Evict
  <2> QED
    BY <2>1, <2>2
<1>9. ASSUME NEW u \in Users, Cache!Clear(u) PROVE CacheInv'
  <2>1. Cache!Present \in SUBSET Keys
    BY DEF Cache!Present
  <2>2. UserFits([user[u] EXCEPT !.plan = Cache!Present, !.pc = "evict"])
    BY <1>0, <2>1, EvictFits
  <2>3. user' = [user EXCEPT ![u] = [user[u] EXCEPT !.plan = Cache!Present, !.pc = "evict"]]
    BY <1>0, <1>9 DEF Cache!Clear, UserFits
  <2> QED
    BY <1>0, <1>9, <2>2, <2>3, Elsewhere DEF Cache!Clear, Cache!Present
<1>10. ASSUME NEW u \in Users, Cache!Crash(u) PROVE CacheInv'
  BY <1>0, <1>10, FitsIdle, OneMoves DEF Cache!Crash, CacheInv, RestIsBounded
<1>11. ASSUME NEW k \in Keys, Cache!Damage(k) PROVE CacheInv'
  <2>1. DOMAIN entry' = Keys
    BY <1>0, <1>11 DEF Cache!Damage
  <2> QED
    BY <1>0, <1>11, <2>1 DEF Cache!Damage, CacheInv, RestIsBounded
<1> QED
  BY <1>1, <1>2, <1>3, <1>4, <1>5, <1>6, <1>7, <1>8, <1>9, <1>10, <1>11 DEF Cache!Next

(* With every list empty, the rest is all of the cache.                     *)
LEMMA CacheBound ==
  ASSUME CacheInv
  PROVE  Cache!CacheIsBounded
<1> SUFFICES ASSUME damage = 0, \A u \in Users : user[u].pc \notin {"list", "evict"}
             PROVE  Cardinality(Cache!Present) <= MaxEntries
  BY CountsAlike DEF Cache!CacheIsBounded
<1>1. Planned = {}
  BY DEF Planned
<1>2. Cache!Present \ Planned = Cache!Present
  BY <1>1
<1> QED
  BY <1>2 DEF CacheInv, RestIsBounded

(* The cache is within its bound whenever no process is between what it      *)
(* published and the end of its eviction, for any number of processes, keys *)
(* and interleavings of them (_evict_over_cap).                              *)
THEOREM CacheBounded == ComparisonSpec => []CacheIsBounded
<1> DEFINE Inv == part = "cache" => CacheInv
<1>1. ComparisonInit => Inv
  BY BeginsApart, CacheBegins
<1>2. Inv /\ [ComparisonNext]_comparisonVars => Inv'
  BY StaysApart, CacheSteps, CacheStays
<1>3. Inv => CacheIsBounded
  BY CacheBound DEF CacheIsBounded
<1> QED
  BY <1>1, <1>2, <1>3, PTL DEF ComparisonSpec
-----------------------------------------------------------------------------
(* Decisions carried to the next run (CarryForward). *)

(* What a step of the dialog leaves alone. *)
RunsStand ==
  /\ policy' = policy /\ DOMAIN run' = Carry!Runs
  /\ \A r \in Carry!Runs : run'[r].findings = run[r].findings

(* The findings of the two runs: lists of findings, grouped.                *)
FindingsFit ==
  /\ DOMAIN run = Carry!Runs
  /\ \A r \in Carry!Runs : {"findings", "there", "signed"} \subseteq DOMAIN run[r]
  /\ \A r \in Carry!Runs : Carry!Grouped(run[r].findings)
  /\ \A r \in Carry!Runs, i \in Carry!Ids : Carry!Finding(r, i) \in Carry!Atomic \cup Carry!Population \cup {None}

AnnotationsFit ==
  /\ DOMAIN ann = Carry!Runs /\ \A r \in Carry!Runs : DOMAIN ann[r] = Carry!Ids
  /\ DOMAIN origin = Carry!Ids

(* What the lineage of a decision says of the two findings it joins.        *)
Joins(l) ==
  /\ l.from \in Carry!Listed("source") /\ l.finding \in Carry!Listed("reqc")
  /\ l = [finding |-> l.finding, from |-> l.from, relation |-> l.relation]
  /\ \/ l.relation = "identity" /\ Carry!Exact(l.from, l.finding)
     \/ /\ l.relation = "member"
        /\ Carry!Finding("reqc", l.finding).key = Carry!Whole
        /\ Carry!Same("source", Carry!Finding("reqc", l.finding)) = {}
        /\ Carry!Finding("source", l.from).key \in Carry!Finding("reqc", l.finding).members

Inherited == {l \in lineage : l.relation = "member"}

(* Members are carried from a signed run, whose decisions stay as they are. *)
SourceIsSigned == run["source"].there /\ Inherited # {} => run["source"].signed

CarryInv ==
  /\ FindingsFit /\ AnnotationsFit
  /\ \A l \in lineage : Joins(l)
  /\ SourceIsSigned /\ Carry!PopulationAgrees

(* No decision is carried yet, and the source has its own.                  *)
LEMMA CarryBegins == Carry!CarryInit => CarryInv
<1> SUFFICES ASSUME Carry!CarryInit PROVE CarryInv
  OBVIOUS
<1>1. \A r \in Carry!Runs : run[r] \in Carry!RunRow
  BY DEF Carry!CarryInit
<1>2. FindingsFit
  BY <1>1 DEF Carry!CarryInit, FindingsFit, Carry!RunRow, Carry!Finding
<1>3. lineage = {} /\ AnnotationsFit
  BY DEF Carry!CarryInit, AnnotationsFit
<1>4. Carry!PopulationAgrees /\ SourceIsSigned
  BY <1>3 DEF Carry!PopulationAgrees, SourceIsSigned, Inherited
<1> QED
  BY <1>2, <1>3, <1>4 DEF CarryInv

(* What a line of the lineage joins depends on the runs alone.              *)
LEMMA StillJoins ==
  ASSUME CarryInv, RunsStand, NEW l, Joins(l)
  PROVE  Joins(l)'
  BY DEF RunsStand, Joins, Carry!Listed, Carry!Finding, Carry!Exact, Carry!Same, Carry!Runs

(* So do the findings.                                                      *)
LEMMA FindingsStay ==
  ASSUME CarryInv, RunsStand, \A r \in Carry!Runs : {"findings", "there", "signed"} \subseteq DOMAIN run'[r]
  PROVE  FindingsFit'
  BY DEF CarryInv, RunsStand, FindingsFit, Carry!Finding

(* A step that changes none of its variables keeps it.                      *)
LEMMA CarryStays ==
  ASSUME CarryInv, UNCHANGED carryVars
  PROVE  CarryInv'
<1>1. RunsStand
  BY DEF CarryInv, FindingsFit, RunsStand, carryVars
<1>2. \A l \in lineage' : Joins(l)'
  BY <1>1, StillJoins DEF carryVars, CarryInv
<1>3. FindingsFit'
  BY <1>1, FindingsStay DEF carryVars, CarryInv, FindingsFit
<1>4. AnnotationsFit' /\ SourceIsSigned' /\ Carry!PopulationAgrees'
  BY DEF carryVars, CarryInv, AnnotationsFit, SourceIsSigned, Inherited, Carry!PopulationAgrees,
     Carry!Listed, Carry!Finding, Carry!AtCell, Carry!Annotated
<1> QED
  BY <1>2, <1>3, <1>4 DEF CarryInv

(* The cell of a finding that is one is a cell, and its only member.        *)
LEMMA KeysOfFindings ==
  ASSUME CarryInv, NEW r \in Carry!Runs, NEW i \in Carry!Listed(r)
  PROVE  /\ Carry!Finding(r, i).book \in Books
         /\ \/ Carry!Finding(r, i).key \in Cells /\ Carry!Finding(r, i).members = {Carry!Finding(r, i).key}
            \/ Carry!Finding(r, i).key = Carry!Whole /\ Carry!Finding(r, i).members \in (SUBSET Cells) \ {{}}
  BY DEF CarryInv, FindingsFit, Carry!Listed, Carry!Atomic, Carry!Population

(* In one book a cell names one finding of the source, and one here.        *)
LEMMA OneToOne ==
  ASSUME CarryInv, \A b, c \in Books : b = c
  PROVE  Carry!CarriedOnce
<1>0. "source" \in Carry!Runs /\ "reqc" \in Carry!Runs
  BY DEF Carry!Runs
<1> USE <1>0
(* a cell is in one population at most, and in none with a finding of its own *)
<1>1. ASSUME NEW i \in Carry!Listed("reqc"), NEW j \in Carry!Listed("reqc"), NEW p,
             Carry!Finding("reqc", i).key = Carry!Whole, p \in Carry!Finding("reqc", i).members,
             p \in Carry!Finding("reqc", j).members
      PROVE  i = j
  <2>1. Carry!Grouped(run["reqc"].findings) /\ i \in Carry!Ids /\ j \in Carry!Ids
    BY DEF CarryInv, FindingsFit, Carry!Listed
  <2>2. Carry!Finding("reqc", i).book = Carry!Finding("reqc", j).book
    BY KeysOfFindings
  <2>3. Carry!Finding("reqc", i) # None /\ Carry!Finding("reqc", j) # None
    BY DEF Carry!Listed
  <2> QED
    BY <1>1, <2>1, <2>2, <2>3 DEF Carry!Grouped, Carry!Finding
<1>2. ASSUME NEW l \in lineage, NEW m \in lineage, l.from = m.from PROVE l.finding = m.finding /\ l.relation = m.relation
  <2>1. Joins(l) /\ Joins(m)
    BY DEF CarryInv
  <2>2. CASE l.relation = "identity" /\ m.relation = "identity"
    BY <1>2, <2>1, <2>2 DEF Joins, Carry!Exact
  <2>3. CASE l.relation = "member" /\ m.relation = "member"
    BY <1>1, <1>2, <2>1, <2>3 DEF Joins
  <2>4. ASSUME NEW k \in lineage, NEW n \in lineage, k.from = n.from, Joins(k), Joins(n),
               k.relation = "identity", n.relation = "member"
        PROVE  FALSE
    <3>1. Carry!Exact(k.from, k.finding) /\ k.finding \in Carry!Listed("reqc") /\ n.finding \in Carry!Listed("reqc")
      BY <2>4 DEF Joins
    <3>2. Carry!Finding("reqc", k.finding).key = Carry!Finding("source", k.from).key
      BY <3>1 DEF Carry!Exact, Carry!Same
    <3>3. /\ Carry!Finding("source", k.from).key \in Carry!Finding("reqc", n.finding).members
          /\ Carry!Finding("reqc", n.finding).key = Carry!Whole
      BY <2>4 DEF Joins
    <3>4. Carry!Finding("source", k.from).key \in Cells
      BY <3>1, <3>3, KeysOfFindings, CarryConstants DEF Carry!Whole
    <3>5. Carry!Finding("source", k.from).key \in Carry!Finding("reqc", k.finding).members
      BY <3>1, <3>2, <3>4, KeysOfFindings, CarryConstants DEF Carry!Whole
    <3>6. n.finding = k.finding
      BY <1>1, <3>1, <3>3, <3>5
    <3> QED
      BY <3>2, <3>3, <3>4, <3>6, CarryConstants DEF Carry!Whole
  <2> QED
    BY <1>2, <2>1, <2>2, <2>3, <2>4 DEF Joins
<1>3. ASSUME NEW l \in lineage, NEW m \in lineage, l.finding = m.finding,
             l.relation = "identity"
      PROVE  l.from = m.from
  <2>1. Joins(l) /\ Joins(m) /\ Carry!Exact(l.from, l.finding)
    BY <1>3 DEF CarryInv, Joins
  <2>2. /\ Carry!Finding("reqc", l.finding).key = Carry!Finding("source", l.from).key
        /\ Carry!Finding("reqc", l.finding).book = Carry!Finding("source", l.from).book
    BY <2>1 DEF Carry!Exact, Carry!Same
  <2>3. l.from \in Carry!Same("source", Carry!Finding("reqc", l.finding))
    BY <2>1, <2>2 DEF Carry!Same, Joins
  <2>4. m.relation = "identity" /\ Carry!Exact(m.from, m.finding)
    BY <1>3, <2>1, <2>3 DEF Joins
  <2>5. /\ Carry!Finding("reqc", m.finding).key = Carry!Finding("source", m.from).key
        /\ Carry!Finding("reqc", m.finding).book = Carry!Finding("source", m.from).book
    BY <2>4 DEF Carry!Exact, Carry!Same
  <2>6. m.from \in Carry!Same("source", Carry!Finding("source", l.from))
    BY <1>3, <2>1, <2>2, <2>5 DEF Carry!Same, Joins
  <2> QED
    BY <2>1, <2>6 DEF Carry!Exact
<1> QED
  BY <1>2, <1>3 DEF Carry!CarriedOnce, CarryInv, Joins

(* The sources of a population that agrees are as many as its cells, and    *)
(* each is at a cell of its own: every cell has one.                        *)
LEMMA EveryCellHasOne ==
  ASSUME CarryInv, NEW c \in Carry!Listed("reqc"), Carry!Candidate(c), Carry!Agreed(c),
         NEW p \in Carry!Finding("reqc", c).members
  PROVE  \E s \in Carry!Sources(c) : Carry!Finding("source", s).key = p
<1> DEFINE M == Carry!Finding("reqc", c).members
           f == [s \in Carry!Sources(c) |-> Carry!Finding("source", s).key]
<1>1. IsFiniteSet(M)
  BY KeysOfFindings, CarryConstants, FS_Subset DEF Carry!Candidate, Carry!Runs
<1>2. f \in [Carry!Sources(c) -> M]
  BY DEF Carry!Sources, Carry!AtCell
<1>3. ASSUME NEW s \in Carry!Sources(c), NEW t \in Carry!Sources(c), f[s] = f[t] PROVE s = t
  <2>1. s \in Carry!Annotated /\ t \in Carry!Annotated /\ Carry!Finding("source", s).key = Carry!Finding("source", t).key
    BY <1>3 DEF Carry!Sources
  <2>2. \A x \in Carry!AtCell(Carry!Finding("source", s).key) : x <= s /\ x <= t
    BY <2>1 DEF Carry!Sources, Carry!AtCell
  <2>3. s \in Carry!AtCell(Carry!Finding("source", s).key) /\ t \in Carry!AtCell(Carry!Finding("source", s).key)
    BY <2>1 DEF Carry!AtCell
  <2>4. s <= t /\ t <= s /\ s \in Int /\ t \in Int
    BY <2>1, <2>2, <2>3, CarryConstants DEF Carry!Annotated, Carry!Listed, Carry!Ids
  <2> QED
    BY <2>4
<1>4. f \in Injection(Carry!Sources(c), M)
  BY <1>2, <1>3 DEF Injection, IsInjective
<1>5. f \in Surjection(Carry!Sources(c), M)
  BY <1>1, <1>4, FS_Injection, CountsAlike DEF Carry!Agreed
<1> QED
  BY <1>5 DEF Surjection

(* The decision that is written is that of each of the sources.             *)
LEMMA OneDecision ==
  ASSUME CarryInv, NEW c \in Carry!Listed("reqc"), Carry!Agreed(c), NEW s \in Carry!Sources(c)
  PROVE  (CHOOSE row \in Carry!Written(Carry!MemberRows(c), c) : TRUE).decision = ann["source"][s]
<1> DEFINE D == {ann["source"][t] : t \in Carry!Sources(c)}
           g == [t \in Carry!Sources(c) |-> ann["source"][t]]
           one == CHOOSE row \in Carry!Written(Carry!MemberRows(c), c) : TRUE
<1>1. IsFiniteSet(Carry!Sources(c))
  <2>1. Carry!Sources(c) \subseteq 1..NIds
    BY DEF Carry!Sources, Carry!Annotated, Carry!Listed, Carry!Ids
  <2> QED
    <3>1. IsFiniteSet(1..NIds)
      BY CarryConstants, FS_Interval
    <3> QED
      BY <2>1, <3>1, FS_Subset
<1>2. \A d, e \in D : d = e
  <2>1. Cardinality(D) = 1
    BY CountsAlike DEF Carry!Agreed
  <2>2. IsFiniteSet(D)
    <3>1. g \in Surjection(Carry!Sources(c), D)
      BY DEF Surjection
    <3> QED
      BY <1>1, <3>1, FS_Surjection
  <2>3. PICK x : D = {x}
    BY <2>1, <2>2, FS_Singleton
  <2> QED
    BY <2>3
<1>3. [finding |-> c, from |-> s, decision |-> ann["source"][s]] \in Carry!Written(Carry!MemberRows(c), c)
  BY DEF Carry!Written, Carry!MemberRows
<1>4. one \in Carry!MemberRows(c)
  BY <1>3 DEF Carry!Written
<1> HIDE DEF one
<1>5. one.decision \in D
  <2>1. PICK t \in Carry!Sources(c) : one = [finding |-> c, from |-> t, decision |-> ann["source"][t]]
    BY <1>4 DEF Carry!MemberRows
  <2> QED
    BY <2>1
<1> QED
  BY <1>2, <1>5 DEF one

LineOf(row, relation) == [finding |-> row.finding, from |-> row.from, relation |-> relation]

(* A write changes no finding, and annotations of one run only.             *)
LEMMA SaveKeeps ==
  ASSUME CarryInv, NEW r \in Carry!Runs, NEW rows, NEW relation, Carry!Save(r, rows, relation)
  PROVE  /\ RunsStand /\ FindingsFit' /\ AnnotationsFit'
         /\ \A q \in Carry!Runs : run'[q].there = run[q].there
         /\ \A q \in Carry!Runs \ {r} : run'[q] = run[q] /\ ann'[q] = ann[q]
<1>1. PICK overlapped \in BOOLEAN : run' = [run EXCEPT ![r].signed = overlapped]
  BY DEF Carry!Save
<1>2. /\ DOMAIN run = Carry!Runs /\ \A q \in Carry!Runs : {"findings", "there", "signed"} \subseteq DOMAIN run[q]
  BY DEF CarryInv, FindingsFit
<1>3. /\ DOMAIN run' = Carry!Runs /\ \A q \in Carry!Runs : {"findings", "there", "signed"} \subseteq DOMAIN run'[q]
  BY <1>1, <1>2
<1>4. /\ \A q \in Carry!Runs : run'[q].findings = run[q].findings
      /\ \A q \in Carry!Runs : run'[q].there = run[q].there
      /\ \A q \in Carry!Runs \ {r} : run'[q] = run[q]
  BY <1>1, <1>2
<1>5. RunsStand
  BY <1>3, <1>4 DEF RunsStand, Carry!Save
<1>6. FindingsFit'
  BY <1>3, <1>5, FindingsStay
<1>7. AnnotationsFit' /\ \A q \in Carry!Runs \ {r} : ann'[q] = ann[q]
  BY DEF Carry!Save, CarryInv, AnnotationsFit
<1> QED
  BY <1>4, <1>5, <1>6, <1>7

(* The lineage joins what it should, and members come from a signed run.    *)
LEMMA SaveJoins ==
  ASSUME CarryInv, NEW r \in Carry!Runs, NEW rows, NEW relation, Carry!Save(r, rows, relation),
         relation = "manual" \/ (r = "reqc" /\ \A row \in rows : Joins(LineOf(row, relation))),
         relation = "member" => run["source"].signed
  PROVE  (\A l \in lineage' : Joins(l)') /\ SourceIsSigned'
<1>1. RunsStand
  BY SaveKeeps
<1>2. \A l \in lineage' : l \in lineage \/ (relation # "manual" /\ \E row \in rows : l = LineOf(row, relation))
  BY DEF Carry!Save, LineOf
<1>3. \A l \in lineage' : Joins(l)
  BY <1>2 DEF CarryInv
<1>4. \A l \in lineage' : Joins(l)'
  BY <1>1, <1>3, StillJoins
<1>5. CASE relation = "member"
  <2>1. run'["source"] = run["source"]
    BY <1>5, SaveKeeps DEF Carry!Runs
  <2> QED
    BY <1>4, <1>5, <2>1 DEF SourceIsSigned
<1>6. CASE relation # "member"
  <2>1. Inherited' = Inherited
    BY <1>2, <1>6 DEF Inherited, LineOf, Carry!Save
  <2>2. run'["source"].there = run["source"].there
    BY SaveKeeps DEF Carry!Runs
  <2>3. run["source"].signed /\ run["source"].there => run'["source"].signed
    BY SaveKeeps DEF Carry!Save, Carry!Runs
  <2> QED
    BY <1>4, <2>1, <2>2, <2>3 DEF SourceIsSigned, CarryInv
<1> QED
  BY <1>5, <1>6

(* A population that is not written keeps what it agreed on.                *)
LEMMA UnwrittenAgree ==
  ASSUME CarryInv, NEW r \in Carry!Runs, NEW rows, NEW relation, Carry!Save(r, rows, relation),
         run["source"].there, r = "source" => Inherited = {} /\ relation = "manual",
         NEW c \in Carry!Listed("reqc"), Carry!Written(rows, c) = {} \/ r = "source",
         origin'[c] = "carried", Carry!Finding("reqc", c).key = Carry!Whole,
         \E l \in lineage' : l.finding = c /\ l.relation = "member",
         NEW p \in Carry!Finding("reqc", c).members
  PROVE  \E s \in Carry!AtCell(p)' : ann'["source"][s] = ann'["reqc"][c]
<1>1. lineage' = lineage \/ lineage' = lineage \cup {LineOf(row, relation) : row \in rows}
  BY DEF Carry!Save, LineOf
<1>2. r = "source" => lineage' = lineage
  BY DEF Carry!Save
<1>3. PICK l \in lineage : l.finding = c /\ l.relation = "member"
  BY <1>1, <1>2 DEF LineOf, Carry!Written
<1>4. r = "reqc"
  BY <1>3 DEF Inherited, Carry!Runs
<1>5. ann'["source"] = ann["source"] /\ run'["source"] = run["source"]
  BY <1>4, SaveKeeps DEF Carry!Runs
<1>6. Carry!AtCell(p)' = Carry!AtCell(p)
  BY <1>5 DEF Carry!AtCell, Carry!Annotated, Carry!Listed, Carry!Finding
<1>7. c \in Carry!Ids /\ DOMAIN ann = Carry!Runs /\ DOMAIN ann["reqc"] = Carry!Ids /\ DOMAIN origin = Carry!Ids
  BY DEF CarryInv, AnnotationsFit, Carry!Listed, Carry!Runs
<1>8. ann'["reqc"][c] = ann["reqc"][c]
  BY <1>4, <1>7 DEF Carry!Save, Carry!Runs
<1>9. origin'[c] = origin[c]
  BY <1>4, <1>7 DEF Carry!Save
<1> QED
  BY <1>3, <1>5, <1>6, <1>8, <1>9 DEF CarryInv, Carry!PopulationAgrees

(* A decision on the page is no carried one, and joins nothing.             *)
LEMMA DecideKeeps ==
  ASSUME CarryInv, NEW r \in Carry!Runs, NEW ids \in SUBSET Carry!Ids, NEW d \in Decisions, Carry!Decide(r, ids, d)
  PROVE  CarryInv'
<1> DEFINE rows == {[finding |-> i, from |-> None, decision |-> d] : i \in ids}
<1>1. Carry!Save(r, rows, "manual") /\ run[r].there /\ ~run[r].signed
  BY DEF Carry!Decide, Carry!Save
<1> HIDE DEF rows
<1>2. FindingsFit' /\ AnnotationsFit' /\ RunsStand /\ \A q \in Carry!Runs : run'[q].there = run[q].there
  BY <1>1, SaveKeeps
<1>3. (\A l \in lineage' : Joins(l)') /\ SourceIsSigned'
  BY <1>1, SaveJoins
<1>4. r = "source" => Inherited = {}
  BY <1>1 DEF CarryInv, SourceIsSigned
<1>5. Carry!PopulationAgrees'
  <2> SUFFICES ASSUME run["source"].there, NEW c \in Carry!Listed("reqc"), origin'[c] = "carried",
                      Carry!Finding("reqc", c).key = Carry!Whole,
                      \E l \in lineage' : l.finding = c /\ l.relation = "member",
                      NEW p \in Carry!Finding("reqc", c).members
               PROVE  \E s \in Carry!AtCell(p)' : ann'["source"][s] = ann'["reqc"][c]
    BY <1>2 DEF Carry!PopulationAgrees, RunsStand, Carry!Listed, Carry!Finding, Carry!Runs
  <2>1. c \in Carry!Ids
    BY DEF Carry!Listed
  <2>2. Carry!Written(rows, c) = {} \/ r = "source"
    BY <1>1, <2>1 DEF Carry!Save
  <2> QED
    BY <1>1, <1>4, <2>2, UnwrittenAgree
<1> QED
  BY <1>2, <1>3, <1>5 DEF CarryInv

(* What the user selected is carried with its exact source.                 *)
LEMMA SelectedKeeps ==
  ASSUME CarryInv, NEW selection \in SUBSET Carry!Ids, Carry!ApplySelected(selection)
  PROVE  CarryInv'
<1> DEFINE rows == {row \in Carry!ExactRows : row.finding \in selection}
<1>1. Carry!Save("reqc", rows, "identity")
  BY DEF Carry!ApplySelected
<1>2. \A row \in rows : Joins(LineOf(row, "identity"))
  <2> TAKE row \in rows
  <2>1. PICK q \in Carry!Annotated \X Carry!Listed("reqc") :
          Carry!Exact(q[1], q[2]) /\ row = [finding |-> q[2], from |-> q[1], decision |-> ann["source"][q[1]]]
    BY DEF Carry!ExactRows
  <2> QED
    BY <2>1 DEF Joins, LineOf, Carry!Annotated
<1> HIDE DEF rows
<1>3. FindingsFit' /\ AnnotationsFit' /\ RunsStand /\ \A q \in Carry!Runs : run'[q].there = run[q].there
  BY <1>1, SaveKeeps DEF Carry!Runs
<1>4. (\A l \in lineage' : Joins(l)') /\ SourceIsSigned'
  BY <1>1, <1>2, SaveJoins DEF Carry!Runs
<1>5. Carry!PopulationAgrees'
  <2> SUFFICES ASSUME run["source"].there, NEW c \in Carry!Listed("reqc"), origin'[c] = "carried",
                      Carry!Finding("reqc", c).key = Carry!Whole,
                      NEW m \in lineage', m.finding = c, m.relation = "member",
                      NEW p \in Carry!Finding("reqc", c).members
               PROVE  \E s \in Carry!AtCell(p)' : ann'["source"][s] = ann'["reqc"][c]
    BY <1>3 DEF Carry!PopulationAgrees, RunsStand, Carry!Listed, Carry!Finding, Carry!Runs
  <2>1. Carry!Written(rows, c) = {}
    <3> SUFFICES ASSUME NEW row \in rows, row.finding = c PROVE FALSE
      BY DEF Carry!Written
    <3>1. Joins(LineOf(row, "identity"))
      BY <1>2
    <3>2. Carry!Exact(row.from, c) /\ row.from \in Carry!Listed("source")
      BY <3>1 DEF Joins, LineOf
    <3>3. row.from \in Carry!Same("source", Carry!Finding("reqc", c))
      BY <3>2 DEF Carry!Exact, Carry!Same
    <3>4. m \in lineage
      BY <1>1 DEF Carry!Save
    <3> QED
      BY <3>3, <3>4 DEF CarryInv, Joins
  <2> QED
    BY <1>1, <2>1, UnwrittenAgree DEF Carry!Runs
<1> QED
  BY <1>3, <1>4, <1>5 DEF CarryInv

(* A population is written with the sources it agreed on.                   *)
LEMMA PopulationKeeps ==
  ASSUME CarryInv, NEW c \in Carry!Ids, Carry!ApplyPopulation(c)
  PROVE  CarryInv'
<1> DEFINE rows == Carry!MemberRows(c)
<1>1. /\ Carry!Save("reqc", rows, "member") /\ c \in Carry!Listed("reqc")
      /\ Carry!Candidate(c) /\ Carry!Agreed(c) /\ run["source"].signed
  BY DEF Carry!ApplyPopulation, Carry!Inherits
<1>2. \A row \in rows : row.finding = c /\ Joins(LineOf(row, "member"))
  <2> TAKE row \in rows
  <2>1. PICK s \in Carry!Sources(c) : row = [finding |-> c, from |-> s, decision |-> ann["source"][s]]
    BY DEF Carry!MemberRows
  <2>2. s \in Carry!Listed("source") /\ Carry!Finding("source", s).key \in Carry!Finding("reqc", c).members
    BY DEF Carry!Sources, Carry!Annotated, Carry!AtCell
  <2> QED
    BY <1>1, <2>1, <2>2 DEF Joins, LineOf, Carry!Candidate
<1> HIDE DEF rows
<1>3. FindingsFit' /\ AnnotationsFit' /\ RunsStand /\ \A q \in Carry!Runs : run'[q].there = run[q].there
  BY <1>1, SaveKeeps DEF Carry!Runs
<1>4. (\A l \in lineage' : Joins(l)') /\ SourceIsSigned'
  BY <1>1, <1>2, SaveJoins DEF Carry!Runs
<1>5. Carry!PopulationAgrees'
  <2> SUFFICES ASSUME run["source"].there, NEW i \in Carry!Listed("reqc"), origin'[i] = "carried",
                      Carry!Finding("reqc", i).key = Carry!Whole,
                      \E l \in lineage' : l.finding = i /\ l.relation = "member",
                      NEW p \in Carry!Finding("reqc", i).members
               PROVE  \E s \in Carry!AtCell(p)' : ann'["source"][s] = ann'["reqc"][i]
    BY <1>3 DEF Carry!PopulationAgrees, RunsStand, Carry!Listed, Carry!Finding, Carry!Runs
  <2>1. CASE i = c
    <3>1. PICK s \in Carry!Sources(c) : Carry!Finding("source", s).key = p
      BY <1>1, <2>1, EveryCellHasOne
    <3>2. ann'["reqc"][c] = (CHOOSE row \in Carry!Written(rows, c) : TRUE).decision
      <4>1. Carry!Written(rows, c) # {}
        <5>1. [finding |-> c, from |-> s, decision |-> ann["source"][s]] \in Carry!Written(rows, c)
          BY DEF rows, Carry!Written, Carry!MemberRows
        <5> QED
          BY <5>1
      <4>2. DOMAIN ann = Carry!Runs /\ DOMAIN ann["reqc"] = Carry!Ids
        BY DEF CarryInv, AnnotationsFit, Carry!Runs
      <4> QED
        BY <1>1, <4>1, <4>2 DEF Carry!Save, Carry!Runs
    <3>3. ann'["reqc"][c] = ann["source"][s]
      BY <1>1, <3>2, OneDecision DEF rows
    <3>4. ann'["source"] = ann["source"] /\ run'["source"] = run["source"]
      BY <1>1, SaveKeeps DEF Carry!Runs
    <3>5. s \in Carry!AtCell(p)'
      BY <3>1, <3>4 DEF Carry!Sources, Carry!AtCell, Carry!Annotated, Carry!Listed,
         Carry!Finding
    <3> QED
      BY <2>1, <3>3, <3>4, <3>5
  <2>2. CASE i # c
    <3>1. Carry!Written(rows, i) = {}
      BY <1>2, <2>2 DEF Carry!Written
    <3> QED
      BY <1>1, <3>1, UnwrittenAgree DEF Carry!Runs
  <2> QED
    BY <2>1, <2>2
<1> QED
  BY <1>3, <1>4, <1>5 DEF CarryInv

(* Signing a run changes no finding, no decision and no line.               *)
LEMMA SignKeeps ==
  ASSUME CarryInv, NEW r \in Carry!Runs, Carry!Sign(r)
  PROVE  CarryInv'
<1>1. /\ DOMAIN run = Carry!Runs /\ \A q \in Carry!Runs : {"findings", "there", "signed"} \subseteq DOMAIN run[q]
  BY DEF CarryInv, FindingsFit
<1>2. /\ DOMAIN run' = Carry!Runs /\ \A q \in Carry!Runs : {"findings", "there", "signed"} \subseteq DOMAIN run'[q]
      /\ \A q \in Carry!Runs : run'[q].findings = run[q].findings /\ run'[q].there = run[q].there
      /\ \A q \in Carry!Runs : run[q].signed => run'[q].signed
  BY <1>1 DEF Carry!Sign
<1>3. UNCHANGED <<policy, ann, origin, lineage>>
  BY DEF Carry!Sign
<1>4. RunsStand
  BY <1>2, <1>3 DEF RunsStand
<1>5. FindingsFit' /\ AnnotationsFit'
  BY <1>2, <1>3, <1>4, FindingsStay DEF CarryInv, AnnotationsFit
<1>6. \A l \in lineage' : Joins(l)'
  BY <1>3, <1>4, StillJoins DEF CarryInv
<1>7. SourceIsSigned' /\ Carry!PopulationAgrees'
  BY <1>2, <1>3 DEF CarryInv, SourceIsSigned, Inherited, Carry!PopulationAgrees,
     Carry!Listed, Carry!Finding, Carry!AtCell, Carry!Annotated, Carry!Runs
<1> QED
  BY <1>5, <1>6, <1>7 DEF CarryInv

(* A deleted run takes its lines with it.                                   *)
LEMMA DeleteKeeps ==
  ASSUME CarryInv, Carry!DeleteSource
  PROVE  CarryInv'
<1>1. /\ DOMAIN run = Carry!Runs /\ \A q \in Carry!Runs : {"findings", "there", "signed"} \subseteq DOMAIN run[q]
  BY DEF CarryInv, FindingsFit
<1>2. /\ DOMAIN run' = Carry!Runs /\ \A q \in Carry!Runs : {"findings", "there", "signed"} \subseteq DOMAIN run'[q]
      /\ \A q \in Carry!Runs : run'[q].findings = run[q].findings
      /\ ~run'["source"].there
  BY <1>1 DEF Carry!DeleteSource, Carry!Runs
<1>3. UNCHANGED <<policy, origin, lineage>>
  BY DEF Carry!DeleteSource
<1>4. RunsStand
  BY <1>2, <1>3 DEF RunsStand
<1>5. FindingsFit'
  BY <1>2, <1>4, FindingsStay
<1>6. AnnotationsFit'
  BY <1>3 DEF CarryInv, AnnotationsFit, Carry!DeleteSource
<1>7. \A l \in lineage' : Joins(l)'
  BY <1>3, <1>4, StillJoins DEF CarryInv
<1>8. SourceIsSigned' /\ Carry!PopulationAgrees'
  BY <1>2 DEF SourceIsSigned, Carry!PopulationAgrees
<1> QED
  BY <1>5, <1>6, <1>7, <1>8 DEF CarryInv

(* Every step of the carrying keeps it.                                     *)
LEMMA CarrySteps ==
  ASSUME CarryInv, Carry!CarryNext
  PROVE  CarryInv'
  BY DecideKeeps, SelectedKeeps, PopulationKeeps, SignKeeps, DeleteKeeps DEF Carry!CarryNext

(* One population takes one decision, which all its members took, whatever   *)
(* the runs look like (apply_population_carry_forward).                      *)
THEOREM PopulationsAgree == ComparisonSpec => [](part = "carry" => Carry!PopulationAgrees)
<1> DEFINE Inv == part = "carry" => CarryInv
<1>1. ComparisonInit => Inv
  BY BeginsApart, CarryBegins
<1>2. Inv /\ [ComparisonNext]_comparisonVars => Inv'
  BY StaysApart, CarrySteps, CarryStays
<1>3. Inv => (part = "carry" => Carry!PopulationAgrees)
  BY DEF CarryInv
<1> QED
  BY <1>1, <1>2, <1>3, PTL DEF ComparisonSpec

(* When the runs are of one workbook, a decision is carried from one finding *)
(* to one finding as well; with two workbooks it is not: the index of source *)
(* cells does not tell them apart (preview_carry_forward, run MembersMixed). *)
THEOREM DecisionsCarried ==
  ASSUME \A b, c \in Books : b = c
  PROVE  ComparisonSpec => []CarriedRight
<1> DEFINE Inv == part = "carry" => CarryInv
<1>1. ComparisonInit => Inv
  BY BeginsApart, CarryBegins
<1>2. Inv /\ [ComparisonNext]_comparisonVars => Inv'
  BY StaysApart, CarrySteps, CarryStays
<1>3. Inv => CarriedRight
  BY OneToOne DEF CarriedRight, CarryInv
<1> QED
  BY <1>1, <1>2, <1>3, PTL DEF ComparisonSpec
-----------------------------------------------------------------------------
(* A package of workbooks (QcPackage). *)

What == {"preflight", "changes", "added", "removed", "reconciled"}
Record == [of : Package!Names \cup {"deck"}, what : What]
Looked == {added[i].of : i \in DOMAIN added}
Before(k) == {Members[j] : j \in {i \in DOMAIN Members : i < k}}

(* The workbooks before the next one are looked at or are to be confirmed,  *)
(* those after it are neither.                                              *)
InTurn ==
  /\ Looked \subseteq Before(index) \cup {"deck"} /\ ranked \subseteq Before(index)
  /\ \A m \in Before(index) : sides[m] # {} => ((m \in ranked) # (m \in Looked))
  /\ \A m \in Looked : m # "deck" => sides[m] # {}
  /\ "deck" \in Looked <=> mode = "final" /\ index # 0
  /\ \A i \in DOMAIN added : added[i].of = "deck" => added[i].what = "preflight"

PackageInv ==
  /\ added \in Seq(Record) /\ Package!IsInjective(added)
  /\ index \in Nat /\ ranked \subseteq Package!Names /\ DOMAIN sides = Package!Names
  /\ index > 0 => Package!Accepts
  /\ ended = None => InTurn
  /\ ended # None => Package!PackageWhole

(* Before the first workbook nothing is ranked and nothing asked.           *)
LEMMA PackageBegins == Package!PackageInit => PackageInv
<1> SUFFICES ASSUME Package!PackageInit PROVE PackageInv
  OBVIOUS
<1>1. Looked = {} /\ Before(index) = {}
  BY PackageConstants DEF Package!PackageInit, Looked, Before
<1> QED
  BY <1>1 DEF Package!PackageInit, PackageInv, InTurn, Package!IsInjective

(* A step that changes none of its variables keeps it.                      *)
LEMMA PackageStays ==
  ASSUME PackageInv, UNCHANGED packageVars
  PROVE  PackageInv'
<1>1. Package!Accepts' <=> Package!Accepts
  BY DEF packageVars, Package!Accepts, Package!Having
<1>2. InTurn' <=> InTurn
  BY DEF packageVars, InTurn, Looked, Before
<1>3. Package!PackageWhole' <=> Package!PackageWhole
  BY DEF packageVars, Package!PackageWhole, Package!Ended
<1> QED
  BY <1>1, <1>2, <1>3 DEF packageVars, PackageInv

(* What is added to the list. *)
LEMMA Appends ==
  ASSUME PackageInv, NEW new \in Seq(Record), Package!IsInjective(new),
         \A i \in DOMAIN new, j \in DOMAIN added : new[i] # added[j],
         added' = added \o new
  PROVE  /\ added' \in Seq(Record) /\ Package!IsInjective(added')
         /\ Looked' = Looked \cup {new[i].of : i \in DOMAIN new}
         /\ \A i \in DOMAIN added' : (\E j \in DOMAIN added : added'[i] = added[j]) \/ (\E j \in DOMAIN new : added'[i] = new[j])
<1>1. added \in Seq(Record) /\ Package!IsInjective(added)
  BY DEF PackageInv
<1>2. added' \in Seq(Record)
  BY <1>1
<1>3. DOMAIN added' = 1..(Len(added) + Len(new)) /\ DOMAIN added = 1..Len(added) /\ DOMAIN new = 1..Len(new)
      /\ Len(added) \in Nat /\ Len(new) \in Nat
  BY <1>1
<1>4. \A i \in 1..Len(added) : added'[i] = added[i]
  BY <1>1, <1>3
<1>5. \A i \in 1..Len(new) : added'[Len(added) + i] = new[i] /\ Len(added) + i \in DOMAIN added'
  BY <1>1, <1>3
<1>6. \A i \in DOMAIN added' : i \in DOMAIN added \/ (i - Len(added) \in DOMAIN new /\ added'[i] = new[i - Len(added)])
  BY <1>1, <1>3
<1>7. ASSUME NEW i \in DOMAIN added', NEW j \in DOMAIN added', added'[i] = added'[j] PROVE i = j
  <2>1. CASE i \in DOMAIN added /\ j \in DOMAIN added
    BY <1>1, <1>3, <1>4, <1>7, <2>1 DEF Package!IsInjective
  <2>2. CASE i \in DOMAIN added /\ j \notin DOMAIN added
    BY <1>3, <1>4, <1>6, <1>7, <2>2
  <2>3. CASE i \notin DOMAIN added /\ j \in DOMAIN added
    BY <1>3, <1>4, <1>6, <1>7, <2>3
  <2>4. CASE i \notin DOMAIN added /\ j \notin DOMAIN added
    <3>1. i - Len(added) = j - Len(added)
      BY <1>6, <1>7, <2>4 DEF Package!IsInjective
    <3> QED
      BY <3>1, <1>3
  <2> QED
    BY <2>1, <2>2, <2>3, <2>4
<1>8. Looked' = Looked \cup {new[i].of : i \in DOMAIN new}
  <2>1. Looked' \subseteq Looked \cup {new[i].of : i \in DOMAIN new}
    BY <1>4, <1>6, <1>3 DEF Looked
  <2>2. Looked \subseteq Looked'
    BY <1>3, <1>4 DEF Looked
  <2>3. {new[i].of : i \in DOMAIN new} \subseteq Looked'
    <3> SUFFICES ASSUME NEW i \in DOMAIN new PROVE new[i].of \in Looked'
      OBVIOUS
    <3>1. Len(added) + i \in DOMAIN added' /\ added'[Len(added) + i].of = new[i].of
      BY <1>3, <1>5
    <3> QED
      BY <3>1 DEF Looked
  <2> QED
    BY <2>1, <2>2, <2>3
<1> QED
  BY <1>2, <1>3, <1>4, <1>6, <1>7, <1>8 DEF Package!IsInjective

(* The turn of one workbook. *)
LEMMA OneTurn ==
  ASSUME PackageInv, Package!Turn
  PROVE  /\ Package!Member \in Package!Names /\ Package!Member \notin Before(index)
         /\ Before(index + 1) = Before(index) \cup {Package!Member}
         /\ Package!Member \notin Looked /\ Package!Member \notin ranked /\ Package!Member # "deck"
         /\ InTurn /\ index \in Nat \ {0} /\ index + 1 \in Nat /\ index + 1 > 0
<1>0. index \in DOMAIN Members /\ DOMAIN Members = 1..Len(Members) /\ Len(Members) \in Nat /\ index \in 1..Len(Members)
  BY PackageConstants DEF Package!Turn
<1>1. Package!Member \in Package!Names /\ Package!Member # "deck"
  BY <1>0, PackageConstants DEF Package!Member, Package!Names, Package!Range
<1>2. Package!Member \notin Before(index)
  <2> SUFFICES ASSUME NEW j \in DOMAIN Members, j < index, Members[j] = Members[index] PROVE FALSE
    BY DEF Before, Package!Member
  <2>1. j = index
    BY <1>0, PackageConstants DEF Package!IsInjective
  <2> QED
    BY <1>0, <2>1
<1>3. Before(index + 1) = Before(index) \cup {Package!Member}
  BY <1>0 DEF Before, Package!Member
<1>4. InTurn
  BY DEF PackageInv, Package!Turn
<1> QED
  BY <1>0, <1>1, <1>2, <1>3, <1>4 DEF InTurn

(* Lists of none, one and two. *)
One(m, a) == <<[of |-> m, what |-> a]>>
Two(m, a, b) == <<[of |-> m, what |-> a], [of |-> m, what |-> b]>>

(* Lists of no record, of one, and of two for one workbook.                 *)
LEMMA ShortNone ==
  <<>> \in Seq(Record) /\ Package!IsInjective(<<>>) /\ {<<>>[i].of : i \in DOMAIN <<>>} = {}
  BY DEF Package!IsInjective

(* The list of one.                                                         *)
LEMMA ShortOne ==
  ASSUME NEW m \in Package!Names \cup {"deck"}, NEW a \in What
  PROVE  /\ One(m, a) \in Seq(Record)
         /\ Package!IsInjective(One(m, a)) /\ One(m, a) # <<>>
         /\ \A i \in DOMAIN One(m, a) : One(m, a)[i].of = m /\ One(m, a)[i].what = a
         /\ {One(m, a)[i].of : i \in DOMAIN One(m, a)} = {m}
  BY DEF Package!IsInjective, One, Record

(* The list of two.                                                         *)
LEMMA ShortTwo ==
  ASSUME NEW m \in Package!Names \cup {"deck"}, NEW a \in What, NEW b \in What, a # b
  PROVE  /\ Two(m, a, b) \in Seq(Record)
         /\ Package!IsInjective(Two(m, a, b)) /\ Two(m, a, b) # <<>>
         /\ \A i \in DOMAIN Two(m, a, b) : Two(m, a, b)[i].of = m
  BY DEF Package!IsInjective, Two, Record

(* What the package accepts does not change while it runs.                  *)
LEMMA StillAccepts ==
  ASSUME UNCHANGED <<mode, sides, decks>>
  PROVE  Package!Accepts' <=> Package!Accepts
  BY DEF Package!Accepts, Package!Having

(* A workbook has been looked at. *)
LEMMA LookedAt ==
  ASSUME PackageInv, Package!Turn, Package!MemberSides # {},
         NEW new \in Seq(Record), Package!IsInjective(new), new # <<>>,
         \A i \in DOMAIN new : new[i].of = Package!Member,
         added' = added \o new, index' = index + 1, UNCHANGED <<mode, sides, decks, ranked, ended>>
  PROVE  PackageInv'
<1>1. /\ Package!Member \in Package!Names /\ Package!Member \notin Before(index)
      /\ Before(index + 1) = Before(index) \cup {Package!Member}
      /\ Package!Member \notin Looked /\ Package!Member \notin ranked /\ Package!Member # "deck"
      /\ InTurn /\ index \in Nat \ {0} /\ index + 1 \in Nat /\ index + 1 > 0
  BY OneTurn
<1>2. \A i \in DOMAIN new, j \in DOMAIN added : new[i] # added[j]
  BY <1>1 DEF Looked
<1>3. {new[i].of : i \in DOMAIN new} = {Package!Member}
  <2>1. 1 \in DOMAIN new
    OBVIOUS
  <2> QED
    BY <2>1
<1>4. /\ added' \in Seq(Record) /\ Package!IsInjective(added')
      /\ Looked' = Looked \cup {Package!Member}
      /\ \A i \in DOMAIN added' : (\E j \in DOMAIN added : added'[i] = added[j]) \/ (\E j \in DOMAIN new : added'[i] = new[j])
  BY <1>2, <1>3, Appends
<1>5. Before(index)' = Before(index) \cup {Package!Member}
  BY <1>1 DEF Before
<1>6. InTurn'
  <2>1. Looked' \subseteq Before(index)' \cup {"deck"} /\ ranked' \subseteq Before(index)'
    BY <1>1, <1>4, <1>5 DEF InTurn
  <2>2. \A m \in Before(index)' : sides'[m] # {} => ((m \in ranked') # (m \in Looked'))
    BY <1>1, <1>4, <1>5 DEF InTurn
  <2>3. \A m \in Looked' : m # "deck" => sides'[m] # {}
    BY <1>1, <1>4 DEF InTurn, Package!MemberSides
  <2>4. "deck" \in Looked' <=> mode' = "final" /\ index' # 0
    BY <1>1, <1>4 DEF InTurn
  <2>5. \A i \in DOMAIN added' : added'[i].of = "deck" => added'[i].what = "preflight"
    BY <1>1, <1>4 DEF InTurn
  <2> QED
    BY <2>1, <2>2, <2>3, <2>4, <2>5 DEF InTurn
<1>7. Package!Accepts' 
  BY <1>1, StillAccepts DEF PackageInv
<1>8. ended' = None
  BY DEF Package!Turn
<1> QED
  BY <1>1, <1>4, <1>6, <1>7, <1>8 DEF PackageInv

(* A turn that adds nothing to the list.                                    *)
LEMMA SilentTurn ==
  ASSUME PackageInv, Package!Turn, Package!MemberSides = {} \/ ranked' = ranked \cup {Package!Member},
         ranked' = ranked \/ ranked' = ranked \cup {Package!Member},
         Package!MemberSides = {} => ranked' = ranked,
         index' = index + 1, UNCHANGED <<mode, sides, decks, added, ended>>
  PROVE  PackageInv'
<1>1. /\ Package!Member \in Package!Names /\ Package!Member \notin Before(index)
      /\ Before(index + 1) = Before(index) \cup {Package!Member}
      /\ Package!Member \notin Looked /\ Package!Member \notin ranked /\ Package!Member # "deck"
      /\ InTurn /\ index \in Nat \ {0} /\ index + 1 \in Nat /\ index + 1 > 0
  BY OneTurn
<1>2. Before(index)' = Before(index) \cup {Package!Member} /\ Looked' = Looked
  BY <1>1 DEF Before, Looked
<1>6. InTurn'
  <2>1. Looked' \subseteq Before(index)' \cup {"deck"} /\ ranked' \subseteq Before(index)'
    BY <1>1, <1>2 DEF InTurn
  <2>2. \A m \in Before(index)' : sides'[m] # {} => ((m \in ranked') # (m \in Looked'))
    BY <1>1, <1>2 DEF InTurn, Package!MemberSides
  <2>3. \A m \in Looked' : m # "deck" => sides'[m] # {}
    BY <1>1, <1>2 DEF InTurn
  <2>4. "deck" \in Looked' <=> mode' = "final" /\ index' # 0
    BY <1>1, <1>2 DEF InTurn
  <2>5. \A i \in DOMAIN added' : added'[i].of = "deck" => added'[i].what = "preflight"
    BY <1>1 DEF InTurn
  <2> QED
    BY <2>1, <2>2, <2>3, <2>4, <2>5 DEF InTurn
<1>7. Package!Accepts' 
  BY <1>1, StillAccepts DEF PackageInv
<1>8. ended' = None
  BY DEF Package!Turn
<1> QED
  BY <1>1, <1>6, <1>7, <1>8 DEF PackageInv

(* A package that ends before its last workbook. *)
LEMMA EndsEarly ==
  ASSUME PackageInv, NEW why \in {"refused", "failed", "other"}, NEW of \in SUBSET Package!Names,
         ended' = Package!Ending(why, of), UNCHANGED <<mode, sides, decks, index, ranked, added>>
  PROVE  PackageInv'
<1>1. ended' # None /\ ended'.why = why
  BY PackageConstants DEF Package!Ending, Package!Names
<1>2. Package!PackageWhole'
  BY <1>1 DEF Package!PackageWhole, Package!Ended, PackageInv
<1>3. Package!Accepts' <=> Package!Accepts
  BY DEF Package!Accepts, Package!Having
<1> QED
  BY <1>1, <1>2, <1>3 DEF PackageInv

(* A package begins with its first workbook.                                *)
LEMMA Begins ==
  ASSUME PackageInv, Package!Begin
  PROVE  PackageInv'
<1>1. ended = None /\ index = 0 /\ Package!Accepts /\ index' = 1 /\ UNCHANGED <<mode, sides, decks, ranked, ended>>
  BY DEF Package!Begin
<1>2. InTurn /\ Before(0) = {} /\ Looked = {} /\ ranked = {}
  BY <1>1, PackageConstants DEF PackageInv, InTurn, Before
<1>3. Before(index)' = {}
  BY <1>1, PackageConstants DEF Before
<1>4. Package!Accepts'
  BY <1>1 DEF Package!Accepts, Package!Having
<1>5. CASE mode = "final"
  <2> DEFINE new == One("deck", "preflight")
  <2>1. new \in Seq(Record) /\ Package!IsInjective(new)
    BY ShortOne DEF What
  <2>2. added' = added \o new
    BY <1>5 DEF Package!Begin, Package!Add, PackageInv, One
  <2>3. \A i \in DOMAIN new, j \in DOMAIN added : new[i] # added[j]
    BY <1>2 DEF Looked
  <2>4. {new[i].of : i \in DOMAIN new} = {"deck"} /\ \A i \in DOMAIN new : new[i].what = "preflight"
    BY DEF One
  <2> HIDE DEF new
  <2>5. /\ added' \in Seq(Record) /\ Package!IsInjective(added')
        /\ Looked' = {"deck"}
        /\ \A i \in DOMAIN added' : (\E j \in DOMAIN added : added'[i] = added[j]) \/ (\E j \in DOMAIN new : added'[i] = new[j])
    BY <1>2, <2>1, <2>2, <2>3, <2>4, Appends
  <2>6. InTurn'
    BY <1>1, <1>2, <1>3, <1>5, <2>4, <2>5 DEF InTurn
  <2> QED
    BY <1>1, <1>4, <2>5, <2>6 DEF PackageInv
<1>6. CASE mode # "final"
  <2>1. added' = added /\ Looked' = Looked
    BY <1>6 DEF Package!Begin, Looked
  <2>2. InTurn'
    BY <1>1, <1>2, <1>3, <1>6, <2>1 DEF InTurn
  <2> QED
    BY <1>1, <1>4, <2>1, <2>2 DEF PackageInv
<1> QED
  BY <1>5, <1>6

(* Behind the last workbook comes what is the package's own.                *)
LEMMA Finishes ==
  ASSUME PackageInv, Package!Finish
  PROVE  PackageInv'
<1>1. ended = None /\ index > Len(Members) /\ UNCHANGED <<mode, sides, decks, index, ranked>>
  BY DEF Package!Finish
<1>2. InTurn /\ index \in Nat
  BY <1>1 DEF PackageInv
<1>3. Before(index) = Package!Names
  BY <1>1, <1>2, PackageConstants DEF Before, Package!Names, Package!Range
<1>4. Package!Accepts /\ index # 0 /\ (Package!Accepts' <=> Package!Accepts)
  BY <1>1, <1>2, PackageConstants, StillAccepts DEF PackageInv
<1>5. CASE ranked # {}
  <2>1. ended' = Package!Ending("rows", ranked) /\ added' = added
    BY <1>5 DEF Package!Finish
  <2>2. ended' # None /\ ended'.why = "rows" /\ ended'.of = ranked
    BY <2>1, PackageConstants DEF Package!Ending, PackageInv, Package!Names
  <2>3. \A m \in Package!Names : sides'[m] = Package!Sides => (m \in ended'.of) # (\E i \in DOMAIN added' : added'[i].of = m)
    <3> SUFFICES ASSUME NEW m \in Package!Names, sides[m] = Package!Sides
                 PROVE  (m \in ranked) # (\E i \in DOMAIN added : added[i].of = m)
      BY <1>1, <2>1, <2>2
    <3>1. (m \in ranked) # (m \in Looked)
      BY <1>2, <1>3 DEF InTurn, Package!Sides
    <3>2. m \in Looked <=> \E i \in DOMAIN added : added[i].of = m
      BY DEF Looked
    <3> HIDE DEF Looked
    <3>3. (m \in ranked) <=> ~(\E i \in DOMAIN added : added[i].of = m)
      BY <3>1, <3>2
    <3> QED
      BY <3>3
  <2>4. Package!PackageWhole'
    BY <2>1, <2>2, <2>3 DEF Package!PackageWhole, Package!Ended, PackageInv
  <2> QED
    BY <1>1, <1>4, <2>1, <2>2, <2>4 DEF PackageInv
<1>6. CASE ranked = {}
  <2>1. ended' = Package!Ending("done", {}) /\ added' = added \o Package!DeckFindings
    BY <1>6 DEF Package!Finish
  <2>2. ended' # None /\ ended'.why = "done"
    BY <2>1, PackageConstants DEF Package!Ending, PackageInv, Package!Names
  <2>3. PICK new : /\ new = Package!DeckFindings /\ new \in Seq(Record)
                   /\ Package!IsInjective(new)
                   /\ \A i \in DOMAIN new : new[i].of = "deck"
                   /\ mode = "final" => \A i \in DOMAIN new : new[i].what # "preflight"
                   /\ {new[i].of : i \in DOMAIN new} \cup (IF mode = "final" THEN {"deck"} ELSE {}) =
                        IF "current" \in decks THEN {"deck"} ELSE {}
    <3>1. CASE mode = "final"
      <4>1. Package!DeckFindings = One("deck", "reconciled") /\ "current" \in decks
        BY <1>4, <3>1 DEF One, Package!DeckFindings, Package!Accepts
      <4> QED
        BY <3>1, <4>1, ShortOne DEF What
    <3>2. CASE mode # "final" /\ mode = "cycle" /\ decks = Package!Sides
      <4>1. Package!DeckFindings = One("deck", "changes") /\ "current" \in decks
        BY <3>2 DEF One, Package!DeckFindings, Package!Sides
      <4> QED
        BY <3>2, <4>1, ShortOne DEF What
    <3>3. CASE mode # "final" /\ ~(mode = "cycle" /\ decks = Package!Sides) /\ "current" \in decks
      <4>1. Package!DeckFindings = One("deck", "preflight")
        BY <3>3 DEF One, Package!DeckFindings
      <4> QED
        BY <3>3, <4>1, ShortOne DEF What
    <3>4. CASE mode # "final" /\ ~(mode = "cycle" /\ decks = Package!Sides) /\ "current" \notin decks
      <4>1. Package!DeckFindings = <<>>
        BY <3>4 DEF One, Package!DeckFindings
      <4> QED
        BY <3>4, <4>1, ShortNone
    <3> QED
      BY <3>1, <3>2, <3>3, <3>4
  <2>4. \A i \in DOMAIN new, j \in DOMAIN added : new[i] # added[j]
    BY <1>2, <2>3 DEF InTurn, Looked
  <2>5. /\ added' \in Seq(Record) /\ Package!IsInjective(added')
        /\ Looked' = Looked \cup {new[i].of : i \in DOMAIN new}
    BY <2>1, <2>3, <2>4, Appends
  <2>6. Looked \ {"deck"} = {m \in Package!Names : sides[m] # {}}
    BY <1>2, <1>3, <1>6, PackageConstants DEF InTurn, Package!Names
  <2>7. "deck" \in Looked <=> mode = "final"
    BY <1>2, <1>4 DEF InTurn
  <2>8. Looked' = {m \in Package!Names : sides[m] # {}} \cup IF "current" \in decks THEN {"deck"} ELSE {}
    BY <2>3, <2>5, <2>6, <2>7
  <2>9. Package!PackageWhole'
    BY <1>1, <2>2, <2>5, <2>8 DEF Package!PackageWhole, Package!Ended, Looked
  <2> QED
    BY <1>1, <1>4, <2>2, <2>5, <2>9 DEF PackageInv
<1> QED
  BY <1>5, <1>6

(* Every step of a package keeps it.                                        *)
LEMMA PackageSteps ==
  ASSUME PackageInv, Package!PackageNext
  PROVE  PackageInv'
<1>1. CASE Package!Refuse
  BY <1>1, EndsEarly DEF Package!Refuse
<1>2. CASE Package!Begin
  BY <1>2, Begins
<1>3. CASE Package!Fail
  BY <1>3, EndsEarly DEF Package!Fail
<1>4. CASE Package!Compare
  <2> DEFINE new == One(Package!Member, "changes")
  <2>1. added' = added \o new
    BY <1>4 DEF One, Package!Compare, Package!Add, PackageInv
  <2>2. Package!Member \in Package!Names
    BY <1>4, OneTurn DEF Package!Compare
  <2>3. /\ new \in Seq(Record) /\ Package!IsInjective(new) /\ new # <<>>
        /\ \A i \in DOMAIN new : new[i].of = Package!Member
    BY <2>2, ShortOne DEF What
  <2>4. /\ Package!Turn /\ Package!MemberSides # {} /\ index' = index + 1
        /\ UNCHANGED <<mode, sides, decks, ranked, ended>>
    BY <1>4 DEF Package!Compare, Package!Compares, Package!Sides
  <2> HIDE DEF new
  <2> QED
    BY <2>1, <2>3, <2>4, LookedAt
<1>5. CASE Package!AskRows
  BY <1>5, SilentTurn DEF Package!AskRows, Package!Compares, Package!Sides
<1>6. CASE Package!AskOther
  <2>1. {Package!Member} \in SUBSET Package!Names
    BY <1>6, OneTurn DEF Package!AskOther
  <2> QED
    BY <1>6, <2>1, EndsEarly DEF Package!AskOther
<1>7. CASE Package!Preflight
  <2> DEFINE new == IF mode = "cycle" THEN Two(Package!Member, "preflight", "added")
                                      ELSE One(Package!Member, "preflight")
  <2>1. Package!Member \in Package!Names
    BY <1>7, OneTurn DEF Package!Preflight
  <2>2. "preflight" # "added" /\ {"preflight", "added"} \subseteq What
    BY DEF What
  <2>3. /\ Two(Package!Member, "preflight", "added") \in Seq(Record)
        /\ Package!IsInjective(Two(Package!Member, "preflight", "added"))
        /\ Two(Package!Member, "preflight", "added") # <<>>
        /\ \A i \in DOMAIN Two(Package!Member, "preflight", "added") :
             Two(Package!Member, "preflight", "added")[i].of = Package!Member
    BY <2>1, <2>2, ShortTwo
  <2>4. /\ One(Package!Member, "preflight") \in Seq(Record)
        /\ Package!IsInjective(One(Package!Member, "preflight")) /\ One(Package!Member, "preflight") # <<>>
        /\ \A i \in DOMAIN One(Package!Member, "preflight") : One(Package!Member, "preflight")[i].of = Package!Member
    BY <2>1, <2>2, ShortOne
  <2>5. /\ new \in Seq(Record) /\ Package!IsInjective(new) /\ new # <<>>
        /\ \A i \in DOMAIN new : new[i].of = Package!Member
    BY <2>3, <2>4
  <2>6. added' = added \o new
    BY <1>7 DEF Package!Preflight, One, Two
  <2> HIDE DEF new
  <2> QED
    BY <1>7, <2>5, <2>6, LookedAt DEF Package!Preflight
<1>8. CASE Package!Removed
  <2> DEFINE new == One(Package!Member, "removed")
  <2>1. added' = added \o new
    BY <1>8 DEF One, Package!Removed, Package!Add, PackageInv
  <2>2. Package!Member \in Package!Names
    BY <1>8, OneTurn DEF Package!Removed
  <2>3. /\ new \in Seq(Record) /\ Package!IsInjective(new) /\ new # <<>>
        /\ \A i \in DOMAIN new : new[i].of = Package!Member
    BY <2>2, ShortOne DEF What
  <2>4. /\ Package!Turn /\ Package!MemberSides # {} /\ index' = index + 1
        /\ UNCHANGED <<mode, sides, decks, ranked, ended>>
    BY <1>8 DEF Package!Removed, Package!Compares, Package!Sides
  <2> HIDE DEF new
  <2> QED
    BY <2>1, <2>3, <2>4, LookedAt
<1>9. CASE Package!NoSuchMember
  BY <1>9, SilentTurn DEF Package!NoSuchMember
<1>10. CASE Package!Finish
  BY <1>10, Finishes
<1> QED
  BY <1>1, <1>2, <1>3, <1>4, <1>5, <1>6, <1>7, <1>8, <1>9, <1>10 DEF Package!PackageNext

(* A package that ended is whole: it ended in turn.                         *)
LEMMA PackageIsWhole ==
  ASSUME PackageInv
  PROVE  Package!PackageWhole
  BY DEF PackageInv, Package!PackageWhole, Package!Ended
-----------------------------------------------------------------------------
(* The run over one workbook pair (QcRun). *)

Entry == [for : SUBSET Changes, grouped : BOOLEAN, blank : BOOLEAN]

(* What the entries of a list stand for, each change for one entry only. *)
Covers(s) == UNION {s[i].for : i \in DOMAIN s}
Apart(s) == \A i, j \in DOMAIN s : i # j => s[i].for \cap s[j].for = {}

(* A finding added for changes that no other has is one more.               *)
LEMMA Adds ==
  ASSUME NEW s \in Seq(Entry), NEW t \in Seq(Entry), Apart(s), Apart(t), Covers(s) \cap Covers(t) = {}
  PROVE  /\ s \o t \in Seq(Entry) /\ Apart(s \o t) /\ Covers(s \o t) = Covers(s) \cup Covers(t)
         /\ \A k \in DOMAIN (s \o t) :
              (\E i \in DOMAIN s : (s \o t)[k] = s[i]) \/ (\E i \in DOMAIN t : (s \o t)[k] = t[i])
<1> DEFINE u == s \o t
<1>1. /\ u \in Seq(Entry) /\ Len(s) \in Nat /\ Len(t) \in Nat /\ DOMAIN s = 1..Len(s) /\ DOMAIN t = 1..Len(t)
      /\ DOMAIN u = 1..(Len(s) + Len(t))
  OBVIOUS
<1>2. \A i \in DOMAIN s : i \in DOMAIN u /\ u[i] = s[i]
  BY <1>1
<1>3. \A i \in DOMAIN t : Len(s) + i \in DOMAIN u /\ u[Len(s) + i] = t[i]
  BY <1>1
<1>4. \A k \in DOMAIN u : k \in DOMAIN s \/ (k \notin DOMAIN s /\ k - Len(s) \in DOMAIN t /\ u[k] = t[k - Len(s)])
  BY <1>1
<1> HIDE DEF u
<1>5. Covers(u) \subseteq Covers(s) \cup Covers(t)
  BY <1>2, <1>4 DEF Covers
<1>6. Covers(s) \subseteq Covers(u)
  BY <1>2 DEF Covers
<1>7. Covers(t) \subseteq Covers(u)
  <2> SUFFICES ASSUME NEW i \in DOMAIN t, NEW c \in t[i].for PROVE c \in Covers(u)
    BY DEF Covers
  <2>1. Len(s) + i \in DOMAIN u /\ c \in u[Len(s) + i].for
    BY <1>3
  <2> QED
    BY <2>1 DEF Covers
<1>8. ASSUME NEW i \in DOMAIN u, NEW j \in DOMAIN u, i # j, NEW c \in u[i].for, c \in u[j].for PROVE FALSE
  <2>1. CASE i \in DOMAIN s /\ j \in DOMAIN s
    BY <1>2, <1>8, <2>1 DEF Apart
  <2>2. CASE i \in DOMAIN s /\ j \notin DOMAIN s
    <3>1. c \in Covers(s) /\ c \in Covers(t)
      BY <1>2, <1>4, <1>8, <2>2 DEF Covers
    <3> QED
      BY <3>1
  <2>3. CASE i \notin DOMAIN s /\ j \in DOMAIN s
    <3>1. c \in Covers(s) /\ c \in Covers(t)
      BY <1>2, <1>4, <1>8, <2>3 DEF Covers
    <3> QED
      BY <3>1
  <2>4. CASE i \notin DOMAIN s /\ j \notin DOMAIN s
    <3>1. i - Len(s) # j - Len(s)
      BY <1>1, <1>8
    <3> QED
      BY <1>4, <1>8, <2>4, <3>1 DEF Apart
  <2> QED
    BY <2>1, <2>2, <2>3, <2>4
<1>9. Apart(u)
  BY <1>8 DEF Apart
<1>10. \A k \in DOMAIN u : (\E i \in DOMAIN s : u[k] = s[i]) \/ (\E i \in DOMAIN t : u[k] = t[i])
  BY <1>2, <1>4
<1> QED
  BY <1>1, <1>5, <1>6, <1>7, <1>9, <1>10 DEF u

(* The list of a finite set of findings that share no change.               *)
LEMMA Lists ==
  ASSUME NEW S \in SUBSET Entry, IsFiniteSet(S), \A d, e \in S : d # e => d.for \cap e.for = {}
  PROVE  /\ Qc!SetToSeq(S) \in Seq(Entry) /\ Apart(Qc!SetToSeq(S))
         /\ Covers(Qc!SetToSeq(S)) = UNION {e.for : e \in S}
         /\ \A i \in DOMAIN Qc!SetToSeq(S) : Qc!SetToSeq(S)[i] \in S
<1> DEFINE n == Cardinality(S)
           s == Qc!SetToSeq(S)
<1>1. n \in Nat /\ ExistsBijection(1..n, S)
  BY FS_CardinalityType
<1>2. PICK f : f \in Bijection(1..n, S)
  BY <1>1 DEF ExistsBijection
<1>3. f \in [1..n -> S] /\ Qc!IsInjective(f)
  BY <1>2 DEF Bijection, Injection, IsInjective, Qc!IsInjective
<1>4. s \in [1..n -> S] /\ Qc!IsInjective(s)
  BY <1>3, CountsAlike DEF Qc!SetToSeq
<1> HIDE DEF s
<1>5. s \in Injection(1..n, S)
  BY <1>4 DEF Injection, IsInjective, Qc!IsInjective
<1>6. IsFiniteSet(1..n) /\ Cardinality(1..n) = n
  BY <1>1, FS_Interval
<1>7. s \in Surjection(1..n, S)
  BY <1>5, <1>6, FS_Injection
<1>8. s \in Seq(Entry) /\ DOMAIN s = 1..n
  BY <1>1, <1>4
<1>9. Apart(s)
  BY <1>4, <1>8 DEF Apart, Qc!IsInjective
<1>10. Covers(s) = UNION {e.for : e \in S}
  BY <1>4, <1>7, <1>8 DEF Covers, Surjection
<1> QED
  BY <1>4, <1>8, <1>9, <1>10 DEF s

(* The findings of a set of changes, one for each.                          *)
LEMMA OfChanges ==
  ASSUME NEW S \in SUBSET Changes
  PROVE  /\ Qc!Entries(S) \in Seq(Entry) /\ Apart(Qc!Entries(S)) /\ Covers(Qc!Entries(S)) = S
         /\ \A i \in DOMAIN Qc!Entries(S) : \E c \in S : Qc!Entries(S)[i] = Qc!Enriched(c)
<1> DEFINE E == {Qc!Enriched(c) : c \in S}
           f == [c \in S |-> Qc!Enriched(c)]
<1>1. IsFiniteSet(S)
  BY RunConstants, FS_Subset
<1>2. f \in Surjection(S, E)
  BY DEF Surjection
<1>3. IsFiniteSet(E)
  BY <1>1, <1>2, FS_Surjection
<1>4. \A c \in S : Qc!Enriched(c) \in Entry /\ Qc!Enriched(c).for = {c}
  BY DEF Qc!Enriched, Entry
<1>5. E \in SUBSET Entry /\ \A d, e \in E : d # e => d.for \cap e.for = {}
  BY <1>4
<1>6. UNION {e.for : e \in E} = S
  BY <1>4
<1>7. Qc!Entries(S) = Qc!SetToSeq(E)
  BY DEF Qc!Entries
<1>8. \A e \in E : \E c \in S : e = Qc!Enriched(c)
  OBVIOUS
<1> HIDE DEF E
<1> QED
  BY <1>3, <1>5, <1>6, <1>7, <1>8, Lists

-----------------------------------------------------------------------------
(* Where the changes are that have been found.  The checks that have run.   *)
ChecksRun ==
  CASE step \in {"prepare", "load", "risks"} -> {}
    [] step = "structure" -> {"risks"}
    [] step = "formulas" -> {"risks", "structure"}
    [] step = "dependencies" -> {"risks", "structure", "formulas"}
    [] step = "controls" -> {"risks", "structure", "formulas", "dependencies"}
    [] step = "decks" -> {"risks", "structure", "formulas", "dependencies", "controls"}
    [] step = "crosscheck" -> {"risks", "structure", "formulas", "dependencies", "controls", "decks"}
    [] OTHER -> Qc!Checks
HasFound(c) == c.by \in ChecksRun \/ (c.by = "values" /\ c.sheet \notin sheetsLeft)

PutAside == step \in {"values", "group", "rest", "store"}
LateChanges == IF PutAside THEN UNION {e.for : e \in late} ELSE late

StepFits ==
  /\ step \in {"prepare", "load", "scope"} \cup Qc!Checks \cup Qc!Within
  /\ changes \in SUBSET Changes /\ scope \in SUBSET Sheets
  /\ step \in {"group", "rest", "store"} => sheetsLeft = {}
  /\ step \in Qc!Checks \cup {"scope", "drain", "buffer"} => resident = Sheets
  /\ sheetsLeft \subseteq Sheets /\ (step = "values" => sheetsLeft \subseteq resident)

(* The three routes: held back from before the values, held back for a      *)
(* population, and straight into the stream.                                *)
RoutesFit ==
  /\ early \subseteq {c \in changes : c.by = "risks" /\ ~Qc!Groupable(c)}
  /\ LateChanges \subseteq {c \in changes : c.by \in Qc!Checks \ {"risks"} /\ ~Qc!Groupable(c)}
  /\ candidates \subseteq {c \in changes : Qc!Groupable(c)}
  /\ step \in Qc!Within => \A c \in early \cup LateChanges : Qc!InScope(c)
  /\ step \in {"prepare", "load", "risks", "buffer", "values", "group", "rest", "store"} => early = {}
  /\ step \in {"rest", "store"} => candidates = {}
  /\ step = "store" => late = {}

StreamFits ==
  /\ stream \in Seq(Entry) /\ Apart(stream)
  /\ Covers(stream) \subseteq {c \in changes : Qc!InScope(c)}
  /\ \A i \in DOMAIN stream : stream[i].blank => \A c \in stream[i].for : Qc!Groupable(c)
  /\ step \notin {"buffer", "values", "group", "rest", "store"} => stream = <<>>
  /\ step \notin {"rest", "store"} => \A c \in Covers(stream) : ~Qc!Groupable(c)
  /\ step # "store" => \A c \in Covers(stream) : Qc!Groupable(c) \/ c.by \in {"risks", "values"}
  /\ \A c \in Covers(stream) : c.by = "values" /\ ~Qc!Groupable(c) => c.sheet \notin sheetsLeft

AsideFits ==
  PutAside => /\ late \in SUBSET Entry /\ IsFiniteSet(late)
              /\ \A d, e \in late : d # e => d.for \cap e.for = {}
              /\ \A e \in late : ~e.blank

Nowhere == {c \in changes : HasFound(c) /\ Qc!InScope(c)} \ (early \cup LateChanges \cup candidates \cup Covers(stream))

EndsFit ==
  /\ outcome \in {"done", "returned"} => step = "store"
  /\ dirs \subseteq {"population", "findings", "post", "outcome"}
  /\ outcome = None => ("findings" \in dirs <=> step \in Qc!Within)
  /\ outcome = None => ("post" \in dirs => step \in {"values", "group", "rest"})
  /\ outcome \in {"blocked", "stopped"} => "findings" \notin dirs /\ "post" \notin dirs
  /\ outcome = "done" => "findings" \in dirs /\ "post" \notin dirs
  /\ Qc!NothingLeft

QcInv == StepFits /\ RoutesFit /\ StreamFits /\ AsideFits /\ Nowhere = {} /\ EndsFit

(* Before the first step every change is still to come.                     *)
LEMMA QcBegins == Qc!QcInit => QcInv
<1> SUFFICES ASSUME Qc!QcInit PROVE QcInv
  OBVIOUS
<1>1. StepFits
  BY DEF Qc!QcInit, StepFits, Qc!Checks, Qc!Within
<1>2. RoutesFit /\ AsideFits /\ LateChanges = {}
  BY DEF Qc!QcInit, RoutesFit, AsideFits, LateChanges, PutAside, Qc!Within
<1>3. StreamFits /\ Covers(stream) = {}
  BY DEF Qc!QcInit, StreamFits, Apart, Covers
<1>4. Nowhere = {}
  BY RunConstants DEF Qc!QcInit, Nowhere, HasFound, ChecksRun
<1>5. EndsFit
  BY RunConstants DEF Qc!QcInit, EndsFit, Qc!NothingLeft, Qc!Within
<1> QED
  BY <1>1, <1>2, <1>3, <1>4, <1>5 DEF QcInv

(* The state that the routes are about does not change.                     *)
LEMMA RoutesStay ==
  ASSUME QcInv, UNCHANGED <<changes, grouping, scope, step, sheetsLeft, resident, early, late, candidates, stream>>
  PROVE  StepFits' /\ RoutesFit' /\ StreamFits' /\ AsideFits' /\ Nowhere' = {}
<1>1. \A c : (HasFound(c)' <=> HasFound(c)) /\ (Qc!InScope(c)' <=> Qc!InScope(c)) /\ (Qc!Groupable(c)' <=> Qc!Groupable(c))
  BY DEF HasFound, ChecksRun, Qc!InScope, Qc!Groupable
<1>2. LateChanges' = LateChanges
  BY DEF LateChanges, PutAside
<1>3. StepFits'
  BY DEF QcInv, StepFits
<1>4. RoutesFit'
  BY <1>1, <1>2 DEF QcInv, RoutesFit
<1>5. StreamFits'
  BY <1>1 DEF QcInv, StreamFits
<1>6. AsideFits'
  BY DEF QcInv, AsideFits, PutAside
<1>7. Nowhere' = {}
  BY <1>1, <1>2 DEF QcInv, Nowhere
<1> QED
  BY <1>3, <1>4, <1>5, <1>6, <1>7

(* A step that changes none of its variables keeps it.                      *)
LEMMA QcStays ==
  ASSUME QcInv, UNCHANGED qcVars
  PROVE  QcInv'
<1>1. EndsFit'
  BY DEF qcVars, QcInv, EndsFit, Qc!NothingLeft
<1> QED
  BY <1>1, RoutesStay DEF qcVars, QcInv

(* A run that is blocked, stored or stopped, or that cleans up.             *)
LEMMA EndingSteps ==
  ASSUME QcInv, Qc!Block \/ Qc!Store \/ Qc!Stop \/ Qc!Unwind
  PROVE  QcInv'
<1>1. UNCHANGED <<changes, grouping, scope, step, sheetsLeft, resident, early, late, candidates, stream>>
  BY DEF Qc!Block, Qc!Store, Qc!Stop, Qc!Unwind
<1>2. EndsFit'
  <2>1. CASE Qc!Block
    BY <2>1, RunConstants DEF QcInv, EndsFit, Qc!NothingLeft, Qc!Block, Qc!Running, Qc!Within
  <2>2. CASE Qc!Store
    BY <2>2, RunConstants DEF QcInv, EndsFit, Qc!NothingLeft, Qc!Store, Qc!Running, Qc!Within
  <2>3. CASE Qc!Stop
    BY <2>3, RunConstants DEF QcInv, EndsFit, Qc!NothingLeft, Qc!Stop, Qc!Running,
       Qc!CleanedUp, Qc!Within
  <2>4. CASE Qc!Unwind
    BY <2>4, RunConstants DEF QcInv, EndsFit, Qc!NothingLeft, Qc!Unwind
  <2> QED
    BY <2>1, <2>2, <2>3, <2>4
<1> QED
  BY <1>1, <1>2, RoutesStay DEF QcInv

(* While a run goes on, what becomes of its directories at a step.          *)
LEMMA StillRuns ==
  ASSUME QcInv, Qc!Running, outcome' = outcome,
         dirs' \subseteq {"population", "findings", "post", "outcome"},
         "findings" \in dirs' <=> step' \in Qc!Within,
         "post" \in dirs' => step' \in {"values", "group", "rest"}
  PROVE  EndsFit'
  BY RunConstants DEF QcInv, EndsFit, Qc!NothingLeft, Qc!Running

(* What is to come of a run depends on its step and sheets.                 *)
LEMMA SameChanges ==
  ASSUME UNCHANGED <<changes, grouping, scope>>
  PROVE  \A c : (Qc!InScope(c)' <=> Qc!InScope(c)) /\ (Qc!Groupable(c)' <=> Qc!Groupable(c))
  BY DEF Qc!InScope, Qc!Groupable

(* The step after each.                                                     *)
LEMMA StepAfter ==
  /\ step = "prepare" => Qc!AfterStep = "load"
  /\ step = "load" => Qc!AfterStep = "risks"
  /\ step = "scope" => Qc!AfterStep = "drain"
  /\ step = "drain" => Qc!AfterStep = "buffer"
  /\ step = "buffer" => Qc!AfterStep = "values"
  /\ step = "values" => Qc!AfterStep = "group"
  /\ step = "group" => Qc!AfterStep = "rest"
  /\ step = "rest" => Qc!AfterStep = "store"
  BY DEF Qc!AfterStep, Qc!After

(* The steps before the sheets are compared add no finding.                 *)
LEMMA EarlySteps ==
  ASSUME QcInv, Qc!Prepare \/ Qc!Load
  PROVE  QcInv'
<1>1. /\ step \in {"prepare", "load"} /\ step' \in {"load", "risks"} /\ outcome = None
      /\ step = "load" => step' = "risks" /\ resident' = Sheets
      /\ step = "prepare" => step' = "load" /\ resident' = resident
      /\ UNCHANGED <<changes, grouping, scope, sheetsLeft, early, late, candidates, stream, outcome>>
      /\ dirs' = dirs \/ dirs' = dirs \cup {"population"}
  BY StepAfter DEF Qc!Prepare, Qc!Load, Qc!Running
<1>2. LateChanges' = LateChanges
  BY <1>1 DEF LateChanges, PutAside
<1>3. \A c : HasFound(c)' <=> HasFound(c)
  BY <1>1 DEF HasFound, ChecksRun
<1>4. \A c : (Qc!InScope(c)' <=> Qc!InScope(c)) /\ (Qc!Groupable(c)' <=> Qc!Groupable(c))
  BY <1>1, SameChanges
<1>5. StepFits'
  BY <1>1 DEF QcInv, StepFits, Qc!Checks, Qc!Within
<1>6. RoutesFit'
  BY <1>1, <1>2, <1>4 DEF QcInv, RoutesFit, Qc!Within
<1>7. StreamFits'
  BY <1>1, <1>4 DEF QcInv, StreamFits
<1>8. AsideFits'
  BY <1>1 DEF AsideFits, PutAside
<1>9. Nowhere' = {}
  BY <1>1, <1>2, <1>3, <1>4 DEF QcInv, Nowhere
<1>10. EndsFit'
  <2>1. "findings" \notin dirs /\ "post" \notin dirs /\ dirs \subseteq {"population", "findings", "post", "outcome"}
    BY <1>1 DEF QcInv, EndsFit, Qc!Within
  <2>2. "findings" \notin dirs' /\ "post" \notin dirs' /\ dirs' \subseteq {"population", "findings", "post", "outcome"}
    BY <1>1, <2>1
  <2> QED
    BY <1>1, <2>2, StillRuns DEF Qc!Within, Qc!Running
<1> QED
  BY <1>5, <1>6, <1>7, <1>8, <1>9, <1>10 DEF QcInv

(* A check puts the changes it sees aside.                                  *)
LEMMA Checking ==
  ASSUME QcInv, Qc!Check
  PROVE  QcInv'
<1>0. step \in Qc!Checks /\ outcome = None /\ UNCHANGED <<changes, grouping, scope, sheetsLeft, resident, stream, dirs, outcome>>
  BY DEF Qc!Check, Qc!Running
<1>1. step' \in (Qc!Checks \ {"risks"}) \cup {"scope"} /\ \A k : k \in ChecksRun' <=> k \in ChecksRun \cup {step}
  <2>1. step' = Qc!AfterStep
    BY DEF Qc!Check
  <2>2. CASE step = "risks"
    BY <2>1, <2>2 DEF Qc!AfterStep, Qc!After, ChecksRun, Qc!Checks
  <2>3. CASE step = "structure"
    BY <2>1, <2>3 DEF Qc!AfterStep, Qc!After, ChecksRun, Qc!Checks
  <2>4. CASE step = "formulas"
    BY <2>1, <2>4 DEF Qc!AfterStep, Qc!After, ChecksRun, Qc!Checks
  <2>5. CASE step = "dependencies"
    BY <2>1, <2>5 DEF Qc!AfterStep, Qc!After, ChecksRun, Qc!Checks
  <2>6. CASE step = "controls"
    BY <2>1, <2>6 DEF Qc!AfterStep, Qc!After, ChecksRun, Qc!Checks
  <2>7. CASE step = "decks"
    BY <2>1, <2>7 DEF Qc!AfterStep, Qc!After, ChecksRun, Qc!Checks
  <2>8. CASE step = "crosscheck"
    BY <2>1, <2>8 DEF Qc!AfterStep, Qc!After, ChecksRun, Qc!Checks
  <2> QED
    BY <1>0, <2>2, <2>3, <2>4, <2>5, <2>6, <2>7, <2>8 DEF Qc!Checks
<1>2. LateChanges = late /\ LateChanges' = late'
  BY <1>0, <1>1 DEF LateChanges, PutAside, Qc!Checks
<1>4. \A c : (Qc!InScope(c)' <=> Qc!InScope(c)) /\ (Qc!Groupable(c)' <=> Qc!Groupable(c))
  BY <1>0, SameChanges
<1>3. /\ early' \subseteq {c \in changes : c.by = "risks" /\ ~Qc!Groupable(c)}
      /\ late' \subseteq {c \in changes : c.by \in Qc!Checks \ {"risks"} /\ ~Qc!Groupable(c)}
      /\ early' \cup late' = early \cup late \cup {c \in Qc!Found(step) : ~Qc!Groupable(c)}
      /\ candidates' = candidates \cup {c \in Qc!Found(step) : Qc!Groupable(c)}
  <2>1. CASE step = "risks"
    <3>1. early = {}
      BY <2>1 DEF QcInv, RoutesFit
    <3> QED
      BY <2>1, <1>2 DEF Qc!Check, QcInv, RoutesFit, Qc!Found
  <2>2. CASE step # "risks"
    BY <1>0, <1>2, <2>2 DEF Qc!Check, QcInv, RoutesFit, Qc!Found
  <2> QED
    BY <2>1, <2>2
<1>5. StepFits'
  BY <1>0, <1>1 DEF QcInv, StepFits, Qc!Checks, Qc!Within
<1>6. RoutesFit'
  BY <1>0, <1>1, <1>2, <1>3, <1>4 DEF QcInv, RoutesFit, Qc!Within, Qc!Checks, Qc!Found
<1>7. StreamFits'
  BY <1>0, <1>1, <1>4 DEF QcInv, StreamFits, Qc!Checks
<1>8. AsideFits'
  BY <1>1 DEF AsideFits, PutAside, Qc!Checks
<1>9. Nowhere' = {}
  <2> SUFFICES ASSUME NEW c \in changes, HasFound(c)', Qc!InScope(c)
               PROVE  c \in early' \cup late' \cup candidates' \cup Covers(stream)
    BY <1>0, <1>2, <1>4 DEF Nowhere
  <2>1. CASE HasFound(c)
    BY <1>2, <1>3, <2>1 DEF QcInv, Nowhere
  <2>2. CASE c.by = step
    BY <1>3, <2>2 DEF Qc!Found
  <2> QED
    BY <1>0, <1>1, <2>1, <2>2 DEF HasFound
<1>10. EndsFit'
  <2>1. step \notin Qc!Within /\ step' \notin Qc!Within
    BY <1>0, <1>1 DEF Qc!Checks, Qc!Within
  <2> QED
    BY <1>0, <2>1, StillRuns DEF QcInv, EndsFit, Qc!Within, Qc!Running
<1> QED
  BY <1>5, <1>6, <1>7, <1>8, <1>9, <1>10 DEF QcInv

(* What is out of scope is dropped from what was put aside.                 *)
LEMMA Scoping ==
  ASSUME QcInv, Qc!Scope
  PROVE  QcInv'
<1>1. /\ step = "scope" /\ step' = "drain" /\ outcome = None
      /\ early' = {c \in early : Qc!InScope(c)} /\ late' = {c \in late : Qc!InScope(c)}
      /\ dirs' = dirs \cup {"findings"}
      /\ UNCHANGED <<changes, grouping, scope, sheetsLeft, resident, candidates, stream, outcome>>
  BY StepAfter DEF Qc!Scope, Qc!Running
<1>2. LateChanges = late /\ LateChanges' = late'
  BY <1>1 DEF LateChanges, PutAside
<1>3. \A c : HasFound(c)' <=> HasFound(c)
  BY <1>1 DEF HasFound, ChecksRun
<1>4. \A c : (Qc!InScope(c)' <=> Qc!InScope(c)) /\ (Qc!Groupable(c)' <=> Qc!Groupable(c))
  BY <1>1, SameChanges
<1>5. StepFits'
  BY <1>1 DEF QcInv, StepFits, Qc!Checks, Qc!Within
<1>6. RoutesFit'
  BY <1>1, <1>2, <1>4 DEF QcInv, RoutesFit, Qc!Within
<1>7. StreamFits'
  BY <1>1, <1>4 DEF QcInv, StreamFits
<1>8. AsideFits'
  BY <1>1 DEF AsideFits, PutAside
<1>9. Nowhere' = {}
  BY <1>1, <1>2, <1>3, <1>4 DEF QcInv, Nowhere
<1>10. EndsFit'
  <2>1. "post" \notin dirs /\ dirs \subseteq {"population", "findings", "post", "outcome"}
    BY <1>1 DEF QcInv, EndsFit
  <2>2. "findings" \in dirs' /\ "post" \notin dirs' /\ dirs' \subseteq {"population", "findings", "post", "outcome"}
    BY <1>1, <2>1
  <2> QED
    BY <1>1, <2>2, StillRuns DEF Qc!Within, Qc!Running
<1> QED
  BY <1>5, <1>6, <1>7, <1>8, <1>9, <1>10 DEF QcInv

(* What was found early goes to the stream first.                           *)
LEMMA Draining ==
  ASSUME QcInv, Qc!Drain
  PROVE  QcInv'
<1>1. /\ step = "drain" /\ step' = "buffer" /\ outcome = None
      /\ stream' = stream \o Qc!Entries(early) /\ early' = {}
      /\ UNCHANGED <<changes, grouping, scope, sheetsLeft, resident, late, candidates, dirs, outcome>>
  BY StepAfter DEF Qc!Drain, Qc!Running
<1>2. LateChanges = late /\ LateChanges' = late
  BY <1>1 DEF LateChanges, PutAside
<1>3. \A c : HasFound(c)' <=> HasFound(c)
  BY <1>1 DEF HasFound, ChecksRun
<1>4. \A c : (Qc!InScope(c)' <=> Qc!InScope(c)) /\ (Qc!Groupable(c)' <=> Qc!Groupable(c))
  BY <1>1, SameChanges
<1>5. StepFits'
  BY <1>1 DEF QcInv, StepFits, Qc!Checks, Qc!Within
<1>6. RoutesFit'
  BY <1>1, <1>2, <1>4 DEF QcInv, RoutesFit, Qc!Within
<1>a. /\ early \in SUBSET Changes /\ stream = <<>> /\ resident = Sheets
      /\ \A c \in early : c \in changes /\ Qc!InScope(c) /\ ~Qc!Groupable(c) /\ c.by = "risks"
  BY <1>1 DEF QcInv, StepFits, RoutesFit, StreamFits, Qc!Within
<1>b. /\ Qc!Entries(early) \in Seq(Entry) /\ Apart(Qc!Entries(early)) /\ Covers(Qc!Entries(early)) = early
      /\ \A i \in DOMAIN Qc!Entries(early) : \E c \in early : Qc!Entries(early)[i] = Qc!Enriched(c)
  BY <1>a, OfChanges
<1>c. stream' = Qc!Entries(early)
  BY <1>1, <1>a, <1>b
<1>d. \A c \in early : ~Qc!Enriched(c).blank
  BY <1>a DEF Qc!Enriched, Qc!InScope, QcInv, StepFits, RoutesFit, StreamFits
<1>7. StreamFits'
  BY <1>1, <1>4, <1>a, <1>b, <1>c, <1>d DEF StreamFits
<1>8. AsideFits'
  BY <1>1 DEF AsideFits, PutAside
<1>9. Nowhere' = {}
  BY <1>1, <1>2, <1>3, <1>4, <1>a, <1>b, <1>c DEF QcInv, Nowhere, Covers
<1>10. EndsFit'
  BY <1>1, StillRuns DEF QcInv, EndsFit, Qc!Within, Qc!Running
<1> QED
  BY <1>5, <1>6, <1>7, <1>8, <1>9, <1>10 DEF QcInv

(* The findings put aside get what a finding shows of its cells.            *)
LEMMA Buffering ==
  ASSUME QcInv, Qc!Buffer
  PROVE  QcInv'
<1>1. /\ step = "buffer" /\ step' = "values" /\ outcome = None
      /\ late' = {Qc!Enriched(c) : c \in late}
      /\ dirs' = dirs \/ dirs' = dirs \cup {"post"}
      /\ UNCHANGED <<changes, grouping, scope, sheetsLeft, resident, early, candidates, stream, outcome>>
  BY StepAfter DEF Qc!Buffer, Qc!Running
<1>0. \A c \in late : Qc!Enriched(c).for = {c}
  BY DEF Qc!Enriched
<1>2. LateChanges = late /\ LateChanges' = late
  BY <1>0, <1>1 DEF LateChanges, PutAside
<1>3. \A c : HasFound(c)' <=> HasFound(c)
  BY <1>1 DEF HasFound, ChecksRun
<1>4. \A c : (Qc!InScope(c)' <=> Qc!InScope(c)) /\ (Qc!Groupable(c)' <=> Qc!Groupable(c))
  BY <1>1, SameChanges
<1>5. StepFits'
  BY <1>1 DEF QcInv, StepFits, Qc!Checks, Qc!Within
<1>6. RoutesFit'
  BY <1>1, <1>2, <1>4 DEF QcInv, RoutesFit, Qc!Within
<1>7. StreamFits'
  BY <1>1, <1>4 DEF QcInv, StreamFits
<1>8. AsideFits'
  <2>1. /\ late \in SUBSET Changes /\ resident = Sheets
        /\ \A c \in late : Qc!InScope(c)
    BY <1>1, <1>2 DEF QcInv, StepFits, RoutesFit, Qc!Within
  <2>2. \A c \in late : c.sheet = None \/ c.sheet \in resident
    BY <1>1, <2>1 DEF Qc!InScope, QcInv, StepFits
  <2>3. \A c \in late : Qc!Enriched(c) \in Entry
    BY <2>1 DEF Qc!Enriched, Entry
  <2>4. \A c \in late : ~Qc!Enriched(c).blank
    BY <2>2 DEF Qc!Enriched
  <2>5. IsFiniteSet(late')
    <3> DEFINE f == [c \in late |-> Qc!Enriched(c)]
    <3>1. f \in Surjection(late, late')
      BY <1>1 DEF Surjection
    <3>2. IsFiniteSet(late)
      BY <2>1, RunConstants, FS_Subset
    <3> QED
      BY <3>1, <3>2, FS_Surjection
  <2>6. \A d, e \in late' : d # e => d.for \cap e.for = {}
    BY <1>0, <1>1
  <2> QED
    BY <1>1, <2>3, <2>4, <2>5, <2>6 DEF AsideFits
<1>9. Nowhere' = {}
  BY <1>1, <1>2, <1>3, <1>4 DEF QcInv, Nowhere
<1>10. EndsFit'
  <2>1. "findings" \in dirs /\ dirs \subseteq {"population", "findings", "post", "outcome"}
    BY <1>1 DEF QcInv, EndsFit, Qc!Within
  <2>2. "findings" \in dirs' /\ dirs' \subseteq {"population", "findings", "post", "outcome"}
    BY <1>1, <2>1
  <2> QED
    BY <1>1, <2>2, StillRuns DEF Qc!Within, Qc!Running
<1> QED
  BY <1>5, <1>6, <1>7, <1>8, <1>9, <1>10 DEF QcInv

(* Each change of a sheet goes to the stream or to the candidates.          *)
LEMMA SheetCompared ==
  ASSUME QcInv, Qc!Values
  PROVE  QcInv'
<1>1. /\ step = "values" /\ step' = "values" /\ outcome = None
      /\ UNCHANGED <<changes, grouping, scope, early, late, dirs, outcome>>
  BY DEF Qc!Values, Qc!Running
<1> DEFINE found(s) == {c \in Qc!Found("values") : c.sheet = s}
           straight(s) == {c \in found(s) : ~Qc!Groupable(c) /\ Qc!InScope(c)}
<1>2. PICK s \in sheetsLeft :
        /\ stream' = stream \o Qc!Entries(straight(s))
        /\ candidates' = candidates \cup {c \in found(s) : Qc!Groupable(c)}
        /\ resident' = resident \ {s} /\ sheetsLeft' = sheetsLeft \ {s}
  BY DEF Qc!Values
<1> DEFINE S == straight(s)
<1>3. LateChanges' = LateChanges
  BY <1>1 DEF LateChanges, PutAside
<1>4. \A c : (Qc!InScope(c)' <=> Qc!InScope(c)) /\ (Qc!Groupable(c)' <=> Qc!Groupable(c))
  BY <1>1, SameChanges
<1>5. StepFits'
  BY <1>1, <1>2 DEF QcInv, StepFits, Qc!Checks, Qc!Within
<1>6. RoutesFit'
  BY <1>1, <1>2, <1>3, <1>4 DEF QcInv, RoutesFit, Qc!Within, Qc!Found
<1>a. /\ S \in SUBSET Changes
      /\ \A c \in S : c \in changes /\ Qc!InScope(c) /\ ~Qc!Groupable(c) /\ c.by = "values" /\ c.sheet = s
      /\ s \in resident
  BY <1>1 DEF QcInv, StepFits, Qc!Found
<1> HIDE DEF S
<1>b. /\ Qc!Entries(S) \in Seq(Entry) /\ Apart(Qc!Entries(S)) /\ Covers(Qc!Entries(S)) = S
      /\ \A i \in DOMAIN Qc!Entries(S) : \E c \in S : Qc!Entries(S)[i] = Qc!Enriched(c)
  BY <1>a, OfChanges
<1>c. /\ stream \in Seq(Entry) /\ Apart(stream) /\ Covers(stream) \cap S = {}
  BY <1>1, <1>a DEF QcInv, StreamFits
<1>d. stream' = stream \o Qc!Entries(S)
  BY <1>2 DEF S
<1>e. /\ stream' \in Seq(Entry) /\ Apart(stream') /\ Covers(stream)' = Covers(stream) \cup S
      /\ \A k \in DOMAIN stream' : (\E i \in DOMAIN stream : stream'[k] = stream[i])
                                   \/ (\E i \in DOMAIN Qc!Entries(S) : stream'[k] = Qc!Entries(S)[i])
  <2>1. Covers(stream') = Covers(stream) \cup S
    BY <1>b, <1>c, <1>d, Adds
  <2>2. Covers(stream)' = Covers(stream')
    BY DEF Covers
  <2> QED
    BY <1>b, <1>c, <1>d, <2>1, <2>2, Adds
<1>f. \A c \in S : ~Qc!Enriched(c).blank
  BY <1>a DEF Qc!Enriched
<1>7. StreamFits'
  <2>1. \A k \in DOMAIN stream' : stream'[k].blank => \A c \in stream'[k].for : Qc!Groupable(c)
    BY <1>b, <1>e, <1>f DEF QcInv, StreamFits
  <2>2. \A c \in Covers(stream)' : /\ c \in changes /\ Qc!InScope(c) /\ ~Qc!Groupable(c) /\ c.by \in {"risks", "values"}
                                   /\ c.by = "values" => c.sheet \notin sheetsLeft'
    BY <1>1, <1>2, <1>a, <1>e DEF QcInv, StreamFits
  <2>3. Apart(stream)'
    BY <1>e DEF Apart
  <2> QED
    BY <1>1, <1>4, <1>e, <2>1, <2>2, <2>3 DEF StreamFits
<1>8. AsideFits'
  BY <1>1 DEF QcInv, AsideFits, PutAside
<1>9. Nowhere' = {}
  <2> SUFFICES ASSUME NEW c \in changes, HasFound(c)', Qc!InScope(c)
               PROVE  c \in early \cup LateChanges \cup candidates' \cup Covers(stream)'
    BY <1>1, <1>3, <1>4 DEF Nowhere
  <2>1. CASE HasFound(c)
    BY <1>2, <1>e, <2>1 DEF QcInv, Nowhere
  <2>2. CASE c.by = "values" /\ c.sheet = s
    <3>1. CASE Qc!Groupable(c)
      BY <1>2, <2>2, <3>1 DEF Qc!Found
    <3>2. CASE ~Qc!Groupable(c)
      BY <1>e, <2>2, <3>2 DEF Qc!Found, S
    <3> QED
      BY <3>1, <3>2
  <2> QED
    BY <1>1, <1>2, <2>1, <2>2 DEF HasFound, ChecksRun
<1>10. EndsFit'
  BY <1>1, StillRuns DEF QcInv, EndsFit, Qc!Within, Qc!Running
<1> QED
  BY <1>5, <1>6, <1>7, <1>8, <1>9, <1>10 DEF QcInv

(* With every sheet compared the groups are next.                           *)
LEMMA ValuesCompared ==
  ASSUME QcInv, Qc!ValuesDone
  PROVE  QcInv'
<1>1. /\ step = "values" /\ step' = "group" /\ outcome = None /\ sheetsLeft = {}
      /\ UNCHANGED <<changes, grouping, scope, sheetsLeft, resident, early, late, candidates, stream, dirs, outcome>>
  BY StepAfter DEF Qc!ValuesDone, Qc!Running
<1>2. LateChanges' = LateChanges
  BY <1>1 DEF LateChanges, PutAside
<1>3. \A c : HasFound(c)' <=> HasFound(c)
  BY <1>1 DEF HasFound, ChecksRun
<1>4. \A c : (Qc!InScope(c)' <=> Qc!InScope(c)) /\ (Qc!Groupable(c)' <=> Qc!Groupable(c))
  BY <1>1, SameChanges
<1>5. StepFits'
  BY <1>1 DEF QcInv, StepFits, Qc!Checks, Qc!Within
<1>6. RoutesFit'
  BY <1>1, <1>2, <1>4 DEF QcInv, RoutesFit, Qc!Within
<1>7. StreamFits'
  BY <1>1, <1>4 DEF QcInv, StreamFits
<1>8. AsideFits'
  BY <1>1 DEF QcInv, AsideFits, PutAside
<1>9. Nowhere' = {}
  BY <1>1, <1>2, <1>3, <1>4 DEF QcInv, Nowhere, Covers
<1>10. EndsFit'
  BY <1>1, StillRuns DEF QcInv, EndsFit, Qc!Within, Qc!Running
<1> QED
  BY <1>5, <1>6, <1>7, <1>8, <1>9, <1>10 DEF QcInv

(* What was put aside goes to the stream behind the groups.                 *)
LEMMA TheRest ==
  ASSUME QcInv, Qc!Rest
  PROVE  QcInv'
<1>1. /\ step = "rest" /\ step' = "store" /\ outcome = None
      /\ stream' = stream \o Qc!SetToSeq(late) /\ late' = {} /\ dirs' = dirs \ {"post"}
      /\ UNCHANGED <<changes, grouping, scope, sheetsLeft, resident, early, candidates, outcome>>
  BY StepAfter DEF Qc!Rest, Qc!Running
<1>2. LateChanges = UNION {e.for : e \in late} /\ LateChanges' = {}
  BY <1>1 DEF LateChanges, PutAside
<1>3. \A c : HasFound(c)' <=> HasFound(c)
  BY <1>1 DEF HasFound, ChecksRun
<1>4. \A c : (Qc!InScope(c)' <=> Qc!InScope(c)) /\ (Qc!Groupable(c)' <=> Qc!Groupable(c))
  BY <1>1, SameChanges
<1>5. StepFits'
  BY <1>1 DEF QcInv, StepFits, Qc!Checks, Qc!Within
<1>6. RoutesFit'
  BY <1>1, <1>2, <1>4 DEF QcInv, RoutesFit, Qc!Within
<1> DEFINE t == Qc!SetToSeq(late)
<1>a. /\ late \in SUBSET Entry /\ IsFiniteSet(late) /\ (\A d, e \in late : d # e => d.for \cap e.for = {})
      /\ \A e \in late : ~e.blank
      /\ \A c \in LateChanges : c \in changes /\ Qc!InScope(c) /\ ~Qc!Groupable(c) /\ c.by \in Qc!Checks \ {"risks"}
  BY <1>1 DEF QcInv, AsideFits, PutAside, RoutesFit, Qc!Within
<1>b. /\ t \in Seq(Entry) /\ Apart(t) /\ Covers(t) = LateChanges /\ \A i \in DOMAIN t : t[i] \in late
  BY <1>2, <1>a, Lists
<1> HIDE DEF t
<1>c. /\ stream \in Seq(Entry) /\ Apart(stream) /\ Covers(stream) \cap Covers(t) = {}
  BY <1>1, <1>a, <1>b DEF QcInv, StreamFits, Qc!Checks
<1>d. stream' = stream \o t
  BY <1>1 DEF t
<1>e. /\ stream' \in Seq(Entry) /\ Apart(stream)' /\ Covers(stream)' = Covers(stream) \cup LateChanges
      /\ \A k \in DOMAIN stream' : (\E i \in DOMAIN stream : stream'[k] = stream[i])
                                   \/ (\E i \in DOMAIN t : stream'[k] = t[i])
  <2>1. Covers(stream') = Covers(stream) \cup LateChanges /\ Apart(stream')
    BY <1>b, <1>c, <1>d, Adds
  <2>2. Covers(stream)' = Covers(stream') /\ Apart(stream)' = Apart(stream')
    BY DEF Covers, Apart
  <2> QED
    BY <1>b, <1>c, <1>d, <2>1, <2>2, Adds
<1>7. StreamFits'
  <2>1. \A k \in DOMAIN stream' : stream'[k].blank => \A c \in stream'[k].for : Qc!Groupable(c)
    BY <1>a, <1>b, <1>e DEF QcInv, StreamFits
  <2>2. \A c \in Covers(stream)' : /\ c \in changes /\ Qc!InScope(c)
                                   /\ c.by = "values" /\ ~Qc!Groupable(c) => c.sheet \notin sheetsLeft
    BY <1>1, <1>a, <1>e DEF QcInv, StreamFits, Qc!Checks
  <2> QED
    BY <1>1, <1>4, <1>e, <2>1, <2>2 DEF StreamFits
<1>8. AsideFits'
  BY <1>1, FS_EmptySet DEF AsideFits
<1>9. Nowhere' = {}
  BY <1>1, <1>2, <1>3, <1>4, <1>e DEF QcInv, Nowhere
<1>10. EndsFit'
  <2>1. "findings" \in dirs /\ dirs \subseteq {"population", "findings", "post", "outcome"}
    BY <1>1 DEF QcInv, EndsFit, Qc!Within
  <2>2. "findings" \in dirs' /\ "post" \notin dirs' /\ dirs' \subseteq {"population", "findings", "post", "outcome"}
    BY <1>1, <2>1
  <2> QED
    BY <1>1, <2>2, StillRuns DEF Qc!Within, Qc!Running
<1> QED
  BY <1>5, <1>6, <1>7, <1>8, <1>9, <1>10 DEF QcInv

(* The groups part the candidates that are in scope. *)
LEMMA GroupsPart ==
  ASSUME QcInv
  PROVE  /\ \A G \in Qc!Groups : G \in SUBSET Changes /\ \A c \in G : c \in candidates /\ Qc!InScope(c)
         /\ \A G, H \in Qc!Groups : G # H => G \cap H = {}
         /\ \A c \in candidates : Qc!InScope(c) => \E G \in Qc!Groups : c \in G
         /\ IsFiniteSet(Qc!Groups)
<1>1. candidates \in SUBSET Changes
  BY DEF QcInv, StepFits, RoutesFit
<1>2. \A G \in Qc!Groups : \E g : G = {c \in candidates : c.group = g /\ Qc!InScope(c)}
  BY DEF Qc!Groups
<1>3. \A G \in Qc!Groups : G \in SUBSET Changes /\ \A c \in G : c \in candidates /\ Qc!InScope(c)
  BY <1>1, <1>2
<1>4. \A G, H \in Qc!Groups : G # H => G \cap H = {}
  <2> SUFFICES ASSUME NEW G \in Qc!Groups, NEW H \in Qc!Groups, NEW x, x \in G, x \in H PROVE G = H
    OBVIOUS
  <2>1. PICK g : G = {c \in candidates : c.group = g /\ Qc!InScope(c)}
    BY <1>2
  <2>2. PICK h : H = {c \in candidates : c.group = h /\ Qc!InScope(c)}
    BY <1>2
  <2>3. g = h
    BY <2>1, <2>2
  <2> QED
    BY <2>1, <2>2, <2>3
<1>5. ASSUME NEW c \in candidates, Qc!InScope(c) PROVE \E G \in Qc!Groups : c \in G
  <2> DEFINE G == {x \in candidates : x.group = c.group /\ Qc!InScope(x)}
  <2>1. c \in G
    BY <1>5
  <2>2. G \in Qc!Groups
    BY <2>1 DEF Qc!Groups
  <2> QED
    BY <2>1, <2>2
<1>6. IsFiniteSet(Qc!Groups)
  <2>1. Qc!Groups \subseteq SUBSET Changes
    BY <1>3
  <2> QED
    BY <2>1, RunConstants, FS_SUBSET, FS_Subset
<1> QED
  BY <1>3, <1>4, <1>5, <1>6

(* The finding of a population. *)
Many(G) == [for |-> G, grouped |-> TRUE, blank |-> FALSE]

(* A finding of a group stands for all its changes.                         *)
LEMMA ManyFits ==
  /\ \A G : Many(G).for = G /\ ~Many(G).blank
  /\ \A G \in SUBSET Changes : Many(G) \in Entry
  BY DEF Entry, Many

(* Each group is told once, as one finding or one by one.                   *)
LEMMA Grouping ==
  ASSUME QcInv, Qc!Group
  PROVE  QcInv'
<1> DEFINE A == {Many(G) : G \in Qc!Accepted}
           r == Qc!Entries(Qc!Replayed)
           t == Qc!SetToSeq(A)
<1>1. /\ step = "group" /\ step' = "rest" /\ outcome = None
      /\ stream' = (stream \o r) \o t /\ candidates' = {}
      /\ dirs' = dirs \/ dirs' = (dirs \ {"population"}) \cup {"outcome"}
      /\ UNCHANGED <<changes, grouping, scope, sheetsLeft, resident, early, late, outcome>>
  BY StepAfter DEF Qc!Group, Qc!Running, Qc!Replays, Many
<1>2. LateChanges' = LateChanges
  BY <1>1 DEF LateChanges, PutAside
<1>3. \A c : HasFound(c)' <=> HasFound(c)
  BY <1>1 DEF HasFound, ChecksRun
<1>4. \A c : (Qc!InScope(c)' <=> Qc!InScope(c)) /\ (Qc!Groupable(c)' <=> Qc!Groupable(c))
  BY <1>1, SameChanges
<1>5. StepFits'
  BY <1>1 DEF QcInv, StepFits, Qc!Checks, Qc!Within
<1>6. RoutesFit'
  BY <1>1, <1>2, <1>4 DEF QcInv, RoutesFit, Qc!Within
<1>a. Qc!Accepted \subseteq Qc!Groups
  BY DEF Qc!Accepted
<1>b. /\ Qc!Replayed \in SUBSET Changes /\ UNION Qc!Accepted \in SUBSET Changes
      /\ \A c \in Qc!Replayed \cup UNION Qc!Accepted : c \in candidates /\ Qc!InScope(c)
      /\ Qc!Replayed \cap UNION Qc!Accepted = {}
      /\ \A c \in candidates : Qc!InScope(c) => c \in Qc!Replayed \cup UNION Qc!Accepted
  BY <1>a, GroupsPart DEF Qc!Replayed
<1>c. /\ r \in Seq(Entry) /\ Apart(r) /\ Covers(r) = Qc!Replayed
      /\ \A i \in DOMAIN r : \E c \in Qc!Replayed : r[i] = Qc!Enriched(c)
  BY <1>b, OfChanges
<1>d. /\ t \in Seq(Entry) /\ Apart(t) /\ Covers(t) = UNION Qc!Accepted
      /\ \A i \in DOMAIN t : ~t[i].blank
  <2>0. /\ \A e \in A : e = Many(e.for) /\ e.for \in Qc!Accepted /\ ~e.blank
        /\ \A G \in Qc!Accepted : \E e \in A : e.for = G
    BY ManyFits
  <2>1. A \in SUBSET Entry
    BY <1>a, GroupsPart, ManyFits
  <2>2. IsFiniteSet(A)
    <3> DEFINE f == [G \in Qc!Accepted |-> Many(G)]
    <3>1. f \in Surjection(Qc!Accepted, A)
      BY DEF Surjection
    <3>2. IsFiniteSet(Qc!Accepted)
      BY <1>a, GroupsPart, FS_Subset
    <3> QED
      BY <3>1, <3>2, FS_Surjection
  <2>3. \A d, e \in A : d # e => d.for \cap e.for = {}
    <3> SUFFICES ASSUME NEW d \in A, NEW e \in A, d # e PROVE d.for \cap e.for = {}
      OBVIOUS
    <3>1. d.for \in Qc!Groups /\ e.for \in Qc!Groups /\ d.for # e.for
      BY <1>a, <2>0
    <3> QED
      BY <3>1, GroupsPart
  <2>4. UNION {e.for : e \in A} = UNION Qc!Accepted
    BY <2>0
  <2>5. \A e \in A : ~e.blank
    BY <2>0
  <2> HIDE DEF A
  <2> QED
    BY <2>1, <2>2, <2>3, <2>4, <2>5, Lists
<1>e. /\ stream \in Seq(Entry) /\ Apart(stream)
      /\ \A c \in Covers(stream) : c \in changes /\ Qc!InScope(c) /\ ~Qc!Groupable(c) /\ c.by \in {"risks", "values"}
      /\ \A c \in Qc!Replayed \cup UNION Qc!Accepted : c \in changes /\ Qc!Groupable(c)
  BY <1>1, <1>b DEF QcInv, StreamFits, RoutesFit
<1> HIDE DEF r, t
<1>f. /\ stream \o r \in Seq(Entry) /\ Apart(stream \o r) /\ Covers(stream \o r) = Covers(stream) \cup Qc!Replayed
      /\ \A k \in DOMAIN (stream \o r) : (\E i \in DOMAIN stream : (stream \o r)[k] = stream[i])
                                   \/ (\E i \in DOMAIN r : (stream \o r)[k] = r[i])
  <2>1. Covers(stream) \cap Covers(r) = {}
    BY <1>c, <1>e
  <2> QED
    BY <1>c, <1>e, <2>1, Adds
<1> DEFINE u == stream \o r
<1> HIDE DEF u
<1>g. /\ u \in Seq(Entry) /\ Apart(u) /\ Covers(u) = Covers(stream) \cup Qc!Replayed /\ stream' = u \o t
      /\ \A k \in DOMAIN u : (\E i \in DOMAIN stream : u[k] = stream[i]) \/ (\E i \in DOMAIN r : u[k] = r[i])
  BY <1>1, <1>f DEF u
<1>h. Covers(u) \cap Covers(t) = {}
  BY <1>b, <1>d, <1>e, <1>g
<1>i. /\ stream' \in Seq(Entry) /\ Apart(stream)' /\ Covers(stream)' = Covers(stream) \cup Qc!Replayed \cup UNION Qc!Accepted
      /\ \A k \in DOMAIN stream' : (\E i \in DOMAIN u : stream'[k] = u[i]) \/ (\E i \in DOMAIN t : stream'[k] = t[i])
  <2>1. Covers(stream') = Covers(stream) \cup Qc!Replayed \cup UNION Qc!Accepted /\ Apart(stream')
    BY <1>d, <1>g, <1>h, Adds
  <2>2. Covers(stream)' = Covers(stream') /\ Apart(stream)' = Apart(stream')
    BY DEF Covers, Apart
  <2> QED
    BY <1>d, <1>g, <1>h, <2>1, <2>2, Adds
<1>7. StreamFits'
  <2>1. \A i \in DOMAIN r : \A c \in r[i].for : Qc!Groupable(c)
    BY <1>c, <1>e DEF Qc!Enriched
  <2>2. \A i \in DOMAIN u : u[i].blank => \A c \in u[i].for : Qc!Groupable(c)
    BY <1>g, <2>1 DEF QcInv, StreamFits
  <2>3. \A k \in DOMAIN stream' : stream'[k].blank => \A c \in stream'[k].for : Qc!Groupable(c)
    BY <1>d, <1>i, <2>2
  <2>4. \A c \in Covers(stream)' : /\ c \in changes /\ Qc!InScope(c)
                                   /\ Qc!Groupable(c) \/ c.by \in {"risks", "values"}
                                   /\ c.by = "values" /\ ~Qc!Groupable(c) => c.sheet \notin sheetsLeft
    BY <1>b, <1>e, <1>i DEF QcInv, StreamFits
  <2> QED
    BY <1>1, <1>4, <1>i, <2>3, <2>4 DEF StreamFits
<1>8. AsideFits'
  BY <1>1 DEF QcInv, AsideFits, PutAside
<1>9. Nowhere' = {}
  BY <1>1, <1>2, <1>3, <1>4, <1>b, <1>i DEF QcInv, Nowhere
<1>10. EndsFit'
  <2>1. "findings" \in dirs /\ dirs \subseteq {"population", "findings", "post", "outcome"}
    BY <1>1 DEF QcInv, EndsFit, Qc!Within
  <2>2. "findings" \in dirs' /\ dirs' \subseteq {"population", "findings", "post", "outcome"}
    BY <1>1, <2>1
  <2> QED
    BY <1>1, <2>2, StillRuns DEF Qc!Within, Qc!Running
<1> QED
  BY <1>5, <1>6, <1>7, <1>8, <1>9, <1>10 DEF QcInv

(* Every step of a run keeps it.                                            *)
LEMMA QcSteps ==
  ASSUME QcInv, Qc!QcNext
  PROVE  QcInv'
  BY EarlySteps, Checking, Scoping, Draining, Buffering, SheetCompared, ValuesCompared,
     Grouping, TheRest, EndingSteps DEF Qc!QcNext

(* A run that ended has told each change once and left nothing.             *)
LEMMA QcWhole ==
  ASSUME QcInv
  PROVE  Qc!EvidenceConserved /\ Qc!NothingLeft
<1>1. ASSUME outcome = "returned", NEW c \in changes
      PROVE  Cardinality({i \in DOMAIN stream : c \in stream[i].for}) = IF Qc!InScope(c) THEN 1 ELSE 0
  <2> DEFINE I == {i \in DOMAIN stream : c \in stream[i].for}
  <2>1. step = "store" /\ Apart(stream)
    BY <1>1 DEF QcInv, EndsFit, StreamFits
  <2>2. CASE Qc!InScope(c)
    <3>1. early = {} /\ late = {} /\ candidates = {} /\ sheetsLeft = {} /\ c \in Changes
      BY <2>1 DEF QcInv, RoutesFit, StepFits
    <3>2. HasFound(c)
      BY <2>1, <3>1, RunConstants DEF HasFound, ChecksRun, Qc!Checks
    <3>3. LateChanges = {}
      BY <3>1 DEF LateChanges
    <3>4. c \in Covers(stream)
      BY <2>2, <3>1, <3>2, <3>3 DEF QcInv, Nowhere
    <3>5. PICK i \in DOMAIN stream : c \in stream[i].for
      BY <3>4 DEF Covers
    <3>6. I = {i}
      BY <2>1, <3>5 DEF Apart
    <3> QED
      BY <2>2, <3>6, FS_Singleton
  <2>3. CASE ~Qc!InScope(c)
    <3>1. I = {}
      BY <2>3 DEF QcInv, StreamFits, Covers
    <3> QED
      BY <2>3, <3>1, FS_EmptySet
  <2> QED
    BY <2>2, <2>3
<1>2. \A i \in DOMAIN stream : stream[i].for \subseteq changes
  BY DEF QcInv, StreamFits, Covers
<1> QED
  BY <1>1, <1>2, CountsAlike DEF Qc!EvidenceConserved, QcInv, StreamFits, EndsFit

(* Each change in scope is in one finding of a run that returned, by one of  *)
(* three routes, and directories of a run that ended are gone (_run_qc,      *)
(* finalize_populations); a package that ended asks for all its rows at once *)
(* or has looked at each workbook (_run_multi_package).                      *)
THEOREM RunsAreWhole == ComparisonSpec => []RunIsWhole
<1> DEFINE Inv == (part = "run" => QcInv) /\ (part = "package" => PackageInv)
<1>1. ComparisonInit => Inv
  BY BeginsApart, QcBegins, PackageBegins
<1>2. Inv /\ [ComparisonNext]_comparisonVars => Inv'
  BY StaysApart, QcSteps, PackageSteps, QcStays, PackageStays
<1>3. Inv => RunIsWhole
  BY QcWhole, PackageIsWhole DEF RunIsWhole
<1> QED
  BY <1>1, <1>2, <1>3, PTL DEF ComparisonSpec
===============================================================================
