------------------------------- MODULE SignOff -------------------------------
(***************************************************************************)
(* The sign-off of one run: finalize_run (signoff.py) in its own threads,  *)
(* against the pages of the run on the event loop (decisions, mapping      *)
(* review, review timer, deletion), over the SQLite store and the files of *)
(* the run's sign-off directory.                                           *)
(*                                                                         *)
(* A step is one transaction, one file operation or one exception.  A      *)
(* SELECT and a later write of one call are two transactions in the store, *)
(* so they are two steps here.  The event loop runs one handler at a time; *)
(* each finalization runs in a thread of its own.                          *)
(***************************************************************************)
EXTENDS Naturals, Sequences, FiniteSets

CONSTANTS
  Findings,    \* the Critical and Warning findings of the run
  Values,      \* what an analyst may decide about one
  Codes,       \* the acknowledgements its coverage may require
  Finalizers,  \* the calls of finalize_run
  None,
  MaxFaults    \* bound on file operations and transactions that raise

ASSUME MaxFaultsIsNat == MaxFaults \in Nat

(* RunSignoff, the row of run_signoffs. *)
SignOffRows ==
  [by : Finalizers, attestation : Finalizers, decisions : [Findings -> Values],
   needs : SUBSET Codes, acks : SUBSET Codes]

ASSUME NoneIsNothing == None \notin Values \cup Finalizers \cup SignOffRows

VARIABLES
  exists,      \* the run's row
  decisions,   \* its annotations
  required,    \* required_acknowledgements of its coverage columns
  signoff,     \* its row in run_signoffs
  timer,       \* its open review session: begun before or after the sign-off
  inputs,      \* the source files on disk: as the run read them, or not
  temp, final, \* who wrote each file of the sign-off directory
  page,        \* what the event loop's handler is in the middle of
  pc,          \* where each finalization is
  seen,        \* the decisions it has read
  accepted,    \* the acknowledgements it was given, and those it asked for
  covers,      \* what its attestation holds: the reports and the inputs
  published,   \* how many files it has put in place
  faults,
  disturbed    \* history: what has been overlapped or cut short so far

storeVars == <<exists, decisions, required, signoff, timer>>
fileVars == <<inputs, temp, final>>
callVars == <<pc, seen, accepted, covers, published>>
vars == <<storeVars, fileVars, page, callVars, faults, disturbed>>

(* The files, in the order in which they are put in place. *)
Files == <<"excel", "html", "qca">>
Kinds == {Files[i] : i \in DOMAIN Files}
NoFiles == [k \in Kinds |-> None]
NoDecisions == [d \in Findings |-> None]
NothingAccepted == [needs |-> {}, acks |-> {}]

EditPoints == {"annotate", "map"}
InTry == {"excel", "html", "attest", "verify", "publish", "record", "pause"}
Working == {"decisions", "coverage", "cleanup"} \cup InTry
Points == Working \cup {"idle", "refused", "failed", "done", "dead"}
Active == {f \in Finalizers : pc[f] \in Working}

TypeOK ==
  /\ exists \in BOOLEAN
  /\ decisions \in [Findings -> Values \cup {None}]
  /\ required \in SUBSET Codes
  /\ signoff = None \/ signoff \in SignOffRows
  /\ timer \in {"none", "open", "late"}
  /\ inputs \in {"original", "changed"}
  /\ temp \in [Kinds -> Finalizers \cup {None}]
  /\ final \in [Kinds -> Finalizers \cup {None}]
  /\ page \in {"idle", "start", "deleteRows", "deleteAll", "unlink"} \cup EditPoints
  /\ pc \in [Finalizers -> Points]
  /\ seen \in [Finalizers -> [Findings -> Values \cup {None}]]
  /\ accepted \in [Finalizers -> [needs : SUBSET Codes, acks : SUBSET Codes]]
  /\ covers \in [Finalizers -> [excel : Finalizers \cup {None},
                                html : Finalizers \cup {None},
                                inputs : {"original", "changed"}]]
  /\ published \in [Finalizers -> 0..Len(Files)]
  /\ faults \in 0..MaxFaults
  /\ disturbed \in SUBSET {"finalization", "edit", "deletion"}

Init ==
  /\ exists = TRUE /\ decisions = NoDecisions
  /\ required \in SUBSET Codes
  /\ signoff = None /\ timer = "none" /\ inputs = "original"
  /\ temp = NoFiles /\ final = NoFiles
  /\ page = "idle"
  /\ pc = [f \in Finalizers |-> "idle"]
  /\ seen = [f \in Finalizers |-> NoDecisions]
  /\ accepted = [f \in Finalizers |-> NothingAccepted]
  /\ covers = [f \in Finalizers |->
                 [excel |-> None, html |-> None, inputs |-> "original"]]
  /\ published = [f \in Finalizers |-> 0]
  /\ faults = 0 /\ disturbed = {}

(* History: e overlaps a finalization in this step, if cond holds. *)
Disturb(e, cond) == disturbed' = IF cond THEN disturbed \cup {e} ELSE disturbed
-----------------------------------------------------------------------------
(* The event loop: the pages of the run.                                   *)

Mutable == signoff = None  \* assert_mutable

(* A page may be older than the sign-off; only the store looks. *)
(* Mutant: a decision is saved without the look at run_signoffs. *)
BeginEditAlways(kind) ==
  /\ page = "idle"
  /\ page' = kind
  /\ UNCHANGED <<storeVars, fileVars, callVars, faults, disturbed>>
BeginEdit(kind) ==
  /\ page = "idle" /\ Mutable
  /\ page' = kind
  /\ UNCHANGED <<storeVars, fileVars, callVars, faults, disturbed>>

(* A comment, a severity, or both taken back (None).  Annotations of a run *)
(* that is gone are read by nothing: no run gets its id again.             *)
SaveDecision(d, v) ==
  /\ page = "annotate"
  /\ page' = "idle"
  /\ decisions' = IF exists THEN [decisions EXCEPT ![d] = v] ELSE decisions
  /\ Disturb("edit", Active # {})
  /\ UNCHANGED <<exists, required, signoff, timer, fileVars, callVars, faults>>

SaveMapping(codes) ==
  /\ page = "map"
  /\ page' = "idle"
  /\ required' = IF exists THEN codes ELSE required
  /\ Disturb("edit", Active # {})
  /\ UNCHANGED <<exists, decisions, signoff, timer, fileVars, callVars, faults>>

(* start_review_session ends every open session, then opens its own. *)
BeginStart ==
  /\ page = "idle"
  /\ page' = "start"
  /\ timer' = "none"
  /\ UNCHANGED <<exists, decisions, required, signoff, fileVars, callVars,
                 faults, disturbed>>

StartTimer ==
  /\ page = "start"
  /\ page' = "idle"
  /\ timer' = IF ~exists THEN timer ELSE IF Mutable THEN "open" ELSE "late"
  /\ UNCHANGED <<exists, decisions, required, signoff, fileVars, callVars,
                 faults, disturbed>>

PauseTimer ==
  /\ page = "idle" /\ timer # "none"
  /\ timer' = "none"
  /\ UNCHANGED <<exists, decisions, required, signoff, fileVars, page,
                 callVars, faults, disturbed>>

(* delete_runs reads which files to remove, deletes the rows, then removes *)
(* the files named in the rows it had read.                                *)
(* Mutant: only the reports of the run's own row are looked up. *)
DeleteReadRun ==
  /\ page = "idle" /\ exists
  /\ page' = "deleteRows"
  /\ Disturb("deletion", Active # {})
  /\ UNCHANGED <<storeVars, fileVars, callVars, faults>>
DeleteRead ==
  /\ page = "idle" /\ exists
  /\ page' = IF signoff = None THEN "deleteRows" ELSE "deleteAll"
  /\ Disturb("deletion", Active # {})
  /\ UNCHANGED <<storeVars, fileVars, callVars, faults>>

DeleteRows ==
  /\ page \in {"deleteRows", "deleteAll"}
  /\ page' = IF page = "deleteAll" THEN "unlink" ELSE "idle"
  /\ exists' = FALSE /\ decisions' = NoDecisions /\ required' = {}
  /\ signoff' = None /\ timer' = "none"
  /\ UNCHANGED <<fileVars, callVars, faults, disturbed>>

DeleteFiles ==
  /\ page = "unlink"
  /\ page' = "idle"
  /\ final' = NoFiles
  /\ UNCHANGED <<storeVars, inputs, temp, callVars, faults, disturbed>>

(* The deliverable is saved again under its path. *)
InputsChange ==
  /\ inputs = "original"
  /\ inputs' = "changed"
  /\ UNCHANGED <<storeVars, temp, final, page, callVars, faults, disturbed>>
-----------------------------------------------------------------------------
(* finalize_run, for the call f.                                           *)

Go(f, point) == pc' = [pc EXCEPT ![f] = point]

(* The calls in ended are over, and their local variables gone. *)
Forget(ended) ==
  /\ seen' = [f \in Finalizers |-> IF f \in ended THEN NoDecisions ELSE seen[f]]
  /\ accepted' = [f \in Finalizers |->
                    IF f \in ended THEN NothingAccepted ELSE accepted[f]]
  /\ published' = [f \in Finalizers |-> IF f \in ended THEN 0 ELSE published[f]]

(* What a finalization that begins finds going on. *)
Ongoing ==
  (IF Active = {} THEN {} ELSE {"finalization"})
  \cup (IF page \in EditPoints THEN {"edit"} ELSE {})
  \cup (IF page \in {"deleteRows", "deleteAll", "unlink"} THEN {"deletion"} ELSE {})

(* Mutant: a signed run is finalized again. *)
BeginAlways(f) ==
  /\ pc[f] = "idle"
  /\ Go(f, "decisions")
  /\ disturbed' = disturbed \cup Ongoing
  /\ UNCHANGED <<storeVars, fileVars, page, seen, accepted, covers, published,
                 faults>>
Begin(f) ==
  /\ pc[f] = "idle" /\ Mutable
  /\ Go(f, "decisions")
  /\ disturbed' = disturbed \cup Ongoing
  /\ UNCHANGED <<storeVars, fileVars, page, seen, accepted, covers, published,
                 faults>>

(* get_run reads the annotations first, the run's row afterwards. *)
ReadDecisions(f) ==
  /\ pc[f] = "decisions"
  /\ seen' = [seen EXCEPT ![f] = decisions]
  /\ Go(f, "coverage")
  /\ UNCHANGED <<storeVars, fileVars, page, accepted, covers, published,
                 faults, disturbed>>

(* Mutant: findings without a decision are not asked for. *)
ReadyUndecided(decided, needs, acks) == needs \subseteq acks
Ready(decided, needs, acks) ==
  /\ \A d \in Findings : decided[d] # None
  /\ needs \subseteq acks

Assess(f, acks) ==
  /\ pc[f] = "coverage"
  /\ exists /\ Ready(seen[f], required, acks) /\ inputs = "original"
  /\ accepted' = [accepted EXCEPT ![f] = [needs |-> required, acks |-> acks]]
  /\ Go(f, "excel")
  /\ UNCHANGED <<storeVars, fileVars, page, seen, covers, published, faults,
                 disturbed>>

(* Outside the try: nothing has been written, nothing is removed. *)
Refuse(f, acks) ==
  /\ pc[f] = "coverage"
  /\ ~(exists /\ Ready(seen[f], required, acks) /\ inputs = "original")
  /\ Go(f, "refused") /\ Forget({f})
  /\ UNCHANGED <<storeVars, fileVars, page, covers, faults, disturbed>>

WriteReport(f, k, next) ==
  /\ pc[f] = k
  /\ temp' = [temp EXCEPT ![k] = f]
  /\ Go(f, next)
  /\ UNCHANGED <<storeVars, inputs, final, page, seen, accepted, covers,
                 published, faults, disturbed>>
WriteExcel(f) == WriteReport(f, "excel", "html")
WriteHtml(f) == WriteReport(f, "html", "attest")

(* create_attestation reads the two reports, and the inputs once more. *)
Attest(f) ==
  /\ pc[f] = "attest" /\ temp["excel"] # None /\ temp["html"] # None
  /\ covers' = [covers EXCEPT ![f] =
       [excel |-> temp["excel"], html |-> temp["html"], inputs |-> inputs]]
  /\ temp' = [temp EXCEPT !["qca"] = f]
  /\ Go(f, "verify")
  /\ UNCHANGED <<storeVars, inputs, final, page, seen, accepted, published,
                 faults, disturbed>>

Verify(f) ==
  /\ pc[f] = "verify" /\ temp["qca"] # None
  /\ Go(f, "publish")
  /\ UNCHANGED <<storeVars, fileVars, page, seen, accepted, covers, published,
                 faults, disturbed>>

NextFile(f) == Files[published[f] + 1]

(* os.replace puts whatever has the temporary name under the final one. *)
Publish(f) ==
  /\ pc[f] = "publish" /\ temp[NextFile(f)] # None
  /\ final' = [final EXCEPT ![NextFile(f)] = temp[NextFile(f)]]
  /\ temp' = [temp EXCEPT ![NextFile(f)] = None]
  /\ published' = [published EXCEPT ![f] = @ + 1]
  /\ Go(f, IF published[f] + 1 = Len(Files) THEN "record" ELSE "publish")
  /\ UNCHANGED <<storeVars, inputs, page, seen, accepted, covers, faults,
                 disturbed>>

(* Mutant: the row is replaced when there is one. *)
MayInsertAlways == TRUE
MayInsert == signoff = None  \* run_id is the primary key

(* The hash of the published attestation goes into the row.  The INSERT    *)
(* does not look at the row of the run.                                    *)
Record(f) ==
  /\ pc[f] = "record" /\ final["qca"] # None /\ MayInsert
  /\ signoff' = [by |-> f, attestation |-> final["qca"], decisions |-> seen[f],
                 needs |-> accepted[f].needs, acks |-> accepted[f].acks]
  /\ Go(f, "pause")
  /\ Disturb("edit", page \in EditPoints)
  /\ UNCHANGED <<exists, decisions, required, timer, fileVars, page, seen,
                 accepted, covers, published, faults>>

StopTimer(f) ==
  /\ pc[f] = "pause"
  /\ timer' = "none"
  /\ Go(f, "done") /\ Forget({f})
  /\ UNCHANGED <<exists, decisions, required, signoff, fileVars, page, covers,
                 faults, disturbed>>

(* A file that is not there any more, or a row that is there already. *)
Obstructed(f) ==
  \/ pc[f] = "attest" /\ None \in {temp["excel"], temp["html"]}
  \/ pc[f] = "verify" /\ temp["qca"] = None
  \/ pc[f] = "publish" /\ temp[NextFile(f)] = None
  \/ pc[f] = "record" /\ (final["qca"] = None \/ ~MayInsert)

(* An operation inside the try raises. *)
Raise(f) ==
  /\ pc[f] \in InTry
  /\ IF Obstructed(f) THEN UNCHANGED faults
     ELSE faults < MaxFaults /\ faults' = faults + 1
  /\ Go(f, "cleanup")
  /\ UNCHANGED <<storeVars, fileVars, page, seen, accepted, covers, published,
                 disturbed>>

(* Mutant: only the temporary files are removed. *)
RemovedNone(f) == {}
Removed(f) == {Files[i] : i \in 1..published[f]}

Cleanup(f) ==
  /\ pc[f] = "cleanup"
  /\ temp' = NoFiles
  /\ final' = [k \in Kinds |-> IF k \in Removed(f) THEN None ELSE final[k]]
  /\ Go(f, "failed") /\ Forget({f})
  /\ UNCHANGED <<storeVars, inputs, page, covers, faults, disturbed>>

(* The server process dies: its threads and handlers are gone, the store   *)
(* and the files stay.  A call that has not begun is made after restart.   *)
Crash ==
  /\ Active # {} \/ page # "idle"
  /\ pc' = [f \in Finalizers |-> IF f \in Active THEN "dead" ELSE pc[f]]
  /\ page' = "idle"
  /\ Forget(Active)
  /\ disturbed' = disturbed \cup {"deletion"}
  /\ UNCHANGED <<storeVars, fileVars, covers, faults>>
-----------------------------------------------------------------------------
PageStep ==
  \/ \E kind \in EditPoints : BeginEdit(kind)
  \/ \E d \in Findings, v \in Values \cup {None} : SaveDecision(d, v)
  \/ \E codes \in SUBSET Codes : SaveMapping(codes)
  \/ BeginStart \/ StartTimer \/ PauseTimer
  \/ DeleteRead \/ DeleteRows \/ DeleteFiles

Finalize(f) ==
  \/ Begin(f) \/ ReadDecisions(f)
  \/ \E acks \in SUBSET Codes : Assess(f, acks) \/ Refuse(f, acks)
  \/ WriteExcel(f) \/ WriteHtml(f) \/ Attest(f) \/ Verify(f)
  \/ Publish(f) \/ Record(f) \/ StopTimer(f)
  \/ Raise(f) \/ Cleanup(f)

Next == PageStep \/ InputsChange \/ Crash \/ \E f \in Finalizers : Finalize(f)

Spec == Init /\ [][Next]_vars
-----------------------------------------------------------------------------
(* A run is signed off once: whatever finalizations overlap, the row that  *)
(* is there is never replaced; it goes with the run, by delete_runs.       *)
SignedOnce == [][signoff # None => signoff' = signoff \/ ~exists']_vars

(* What the row signs is the review state of the run, and that state is    *)
(* complete: no decision is missing, every acknowledgement its coverage    *)
(* asks for was given.  This holds as long as the run exists, from         *)
(* whatever page, old or new, edits are tried; the exception is an edit    *)
(* that overlapped a finalization (finalize_run, assert_mutable).          *)
ReviewAsSigned ==
  signoff # None /\ exists /\ "edit" \notin disturbed =>
    /\ decisions = signoff.decisions
    /\ required = signoff.needs
    /\ Ready(decisions, required, signoff.acks)

(* Once the row is there, the three files in place are those of the        *)
(* finalization that signed, its attestation holds these two reports, and  *)
(* the hash in the row is that of this attestation: after failed attempts, *)
(* a crash before or after, and for as long as the run exists.  Exceptions *)
(* are a second finalization at the same time, and an exception between    *)
(* the row and the return (finalize_run).                                  *)
PublishedStands ==
  signoff # None /\ exists /\ "finalization" \notin disturbed =>
    LET f == signoff.by IN
    pc[f] \in {"pause", "done", "dead"} =>
      /\ \A k \in Kinds : final[k] = f
      /\ covers[f].excel = f /\ covers[f].html = f
      /\ signoff.attestation = f

(* A finalization that failed has left no file behind, neither its own nor *)
(* one half published (the except clause of finalize_run).                 *)
FailureLeavesNothing ==
  "finalization" \notin disturbed =>
    \A f \in Finalizers : pc[f] = "failed" =>
      f \notin {temp[k] : k \in Kinds} \cup {final[k] : k \in Kinds}

(* A finalization that returned has ended every review session begun       *)
(* before the run was signed, with the page's Start between any two of its *)
(* steps (pause_review_sessions after record_signoff).                     *)
TimerStops == \A f \in Finalizers : pc[f] = "done" => timer # "open"

(* After delete_runs nothing of the sign-off is left, in the store or on   *)
(* disk, unless it overlapped a finalization or the server died meanwhile. *)
DeletedLeavesNothing ==
  ~exists /\ page # "unlink" /\ "deletion" \notin disturbed =>
    signoff = None /\ final = NoFiles
-----------------------------------------------------------------------------
(* What the documentation says, and the code does not keep.                *)

(* "finalized into immutable reports" (README): while the run is signed    *)
(* and no finalization is at work, its reports and attestation are there.  *)
FilesStay ==
  signoff # None /\ exists /\ Active = {} => \A k \in Kinds : final[k] # None
==============================================================================
