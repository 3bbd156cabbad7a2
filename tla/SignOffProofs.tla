---------------------------- MODULE SignOffProofs ----------------------------
(***************************************************************************)
(* What holds of SignOff for every set of findings, values, codes and      *)
(* finalizations and every bound on faults: types, that a run is signed    *)
(* once, that the locked review state is the signed one, and the timer;    *)
(* then the files: what is published stands, a failure leaves nothing, and *)
(* neither does the deletion of the run.                                   *)
(***************************************************************************)
EXTENDS SignOff, TLAPS

Unpublished ==
  {"idle", "decisions", "coverage", "excel", "html", "attest", "verify"}

(* Past the assessment a finalization holds a complete review state, and   *)
(* while it publishes there is a next file.                                *)
Assessed ==
  \A f \in Finalizers :
    /\ pc[f] \in InTry => Ready(seen[f], accepted[f].needs, accepted[f].acks)
    /\ pc[f] \in Unpublished => published[f] = 0
    /\ pc[f] = "publish" => published[f] < Len(Files)

TypeInv == TypeOK /\ Assessed

LEMMA FilesAndKinds ==
  /\ Len(Files) = 3
  /\ Kinds = {"excel", "html", "qca"}
  /\ \A i \in 1..3 : Files[i] \in Kinds
BY DEF Files, Kinds

LEMMA TypeInit == Init => TypeInv
<1> SUFFICES ASSUME Init PROVE TypeInv
  OBVIOUS
<1>1. TypeOK
  BY FilesAndKinds, MaxFaultsIsNat
     DEF Init, TypeOK, NoDecisions, NoFiles, NothingAccepted, Points
<1>2. Assessed
  BY DEF Init, Assessed, InTry, Unpublished
<1>. QED
  BY <1>1, <1>2 DEF TypeInv

(* The pages, the files' owner and the server's death leave the calls      *)
(* alone, or end them.                                                     *)
LEMMA TypePage == TypeInv /\ PageStep => TypeInv'
<1> SUFFICES ASSUME TypeInv, PageStep PROVE TypeInv'
  OBVIOUS
<1> USE DEF TypeInv, TypeOK, storeVars, fileVars, callVars, Disturb
<1>1. ASSUME NEW kind \in EditPoints, BeginEdit(kind) PROVE TypeOK'
  BY <1>1 DEF BeginEdit
<1>2. ASSUME NEW d \in Findings, NEW v \in Values \cup {None},
             SaveDecision(d, v) PROVE TypeOK'
  BY <1>2 DEF SaveDecision
<1>3. ASSUME NEW codes \in SUBSET Codes, SaveMapping(codes) PROVE TypeOK'
  BY <1>3 DEF SaveMapping
<1>4. CASE BeginStart \/ StartTimer \/ PauseTimer
  <2>1. TypeOK'
    BY <1>4 DEF BeginStart, StartTimer, PauseTimer
  <2>2. UNCHANGED callVars
    BY <1>4 DEF BeginStart, StartTimer, PauseTimer
  <2>. QED
    BY <2>1, <2>2 DEF Assessed
<1>5. CASE DeleteRead \/ DeleteRows \/ DeleteFiles
  <2>1. TypeOK'
    BY <1>5 DEF DeleteRead, DeleteRows, DeleteFiles, NoDecisions, NoFiles
  <2>2. UNCHANGED callVars
    BY <1>5 DEF DeleteRead, DeleteRows, DeleteFiles
  <2>. QED
    BY <2>1, <2>2 DEF Assessed
<1>6. ASSUME NEW kind \in EditPoints, BeginEdit(kind) PROVE UNCHANGED callVars
  BY <1>6 DEF BeginEdit
<1>7. ASSUME NEW d \in Findings, NEW v \in Values \cup {None},
             SaveDecision(d, v) PROVE UNCHANGED callVars
  BY <1>7 DEF SaveDecision
<1>8. ASSUME NEW codes \in SUBSET Codes, SaveMapping(codes)
      PROVE UNCHANGED callVars
  BY <1>8 DEF SaveMapping
<1>9. ASSUME UNCHANGED callVars PROVE Assessed'
  BY <1>9 DEF Assessed
<1>. QED
  BY <1>1, <1>2, <1>3, <1>4, <1>5, <1>6, <1>7, <1>8, <1>9 DEF PageStep

LEMMA TypeCrash == TypeInv /\ (Crash \/ InputsChange) => TypeInv'
<1> SUFFICES ASSUME TypeInv, Crash \/ InputsChange PROVE TypeInv'
  OBVIOUS
<1> USE DEF TypeInv, TypeOK, storeVars, fileVars, callVars
<1>1. CASE Crash
  <2>1. TypeOK'
    BY <1>1, FilesAndKinds DEF Crash, Forget, Active, NoDecisions, NothingAccepted, Points
  <2>2. Assessed'
    BY <1>1 DEF Crash, Active, Working, InTry, Assessed, Unpublished, Forget
  <2>. QED
    BY <2>1, <2>2
<1>2. CASE InputsChange
  BY <1>2 DEF InputsChange, Assessed
<1>. QED
  BY <1>1, <1>2

LEMMA TypeFinalize ==
  ASSUME TypeInv, NEW f \in Finalizers, Finalize(f) PROVE TypeInv'
<1> USE FilesAndKinds
    DEF TypeInv, TypeOK, storeVars, fileVars, callVars, Go, Disturb, Points,
        Working, InTry, Unpublished
<1>1. CASE Begin(f)
  <2>1. Ongoing \subseteq {"finalization", "edit", "deletion"}
    BY DEF Ongoing
  <2>2. TypeOK'
    BY <1>1, <2>1 DEF Begin
  <2>3. Assessed'
    BY <1>1 DEF Begin, Assessed
  <2>. QED
    BY <2>2, <2>3
<1>2. CASE ReadDecisions(f)
  <2>1. TypeOK'
    BY <1>2 DEF ReadDecisions
  <2>2. Assessed'
    BY <1>2 DEF ReadDecisions, Assessed
  <2>. QED
    BY <2>1, <2>2
<1>3. ASSUME NEW acks \in SUBSET Codes, Assess(f, acks) PROVE TypeInv'
  <2>1. TypeOK'
    BY <1>3 DEF Assess
  <2>2. Assessed'
    <3> SUFFICES ASSUME NEW g \in Finalizers PROVE Assessed!(g)'
      BY DEF Assessed
    <3>. QED
      BY <1>3 DEF Assess, Assessed
  <2>. QED
    BY <2>1, <2>2
<1>4. ASSUME NEW acks \in SUBSET Codes, Refuse(f, acks) PROVE TypeInv'
  BY <1>4 DEF Refuse, Assessed, Forget, NoDecisions, NothingAccepted
<1>5. CASE WriteExcel(f) \/ WriteHtml(f)
  <2>1. TypeOK'
    <3>1. ASSUME NEW k \in {"excel", "html"}, NEW next \in {"html", "attest"},
                 WriteReport(f, k, next) PROVE TypeOK'
      BY <3>1 DEF WriteReport
    <3>. QED
      BY <1>5, <3>1 DEF WriteExcel, WriteHtml
  <2>2. Assessed'
    BY <1>5 DEF WriteExcel, WriteHtml, WriteReport, Assessed
  <2>. QED
    BY <2>1, <2>2
<1>6. CASE Attest(f)
  <2>1. TypeOK'
    BY <1>6 DEF Attest
  <2>2. Assessed'
    BY <1>6 DEF Attest, Assessed
  <2>. QED
    BY <2>1, <2>2
<1>7. CASE Verify(f)
  <2>1. TypeOK'
    BY <1>7 DEF Verify
  <2>2. Assessed'
    BY <1>7 DEF Verify, Assessed
  <2>. QED
    BY <2>1, <2>2
<1>8. CASE Publish(f)
  <2>1. published[f] \in 0..2 /\ NextFile(f) \in Kinds
    BY <1>8 DEF Publish, Assessed, NextFile
  <2>2. TypeOK'
    BY <1>8, <2>1 DEF Publish
  <2>3. Assessed'
    BY <1>8, <2>1 DEF Publish, Assessed
  <2>. QED
    BY <2>2, <2>3
<1>9. CASE Record(f)
  <2>1. seen[f] \in [Findings -> Values]
    BY <1>9 DEF Record, Assessed, Ready
  <2>2. signoff' \in SignOffRows
    BY <1>9, <2>1 DEF Record, SignOffRows
  <2>3. TypeOK'
    BY <1>9, <2>2 DEF Record
  <2>4. Assessed'
    BY <1>9 DEF Record, Assessed
  <2>. QED
    BY <2>3, <2>4
<1>10. CASE StopTimer(f)
  BY <1>10 DEF StopTimer, Assessed, Forget, NoDecisions, NothingAccepted
<1>11. CASE Raise(f)
  <2>1. faults' \in 0..MaxFaults
    BY <1>11, MaxFaultsIsNat DEF Raise
  <2>2. TypeOK'
    BY <1>11, <2>1 DEF Raise
  <2>3. Assessed'
    BY <1>11 DEF Raise, Assessed
  <2>. QED
    BY <2>2, <2>3
<1>12. CASE Cleanup(f)
  BY <1>12 DEF Cleanup, Assessed, Forget, NoDecisions, NothingAccepted, NoFiles
<1>. QED
  BY <1>1, <1>2, <1>3, <1>4, <1>5, <1>6, <1>7, <1>8, <1>9, <1>10, <1>11, <1>12
     DEF Finalize

LEMMA TypeStep == TypeInv /\ [Next]_vars => TypeInv'
<1> SUFFICES ASSUME TypeInv, [Next]_vars PROVE TypeInv'
  OBVIOUS
<1>1. CASE UNCHANGED vars
  BY <1>1 DEF vars, storeVars, fileVars, callVars, TypeInv, TypeOK, Assessed
<1>. QED
  BY <1>1, TypePage, TypeCrash, TypeFinalize DEF Next

(* Every reachable state is well typed: in particular a sign-off row names *)
(* a decision for every finding (finalize_run, assess_signoff).            *)
THEOREM TypeCorrect == Spec => []TypeOK
<1>1. TypeInv => TypeOK
  BY DEF TypeInv
<1>. QED
  BY TypeInit, TypeStep, <1>1, PTL DEF Spec
-----------------------------------------------------------------------------
(* The row of a run is inserted when there is none, and removed only with  *)
(* the run (record_signoff, delete_runs): SignedOnce.                      *)
LEMMA RowKept ==
  Next => (signoff # None => signoff' = signoff \/ ~exists')
<1> SUFFICES ASSUME Next, signoff # None PROVE signoff' = signoff \/ ~exists'
  OBVIOUS
<1> USE DEF storeVars
<1>1. CASE PageStep
  BY <1>1 DEF PageStep, BeginEdit, SaveDecision, SaveMapping, BeginStart,
              StartTimer, PauseTimer, DeleteRead, DeleteRows, DeleteFiles
<1>2. CASE InputsChange \/ Crash
  BY <1>2 DEF InputsChange, Crash
<1>3. ASSUME NEW f \in Finalizers, Finalize(f) PROVE signoff' = signoff
  BY <1>3 DEF Finalize, Begin, ReadDecisions, Assess, Refuse, WriteExcel,
              WriteHtml, WriteReport, Attest, Verify, Publish, Record,
              MayInsert, StopTimer, Raise, Cleanup
<1>. QED
  BY <1>1, <1>2, <1>3 DEF Next

THEOREM OnceSigned == Spec => SignedOnce
<1>1. [Next]_vars => [signoff # None => signoff' = signoff \/ ~exists']_vars
  BY RowKept
<1>. QED
  BY <1>1, PTL DEF Spec, SignedOnce
-----------------------------------------------------------------------------
(* As long as no edit has overlapped a finalization, what a finalization   *)
(* has read is what the store holds, and no edit is under way on a run     *)
(* that is signed or being finalized.                                      *)
SeenIsCurrent ==
  exists /\ "edit" \notin disturbed =>
    \A f \in Finalizers :
      /\ pc[f] \in {"coverage"} \cup InTry => seen[f] = decisions
      /\ pc[f] \in InTry => accepted[f].needs = required

NoEditLeft ==
  exists /\ "edit" \notin disturbed /\ signoff # None => page \notin EditPoints

ReviewInv == TypeInv /\ SeenIsCurrent /\ NoEditLeft /\ ReviewAsSigned

LEMMA ReviewPage == ReviewInv /\ PageStep => (SeenIsCurrent /\ NoEditLeft /\ ReviewAsSigned)'
<1> SUFFICES ASSUME ReviewInv, PageStep
             PROVE (SeenIsCurrent /\ NoEditLeft /\ ReviewAsSigned)'
  OBVIOUS
<1> USE DEF ReviewInv, SeenIsCurrent, NoEditLeft, ReviewAsSigned, TypeInv,
            TypeOK, storeVars, fileVars, callVars, Disturb, EditPoints
<1> DEFINE Kept == (SeenIsCurrent /\ NoEditLeft /\ ReviewAsSigned)'
<1>1. ASSUME NEW kind \in EditPoints, BeginEdit(kind) PROVE Kept
  BY <1>1 DEF BeginEdit, Mutable
<1>2. ASSUME NEW d \in Findings, NEW v \in Values \cup {None},
             SaveDecision(d, v) PROVE Kept
  BY <1>2 DEF SaveDecision, Active, Working
<1>3. ASSUME NEW codes \in SUBSET Codes, SaveMapping(codes) PROVE Kept
  BY <1>3 DEF SaveMapping, Active, Working
<1>4. CASE BeginStart \/ StartTimer \/ PauseTimer
  BY <1>4 DEF BeginStart, StartTimer, PauseTimer
<1>5. CASE DeleteRead
  BY <1>5 DEF DeleteRead
<1>6. CASE DeleteRows
  BY <1>6 DEF DeleteRows
<1>7. CASE DeleteFiles
  BY <1>7 DEF DeleteFiles
<1>. QED
  BY <1>1, <1>2, <1>3, <1>4, <1>5, <1>6, <1>7 DEF PageStep

LEMMA ReviewFinalize ==
  ASSUME ReviewInv, NEW f \in Finalizers, Finalize(f)
  PROVE  (SeenIsCurrent /\ NoEditLeft /\ ReviewAsSigned)'
<1> USE DEF ReviewInv, SeenIsCurrent, NoEditLeft, ReviewAsSigned, TypeInv,
            TypeOK, storeVars, fileVars, callVars, Disturb, EditPoints, Go,
            InTry, Working, Points
<1> DEFINE Kept == (SeenIsCurrent /\ NoEditLeft /\ ReviewAsSigned)'
<1>1. CASE Begin(f)
  BY <1>1 DEF Begin, Ongoing
<1>2. CASE ReadDecisions(f)
  BY <1>2 DEF ReadDecisions
<1>3. ASSUME NEW acks \in SUBSET Codes, Assess(f, acks) PROVE Kept
  BY <1>3 DEF Assess
<1>4. ASSUME NEW acks \in SUBSET Codes, Refuse(f, acks) PROVE Kept
  BY <1>4 DEF Refuse, Forget
<1>5. CASE WriteExcel(f)
  BY <1>5 DEF WriteExcel, WriteReport
<1>6. CASE WriteHtml(f)
  BY <1>6 DEF WriteHtml, WriteReport
<1>7. CASE Attest(f) \/ Verify(f) \/ Publish(f)
  BY <1>7 DEF Attest, Verify, Publish
<1>8. CASE Record(f)
  <2>1. Ready(seen[f], accepted[f].needs, accepted[f].acks)
    BY <1>8 DEF Record, Assessed
  <2>. QED
    BY <1>8, <2>1 DEF Record
<1>9. CASE StopTimer(f)
  BY <1>9 DEF StopTimer, Forget
<1>10. CASE Raise(f)
  BY <1>10 DEF Raise
<1>11. CASE Cleanup(f)
  BY <1>11 DEF Cleanup, Forget
<1>. QED
  BY <1>1, <1>2, <1>3, <1>4, <1>5, <1>6, <1>7, <1>8, <1>9, <1>10, <1>11
     DEF Finalize

LEMMA ReviewElsewhere ==
  ReviewInv /\ (Crash \/ InputsChange \/ UNCHANGED vars)
    => (SeenIsCurrent /\ NoEditLeft /\ ReviewAsSigned)'
<1> SUFFICES ASSUME ReviewInv, Crash \/ InputsChange \/ UNCHANGED vars
             PROVE (SeenIsCurrent /\ NoEditLeft /\ ReviewAsSigned)'
  OBVIOUS
<1> USE DEF ReviewInv, SeenIsCurrent, NoEditLeft, ReviewAsSigned, storeVars,
            fileVars, callVars, EditPoints
<1>1. CASE Crash
  BY <1>1 DEF Crash, Forget, Active, Working, InTry, TypeInv, TypeOK
<1>2. CASE InputsChange \/ UNCHANGED vars
  BY <1>2 DEF InputsChange, vars
<1>. QED
  BY <1>1, <1>2

(* The signed review state is the locked one, and complete, unless an edit *)
(* overlapped a finalization (finalize_run against set_annotations_bulk    *)
(* and update_mapping_review).                                             *)
THEOREM ReviewHolds == Spec => []ReviewAsSigned
<1>1. Init => ReviewInv
  <2>1. Init => SeenIsCurrent /\ NoEditLeft /\ ReviewAsSigned
    BY DEF Init, SeenIsCurrent, NoEditLeft, ReviewAsSigned, InTry
  <2>. QED
    BY <2>1, TypeInit DEF ReviewInv
<1>2. ReviewInv /\ [Next]_vars => ReviewInv'
  <2> SUFFICES ASSUME ReviewInv, [Next]_vars PROVE ReviewInv'
    OBVIOUS
  <2>1. TypeInv'
    BY TypeStep DEF ReviewInv
  <2>2. (SeenIsCurrent /\ NoEditLeft /\ ReviewAsSigned)'
    BY ReviewPage, ReviewFinalize, ReviewElsewhere DEF Next
  <2>. QED
    BY <2>1, <2>2 DEF ReviewInv
<1>3. ReviewInv => ReviewAsSigned
  BY DEF ReviewInv
<1>. QED
  BY <1>1, <1>2, <1>3, PTL DEF Spec
-----------------------------------------------------------------------------
(* A finalization past its INSERT has left a row, as long as the run is    *)
(* there; a session begun then is late.                                    *)
TimerInv ==
  /\ TypeInv
  /\ \A f \in Finalizers :
       pc[f] \in {"pause", "done"} => signoff # None \/ ~exists
  /\ TimerStops

LEMMA TimerStep == TimerInv /\ [Next]_vars => TimerInv'
<1> SUFFICES ASSUME TimerInv, [Next]_vars PROVE TimerInv'
  OBVIOUS
<1>0. TypeInv'
  BY TypeStep DEF TimerInv
<1> USE DEF TimerInv, TimerStops, storeVars, fileVars, callVars
<1>1. CASE PageStep
  <2>1. UNCHANGED pc
    BY <1>1 DEF PageStep, BeginEdit, SaveDecision, SaveMapping, BeginStart,
                StartTimer, PauseTimer, DeleteRead, DeleteRows, DeleteFiles
  <2>2. signoff' # None \/ ~exists' \/ (signoff = None /\ exists)
    BY <1>1 DEF PageStep, BeginEdit, SaveDecision, SaveMapping, BeginStart,
                StartTimer, PauseTimer, DeleteRead, DeleteRows, DeleteFiles
  <2>3. \/ timer' \in {timer, "none", "late"}
        \/ exists /\ signoff = None
    BY <1>1 DEF PageStep, BeginEdit, SaveDecision, SaveMapping, BeginStart,
                StartTimer, PauseTimer, DeleteRead, DeleteRows, DeleteFiles,
                Mutable
  <2>. QED
    BY <1>0, <2>1, <2>2, <2>3
<1>2. CASE Crash
  BY <1>0, <1>2 DEF Crash
<1>3. CASE InputsChange \/ UNCHANGED vars
  BY <1>0, <1>3 DEF InputsChange, vars
<1>4. ASSUME NEW f \in Finalizers, Finalize(f) PROVE TimerInv'
  <2> USE <1>0 DEF Go, TypeInv, TypeOK
  <2>1. CASE Record(f)
    <3>1. signoff' # None
      <4>1. seen[f] \in [Findings -> Values]
        BY <2>1 DEF Record, Assessed, Ready, InTry
      <4>2. final["qca"] \in Finalizers
        BY <2>1, FilesAndKinds DEF Record
      <4>3. signoff' \in SignOffRows
        BY <2>1, <4>1, <4>2 DEF Record, SignOffRows
      <4>. QED
        BY <4>3, NoneIsNothing
    <3>. QED
      BY <1>0, <2>1, <3>1 DEF Record
  <2>2. CASE StopTimer(f)
    BY <2>2 DEF StopTimer
  <2>3. CASE Begin(f) \/ ReadDecisions(f) \/ Attest(f) \/ Verify(f)
    BY <2>3 DEF Begin, ReadDecisions, Attest, Verify
  <2>4. ASSUME NEW acks \in SUBSET Codes, Assess(f, acks) \/ Refuse(f, acks)
        PROVE TimerInv'
    BY <2>4 DEF Assess, Refuse
  <2>5. CASE WriteExcel(f) \/ WriteHtml(f)
    BY <2>5 DEF WriteExcel, WriteHtml, WriteReport
  <2>6. CASE Publish(f)
    BY <2>6 DEF Publish
  <2>7. CASE Raise(f) \/ Cleanup(f)
    BY <2>7 DEF Raise, Cleanup
  <2>. QED
    BY <1>4, <2>1, <2>2, <2>3, <2>4, <2>5, <2>6, <2>7 DEF Finalize
<1>. QED
  BY <1>1, <1>2, <1>3, <1>4 DEF Next

(* No review session begun before the sign-off survives the return of the  *)
(* finalization (pause_review_sessions after record_signoff).              *)
THEOREM TimerHolds == Spec => []TimerStops
<1>1. Init => TimerInv
  BY TypeInit DEF Init, TimerInv, TimerStops
<1>2. TimerInv => TimerStops
  BY DEF TimerInv
<1>. QED
  BY <1>1, <1>2, TimerStep, PTL DEF Spec
-----------------------------------------------------------------------------
(* The files, as long as finalizations do not overlap: at most one is at   *)
(* work, the temporary files it has written are its own, the final ones it *)
(* has put in place are its own while the run exists, and a file of a      *)
(* finalization is one its except clause will remove.                      *)
Alone == "finalization" \notin disturbed

OneAtWork == \A f, g \in Active : f = g

Attested(f) == covers[f].excel = f /\ covers[f].html = f

TempsAreOwn ==
  \A f \in Finalizers :
    /\ pc[f] \in {"html", "attest", "verify"} => temp["excel"] = f
    /\ pc[f] \in {"attest", "verify"} => temp["html"] = f
    /\ pc[f] = "verify" => temp["qca"] = f
    /\ pc[f] = "publish" => \A k \in Kinds \ Removed(f) : temp[k] = f
    /\ pc[f] \in {"verify", "publish", "record", "pause"} => Attested(f)

FinalsAreOwn ==
  exists =>
    \A f \in Finalizers :
      /\ pc[f] = "publish" => \A k \in Removed(f) : final[k] = f
      /\ pc[f] \in {"record", "pause"} => \A k \in Kinds : final[k] = f

WillBeRemoved ==
  \A f \in Finalizers, k \in Kinds :
    /\ temp[k] = f => pc[f] \in InTry \cup {"cleanup", "done", "dead"}
    /\ final[k] = f =>
         \/ pc[f] \in {"done", "dead"}
         \/ pc[f] \in {"publish", "record", "pause", "cleanup"} /\ k \in Removed(f)

AllPublished ==
  \A f \in Finalizers : pc[f] \in {"record", "pause"} => published[f] = Len(Files)

UnlinkIsLast == page = "unlink" => ~exists

SignedAtRest ==
  exists /\ signoff # None =>
    \A f \in Active : f = signoff.by /\ pc[f] \in {"pause", "cleanup"}

(* PublishedStands, and the same until the except clause has run. *)
SignedStands ==
  exists /\ signoff # None
    /\ pc[signoff.by] \in {"pause", "cleanup", "done", "dead"} =>
      /\ \A k \in Kinds : final[k] = signoff.by
      /\ Attested(signoff.by)
      /\ signoff.attestation = signoff.by

FileInv ==
  /\ TypeInv /\ UnlinkIsLast /\ AllPublished
  /\ Alone => /\ OneAtWork /\ TempsAreOwn /\ FinalsAreOwn /\ WillBeRemoved
              /\ SignedAtRest /\ SignedStands
-----------------------------------------------------------------------------
LEMMA RemovedSoFar ==
  ASSUME NEW f \in Finalizers, published[f] \in 0..3
  PROVE  /\ Removed(f) \subseteq Kinds
         /\ published[f] = 0 => Removed(f) = {}
         /\ published[f] = 3 => Removed(f) = Kinds
         /\ published[f] < 3 => NextFile(f) \in Kinds \ Removed(f)
BY DEF Removed, NextFile, Files, Kinds

LEMMA FileInit == Init => FileInv
<1> SUFFICES ASSUME Init PROVE FileInv
  OBVIOUS
<1> USE TypeInit, NoneIsNothing, FilesAndKinds
<1>1. UnlinkIsLast /\ AllPublished
  BY DEF Init, UnlinkIsLast, AllPublished
<1>2. OneAtWork /\ TempsAreOwn /\ FinalsAreOwn
  BY DEF Init, OneAtWork, TempsAreOwn, FinalsAreOwn, Active, Working, InTry
<1>3. WillBeRemoved /\ SignedAtRest /\ SignedStands
  BY DEF Init, WillBeRemoved, SignedAtRest, SignedStands, NoFiles
<1>. QED
  BY <1>1, <1>2, <1>3 DEF FileInv

(* What a page may do to what FileInv speaks of. *)
LEMMA PageFrame ==
  ASSUME PageStep, UnlinkIsLast
  PROVE  /\ UNCHANGED <<callVars, temp>>
         /\ exists' => exists /\ final' = final
         /\ final' = final \/ final' = NoFiles
         /\ signoff' \in {signoff, None}
         /\ Alone' => Alone
         /\ UnlinkIsLast'
<1> USE DEF UnlinkIsLast, Alone, Disturb, storeVars, fileVars, callVars, EditPoints
<1>1. CASE \E kind \in EditPoints : BeginEdit(kind)
  BY <1>1 DEF BeginEdit
<1>2. CASE \E d \in Findings, v \in Values \cup {None} : SaveDecision(d, v)
  BY <1>2 DEF SaveDecision
<1>3. CASE \E codes \in SUBSET Codes : SaveMapping(codes)
  BY <1>3 DEF SaveMapping
<1>4. CASE BeginStart \/ StartTimer \/ PauseTimer
  BY <1>4 DEF BeginStart, StartTimer, PauseTimer
<1>5. CASE DeleteRead
  BY <1>5 DEF DeleteRead
<1>6. CASE DeleteRows
  BY <1>6 DEF DeleteRows
<1>7. CASE DeleteFiles
  BY <1>7 DEF DeleteFiles
<1>. QED
  BY <1>1, <1>2, <1>3, <1>4, <1>5, <1>6, <1>7 DEF PageStep

LEMMA FilePage == FileInv /\ PageStep => FileInv'
<1> SUFFICES ASSUME FileInv, PageStep PROVE FileInv'
  OBVIOUS
<1>0. TypeInv' /\ UnlinkIsLast'
  BY TypePage, PageFrame DEF FileInv
<1>1. /\ UNCHANGED <<pc, seen, accepted, covers, published, temp>>
      /\ exists' => exists /\ final' = final
      /\ final' = final \/ final' = NoFiles
      /\ signoff' \in {signoff, None}
      /\ Alone' => Alone
  BY PageFrame DEF FileInv, callVars
<1>2. AllPublished'
  BY <1>1 DEF FileInv, AllPublished
<1> SUFFICES ASSUME Alone'
             PROVE (/\ OneAtWork /\ TempsAreOwn /\ FinalsAreOwn
                    /\ WillBeRemoved /\ SignedAtRest /\ SignedStands)'
  BY <1>0, <1>2 DEF FileInv
<1>3. /\ OneAtWork /\ TempsAreOwn /\ FinalsAreOwn
      /\ WillBeRemoved /\ SignedAtRest /\ SignedStands
  BY <1>1 DEF FileInv
<1>4. OneAtWork'
  BY <1>1, <1>3 DEF OneAtWork, Active
<1>5. TempsAreOwn'
  BY <1>1, <1>3 DEF TempsAreOwn, Attested, Removed
<1>6. FinalsAreOwn'
  BY <1>1, <1>3 DEF FinalsAreOwn, Removed
<1>7. WillBeRemoved'
  <2>1. ASSUME NEW f \in Finalizers, NEW k \in Kinds, final'[k] = f
        PROVE final[k] = f
    BY <1>1, <2>1, NoneIsNothing DEF NoFiles
  <2>. QED
    BY <1>1, <1>3, <2>1 DEF WillBeRemoved, Removed
<1>8. SignedAtRest'
  BY <1>1, <1>3 DEF SignedAtRest, Active
<1>9. SignedStands'
  BY <1>1, <1>3 DEF SignedStands, Attested
<1>. QED
  BY <1>4, <1>5, <1>6, <1>7, <1>8, <1>9

LEMMA FileElsewhere ==
  FileInv /\ (Crash \/ InputsChange \/ UNCHANGED vars) => FileInv'
<1> SUFFICES ASSUME FileInv, Crash \/ InputsChange \/ UNCHANGED vars
             PROVE FileInv'
  OBVIOUS
<1>0. TypeInv'
  BY TypeStep DEF FileInv, Next
<1>1. CASE Crash
  <2> USE DEF storeVars, fileVars
  <2>1. /\ UNCHANGED <<exists, signoff, temp, final, covers>>
        /\ \A f \in Finalizers : pc'[f] = IF f \in Active THEN "dead" ELSE pc[f]
        /\ Active' = {}
        /\ Alone' => Alone
        /\ page' = "idle"
    BY <1>1 DEF Crash, Alone, Active, Working, InTry
  <2>2. \A f \in Finalizers : pc'[f] \notin Working
    BY <2>1 DEF Active
  <2>3. (UnlinkIsLast /\ AllPublished /\ OneAtWork /\ TempsAreOwn /\ FinalsAreOwn)'
    BY <2>1, <2>2 DEF UnlinkIsLast, AllPublished, OneAtWork, TempsAreOwn,
                      FinalsAreOwn, Working, InTry
  <2>4. Alone' => WillBeRemoved'
    BY <2>1, <2>2 DEF FileInv, WillBeRemoved, Active, Working, InTry
  <2>5. Alone' => (SignedAtRest /\ SignedStands)'
    <3>1. SignedAtRest'
      BY <2>1 DEF SignedAtRest
    <3>2. ASSUME Alone', signoff # None, exists,
                 pc'[signoff.by] \in {"pause", "cleanup", "done", "dead"}
          PROVE pc[signoff.by] \in {"pause", "cleanup", "done", "dead"}
      <4>1. signoff.by \in Finalizers
        BY <3>2 DEF FileInv, TypeInv, TypeOK, SignOffRows
      <4>2. CASE signoff.by \in Active
        BY <2>1, <3>2, <4>1, <4>2
           DEF FileInv, SignedAtRest
      <4>. QED
        BY <2>1, <3>2, <4>1, <4>2
    <3>. QED
      BY <2>1, <3>1, <3>2 DEF FileInv, SignedStands, Attested
  <2>. QED
    BY <1>0, <2>3, <2>4, <2>5 DEF FileInv
<1>2. CASE InputsChange \/ UNCHANGED vars
  <2>1. UNCHANGED <<exists, signoff, temp, final, page, disturbed>>
    BY <1>2 DEF InputsChange, vars, storeVars, fileVars
  <2>2. UNCHANGED <<pc, covers, published>>
    BY <1>2 DEF InputsChange, vars, callVars
  <2>. QED
    BY <1>0, <2>1, <2>2
       DEF FileInv, UnlinkIsLast, AllPublished, Alone, OneAtWork, TempsAreOwn,
           Attested, FinalsAreOwn, WillBeRemoved, SignedAtRest, SignedStands,
           Active, Removed
<1>. QED
  BY <1>1, <1>2

FileParts ==
  /\ OneAtWork /\ TempsAreOwn /\ FinalsAreOwn /\ WillBeRemoved
  /\ SignedAtRest /\ SignedStands

(* The other calls, while f alone is at work. *)
LEMMA OthersRest ==
  ASSUME FileInv, Alone, NEW f \in Active, NEW g \in Finalizers, g # f
  PROVE  pc[g] \notin Working
BY DEF FileInv, OneAtWork, Active

LEMMA FileBegin ==
  ASSUME FileInv, NEW f \in Finalizers, Begin(f), Alone'
  PROVE  FileParts'
<1> USE DEF FileInv, TypeInv, TypeOK, storeVars, fileVars, Working, InTry
<1>1. Alone /\ Active = {} /\ signoff = None
  BY DEF Begin, Alone, Ongoing, Mutable
<1>2. /\ UNCHANGED <<exists, signoff, temp, final, covers, published>>
      /\ pc[f] = "idle" /\ pc' = [pc EXCEPT ![f] = "decisions"]
  BY DEF Begin, Go
<1>3. OneAtWork'
  BY <1>1, <1>2 DEF OneAtWork, Active
<1>4. (TempsAreOwn /\ FinalsAreOwn)'
  BY <1>1, <1>2 DEF TempsAreOwn, FinalsAreOwn, Attested, Removed
<1>5. WillBeRemoved'
  BY <1>1, <1>2 DEF WillBeRemoved, Removed
<1>6. (SignedAtRest /\ SignedStands)'
  BY <1>1, <1>2 DEF SignedAtRest, SignedStands
<1>. QED
  BY <1>3, <1>4, <1>5, <1>6 DEF FileParts

(* f moves on without touching a file or the row. *)
LEMMA FileMoves ==
  ASSUME FileInv, Alone, NEW f \in Active, NEW point \in Points,
         Go(f, point), UNCHANGED <<exists, signoff, temp, final, covers>>,
         \/ published' = published
            /\ \/ pc[f] = "decisions" /\ point = "coverage"
               \/ pc[f] = "coverage" /\ point = "excel"
               \/ pc[f] = "verify" /\ point = "publish"
               \/ pc[f] \in InTry /\ point = "cleanup"
         \/ /\ \A g \in Finalizers : g # f => published'[g] = published[g]
            /\ \/ pc[f] = "coverage" /\ point = "refused"
               \/ pc[f] = "pause" /\ point = "done"
  PROVE  FileParts'
<1> USE OthersRest DEF FileInv, TypeInv, TypeOK, Go, Working, InTry
<1>0. f \in Finalizers /\ pc[f] \in Working /\ pc' = [pc EXCEPT ![f] = point]
  BY DEF Active
<1>1. Active' \subseteq {f}
  BY <1>0 DEF Active
<1>2. OneAtWork'
  BY <1>1 DEF OneAtWork
<1>3. TempsAreOwn'
  <2>1. pc[f] = "verify" => \A k \in Kinds : temp[k] = f
    BY <1>0, FilesAndKinds DEF TempsAreOwn
  <2>. QED
    BY <1>0, <2>1, RemovedSoFar DEF TempsAreOwn, Attested, Removed
<1>4. FinalsAreOwn'
  <2>1. CASE pc[f] = "verify" /\ published' = published
    <3>1. Removed(f) = {} /\ Removed(f)' = Removed(f)
      BY <1>0, <2>1, RemovedSoFar DEF Assessed, Unpublished, Removed
    <3>. QED
      BY <1>0, <2>1, <3>1 DEF FinalsAreOwn
  <2>2. CASE point \notin {"publish", "record", "pause"}
    BY <1>0, <2>2 DEF FinalsAreOwn
  <2>. QED
    BY <1>0, <2>1, <2>2
<1>5. WillBeRemoved'
  BY <1>0 DEF WillBeRemoved, Removed
<1>6. SignedAtRest'
  <2> SUFFICES ASSUME exists, signoff # None, NEW g \in Active'
               PROVE  g = signoff.by /\ pc'[g] \in {"pause", "cleanup"}
    BY DEF SignedAtRest
  <2>1. f = signoff.by /\ pc[f] \in {"pause", "cleanup"}
    BY DEF SignedAtRest
  <2>2. g = f /\ pc'[f] \in Working /\ pc'[f] = point
    BY <1>0, <1>1 DEF Active
  <2>. QED
    BY <2>1, <2>2
<1>7. SignedStands'
  BY <1>0 DEF SignedStands, SignedAtRest, Attested, SignOffRows
<1>. QED
  BY <1>2, <1>3, <1>4, <1>5, <1>6, <1>7 DEF FileParts

(* A finalization that has not recorded yet works on a run with no row. *)
LEMMA NotSigned ==
  ASSUME FileInv, Alone, NEW f \in Active, pc[f] \notin {"pause", "cleanup"}
  PROVE  ~exists \/ signoff = None
BY DEF FileInv, SignedAtRest

(* f writes a temporary file, or the attestation of the two it reads. *)
LEMMA FileWrites ==
  ASSUME FileInv, Alone, NEW f \in Active,
         WriteExcel(f) \/ WriteHtml(f) \/ Attest(f)
  PROVE  FileParts'
<1> USE OthersRest, FilesAndKinds DEF FileInv, TypeInv, TypeOK, Working, InTry, Points
<1>0. /\ f \in Finalizers
      /\ UNCHANGED <<exists, signoff, final, published>>
      /\ \E k \in Kinds : temp' = [temp EXCEPT ![k] = f]
      /\ \E next \in {"html", "attest", "verify"} :
           pc' = [pc EXCEPT ![f] = next]
      /\ pc[f] \in {"excel", "html", "attest"}
  BY DEF Active, WriteExcel, WriteHtml, WriteReport, Attest, Go, storeVars
<1>1. Active' \subseteq {f}
  BY <1>0 DEF Active
<1>2. OneAtWork'
  BY <1>1 DEF OneAtWork
<1>3. TempsAreOwn'
  <2>1. CASE WriteExcel(f)
    BY <1>0, <2>1 DEF TempsAreOwn, WriteExcel, WriteReport, Go, Attested, Removed
  <2>2. CASE WriteHtml(f)
    BY <1>0, <2>2 DEF TempsAreOwn, WriteHtml, WriteReport, Go, Attested, Removed
  <2>3. CASE Attest(f)
    <3>1. temp["excel"] = f /\ temp["html"] = f
      BY <1>0, <2>3 DEF TempsAreOwn, Attest
    <3>2. /\ pc' = [pc EXCEPT ![f] = "verify"]
          /\ temp' = [temp EXCEPT !["qca"] = f]
          /\ covers' = [covers EXCEPT ![f] =
               [excel |-> f, html |-> f, inputs |-> inputs]]
      BY <2>3, <3>1 DEF Attest, Go
    <3>. QED
      BY <1>0, <3>1, <3>2 DEF TempsAreOwn, Attested, Removed
  <2>. QED
    BY <2>1, <2>2, <2>3
<1>4. FinalsAreOwn'
  <2> SUFFICES ASSUME NEW g \in Finalizers, pc'[g] \in {"publish", "record", "pause"}
               PROVE  FALSE
    BY DEF FinalsAreOwn
  <2>1. g # f
    BY <1>0
  <2>2. pc[g] = pc'[g]
    BY <1>0, <2>1
  <2>. QED
    BY <2>1, <2>2
<1>5. WillBeRemoved'
  <2> SUFFICES ASSUME NEW g \in Finalizers, NEW k \in Kinds
               PROVE  WillBeRemoved!(g, k)'
    BY DEF WillBeRemoved
  <2>1. CASE g = f
    BY <1>0, <2>1 DEF WillBeRemoved, Removed
  <2>2. CASE g # f
    <3>1. pc'[g] = pc[g] /\ Removed(g)' = Removed(g)
      BY <1>0, <2>2 DEF Removed
    <3>2. temp'[k] = g => temp[k] = g
      BY <1>0, <2>2
    <3>. QED
      BY <1>0, <3>1, <3>2 DEF WillBeRemoved
  <2>. QED
    BY <2>1, <2>2
<1>6. (SignedAtRest /\ SignedStands)'
  BY <1>0, NotSigned DEF SignedAtRest, SignedStands
<1>. QED
  BY <1>2, <1>3, <1>4, <1>5, <1>6 DEF FileParts

LEMMA FilePublish ==
  ASSUME FileInv, Alone, NEW f \in Active, Publish(f)
  PROVE  FileParts' /\ AllPublished'
<1> USE OthersRest, FilesAndKinds DEF FileInv, TypeInv, TypeOK, Working, InTry, Points
<1> DEFINE k == NextFile(f)
           next == IF published[f] + 1 = 3 THEN "record" ELSE "publish"
<1>0. /\ f \in Finalizers /\ pc[f] = "publish" /\ temp[k] # None
      /\ final' = [final EXCEPT ![k] = temp[k]]
      /\ temp' = [temp EXCEPT ![k] = None]
      /\ published' = [published EXCEPT ![f] = @ + 1]
      /\ pc' = [pc EXCEPT ![f] = next]
      /\ UNCHANGED <<exists, signoff, covers>>
  BY DEF Publish, Go, Active, storeVars
<1>1. published[f] \in 0..2
  BY <1>0 DEF Assessed
<1>2. k \in Kinds \ Removed(f) /\ temp[k] = f
  BY <1>0, <1>1, RemovedSoFar DEF TempsAreOwn
<1>3. /\ published'[f] = published[f] + 1
      /\ Removed(f)' = Removed(f) \cup {k}
      /\ \A g \in Finalizers : g # f => Removed(g)' = Removed(g)
      /\ published'[f] = 3 => Removed(f)' = Kinds
  <2>1. published'[f] = published[f] + 1
    BY <1>0, <1>1
  <2>2. Removed(f)' = Removed(f) \cup {k}
    BY <1>1, <2>1 DEF Removed, NextFile
  <2>3. \A g \in Finalizers : g # f => Removed(g)' = Removed(g)
    BY <1>0 DEF Removed
  <2>4. published'[f] = 3 => Removed(f)' = Kinds
    BY DEF Removed, Files, Kinds
  <2>. QED
    BY <2>1, <2>2, <2>3, <2>4
<1> HIDE DEF k
<1>4. AllPublished'
  BY <1>0, <1>1, <1>3 DEF AllPublished
<1>5. Active' \subseteq {f}
  BY <1>0 DEF Active
<1>6. OneAtWork'
  BY <1>5 DEF OneAtWork
<1>7. TempsAreOwn'
  BY <1>0, <1>2, <1>3 DEF TempsAreOwn, Attested
<1>8. FinalsAreOwn'
  <2> SUFFICES ASSUME exists, NEW g \in Finalizers
               PROVE (/\ pc[g] = "publish" => \A j \in Removed(g) : final[j] = g
                      /\ pc[g] \in {"record", "pause"} => \A j \in Kinds : final[j] = g)'
    BY <1>0 DEF FinalsAreOwn
  <2>1. CASE g = f
    <3>1. \A j \in Removed(f)' : final'[j] = f
      BY <1>0, <1>2, <1>3 DEF FinalsAreOwn
    <3>. QED
      BY <1>0, <1>1, <1>3, <2>1, <3>1
  <2>2. CASE g # f
    BY <1>0, <2>2
  <2>. QED
    BY <2>1, <2>2
<1>9. WillBeRemoved'
  <2> SUFFICES ASSUME NEW g \in Finalizers, NEW j \in Kinds
               PROVE  WillBeRemoved!(g, j)'
    BY DEF WillBeRemoved
  <2>1. CASE g = f
    BY <1>0, <1>2, <1>3, <2>1, NoneIsNothing DEF WillBeRemoved
  <2>2. CASE g # f
    BY <1>0, <1>2, <1>3, <2>2, NoneIsNothing DEF WillBeRemoved
  <2>. QED
    BY <2>1, <2>2
<1>10. (SignedAtRest /\ SignedStands)'
  BY <1>0, NotSigned DEF SignedAtRest, SignedStands
<1>. QED
  BY <1>4, <1>6, <1>7, <1>8, <1>9, <1>10 DEF FileParts

LEMMA FileRecord ==
  ASSUME FileInv, Alone, NEW f \in Active, Record(f)
  PROVE  FileParts'
<1> USE OthersRest, FilesAndKinds DEF FileInv, TypeInv, TypeOK, Working, InTry, Points
<1>0. /\ f \in Finalizers /\ pc[f] = "record"
      /\ signoff'.by = f /\ signoff'.attestation = final["qca"]
      /\ pc' = [pc EXCEPT ![f] = "pause"]
      /\ UNCHANGED <<exists, temp, final, published, covers>>
  BY DEF Record, Go, Active, fileVars
<1>1. Active' \subseteq {f}
  BY <1>0 DEF Active
<1>2. (OneAtWork /\ SignedAtRest)'
  BY <1>0, <1>1 DEF OneAtWork, SignedAtRest
<1>3. TempsAreOwn'
  BY <1>0 DEF TempsAreOwn, Attested, Removed
<1>4. FinalsAreOwn'
  BY <1>0 DEF FinalsAreOwn, Removed
<1>5. WillBeRemoved'
  BY <1>0 DEF WillBeRemoved, Removed
<1>6. SignedStands'
  BY <1>0 DEF SignedStands, FinalsAreOwn, TempsAreOwn, Attested
<1>. QED
  BY <1>2, <1>3, <1>4, <1>5, <1>6 DEF FileParts

LEMMA FileCleanup ==
  ASSUME FileInv, Alone, NEW f \in Active, Cleanup(f)
  PROVE  FileParts'
<1> USE OthersRest, FilesAndKinds DEF FileInv, TypeInv, TypeOK, Working, InTry, Points
<1>0. /\ f \in Finalizers /\ pc[f] = "cleanup"
      /\ pc' = [pc EXCEPT ![f] = "failed"]
      /\ temp' = NoFiles
      /\ final' = [k \in Kinds |-> IF k \in Removed(f) THEN None ELSE final[k]]
      /\ \A g \in Finalizers : g # f => published'[g] = published[g]
      /\ UNCHANGED <<exists, signoff, covers>>
  BY DEF Cleanup, Go, Active, storeVars, Forget
<1>1. Active' = {}
  BY <1>0 DEF Active
<1>2. (OneAtWork /\ SignedAtRest)'
  BY <1>1 DEF OneAtWork, SignedAtRest
<1>3. (TempsAreOwn /\ FinalsAreOwn)'
  BY <1>0 DEF TempsAreOwn, FinalsAreOwn
<1>4. WillBeRemoved'
  <2>1. \A g \in Finalizers, k \in Kinds : temp'[k] # g
    BY <1>0, NoneIsNothing DEF NoFiles
  <2>2. \A k \in Kinds : final'[k] # f
    BY <1>0, NoneIsNothing DEF WillBeRemoved
  <2>3. \A g \in Finalizers, k \in Kinds : g # f /\ final'[k] = g => final[k] = g
    BY <1>0, NoneIsNothing
  <2>. QED
    BY <1>0, <2>1, <2>2, <2>3 DEF WillBeRemoved
<1>5. SignedStands'
  BY <1>0 DEF SignedStands, SignedAtRest
<1>. QED
  BY <1>2, <1>3, <1>4, <1>5 DEF FileParts

LEMMA FileStep == FileInv /\ [Next]_vars => FileInv'
<1> SUFFICES ASSUME FileInv, [Next]_vars PROVE FileInv'
  OBVIOUS
<1>1. ASSUME NEW f \in Finalizers, Finalize(f) PROVE FileInv'
  <2> USE DEF storeVars, fileVars, Go, Disturb
  <2>0. TypeInv'
    BY <1>1, TypeFinalize DEF FileInv
  <2>1. UnlinkIsLast' /\ (Alone' => Alone)
    <3>1. UNCHANGED <<exists, page>>
      BY <1>1 DEF Finalize, Begin, ReadDecisions, Assess, Refuse, WriteExcel,
                  WriteHtml, WriteReport, Attest, Verify, Publish, Record,
                  StopTimer, Raise, Cleanup
    <3>2. disturbed \subseteq disturbed'
      BY <1>1 DEF Finalize, Begin, ReadDecisions, Assess, Refuse, WriteExcel,
                  WriteHtml, WriteReport, Attest, Verify, Publish, Record,
                  StopTimer, Raise, Cleanup
    <3>. QED
      BY <3>1, <3>2 DEF FileInv, UnlinkIsLast, Alone
  <2> DEFINE Rest == AllPublished' /\ (Alone' => FileParts')
  <2> SUFFICES Rest
    BY <2>0, <2>1 DEF FileInv, FileParts
  <2>2. AllPublished' \/ Publish(f)
    <3> USE DEF FileInv, AllPublished, TypeInv, TypeOK
    <3>1. CASE Record(f)
      BY <3>1 DEF Record
    <3>2. CASE Cleanup(f) \/ StopTimer(f)
      BY <3>2 DEF Cleanup, StopTimer, Forget
    <3>3. CASE \E acks \in SUBSET Codes : Assess(f, acks) \/ Refuse(f, acks)
      BY <3>3 DEF Assess, Refuse, Forget
    <3>4. CASE Begin(f) \/ ReadDecisions(f) \/ WriteExcel(f) \/ WriteHtml(f)
      BY <3>4 DEF Begin, ReadDecisions, WriteExcel, WriteHtml, WriteReport
    <3>5. CASE Attest(f) \/ Verify(f) \/ Raise(f)
      BY <3>5 DEF Attest, Verify, Raise
    <3>. QED
      BY <1>1, <3>1, <3>2, <3>3, <3>4, <3>5 DEF Finalize
  <2>3. CASE Begin(f)
    BY <2>2, <2>3, FileBegin DEF Publish, Begin
  <2>4. Begin(f) \/ f \in Active
    BY <1>1 DEF Finalize, Active, Working, InTry, ReadDecisions, Assess, Refuse,
                WriteExcel, WriteHtml, WriteReport, Attest, Verify, Publish,
                Record, StopTimer, Raise, Cleanup
  <2>5. CASE f \in Active /\ (WriteExcel(f) \/ WriteHtml(f) \/ Attest(f))
    <3>1. ~Publish(f)
      BY <2>5 DEF Publish, WriteExcel, WriteHtml, WriteReport, Attest
    <3>. QED
      BY <2>1, <2>2, <2>5, <3>1, FileWrites
  <2>6. CASE f \in Active /\ Publish(f)
    <3>1. AllPublished'
      <4>1. published[f] \in 0..2
        BY <2>6 DEF Publish, FileInv, TypeInv, TypeOK, Assessed, Files
      <4>. QED
        BY <2>6, <4>1 DEF Publish, FileInv, TypeInv, TypeOK, AllPublished
    <3>. QED
      BY <2>1, <2>6, <3>1, FilePublish
  <2>7. CASE f \in Active /\ Record(f)
    BY <2>1, <2>2, <2>7, FileRecord DEF Publish, Record
  <2>8. CASE f \in Active /\ Cleanup(f)
    BY <2>1, <2>2, <2>8, FileCleanup DEF Publish, Cleanup
  <2>9. CASE f \in Active /\ (ReadDecisions(f) \/ Verify(f) \/ Raise(f))
    <3>1. CASE Publish(f)
      BY <2>6, <2>9, <3>1
    <3>2. CASE AllPublished'
      BY <2>1, <2>9, <3>2, FileMoves
         DEF ReadDecisions, Verify, Raise, Points, Working, InTry
    <3>. QED
      BY <2>2, <3>1, <3>2
  <2>10. CASE f \in Active
              /\ \E acks \in SUBSET Codes : Assess(f, acks) \/ Refuse(f, acks)
    <3>1. CASE Publish(f)
      BY <2>6, <2>10, <3>1
    <3>2. CASE AllPublished'
      BY <2>1, <2>10, <3>2, FileMoves
         DEF Assess, Refuse, Forget, Points, Working, InTry
    <3>. QED
      BY <2>2, <3>1, <3>2
  <2>11. CASE f \in Active /\ StopTimer(f)
    <3>1. CASE Publish(f)
      BY <2>6, <2>11, <3>1
    <3>2. CASE AllPublished'
      BY <2>1, <2>11, <3>2, FileMoves
         DEF StopTimer, Forget, Points, Working, InTry
    <3>. QED
      BY <2>2, <3>1, <3>2
  <2>. QED
    BY <1>1, <2>3, <2>4, <2>5, <2>6, <2>7, <2>8, <2>9, <2>10, <2>11 DEF Finalize
<1>. QED
  BY <1>1, FilePage, FileElsewhere DEF Next

(* The three files in place are those of the finalization that signed, and *)
(* its attestation holds them, for as long as the run exists (finalize_run *)
(* without a second one at the same time): PublishedStands.                *)
THEOREM PublicationStands == Spec => []PublishedStands
<1>1. FileInv => PublishedStands
  <2> SUFFICES ASSUME FileInv, signoff # None, exists, Alone,
                      pc[signoff.by] \in {"pause", "done", "dead"}
               PROVE  /\ \A k \in Kinds : final[k] = signoff.by
                      /\ Attested(signoff.by)
                      /\ signoff.attestation = signoff.by
    BY DEF PublishedStands, Alone, Attested
  <2>. QED
    BY DEF FileInv, SignedStands
<1>. QED
  BY FileInit, FileStep, <1>1, PTL DEF Spec

(* A finalization that failed has left no file behind (the except clause   *)
(* of finalize_run, without a second finalization at the same time).       *)
THEOREM NothingLeft == Spec => []FailureLeavesNothing
<1>1. FileInv => FailureLeavesNothing
  <2> SUFFICES ASSUME FileInv, Alone, NEW f \in Finalizers, pc[f] = "failed"
               PROVE  \A k \in Kinds : temp[k] # f /\ final[k] # f
    BY DEF FailureLeavesNothing, Alone
  <2>. QED
    BY DEF FileInv, WillBeRemoved, InTry
<1>. QED
  BY FileInit, FileStep, <1>1, PTL DEF Spec
-----------------------------------------------------------------------------
(* Deletion.  As long as nothing has overlapped it, a file in its final     *)
(* place is accounted for: by the row of the sign-off, by a finalization at *)
(* work that will remove it, or by the deletion that is about to.  A run    *)
(* that is gone has no row, and no finalization gets past its assessment.   *)
Deleting == page \in {"deleteRows", "deleteAll", "unlink"}

DeletionDiscipline ==
  /\ Deleting => Active = {}
  /\ page = "deleteRows" => signoff = None
  /\ page = "unlink" => ~exists
  /\ ~exists => signoff = None /\ \A f \in Active : pc[f] \in {"decisions", "coverage"}
  /\ \A f \in Finalizers : pc[f] = "pause" => signoff # None
  /\ \A k \in Kinds : final[k] # None =>
       signoff # None \/ page = "unlink" \/ \E f \in Active : k \in Removed(f)

DeletionInv == TypeInv /\ ("deletion" \notin disturbed => DeletionDiscipline)

LEMMA DeletionInit == Init => DeletionInv
<1> SUFFICES ASSUME Init PROVE DeletionDiscipline
  BY TypeInit DEF DeletionInv
<1> QED
  BY DEF Init, DeletionDiscipline, Deleting, Active, Working, InTry, NoFiles

(* Only what touches the calls, the row, the files or the page matters.     *)
LEMMA DeletionFrame ==
  ASSUME DeletionDiscipline, UNCHANGED <<exists, signoff, final, page, pc, published>>
  PROVE  DeletionDiscipline'
BY DEF DeletionDiscipline, Deleting, Active, Removed

LEMMA DeletionPage ==
  ASSUME TypeInv, DeletionDiscipline, PageStep, "deletion" \notin disturbed'
  PROVE  DeletionDiscipline'
<1> USE DEF storeVars, fileVars, callVars, Disturb, EditPoints
<1>0. UNCHANGED <<pc, published>>
  BY DEF PageStep, BeginEdit, SaveDecision, SaveMapping, BeginStart, StartTimer,
         PauseTimer, DeleteRead, DeleteRows, DeleteFiles
<1>1. /\ Active' = Active
      /\ \A f \in Finalizers : Removed(f)' = Removed(f)
  BY <1>0 DEF Active, Removed
<1>2. ASSUME UNCHANGED <<exists, signoff, final>>, ~Deleting, ~Deleting'
      PROVE  DeletionDiscipline'
  <2>1. \A k \in Kinds : final'[k] # None =>
          signoff' # None \/ \E f \in Active' : k \in Removed(f)'
    BY <1>1, <1>2 DEF DeletionDiscipline, Deleting, Active
  <2> QED BY <1>0, <1>1, <1>2, <2>1 DEF DeletionDiscipline, Deleting
<1>3. CASE \E kind \in EditPoints : BeginEdit(kind)
  BY <1>2, <1>3 DEF BeginEdit, Deleting
<1>4. CASE \E d \in Findings, v \in Values \cup {None} : SaveDecision(d, v)
  BY <1>2, <1>4 DEF SaveDecision, Deleting
<1>5. CASE \E codes \in SUBSET Codes : SaveMapping(codes)
  BY <1>2, <1>5 DEF SaveMapping, Deleting
<1>6. CASE BeginStart \/ StartTimer \/ PauseTimer
  BY <1>2, <1>6 DEF BeginStart, StartTimer, PauseTimer, Deleting
<1>7. CASE DeleteRead
  <2>1. Active = {}
    BY <1>7 DEF DeleteRead
  <2> QED BY <1>0, <1>1, <1>7, <2>1 DEF DeleteRead, DeletionDiscipline, Deleting
<1>8. CASE DeleteRows
  <2>1. Active = {} /\ (page = "deleteRows" => final = NoFiles)
    <3>1. Active = {}
      BY <1>8 DEF DeleteRows, DeletionDiscipline, Deleting
    <3>2. page = "deleteRows" => \A k \in Kinds : final[k] = None
      BY <3>1 DEF DeletionDiscipline
    <3> QED BY <3>1, <3>2 DEF TypeInv, TypeOK, NoFiles
  <2>2. \A f \in Finalizers : pc[f] # "pause"
    BY <2>1 DEF Active, Working, InTry
  <2> QED BY <1>0, <1>1, <1>8, <2>1, <2>2 DEF DeleteRows, DeletionDiscipline, Deleting, NoFiles
<1>9. CASE DeleteFiles
  BY <1>0, <1>1, <1>9 DEF DeleteFiles, DeletionDiscipline, Deleting, NoFiles
<1> QED
  BY <1>3, <1>4, <1>5, <1>6, <1>7, <1>8, <1>9 DEF PageStep

(* A call moves on among the points of its work, and removes nothing.       *)
LEMMA DeletionMoves ==
  ASSUME TypeInv, DeletionDiscipline, NEW f \in Active, NEW point \in Working \ {"pause"},
         Go(f, point), UNCHANGED <<exists, signoff, final, page, published>>,
         exists \/ point \in {"decisions", "coverage"}
  PROVE  DeletionDiscipline'
<1>1. f \in Finalizers /\ Active' = Active /\ pc' = [pc EXCEPT ![f] = point]
  BY DEF Active, Go, TypeInv, TypeOK
<1>2. \A k \in Kinds : final'[k] # None =>
        signoff' # None \/ page' = "unlink" \/ \E g \in Active' : k \in Removed(g)'
  BY <1>1 DEF DeletionDiscipline, Removed
<1>3. ~exists => signoff = None /\ \A g \in Active : pc'[g] \in {"decisions", "coverage"}
  BY <1>1 DEF DeletionDiscipline, TypeInv, TypeOK, Active
<1>4. \A g \in Finalizers : pc'[g] = "pause" => signoff # None
  BY <1>1 DEF DeletionDiscipline, TypeInv, TypeOK
<1> QED
  BY <1>1, <1>2, <1>3, <1>4 DEF DeletionDiscipline, Deleting

LEMMA DeletionFinalize ==
  ASSUME TypeInv, TypeInv', DeletionDiscipline, NEW f \in Finalizers, Finalize(f),
         "deletion" \notin disturbed'
  PROVE  DeletionDiscipline'
<1> USE DEF storeVars, fileVars, Disturb
<1>1. CASE Begin(f)
  <2>1. /\ ~Deleting /\ UNCHANGED <<exists, signoff, final, page, published>>
        /\ pc' = [pc EXCEPT ![f] = "decisions"] /\ signoff = None
    BY <1>1 DEF Begin, Ongoing, Deleting, Go, Mutable
  <2>2. Active' = Active \cup {f} /\ pc'[f] = "decisions"
        /\ \A g \in Finalizers : g # f => pc'[g] = pc[g]
    BY <2>1 DEF Active, Working, TypeInv, TypeOK
  <2>3. \A k \in Kinds : final'[k] # None => \E g \in Active' : k \in Removed(g)'
    BY <2>1, <2>2 DEF DeletionDiscipline, Deleting, Removed
  <2>4. ~exists => \A g \in Active' : pc'[g] \in {"decisions", "coverage"}
    BY <2>2 DEF DeletionDiscipline, Active
  <2>5. \A g \in Finalizers : pc'[g] # "pause"
    BY <2>1, <2>2 DEF DeletionDiscipline
  <2> QED BY <2>1, <2>3, <2>4, <2>5 DEF DeletionDiscipline, Deleting
<1>2. Begin(f) \/ f \in Active
  BY DEF Finalize, Active, Working, InTry, ReadDecisions, Assess, Refuse,
         WriteExcel, WriteHtml, WriteReport, Attest, Verify, Publish,
         Record, StopTimer, Raise, Cleanup
<1>3. ASSUME f \in Active
      PROVE  ~Deleting /\ (~exists => pc[f] \in {"decisions", "coverage"})
  BY <1>3 DEF DeletionDiscipline
<1>4. CASE ReadDecisions(f) \/ (\E acks \in SUBSET Codes : Assess(f, acks))
           \/ WriteExcel(f) \/ WriteHtml(f) \/ Attest(f) \/ Verify(f) \/ Raise(f)
  <2>1. f \in Active
    BY <1>2, <1>4 DEF Begin, ReadDecisions, Assess, WriteExcel, WriteHtml, WriteReport,
                      Attest, Verify, Raise, InTry
  <2>2. \E point \in Working \ {"pause"} :
          /\ Go(f, point) /\ UNCHANGED <<exists, signoff, final, page, published>>
          /\ exists \/ point \in {"decisions", "coverage"}
    BY <1>3, <1>4, <2>1
    DEF ReadDecisions, Assess, WriteExcel, WriteHtml, WriteReport, Attest, Verify, Raise,
        Working, InTry
  <2> QED BY <2>1, <2>2, DeletionMoves
<1>5. CASE \E acks \in SUBSET Codes : Refuse(f, acks)
  <2>1. /\ pc[f] = "coverage" /\ pc' = [pc EXCEPT ![f] = "refused"]
        /\ UNCHANGED <<exists, signoff, final, page>>
        /\ \A g \in Finalizers : g # f => published'[g] = published[g]
    BY <1>5 DEF Refuse, Go, Forget
  <2>2. Active' = Active \ {f} /\ Removed(f) = {}
    BY <2>1 DEF Active, Working, InTry, TypeInv, TypeOK, Assessed, Unpublished, Removed
  <2>3. \A g \in Active' : g \in Active /\ Removed(g)' = Removed(g) /\ pc'[g] = pc[g]
    BY <2>1, <2>2 DEF Removed, Active, TypeInv, TypeOK
  <2>4. \A k \in Kinds : final'[k] # None =>
          signoff' # None \/ page' = "unlink" \/ \E g \in Active' : k \in Removed(g)'
    BY <2>1, <2>2, <2>3 DEF DeletionDiscipline
  <2>5. \A g \in Finalizers : pc'[g] = "pause" => signoff # None
    BY <2>1 DEF DeletionDiscipline, TypeInv, TypeOK
  <2> QED BY <2>1, <2>2, <2>3, <2>4, <2>5 DEF DeletionDiscipline, Deleting
<1>6. CASE Publish(f)
  <2> DEFINE k == NextFile(f)
             next == IF published[f] + 1 = Len(Files) THEN "record" ELSE "publish"
  <2>1. /\ pc[f] = "publish" /\ f \in Active /\ published[f] \in 0..2
        /\ published' = [published EXCEPT ![f] = @ + 1]
        /\ final' = [final EXCEPT ![k] = temp[k]]
        /\ pc' = [pc EXCEPT ![f] = next] /\ next \in {"record", "publish"}
        /\ UNCHANGED <<exists, signoff, page>>
    BY <1>6, FilesAndKinds DEF Publish, Go, Active, Working, InTry, TypeInv, TypeOK, Assessed
  <2>2. /\ Removed(f)' = Removed(f) \cup {k} /\ k \in Kinds
        /\ \A g \in Finalizers : g # f => Removed(g)' = Removed(g)
    <3>1. published'[f] = published[f] + 1
      BY <2>1 DEF TypeInv, TypeOK
    <3> QED BY <2>1, <3>1, RemovedSoFar DEF Removed, NextFile, Files, Kinds
  <2> HIDE DEF k, next
  <2>3. Active' = Active
    BY <2>1 DEF Active, Working, InTry, TypeInv, TypeOK
  <2>4. \A j \in Kinds : j # k => final'[j] = final[j]
    BY <2>1 DEF TypeInv, TypeOK
  <2>5. exists /\ ~Deleting
    BY <1>3, <2>1
  <2>6. \A j \in Kinds : final'[j] # None => signoff # None \/ \E g \in Active : j \in Removed(g)'
    BY <2>1, <2>2, <2>4, <2>5 DEF DeletionDiscipline, Deleting, Active
  <2>7. \A g \in Finalizers : pc'[g] = "pause" => signoff # None
    BY <2>1 DEF DeletionDiscipline, TypeInv, TypeOK
  <2> QED BY <2>1, <2>3, <2>5, <2>6, <2>7 DEF DeletionDiscipline, Deleting
<1>7. CASE Record(f)
  <2>1. /\ f \in Active /\ pc[f] = "record" /\ pc' = [pc EXCEPT ![f] = "pause"]
        /\ signoff' \in SignOffRows /\ UNCHANGED <<exists, final, page, published>>
    <3>1. seen[f] \in [Findings -> Values]
      BY <1>7 DEF Record, TypeInv, TypeOK, Assessed, Ready, InTry
    <3>2. signoff' \in SignOffRows
      BY <1>7, <3>1, FilesAndKinds DEF Record, TypeInv, TypeOK, SignOffRows
    <3> QED BY <1>7, <3>2 DEF Record, Go, Active, Working, InTry, TypeInv, TypeOK
  <2>2. signoff' # None /\ Active' = Active
    BY <2>1, NoneIsNothing DEF Active, Working, InTry, TypeInv, TypeOK
  <2>3. exists /\ ~Deleting
    BY <1>3, <2>1
  <2> QED BY <2>1, <2>2, <2>3 DEF DeletionDiscipline, Deleting
<1>8. CASE StopTimer(f)
  <2>1. /\ f \in Active /\ pc[f] = "pause" /\ pc' = [pc EXCEPT ![f] = "done"]
        /\ UNCHANGED <<exists, signoff, final, page>>
    BY <1>8 DEF StopTimer, Go, Active, Working, InTry
  <2>2. signoff # None /\ exists /\ ~Deleting
    BY <1>3, <2>1 DEF DeletionDiscipline
  <2> QED BY <2>1, <2>2 DEF DeletionDiscipline, Deleting
<1>9. CASE Cleanup(f)
  <2>1. /\ f \in Active /\ pc[f] = "cleanup" /\ pc' = [pc EXCEPT ![f] = "failed"]
        /\ final' = [k \in Kinds |-> IF k \in Removed(f) THEN None ELSE final[k]]
        /\ \A g \in Finalizers : g # f => published'[g] = published[g]
        /\ UNCHANGED <<exists, signoff, page>>
    BY <1>9 DEF Cleanup, Go, Forget, Active, Working
  <2>2. exists /\ ~Deleting
    BY <1>3, <2>1
  <2>3. /\ Active' = Active \ {f}
        /\ \A g \in Active' : Removed(g)' = Removed(g)
    BY <2>1 DEF Active, Working, InTry, TypeInv, TypeOK, Removed
  <2>4. \A k \in Kinds : final'[k] # None => k \notin Removed(f) /\ final[k] # None
    BY <2>1
  <2>5. \A g \in Finalizers : pc'[g] = "pause" => signoff # None
    BY <2>1 DEF DeletionDiscipline, TypeInv, TypeOK
  <2> QED BY <2>1, <2>2, <2>3, <2>4, <2>5 DEF DeletionDiscipline, Deleting
<1> QED
  BY <1>1, <1>4, <1>5, <1>6, <1>7, <1>8, <1>9 DEF Finalize

LEMMA DeletionStep == DeletionInv /\ [Next]_vars => DeletionInv'
<1> SUFFICES ASSUME DeletionInv, [Next]_vars PROVE DeletionInv'
  OBVIOUS
<1>1. TypeInv /\ TypeInv'
  BY TypeStep DEF DeletionInv
<1> SUFFICES ASSUME "deletion" \notin disturbed' PROVE DeletionDiscipline'
  BY <1>1 DEF DeletionInv
<1>2. ~Crash
  BY DEF Crash
<1>3. "deletion" \notin disturbed
  BY <1>2 DEF Next, PageStep, BeginEdit, SaveDecision, SaveMapping, BeginStart, StartTimer,
         PauseTimer, DeleteRead, DeleteRows, DeleteFiles, InputsChange, Finalize, Begin,
         ReadDecisions, Assess, Refuse, WriteExcel, WriteHtml, WriteReport, Attest, Verify,
         Publish, Record, StopTimer, Raise, Cleanup, Disturb, vars
<1>4. CASE InputsChange \/ UNCHANGED vars
  BY <1>3, <1>4, DeletionFrame
  DEF DeletionInv, InputsChange, vars, storeVars, fileVars, callVars
<1> QED
  BY <1>1, <1>2, <1>3, <1>4, DeletionPage, DeletionFinalize DEF DeletionInv, Next

(* After delete_runs nothing of the sign-off is left, in the store or on    *)
(* disk, however many finalizations came before it and whichever of them    *)
(* failed, as long as none ran while it did and the server did not die.     *)
THEOREM DeletionIsClean == Spec => []DeletedLeavesNothing
<1>1. DeletionInv => DeletedLeavesNothing
  <2> SUFFICES ASSUME DeletionInv, ~exists, page # "unlink", "deletion" \notin disturbed
               PROVE  signoff = None /\ final = NoFiles
    BY DEF DeletedLeavesNothing
  <2>1. signoff = None /\ \A f \in Active : Removed(f) = {}
    BY RemovedSoFar, FilesAndKinds
    DEF DeletionInv, DeletionDiscipline, TypeInv, TypeOK, Assessed, Unpublished, Active
  <2>2. \A k \in Kinds : final[k] = None
    BY <2>1 DEF DeletionInv, DeletionDiscipline
  <2> QED BY <2>1, <2>2 DEF DeletionInv, TypeInv, TypeOK, NoFiles
<1> QED
  BY DeletionInit, DeletionStep, <1>1, PTL DEF Spec
=============================================================================
