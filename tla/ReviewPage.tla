----------------------------- MODULE ReviewPage -----------------------------
(***************************************************************************)
(* The pages that show one stored run (_render_result_view in ui/app.py)   *)
(* and the decisions made on them: group review, keyboard triage, cluster  *)
(* confirmation, a severity, a note, a carried decision, and the review    *)
(* timer.  Each page keeps findings of its own in memory, decorated with   *)
(* the annotations as they were when it was loaded; every handler works on *)
(* those and writes what it made of them to the store.                     *)
(***************************************************************************)
EXTENDS Naturals, FiniteSets

CONSTANTS
  Tabs,        \* the browser tabs that may show the run
  Found,       \* its findings
  Groups,      \* the rows a decision may be made on: sets of findings
  Severities,
  Engine,      \* the severity the engine gave
  Remarks,     \* what a comment may say
  Blank,       \* no comment, or no severity of the analyst's
  MaxWrites    \* bound on what the store is given to write

VARIABLES
  stored,      \* the annotations of the run
  signed,      \* it has a row in run_signoffs
  tabs,        \* the pages that are there
  editable,    \* those loaded before the sign-off
  mem,         \* their findings, as the analyst sees them
  timing,      \* the run's review session is open
  writes,
  foreign,     \* history: findings that others decided since the page was loaded
  unsaved,     \* history: findings whose edit the store refused
  undone       \* history: decisions replaced by an action that was to keep them

reviewVars == <<stored, signed, tabs, editable, mem, timing, writes, foreign, unsaved, undone>>

Decisions == [sev : Severities \cup {Blank}, note : Remarks \cup {Blank}]
Undecided == [sev |-> Blank, note |-> Blank]
NewRun == [f \in Found |-> Undecided]

ReviewTypeOK ==
  /\ stored \in [Found -> Decisions] /\ signed \in BOOLEAN
  /\ tabs \in SUBSET Tabs /\ editable \in SUBSET tabs
  /\ mem \in [Tabs -> [Found -> Decisions]]
  /\ timing \in BOOLEAN /\ writes \in 0..MaxWrites
  /\ foreign \in [Tabs -> SUBSET Found] /\ unsaved \in [Tabs -> SUBSET Found]
  /\ undone \subseteq {"known", "unknown"}

ReviewInit ==
  /\ stored = NewRun /\ signed = FALSE
  /\ tabs = {} /\ editable = {}
  /\ mem = [p \in Tabs |-> NewRun]
  /\ timing = FALSE /\ writes = 0
  /\ foreign = [p \in Tabs |-> {}] /\ unsaved = [p \in Tabs |-> {}] /\ undone = {}
-----------------------------------------------------------------------------
(* set_annotations_bulk.  It fails, and changes nothing, when the run is   *)
(* signed (assert_mutable) or the database refuses.                        *)

WriteFails ==
  /\ writes < MaxWrites /\ writes' = writes + 1
  /\ UNCHANGED <<stored, foreign, undone>>

(* New decisions, in the place of what was decided on these findings.      *)
Amend(old, update) == [f \in Found |-> IF f \in DOMAIN update THEN update[f] ELSE old[f]]

Replaces(old, new) ==
  \/ old.sev # Blank /\ new.sev # old.sev
  \/ old.note # Blank /\ new.note # old.note

(* Page p writes update, a function of the findings it is about; keeping,  *)
(* that it was to leave earlier decisions alone.                           *)
Write(p, update, keeping) ==
  /\ ~signed /\ writes < MaxWrites
  /\ writes' = writes + 1
  /\ stored' = Amend(stored, update)
  /\ foreign' = [q \in Tabs |-> IF q \in tabs \ {p} THEN foreign[q] \cup DOMAIN update
                                ELSE foreign[q]]
  /\ LET gone == {f \in DOMAIN update : keeping /\ Replaces(stored[f], update[f])}
     IN  undone' = undone \cup
           {IF mem[p][f] = stored[f] THEN "known" ELSE "unknown" : f \in gone}

Shows(p, update) == mem' = [mem EXCEPT ![p] = Amend(@, update)]
Saved(p, F) == unsaved' = [unsaved EXCEPT ![p] = @ \ F]
-----------------------------------------------------------------------------
(* Pages. *)

LoadPage(p) ==
  /\ p \notin tabs
  /\ tabs' = tabs \cup {p}
  /\ editable' = IF signed THEN editable ELSE editable \cup {p}
  /\ mem' = [mem EXCEPT ![p] = stored]
  /\ UNCHANGED <<stored, signed, timing, writes, foreign, unsaved, undone>>

(* cleanup: the last page of the run to go ends its review session.        *)
(* Mutant: the page goes and nobody looks at the session. *)
LeftRunning(p) == timing
StillTimed(p) == timing /\ tabs # {p}

ClosePage(p) ==
  /\ p \in tabs
  /\ tabs' = tabs \ {p} /\ editable' = editable \ {p}
  /\ timing' = StillTimed(p)
  /\ mem' = [mem EXCEPT ![p] = NewRun]
  /\ foreign' = [foreign EXCEPT ![p] = {}] /\ unsaved' = [unsaved EXCEPT ![p] = {}]
  /\ UNCHANGED <<stored, signed, writes, undone>>

(* Pause or Start on the page, or Start on a page of another run.  Nothing *)
(* here looks at the sign-off.                                             *)
SwitchTimer(on) ==
  /\ timing # on /\ (on => editable # {})
  /\ timing' = on
  /\ UNCHANGED <<stored, signed, tabs, editable, mem, writes, foreign, unsaved, undone>>

(* finalize_run, which then stops the timer. *)
SignRun ==
  /\ ~signed
  /\ signed' = TRUE /\ timing' = FALSE
  /\ UNCHANGED <<stored, tabs, editable, mem, writes, foreign, unsaved, undone>>
-----------------------------------------------------------------------------
(* apply_group_review and persist_group_review, from the dialog of a group *)
(* or, without a note and without replacing, from the keyboard.            *)

(* Mutant: a group decision is for every member. *)
AppliesAlways(old, replace) == TRUE
Applies(old, replace) == replace \/ old = Blank

Decide(old, sev, note, replace) ==
  [sev  |-> IF sev # Blank /\ Applies(old.sev, replace) THEN sev ELSE old.sev,
   note |-> IF note # Blank /\ Applies(old.note, replace) THEN note ELSE old.note]

Touched(old, sev, note, replace) ==
  \/ sev # Blank /\ Applies(old.sev, replace)
  \/ note # Blank /\ Applies(old.note, replace)

(* Mutant: the members keep what could not be saved. *)
TakenBackNot(p, update) == Shows(p, update)
TakenBack(p, update) == UNCHANGED mem

GroupReview(p, group, sev, note, replace) ==
  /\ p \in editable
  /\ LET members == {f \in group : Touched(mem[p][f], sev, note, replace)}
         update == [f \in members |-> Decide(mem[p][f], sev, note, replace)]
     IN  /\ members # {}
         /\ \/ Write(p, update, ~replace) /\ Shows(p, update) /\ Saved(p, members)
            \/ WriteFails /\ TakenBack(p, update) /\ UNCHANGED unsaved
  /\ UNCHANGED <<signed, tabs, editable, timing>>

(* open_cluster_confirmation, for the visible slices: the store first.     *)
(* Mutant: a comment alone does not count as a decision. *)
ConfirmableNoted(d) == d.sev = Blank
Confirmable(d) == d = Undecided

Confirm(p, visible, note) ==
  /\ p \in editable
  /\ LET chosen == {f \in visible : Confirmable(mem[p][f])}
         update == [f \in chosen |-> [sev |-> Engine, note |-> note]]
     IN  /\ chosen # {}
         /\ \/ Write(p, update, TRUE) /\ Shows(p, update) /\ Saved(p, chosen)
            \/ WriteFails /\ UNCHANGED <<mem, unsaved>>
  /\ UNCHANGED <<signed, tabs, editable, timing>>

(* The rows of the findings table (on_severity, on_note).  Memory first;   *)
(* what the store refuses stays there.                                     *)
Edit(p, f, d) ==
  /\ p \in editable
  /\ LET update == [g \in {f} |-> d]
     IN  /\ Shows(p, update)
         /\ \/ Write(p, update, FALSE) /\ Saved(p, {f})
            \/ WriteFails /\ unsaved' = [unsaved EXCEPT ![p] = @ \cup {f}]
  /\ UNCHANGED <<signed, tabs, editable, timing>>

SetSeverity(p, f, s) == Edit(p, f, [mem[p][f] EXCEPT !.sev = s])
SetNote(p, f, n) == mem[p][f].note # n /\ Edit(p, f, [mem[p][f] EXCEPT !.note = n])

(* apply_carry_forward writes a decision of the run before, and the page   *)
(* goes to be loaded again.                                                *)
CarryOver(p, f, s) ==
  /\ p \in editable
  /\ Write(p, [g \in {f} |-> [sev |-> s, note |-> Blank]], FALSE)
  /\ mem' = [mem EXCEPT ![p] = stored']
  /\ Saved(p, Found)
  /\ UNCHANGED <<signed, tabs, editable, timing>>
-----------------------------------------------------------------------------
ReviewNext ==
  \/ \E p \in Tabs : LoadPage(p) \/ ClosePage(p)
  \/ \E on \in BOOLEAN : SwitchTimer(on)
  \/ SignRun
  \/ \E p \in Tabs, g \in Groups, s \in Severities \cup {Blank},
        n \in Remarks \cup {Blank}, replace \in BOOLEAN : GroupReview(p, g, s, n, replace)
  \/ \E p \in Tabs, g \in Groups, n \in Remarks \cup {Blank} : Confirm(p, g, n)
  \/ \E p \in Tabs, f \in Found, s \in Severities : SetSeverity(p, f, s)
  \/ \E p \in Tabs, f \in Found, n \in Remarks \cup {Blank} : SetNote(p, f, n)
  \/ \E p \in Tabs, f \in Found, s \in Severities : CarryOver(p, f, s)

ReviewSpec == ReviewInit /\ [][ReviewNext]_reviewVars
-----------------------------------------------------------------------------
(* What a page shows is what the store holds, but for what other pages     *)
(* have decided since it was loaded and for an edit the store refused: a   *)
(* group review that fails is taken back, a confirmation is saved before   *)
(* it is shown.                                                            *)
PageShowsStore ==
  \A p \in tabs : \A f \in Found \ (foreign[p] \cup unsaved[p]) : mem[p][f] = stored[f]

(* "Unreviewed only", triage and confirmation replace a decision only when *)
(* the page did not know it.                                               *)
KnownDecisionsKept == "known" \notin undone

(* The review time runs only while a page of the run is there. *)
TimerHasPage == timing => tabs # {}
=============================================================================
