---------------------------- MODULE SetupQueries ----------------------------
(***************************************************************************)
(* What a setup page asks of the scanned sheets while the analyst works    *)
(* (ui/config_workspace.py): the preview of one window, and how many keys  *)
(* of the chosen columns both sides have.  Each answer comes from a        *)
(* process of its own that reads the sidecar database under the exclusive  *)
(* slot (setup/preview_worker.py, setup/key_overlap_worker.py,             *)
(* setup/preview_store.py); meanwhile the page goes on, another scan may   *)
(* replace the sheets, another page may discard them.  One member, one     *)
(* generation, one region.                                                 *)
(***************************************************************************)
EXTENDS Naturals

CONSTANTS
  Views,        \* side, sheet and window of a preview
  Columns,      \* key columns the analyst may choose
  Queries,      \* tasks of _recompute_key_overlap
  Attempts,     \* of a query to get the slot
  MaxRequests,  \* bound: previews asked for and choices of columns
  None

VARIABLES
  view, token, preview, shown,   \* preview_state and its task
  columns, chosen, query, ratio, \* key_overlap_state and its tasks
  slot,                          \* holder of the exclusive slot
  sheets,                        \* the sidecar has the sheets
  heard,                         \* history: the newest choice that was answered
  overtaken,                     \* history: the last answer was to an older one
  disturbed                      \* history: sheets were removed under a reader

previewVars == <<view, token, preview, shown>>
overlapVars == <<columns, chosen, query, ratio>>
historyVars == <<heard, overtaken, disturbed>>
queryVars == <<previewVars, overlapVars, slot, sheets, historyVars>>

Idle == [pc |-> "idle", token |-> 0, view |-> None, answer |-> None]
NoQuery == [pc |-> "idle", columns |-> None, nth |-> 0, tries |-> 0, answer |-> None]
Failed == [of |-> None, whole |-> TRUE]
Answer == [of : Views \cup Columns \cup {None}, whole : BOOLEAN]

QueriesTypeOK ==
  /\ view \in Views /\ token \in 0..MaxRequests /\ chosen \in 0..MaxRequests
  /\ preview \in [pc : {"idle", "start", "ask", "found", "answered", "back"}, token : 0..MaxRequests,
                  view : Views \cup {None}, answer : Answer \cup {None}]
  /\ shown \in Answer \cup {None} /\ ratio \in Answer \cup {None}
  /\ columns \in Columns \cup {None}
  /\ query \in [Queries -> [pc : {"idle", "start", "ask", "found", "answered", "back"},
                            columns : Columns \cup {None}, nth : 0..MaxRequests,
                            tries : 0..Attempts, answer : Answer \cup {None}]]
  /\ slot \in {None, "preview", "overlap", "scan"} /\ sheets \in BOOLEAN
  /\ heard \in 0..MaxRequests /\ overtaken \in BOOLEAN /\ disturbed \in BOOLEAN

QueriesInit ==
  /\ view \in Views /\ token = 0 /\ preview = Idle /\ shown = None
  /\ columns = None /\ chosen = 0 /\ query = [q \in Queries |-> NoQuery] /\ ratio = None
  /\ slot = None /\ sheets = TRUE
  /\ heard = 0 /\ overtaken = FALSE /\ disturbed = FALSE

Asked == token + chosen < MaxRequests
-----------------------------------------------------------------------------
(* The preview: one task, that goes on until it has the newest request.      *)

(* _schedule_preview_load, after a change of what is looked at or without.   *)
Schedule ==
  /\ Asked /\ token' = token + 1
  /\ preview' = IF preview.pc = "idle" THEN [preview EXCEPT !.pc = "start"] ELSE preview

LookAt(v) ==
  /\ v # view /\ view' = v /\ shown' = None /\ Schedule
  /\ UNCHANGED <<overlapVars, slot, sheets, historyVars>>

Reload ==
  /\ Schedule /\ UNCHANGED <<view, shown, overlapVars, slot, sheets, historyVars>>

(* _load_preview up to its thread. *)
LoadPreview ==
  /\ preview.pc = "start"
  /\ preview' = [pc |-> "ask", token |-> token, view |-> view, answer |-> None]
  /\ UNCHANGED <<view, token, shown, overlapVars, slot, sheets, historyVars>>

Free(holder) == slot \in {None, holder}

(* Mutant: cells are read without a look at the inventory. *)
InventoryAssumed == slot # "scan"
InventoryFound == sheets

PreviewEnters ==
  /\ preview.pc = "ask"
  /\ IF Free("preview")
     THEN /\ slot' = "preview"
          /\ preview' = IF InventoryFound THEN [preview EXCEPT !.pc = "found"]
                        ELSE [preview EXCEPT !.pc = "answered", !.answer = Failed]
     ELSE preview' = [preview EXCEPT !.pc = "back", !.answer = Failed] /\ UNCHANGED slot
  /\ UNCHANGED <<view, token, shown, overlapVars, sheets, historyVars>>

(* The inventory row was found in one transaction, the cells are read in     *)
(* another: when they are gone, the answer is good and blank.                *)
PreviewReads ==
  /\ preview.pc = "found"
  /\ preview' = [preview EXCEPT !.pc = "answered", !.answer = [of |-> preview.view, whole |-> sheets]]
  /\ UNCHANGED <<view, token, shown, overlapVars, slot, sheets, historyVars>>

(* The process hangs or dies: joined, terminated, killed. *)
PreviewTimesOut ==
  /\ preview.pc = "found"
  /\ preview' = [preview EXCEPT !.pc = "answered", !.answer = Failed]
  /\ UNCHANGED <<view, token, shown, overlapVars, slot, sheets, historyVars>>

(* The slot is free only when the process is gone. *)
PreviewLeaves ==
  /\ preview.pc = "answered" /\ slot' = IF slot = "preview" THEN None ELSE slot
  /\ preview' = [preview EXCEPT !.pc = "back"]
  /\ UNCHANGED <<view, token, shown, overlapVars, sheets, historyVars>>

(* Mutant: the answer is shown whatever is looked at meanwhile. *)
StillAskedAlways == preview.token <= token
StillAsked == preview.token = token

(* _load_preview after its thread, and the loop of _drain_preview_requests.  *)
PreviewBack ==
  /\ preview.pc = "back"
  /\ shown' = IF StillAsked THEN preview.answer ELSE shown
  /\ preview' = IF StillAsked THEN Idle ELSE [Idle EXCEPT !.pc = "start"]
  /\ UNCHANGED <<view, token, overlapVars, slot, sheets, historyVars>>

PreviewStep ==
  \/ \E v \in Views : LookAt(v)
  \/ Reload \/ LoadPreview \/ PreviewEnters \/ PreviewReads \/ PreviewTimesOut \/ PreviewLeaves \/ PreviewBack
-----------------------------------------------------------------------------
(* The key overlap: a task for every choice, several at a time, all of them  *)
(* under one name.                                                           *)

Choose(q, c) ==
  /\ query[q].pc = "idle" /\ c # columns /\ Asked
  /\ columns' = c /\ chosen' = chosen + 1
  /\ query' = [query EXCEPT ![q] = [NoQuery EXCEPT !.pc = "start"]]
  /\ UNCHANGED <<ratio, previewVars, slot, sheets, historyVars>>

(* Mutant: without columns, nothing is asked and nothing forgotten. *)
NoColumnsKept == ratio
NoColumns == None

Heard(nth) ==
  /\ overtaken' = (nth < heard)
  /\ heard' = IF nth > heard THEN nth ELSE heard

(* The task begins after the handler, with what is chosen then. *)
BeginQuery(q) ==
  /\ query[q].pc = "start"
  /\ IF columns = None
     THEN query' = [query EXCEPT ![q] = NoQuery] /\ ratio' = NoColumns /\ Heard(chosen)
     ELSE /\ query' = [query EXCEPT ![q].pc = "ask", ![q].columns = columns, ![q].nth = chosen]
          /\ UNCHANGED <<ratio, heard, overtaken>>
  /\ UNCHANGED <<columns, chosen, previewVars, slot, sheets, disturbed>>

(* After the last attempt the task returns, and the ratio stays. *)
Retried(x) == IF x.tries + 1 = Attempts THEN NoQuery ELSE [x EXCEPT !.tries = x.tries + 1]

QueryEnters(q) ==
  /\ query[q].pc = "ask"
  /\ IF Free("overlap")
     THEN /\ slot' = "overlap"
          /\ query' = [query EXCEPT ![q].pc = IF InventoryFound THEN "found" ELSE "answered",
                                    ![q].answer = IF InventoryFound THEN None ELSE Failed]
     ELSE /\ UNCHANGED slot
          /\ query' = [query EXCEPT ![q] = Retried(@)]
  /\ UNCHANGED <<columns, chosen, ratio, previewVars, sheets, historyVars>>

(* Without cells there are no keys, and the ratio is 0.0. *)
QueryReads(q) ==
  /\ query[q].pc = "found"
  /\ query' = [query EXCEPT ![q].pc = "answered", ![q].answer = [of |-> query[q].columns, whole |-> sheets]]
  /\ UNCHANGED <<columns, chosen, ratio, previewVars, slot, sheets, historyVars>>

QueryTimesOut(q) ==
  /\ query[q].pc = "found"
  /\ query' = [query EXCEPT ![q].pc = "answered", ![q].answer = Failed]
  /\ UNCHANGED <<columns, chosen, ratio, previewVars, slot, sheets, historyVars>>

(* The first of two to end frees the slot that the other still uses. *)
QueryLeaves(q) ==
  /\ query[q].pc = "answered" /\ slot' = IF slot = "overlap" THEN None ELSE slot
  /\ query' = [query EXCEPT ![q].pc = "back"]
  /\ UNCHANGED <<columns, chosen, ratio, previewVars, sheets, historyVars>>

(* An answer that failed says nothing. *)
RatioOf(a) == IF a.of = None THEN None ELSE a

QueryBack(q) ==
  /\ query[q].pc = "back" /\ ratio' = RatioOf(query[q].answer) /\ Heard(query[q].nth)
  /\ query' = [query EXCEPT ![q] = NoQuery]
  /\ UNCHANGED <<columns, chosen, previewVars, slot, sheets, disturbed>>

QueryStep(q) ==
  \/ \E c \in Columns \cup {None} : Choose(q, c)
  \/ BeginQuery(q) \/ QueryEnters(q) \/ QueryReads(q) \/ QueryTimesOut(q) \/ QueryLeaves(q) \/ QueryBack(q)
-----------------------------------------------------------------------------
Reading == preview.pc = "found" \/ \E q \in Queries : query[q].pc = "found"

(* A scan that was started again: delete_member, then a transaction for      *)
(* each sheet.                                                               *)
ScanEnters ==
  /\ slot = None /\ slot' = "scan" /\ sheets' = FALSE
  /\ disturbed' = (disturbed \/ Reading)
  /\ UNCHANGED <<previewVars, overlapVars, heard, overtaken>>
ScanLeaves ==
  /\ slot = "scan" /\ slot' = None /\ sheets' = TRUE
  /\ UNCHANGED <<previewVars, overlapVars, historyVars>>

(* Another page discards the setup, whoever has the slot. *)
DiscardSheets ==
  /\ sheets /\ sheets' = FALSE /\ disturbed' = (disturbed \/ Reading)
  /\ UNCHANGED <<previewVars, overlapVars, slot, heard, overtaken>>

QueriesNext ==
  \/ PreviewStep \/ (\E q \in Queries : QueryStep(q))
  \/ ScanEnters \/ ScanLeaves \/ DiscardSheets
QueriesSpec == QueriesInit /\ [][QueriesNext]_queryVars

-----------------------------------------------------------------------------
(* When the page waits for nothing, what it shows was read for what the      *)
(* analyst looks at, however views were changed while answers were under way *)
(* (_drain_preview_requests).                                                *)
PreviewIsNewest ==
  preview.pc = "idle" => shown = None \/ shown.of \in {None, view}

(* When no query is under way, the ratio that holds up a run is of the       *)
(* columns the analyst has chosen, unless the last answer was to an older    *)
(* choice than one before it, or the newest choice never got the slot        *)
(* (_recompute_key_overlap).                                                 *)
RatioOfColumns ==
  (\A q \in Queries : query[q].pc = "idle") /\ ~overtaken /\ heard = chosen
    => ratio = None \/ ratio.of = columns

(* An answer that is shown was read from all its cells, unless the sheets    *)
(* were removed between two transactions of its reader                       *)
(* (SetupScanStore._inventory_row, _query_cells).                            *)
AnswersAreWhole ==
  \A a \in {shown, ratio} : a # None /\ ~a.whole => disturbed
=============================================================================
