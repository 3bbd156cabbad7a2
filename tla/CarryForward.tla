---------------------------- MODULE CarryForward ----------------------------
(***************************************************************************)
(* Decisions carried from a run to its Re-QC: history/carry_forward.py,    *)
(* the writes it makes in history/store.py, and the dialog of the run page *)
(* (ui/app.py).                                                            *)
(*                                                                         *)
(* A finding is atomic, at one cell, which is its identity; or it is a     *)
(* population of cells, whose identity does not depend on them.            *)
(*                                                                         *)
(* Every page handler is synchronous on the event loop; a finalization     *)
(* runs in a thread of its own, so it may come between a handler's check   *)
(* that the run is not signed and the handler's write.                     *)
(***************************************************************************)
EXTENDS Naturals, FiniteSets

CONSTANTS
  NIds,       \* findings of a run are 1..NIds, in the order of its list
  Books,      \* workbooks of the run (artifact members)
  Cells,      \* cells a finding may be about, in the same sheet of each
  Decisions,  \* a severity and a comment
  None

VARIABLES
  run,      \* the two runs: findings, whether the row exists, is signed
  policy,   \* the comparison policies of the two runs agree
  ann,      \* annotations of the two runs
  origin,   \* decision_origins of the Re-QC
  lineage   \* annotation_lineage of the Re-QC: [finding, from, relation]

carryVars == <<run, policy, ann, origin, lineage>>

Ids == 1..NIds
Whole == "population"

(* changed: its evidence is not that of the source's finding like it. *)
Atomic ==
  {[book |-> b, key |-> c, members |-> {c}, changed |-> x] :
     b \in Books, c \in Cells, x \in BOOLEAN}
Population ==
  {[book |-> b, key |-> Whole, members |-> m, changed |-> x] :
     b \in Books, m \in (SUBSET Cells) \ {{}}, x \in BOOLEAN}
Runs == {"source", "reqc"}

Finding(r, i) == run[r].findings[i]
Listed(r) == {i \in Ids : Finding(r, i) # None}
Annotated == {i \in Listed("source") : ann["source"][i] # None}

(* Findings of a run with the identity of f (requeue_identity_key). *)
Same(r, f) == {i \in Listed(r) : Finding(r, i).key = f.key /\ Finding(r, i).book = f.book}

(* A list of findings; a cell is in a population or has findings of its    *)
(* own, never both.                                                        *)
Grouped(findings) ==
  /\ \A i, j \in Ids : i < j /\ findings[i] = None => findings[j] = None
  /\ \A i, j \in Ids :
       i # j /\ findings[i] # None /\ findings[j] # None /\ findings[i].key = Whole =>
         findings[i].book # findings[j].book \/ findings[i].members \cap findings[j].members = {}

RunRow == [findings : {f \in [Ids -> Atomic \cup Population \cup {None}] : Grouped(f)},
           there : BOOLEAN, signed : BOOLEAN]

CarryTypeOK ==
  /\ \A r \in Runs : run[r].findings \in [Ids -> Atomic \cup Population \cup {None}]
  /\ policy \in BOOLEAN
  /\ ann \in [Runs -> [Ids -> Decisions \cup {None}]]
  /\ origin \in [Ids -> {None, "manual", "carried"}]
  /\ lineage \subseteq [finding : Ids, from : Ids, relation : {"identity", "member"}]
  /\ \A r \in Runs : run[r].there \/ ~run[r].signed

CarryInit ==
  /\ run \in [Runs -> {row \in RunRow : row.there /\ ~row.signed}]
  /\ \A i \in Listed("source") : ~Finding("source", i).changed
  /\ policy \in BOOLEAN
  /\ ann = [r \in Runs |-> [i \in Ids |-> None]]
  /\ origin = [i \in Ids |-> None]
  /\ lineage = {}
-----------------------------------------------------------------------------
(* preview_carry_forward, for the findings the source was annotated at. *)

(* Mutant: a pair counts although its identity is not unique. *)
ExactAnywhere(s, c) ==
  /\ policy
  /\ c \in Same("reqc", Finding("source", s))
  /\ ~Finding("reqc", c).changed
Exact(s, c) ==
  /\ policy
  /\ Same("source", Finding("source", s)) = {s}
  /\ Same("reqc", Finding("source", s)) = {c}
  /\ ~Finding("reqc", c).changed

ExactRows ==
  {[finding |-> p[2], from |-> p[1], decision |-> ann["source"][p[1]]] :
     p \in {q \in Annotated \X Listed("reqc") : Exact(q[1], q[2])}}

(* The index of annotated source atomics keeps the last one of a cell, of  *)
(* whichever workbook: its key has no artifact member.                     *)
AtCell(p) == {s \in Annotated : Finding("source", s).key = p}
Sources(c) ==
  {s \in Annotated : \E p \in Finding("reqc", c).members :
     s \in AtCell(p) /\ \A t \in AtCell(p) : t <= s}

(* A population is a candidate when the source had no population like it. *)
Candidate(c) ==
  /\ Finding("reqc", c).key = Whole
  /\ policy /\ Same("source", Finding("reqc", c)) = {} /\ Sources(c) # {}
Agreed(c) ==
  /\ Cardinality(Sources(c)) = Cardinality(Finding("reqc", c).members)
  /\ Cardinality({ann["source"][s] : s \in Sources(c)}) = 1
(* Mutant: carries from a source that is not signed. *)
InheritsAlways(c) == Candidate(c) /\ Agreed(c)
Inherits(c) == Candidate(c) /\ Agreed(c) /\ run["source"].signed

MemberRows(c) ==
  {[finding |-> c, from |-> s, decision |-> ann["source"][s]] : s \in Sources(c)}
-----------------------------------------------------------------------------
Written(rows, i) == {row \in rows : row.finding = i}

(* A handler: its check that the run is not signed, and its transaction,   *)
(* which writes annotations, the lineage of what is carried, and origins.  *)
(* A finalization may sign the run between the two; every other step that  *)
(* may come between them commutes with the write.                          *)
Save(r, rows, relation) ==
  /\ ~run[r].signed
  /\ \E overlapped \in BOOLEAN : run' = [run EXCEPT ![r].signed = overlapped]
  /\ ann' = [ann EXCEPT ![r] =
       [i \in Ids |-> IF Written(rows, i) = {} THEN @[i]
                      ELSE (CHOOSE row \in Written(rows, i) : TRUE).decision]]
  /\ origin' = [i \in Ids |->
       IF r = "source" \/ Written(rows, i) = {} THEN origin[i]
       ELSE IF relation = "manual" THEN "manual" ELSE "carried"]
  /\ lineage' = IF relation = "manual" THEN lineage
       ELSE lineage \cup
         {[finding |-> row.finding, from |-> row.from, relation |-> relation] : row \in rows}
  /\ UNCHANGED policy

(* on_severity, on_note, a group decision: set_annotations_bulk. *)
Decide(r, ids, d) ==
  /\ run[r].there /\ ids \subseteq Listed(r)
  /\ Save(r, {[finding |-> i, from |-> None, decision |-> d] : i \in ids}, "manual")

(* apply_carry_forward.  The dialog may have been opened at any time       *)
(* before: what it offered is left out, because the selection must be      *)
(* exact when it is applied, and the decisions are those of that moment.   *)
ApplySelected(selection) ==
  /\ run["source"].there
  /\ selection \subseteq {row.finding : row \in ExactRows}
  /\ Save("reqc", {row \in ExactRows : row.finding \in selection}, "identity")

(* apply_population_carry_forward, for one population. *)
ApplyPopulation(c) ==
  /\ run["source"].there /\ c \in Listed("reqc")
  /\ Inherits(c)
  /\ Save("reqc", MemberRows(c), "member")

(* record_signoff, in the thread of finalize_run. *)
Sign(r) ==
  /\ run[r].there /\ ~run[r].signed
  /\ run' = [run EXCEPT ![r].signed = TRUE]
  /\ UNCHANGED <<policy, ann, origin, lineage>>

(* delete_runs, a page handler as well. *)
DeleteSource ==
  /\ run["source"].there
  /\ run' = [run EXCEPT !["source"].there = FALSE, !["source"].signed = FALSE]
  /\ ann' = [ann EXCEPT !["source"] = [i \in Ids |-> None]]
  /\ UNCHANGED <<policy, origin, lineage>>

CarryNext ==
  \/ \E r \in Runs, ids \in (SUBSET Ids) \ {{}}, d \in Decisions : Decide(r, ids, d)
  \/ DeleteSource
  \/ \E s \in (SUBSET Ids) \ {{}} : ApplySelected(s)
  \/ \E c \in Ids : ApplyPopulation(c)
  \/ \E r \in Runs : Sign(r)

CarrySpec == CarryInit /\ [][CarryNext]_carryVars
-----------------------------------------------------------------------------
(* One population takes one decision, and only when all its members took   *)
(* it: as long as a population's decision is a carried one and the source  *)
(* exists, every cell of it has a decision there, and it is this one; no  *)
(* later edit of the source parts them, because only a signed source is    *)
(* carried from (apply_population_carry_forward, assert_mutable).          *)
PopulationAgrees ==
  run["source"].there => \A c \in Listed("reqc") :
    origin[c] = "carried" /\ Finding("reqc", c).key = Whole
      /\ (\E l \in lineage : l.finding = c /\ l.relation = "member") =>
        \A p \in Finding("reqc", c).members :
          \E s \in AtCell(p) : ann["source"][s] = ann["reqc"][c]

(* A decision is carried from one finding to one finding, by identity or   *)
(* as a member, whatever the two runs look like and in whatever order the  *)
(* dialog is used while the source is edited (preview_carry_forward).      *)
CarriedOnce ==
  \A l, m \in lineage :
    /\ l.from = m.from => l = m
    /\ l.finding = m.finding /\ l # m =>
         l.relation = "member" /\ m.relation = "member"
-----------------------------------------------------------------------------
(* "Package member IDs survive every finding, report, history, and mapping *)
(* boundary" (architecture, the invariants of a change): a population's     *)
(* decision comes from findings of its own workbook.                       *)
MembersKeepTheirBook ==
  \A l \in lineage : run["source"].there =>
    Finding("source", l.from).book = Finding("reqc", l.finding).book
==============================================================================
