------------------------------- MODULE QcRun -------------------------------
(***************************************************************************)
(* One comparison of a baseline and a current workbook and deck: checks    *)
(* run in an order, what they find is held back, spilled or made into      *)
(* populations, and the cells of a sheet are released when its values have *)
(* been compared (run_qc in engine.py, cycle comparison).  A change is     *)
(* [by, sheet, group]: the check that finds it, its sheet, and, when its   *)
(* class may become part of a population, its population key.              *)
(***************************************************************************)
EXTENDS Naturals, Sequences, FiniteSets, SequencesExt

CONSTANTS
  Sheets,       \* the sheets both workbooks have
  Changes,      \* what a run may come upon
  Threshold,    \* PopulationPolicy.threshold
  None

VARIABLES
  changes,      \* the changes between the files of this run
  grouping,     \* the output policy has populations enabled
  scope,        \* sheets that may produce findings
  step,         \* what the run does next
  sheetsLeft,   \* sheets whose values are to be compared
  resident,     \* sheets whose cells are in memory
  early, late,  \* pre_findings, and post_batches or the file they are put in
  candidates,   \* CandidateSpill
  stream,       \* _FindingStream: sequence of entries
  dirs,         \* temporary directories on disk
  outcome       \* None while it runs, then how it ended

qcVars == <<changes, grouping, scope, step, sheetsLeft, resident, early, late,
            candidates, stream, dirs, outcome>>

(* Checks before the values. *)
Checks == {"risks", "structure", "formulas", "dependencies", "controls", "decks", "crosscheck"}
After ==
  [prepare |-> "load", load |-> "risks", risks |-> "structure", structure |-> "formulas",
   formulas |-> "dependencies", dependencies |-> "controls", controls |-> "decks",
   decks |-> "crosscheck", crosscheck |-> "scope", scope |-> "drain", drain |-> "buffer",
   buffer |-> "values", values |-> "group", group |-> "rest", rest |-> "store"]
AfterStep == After[step]

Within == {"drain", "buffer", "values", "group", "rest", "store"}   \* the try block
Running == outcome = None

QcInit ==
  /\ changes \in SUBSET Changes
  /\ grouping \in BOOLEAN
  /\ scope \in SUBSET Sheets
  /\ step = "prepare" /\ sheetsLeft = Sheets /\ resident = {}
  /\ early = {} /\ late = {} /\ candidates = {}
  /\ stream = <<>> /\ dirs = {} /\ outcome = None

InScope(c) == c.sheet = None \/ c.sheet \in scope
Found(check) == {c \in changes : c.by = check}
Groupable(c) == grouping /\ c.group # None

(* An entry of the stream: the changes it stands for, and whether its      *)
(* excerpts were made from cells that are no longer there.                 *)
Enriched(c) == [for |-> {c}, grouped |-> FALSE, blank |-> c.sheet # None /\ c.sheet \notin resident]
Entries(S) == SetToSeq({Enriched(c) : c \in S})
-----------------------------------------------------------------------------
(* The candidate spill has a directory from the start. *)
Prepare ==
  /\ Running /\ step = "prepare"
  /\ dirs' = IF grouping THEN dirs \cup {"population"} ELSE dirs
  /\ step' = AfterStep
  /\ UNCHANGED <<changes, grouping, scope, sheetsLeft, resident, early, late, candidates, stream, outcome>>

Load ==
  /\ Running /\ step = "load"
  /\ resident' = Sheets /\ step' = AfterStep
  /\ UNCHANGED <<changes, grouping, scope, sheetsLeft, early, late, candidates, stream, dirs, outcome>>

(* The run stops and asks: prerequisites, blank keys, ranked tables. *)
Block ==
  /\ Running /\ step \in {"risks", "structure"}
  /\ outcome' = "blocked"
  /\ UNCHANGED <<changes, grouping, scope, step, sheetsLeft, resident, early, late, candidates, stream, dirs>>

(* A check: what may be part of a population goes to the candidates.       *)
Check ==
  /\ Running /\ step \in Checks
  /\ LET kept == {c \in Found(step) : ~Groupable(c)}
     IN IF step = "risks" THEN early' = kept /\ UNCHANGED late
        ELSE late' = late \cup kept /\ UNCHANGED early
  /\ candidates' = candidates \cup {c \in Found(step) : Groupable(c)}
  /\ step' = AfterStep
  /\ UNCHANGED <<changes, grouping, scope, sheetsLeft, resident, stream, dirs, outcome>>

(* Findings outside the scope are dropped, and the stream is opened. *)
Scope ==
  /\ Running /\ step = "scope"
  /\ early' = {c \in early : InScope(c)} /\ late' = {c \in late : InScope(c)}
  /\ dirs' = dirs \cup {"findings"}
  /\ step' = AfterStep
  /\ UNCHANGED <<changes, grouping, scope, sheetsLeft, resident, candidates, stream, outcome>>
-----------------------------------------------------------------------------
(* _drain_cycle_batch. *)
Drain ==
  /\ Running /\ step = "drain"
  /\ stream' = stream \o Entries(early) /\ early' = {}
  /\ step' = AfterStep
  /\ UNCHANGED <<changes, grouping, scope, sheetsLeft, resident, late, candidates, dirs, outcome>>

(* _buffer_cycle_batches: enriched now, while every cell is there. *)
Buffer ==
  /\ Running /\ step = "buffer"
  /\ late' = {Enriched(c) : c \in late}
  /\ dirs' = IF late = {} THEN dirs ELSE dirs \cup {"post"}
  /\ step' = AfterStep
  /\ UNCHANGED <<changes, grouping, scope, sheetsLeft, resident, early, candidates, stream, outcome>>

(* _run_value_parts: the values of one sheet, then its cells are released. *)
Values ==
  /\ Running /\ step = "values" /\ sheetsLeft # {}
  /\ \E s \in sheetsLeft :
       LET found == {c \in Found("values") : c.sheet = s}
       IN /\ stream' = stream \o Entries({c \in found : ~Groupable(c) /\ InScope(c)})
          /\ candidates' = candidates \cup {c \in found : Groupable(c)}
          /\ resident' = resident \ {s} /\ sheetsLeft' = sheetsLeft \ {s}
  /\ UNCHANGED <<changes, grouping, scope, step, early, late, dirs, outcome>>

ValuesDone ==
  /\ Running /\ step = "values" /\ sheetsLeft = {}
  /\ step' = AfterStep
  /\ UNCHANGED <<changes, grouping, scope, sheetsLeft, resident, early, late, candidates, stream, dirs, outcome>>

Groups == {{c \in candidates : c.group = g /\ InScope(c)} : g \in {c.group : c \in candidates}} \ {{}}
Accepted == {G \in Groups : Cardinality(G) >= Threshold}
Replayed == UNION (Groups \ Accepted)

(* Mutant: nothing is replayed when there is a population. *)
ReplaysOfNone == IF Accepted = {} THEN Entries(Replayed) ELSE <<>>
Replays == Entries(Replayed)

(* finalize_populations: the spill is removed, what it decided is read     *)
(* from a directory that goes with the outcome.                            *)
Group ==
  /\ Running /\ step = "group"
  /\ stream' = stream \o Replays
       \o SetToSeq({[for |-> G, grouped |-> TRUE, blank |-> FALSE] : G \in Accepted})
  /\ candidates' = {}
  /\ dirs' = IF grouping THEN (dirs \ {"population"}) \cup {"outcome"} ELSE dirs
  /\ step' = AfterStep
  /\ UNCHANGED <<changes, grouping, scope, sheetsLeft, resident, early, late, outcome>>

(* What was put aside; the findings of expired waivers are left out.       *)
Rest ==
  /\ Running /\ step = "rest"
  /\ stream' = stream \o SetToSeq(late) /\ late' = {}
  /\ dirs' = dirs \ {"post"}
  /\ step' = AfterStep
  /\ UNCHANGED <<changes, grouping, scope, sheetsLeft, resident, early, candidates, outcome>>

Store ==
  /\ Running /\ step = "store"
  /\ outcome' = "done"
  /\ UNCHANGED <<changes, grouping, scope, step, sheetsLeft, resident, early, late, candidates, stream, dirs>>
-----------------------------------------------------------------------------
(* The run is cancelled, or a reader, a check or the disk fails.  Only the *)
(* last part of it cleans up after itself.                                 *)

(* Mutant: the file of what was put aside is left to a finalizer. *)
CleanedUpToPost == IF step \in Within THEN dirs \ {"findings", "population"} ELSE dirs
CleanedUp == IF step \in Within THEN dirs \ {"findings", "population", "post"} ELSE dirs

Stop ==
  /\ Running
  /\ outcome' = "stopped" /\ dirs' = CleanedUp
  /\ UNCHANGED <<changes, grouping, scope, step, sheetsLeft, resident, early, late, candidates, stream>>

(* The frame of the run is gone: the finalizers of the objects it held     *)
(* remove their directories; the findings stay with the result.            *)
Unwind ==
  /\ outcome \in {"blocked", "stopped", "done"}
  /\ outcome' = IF outcome = "done" THEN "returned" ELSE "raised"
  /\ dirs' = dirs \ ({"population", "outcome"} \cup IF outcome = "done" THEN {} ELSE {"findings"})
  /\ UNCHANGED <<changes, grouping, scope, step, sheetsLeft, resident, early, late, candidates, stream>>

QcNext ==
  \/ Prepare \/ Load \/ Block \/ Check \/ Scope \/ Drain \/ Buffer
  \/ Values \/ ValuesDone \/ Group \/ Rest \/ Store \/ Stop \/ Unwind

QcSpec == QcInit /\ [][QcNext]_qcVars
-----------------------------------------------------------------------------
(* Decision mode changes the representation and not the coverage           *)
(* (architecture.md:704): each change in scope is represented by exactly   *)
(* one finding of the result, whichever of the three routes it took, and   *)
(* nothing else is.  Its excerpt is made while the cells are there, unless *)
(* its group was too small for a population and gave it back.              *)
EvidenceConserved ==
  outcome = "returned" =>
    /\ \A c \in changes :
         Cardinality({i \in DOMAIN stream : c \in stream[i].for}) = IF InScope(c) THEN 1 ELSE 0
    /\ \A i \in DOMAIN stream :
         /\ stream[i].for \subseteq changes
         /\ stream[i].blank => \A c \in stream[i].for : Groupable(c)

(* However a run ends, what it wrote to temporary directories is gone,     *)
(* except the findings its result reads from.                              *)
NothingLeft ==
  /\ outcome = "raised" => dirs = {}
  /\ outcome = "returned" => dirs = {"findings"}
=============================================================================
