---------------------------- MODULE MCComparison ----------------------------
(***************************************************************************)
(* A comparison and what surrounds it: Excel's process that reads formula  *)
(* texts, the cache that keeps them, the run over the sheets of a workbook *)
(* pair, the package over the workbooks, and the decisions carried to the  *)
(* next run.  They hand files to each other and share no state while they  *)
(* run, so at most one of them moves in a behaviour, the one that part     *)
(* names; the variables of the others are None.  MCAnalysis adds the       *)
(* algorithms of an analysis, and is what TLC checks.                      *)
(***************************************************************************)
EXTENDS MCValues, Naturals, Sequences, FiniteSets

CONSTANTS
  Users, Keys, MaxEntries, MaxClock, MaxDamage,   \* FormulaCache
  MaxFaults,                                      \* OfficeWorker
  Sheets, Changes,                                \* QcRun
  Members,                                        \* QcPackage
  NIds, Books, Decisions,                         \* CarryForward
  s1, s2, g1, g2, m1, m2, m3

VARIABLES
  part,   \* the component that moves
  entry, temp, clock, damage, user,
  reader, handle, child, watch, excel, open, status, pid, stranger, dir, denied, faults,
  changes, grouping, scope, step, sheetsLeft, resident, early, late, candidates, stream, dirs, outcome,
  mode, sides, decks, index, ranked, added, ended,
  run, policy, ann, origin, lineage

Cache == INSTANCE FormulaCache
Office == INSTANCE OfficeWorker
Qc == INSTANCE QcRun
Package == INSTANCE QcPackage
Carry == INSTANCE CarryForward

(* A change is found by one check, one of values on a sheet of both files;  *)
(* a workbook is named once; how a run ends is told from that it runs.       *)
ASSUME CacheConstants == IsFiniteSet(Keys) /\ {MaxEntries, MaxClock, MaxDamage} \subseteq Nat
ASSUME OfficeConstants == MaxFaults \in Nat
ASSUME RunConstants ==
  /\ IsFiniteSet(Changes)
  /\ \A c \in Changes : c.by \in Qc!Checks \cup {"values"} /\ (c.by = "values" => c.sheet \in Sheets)
  /\ None \notin Sheets \cup {"blocked", "stopped", "done", "returned", "raised"}
ASSUME PackageConstants ==
  /\ Members \in Seq(Package!Names) /\ Package!IsInjective(Members)
  /\ "deck" \notin Package!Names
  /\ \A why \in {"refused", "failed", "rows", "other", "done"}, of \in SUBSET Package!Names :
       None # Package!Ending(why, of)
ASSUME CarryConstants ==
  /\ NIds \in Nat /\ IsFiniteSet(Cells) /\ "population" \notin Cells
  /\ None \notin Decisions

-----------------------------------------------------------------------------
cacheVars == <<entry, temp, clock, damage, user>>
officeVars == <<reader, handle, child, watch, excel, open, status, pid, stranger, dir, denied, faults>>
qcVars == <<changes, grouping, scope, step, sheetsLeft, resident, early, late, candidates,
            stream, dirs, outcome>>
packageVars == <<mode, sides, decks, index, ranked, added, ended>>
carryVars == <<run, policy, ann, origin, lineage>>
comparisonVars == <<part, cacheVars, officeVars, qcVars, packageVars, carryVars>>

CacheOff == entry = None /\ temp = None /\ clock = None /\ damage = None /\ user = None
OfficeOff ==
  /\ reader = None /\ handle = None /\ child = None /\ watch = None /\ excel = None /\ open = None
  /\ status = None /\ pid = None /\ stranger = None /\ dir = None /\ denied = None /\ faults = None
QcOff ==
  /\ changes = None /\ grouping = None /\ scope = None /\ step = None /\ sheetsLeft = None
  /\ resident = None /\ early = None /\ late = None /\ candidates = None /\ stream = None
  /\ dirs = None /\ outcome = None
PackageOff ==
  /\ mode = None /\ sides = None /\ decks = None /\ index = None
  /\ ranked = None /\ added = None /\ ended = None
CarryOff == run = None /\ policy = None /\ ann = None /\ origin = None /\ lineage = None

(* The variables of a component are its own, or None. *)
ComparisonInit ==
  /\ IF part = "cache" THEN Cache!Init ELSE CacheOff
  /\ IF part = "office" THEN Office!OfficeInit ELSE OfficeOff
  /\ IF part = "run" THEN Qc!QcInit ELSE QcOff
  /\ IF part = "package" THEN Package!PackageInit ELSE PackageOff
  /\ IF part = "carry" THEN Carry!CarryInit ELSE CarryOff

Still(mine, theirs) == IF part = mine THEN TRUE ELSE UNCHANGED theirs

OthersStill ==
  /\ UNCHANGED part
  /\ Still("cache", cacheVars) /\ Still("office", officeVars) /\ Still("run", qcVars)
  /\ Still("package", packageVars) /\ Still("carry", carryVars)

ComparisonNext ==
  \/ part = "cache" /\ Cache!Next /\ OthersStill
  \/ part = "office" /\ Office!OfficeNext /\ OthersStill
  \/ part = "run" /\ Qc!QcNext /\ OthersStill
  \/ part = "package" /\ Package!PackageNext /\ OthersStill
  \/ part = "carry" /\ Carry!CarryNext /\ OthersStill

ComparisonSpec == ComparisonInit /\ [][ComparisonNext]_comparisonVars
-----------------------------------------------------------------------------
(* The properties of the components, each of the behaviours of its own.      *)

(* The cache of extracted formulas keeps its bound (_evict_over_cap).        *)
CacheIsBounded == part = "cache" => Cache!CacheIsBounded

(* No Excel outlives the read it was started for, and no other program is   *)
(* ended in its place (_terminate_owned_excel).                              *)
OnlyOwnExcelEnds == part = "office" => Office!ExcelIsEnded /\ Office!OthersLive

(* Each change in scope is in exactly one finding (finalize_populations), a  *)
(* run that ended has no directory of its own left (_run_qc), and a package  *)
(* is done, or asks once, with all its workbooks looked at.                  *)
RunIsWhole ==
  /\ part = "run" => Qc!EvidenceConserved /\ Qc!NothingLeft
  /\ part = "package" => Package!PackageWhole

(* A population takes one decision, that of all its members, and a decision *)
(* of the source is carried to one finding, of its own cell.                 *)
CarriedRight == part = "carry" => Carry!PopulationAgrees /\ Carry!CarriedOnce
=============================================================================
