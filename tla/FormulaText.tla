----------------------------- MODULE FormulaText -----------------------------
(***************************************************************************)
(* What a run knows of the formula texts of a binary workbook, and whether *)
(* it may say that an external link is not used: the adapters' answers,    *)
(* their validation and coverage, the reach of defined names               *)
(* (io/formula_enrichment.py and the adapters), and the finding that is    *)
(* left out when no formula depends on the link (excel/workbook_risks.py). *)
(* A text is what it says of external links: nothing (Silent), a reference  *)
(* to another workbook (External), or the name it refers to.               *)
(***************************************************************************)
EXTENDS Naturals, FiniteSets, Sequences, SequencesExt

CONSTANTS
  Cells,        \* coordinates of formulas, as the scan of the file finds them
  DefinedNames,
  Silent, External, None,
  MaxNames,     \* MAX_EXTRACTED_DEFINED_NAMES
  MaxReach      \* MAX_REACHABILITY_DEFINED_NAMES

VARIABLES
  formula, target,    \* the workbook: text of each formula, target of each name
  local,              \* a name defined once more, for one sheet; or None
  engine, refused,    \* the adapter; it fails or answers what is not asked
  lost, lostNames,    \* what it cannot read
  snapshot            \* what the loader keeps; None before

bookVars == <<formula, target, local, engine, refused, lost, lostNames>>
textVars == <<bookVars, snapshot>>

Texts == {Silent, External} \cup DefinedNames

TextInit ==
  /\ formula \in [Cells -> Texts] /\ target \in [DefinedNames -> Texts]
  /\ local \in [name : DefinedNames, target : Texts] \cup {None}
  /\ engine \in {"excel", "libreoffice", "native"} /\ refused \in BOOLEAN
  /\ lost \in SUBSET Cells /\ lostNames \in SUBSET DefinedNames
  /\ refused => lost = {} /\ lostNames = {}
  /\ snapshot = None
-----------------------------------------------------------------------------
(* The adapters.  An item is a name with the sheet it is defined for; the    *)
(* workbook's comes first.                                                   *)
Item(n, sheet, t) == [name |-> n, sheet |-> sheet, target |-> t]
Items ==
  SetToSeq({Item(n, None, target[n]) : n \in DefinedNames \ lostNames})
    \o IF local = None THEN <<>> ELSE <<Item(local.name, "sheet", local.target)>>

(* bounded_defined_names: the first of each identity, up to the cap. *)
Taken(got, i) ==
  LET same == \E j \in DOMAIN got.names : got.names[j].name = i.name /\ got.names[j].sheet = i.sheet
  IN IF same \/ Len(got.names) >= MaxNames
     THEN [got EXCEPT !.complete = FALSE]
     ELSE [got EXCEPT !.names = Append(@, i)]

Bounded(items) ==
  LET got[k \in 0..Len(items)] ==
        IF k = 0 THEN [names |-> <<>>, complete |-> TRUE] ELSE Taken(got[k - 1], items[k])
  IN got[Len(items)]

(* Excel says when it could not read a name, LibreOffice's output when a     *)
(* scope did not resolve or the scan failed.                                 *)
CollectedByOffice ==
  LET b == Bounded(Items) IN [b EXCEPT !.complete = @ /\ lostNames = {}]

(* The native decoder gives no scope, and drops a name whose target it       *)
(* cannot render without saying so.                                          *)
CollectedByKernel ==
  Bounded([i \in DOMAIN Items |-> [Items[i] EXCEPT !.sheet = None]])

Collected == IF engine = "native" THEN CollectedByKernel ELSE CollectedByOffice

Extraction ==
  [cells |-> (Cells \ lost) \cup (IF refused THEN {None} ELSE {}),
   names |-> Collected.names, complete |-> Collected.complete]

(* validate_formula_extraction; LibreOffice refuses all of the output for    *)
(* one formula whose text it cannot give.                                    *)
Valid(x) == x.cells \subseteq Cells
Gives == Valid(Extraction) /\ ~(engine = "libreoffice" /\ lost # {})
-----------------------------------------------------------------------------
(* classify_external_reachability.                                           *)

(* Mutant: what refers to an external name by another name is missed. *)
ExternalNamesDirect(items) ==
  {items[i].name : i \in {j \in DOMAIN items : items[j].target = External}}

ExternalNames(items) ==
  LET close[k \in Nat] ==
        IF k = 0 THEN {items[i].name : i \in {j \in DOMAIN items : items[j].target = External}}
        ELSE close[k - 1] \cup {items[i].name : i \in {j \in DOMAIN items : items[j].target \in close[k - 1]}}
  IN close[Len(items)]

Coverage(x) == IF Cells \subseteq x.cells THEN "complete" ELSE "partial"

Unproven == [proven |-> FALSE, live |-> FALSE]

Reach(x) ==
  IF Coverage(x) # "complete" \/ ~x.complete \/ Len(x.names) > MaxReach THEN Unproven
  ELSE [proven |-> TRUE,
        live |-> \E c \in x.cells : formula[c] = External \/ formula[c] \in ExternalNames(x.names)]

(* merge_formula_extraction, and the loader when there is no text.           *)
Load ==
  /\ snapshot = None
  /\ snapshot' = IF Gives
       THEN [available |-> Coverage(Extraction) = "complete", text |-> Cells \ lost, reach |-> Reach(Extraction)]
       ELSE [available |-> FALSE, text |-> {}, reach |-> None]
  /\ UNCHANGED bookVars

(* workbook_risk_findings: the finding of a link that is only recorded in the *)
(* workbook.                                                                 *)
Proven == snapshot.reach # None /\ snapshot.reach.proven
Suppressed == Proven /\ ~snapshot.reach.live

TextNext == Load
TextSpec == TextInit /\ [][TextNext]_textVars
-----------------------------------------------------------------------------
(* What the workbook is, whatever an adapter tells of it: a formula depends  *)
(* on an external link when a path of names leads from it to one; which of   *)
(* two definitions of a name it means is not looked at.                      *)
Leads(t, S) == t = External \/ t \in S
LeadsOn(n, S) == Leads(target[n], S) \/ (local # None /\ local.name = n /\ Leads(local.target, S))
Closed(S) == \A n \in DefinedNames : LeadsOn(n, S) => n \in S
Leading == {n \in DefinedNames : \A S \in SUBSET DefinedNames : Closed(S) => n \in S}
InUse == \E c \in Cells : Leads(formula[c], Leading)

(* A link a formula depends on, directly or through any number of names, is  *)
(* reported, whichever adapter read the workbook and whatever it could not   *)
(* read; but for the names that the native decoder leaves out                *)
(* (workbook_risk_findings).                                                 *)
LinkReported ==
  snapshot # None /\ InUse /\ (engine = "native" => lostNames = {}) => ~Suppressed

(* "suppressed only when ... complete trusted formula text and defined-name  *)
(* reachability confirmed no current formula depends on it"                  *)
(* (workbook_risk_findings).                                                 *)
NeverHidden == snapshot # None /\ InUse => ~Suppressed
=============================================================================
