--------------------------- MODULE AnalysisProofs ---------------------------
(***************************************************************************)
(* What ComparisonProofs proves of a comparison holds of an analysis too:  *)
(* a step of an analysis is a step of the comparison in it, or leaves it   *)
(* alone.  So does what ContentsProofs and FindingsProofs prove of its     *)
(* algorithms: each has variables that only its own steps change.          *)
(***************************************************************************)
EXTENDS MCAnalysis, ComparisonProofs, ContentsProofs, FindingsProofs

(* The algorithms of an analysis change nothing of the comparison that      *)
(* calls them: each behaviour of MCAnalysis is one of MCComparison.         *)
THEOREM AnalysisCompares == Spec => ComparisonSpec
<1>1. Init => ComparisonInit
  BY DEF Init
<1>2. [Next]_analysisVars => [ComparisonNext]_comparisonVars
  BY DEF Next, analysisVars
<1> QED
  BY <1>1, <1>2, PTL DEF Spec, ComparisonSpec

(* In an analysis the formula cache is at its bound whenever it has been    *)
(* published to (FormulaCache._evict_over_cap).                             *)
THEOREM AnalysisBoundsCache == Spec => []CacheIsBounded
  BY AnalysisCompares, CacheBounded, PTL

(* In an analysis no Excel outlives its read, and none but the worker's own *)
(* is ended (_terminate_owned_excel).                                       *)
THEOREM AnalysisEndsExcel == Spec => []OnlyOwnExcelEnds
  BY AnalysisCompares, OwnExcelEnds, PTL

(* An analysis loses no change of its runs, leaves none of their             *)
(* directories, and asks of a package once (finalize_populations, _run_qc). *)
THEOREM AnalysisIsWhole == Spec => []RunIsWhole
  BY AnalysisCompares, RunsAreWhole, PTL

(* Between runs of one book, an analysis carries a decision to one finding  *)
(* of its own cell, and a population takes one (carry_forward).             *)
THEOREM AnalysisCarries ==
  ASSUME \A b, c \in Books : b = c
  PROVE  Spec => []CarriedRight
<1>1. ComparisonSpec => []CarriedRight
  BY DecisionsCarried
<1> QED
  BY <1>1, AnalysisCompares, PTL
-----------------------------------------------------------------------------
(* The algorithms. *)

(* In the initial state the algorithm that moves is in its own.             *)
LEMMA AnalysisBeginsApart ==
  ASSUME Init
  PROVE  /\ part = "align" => Align!Init
         /\ part = "populations" => Grouped!PopInit
         /\ part = "spill" => Spilled!SpillInit
         /\ part = "text" => Text!TextInit
         /\ part = "stories" => Telling!StoriesInit
         /\ part = "groups" => Review!GroupsInit
         /\ part = "impacts" => Reached!ImpactsInit
         /\ part = "cycles" => Circular!CyclesInit
         /\ part = "matching" => Matching!MatchingInit
  BY DEF Init

(* A step is one of the algorithm that moves, or changes nothing of it.     *)
LEMMA AnalysisStaysApart ==
  ASSUME [Next]_analysisVars
  PROVE  /\ part' = part
         /\ part = "align" => Align!Next \/ UNCHANGED alignVars
         /\ part = "populations" => Grouped!PopNext \/ UNCHANGED popVars
         /\ part = "spill" => Spilled!SpillNext \/ UNCHANGED spillVars
         /\ part = "text" => Text!TextNext \/ UNCHANGED textVars
         /\ part = "stories" => Telling!StoriesNext \/ UNCHANGED storyVars
         /\ part = "groups" => Review!GroupsNext \/ UNCHANGED groupVars
         /\ part = "impacts" => Reached!ImpactsNext \/ UNCHANGED impactVars
         /\ part = "cycles" => Circular!CyclesNext \/ UNCHANGED cycleVars
         /\ part = "matching" => Matching!MatchingNext \/ UNCHANGED matchVars
<1>1. CASE UNCHANGED analysisVars
  BY <1>1 DEF analysisVars, comparisonVars, algorithmVars
<1>2. CASE ComparisonNext /\ UNCHANGED algorithmVars
  BY <1>2 DEF ComparisonNext, OthersStill, algorithmVars
<1>3. CASE AlgorithmNext /\ AlgorithmsStill /\ UNCHANGED comparisonVars
  BY <1>3 DEF AlgorithmNext, comparisonVars
<1> QED
  BY <1>1, <1>2, <1>3 DEF Next

(* A link of a formula that is in use is reported, but for one native gap   *)
(* (workbook_risk_findings, bounded_defined_names).                         *)
THEOREM AnalysisReportsLinks == Spec => []LinkReported
<1> DEFINE TextHolds == part = "text" => TextInv
<1>1. Init => TextHolds
  BY AnalysisBeginsApart, TextBegins
<1>2. TextHolds /\ [Next]_analysisVars => TextHolds'
  BY AnalysisStaysApart, TextSteps
<1>3. TextHolds => LinkReported
  BY DEF LinkReported, TextInv
<1> QED
  BY <1>1, <1>2, <1>3, PTL DEF Spec

(* Each slide and element is matched or left once, with the one it has to be *)
(* (match_slides, match_slide_elements).                                     *)
THEOREM AnalysisMatches == Spec => []MatchedRight
<1> DEFINE MatchHolds == part = "matching" => MatchInv
<1>1. Init => MatchHolds
  BY AnalysisBeginsApart, MatchingBegins
<1>2. MatchHolds /\ [Next]_analysisVars => MatchHolds'
  BY AnalysisStaysApart, MatchingSteps
<1>3. MatchHolds => MatchedRight
  BY MatchedIsRight DEF MatchedRight
<1> QED
  BY <1>1, <1>2, <1>3, PTL DEF Spec

(* The impacts of a finding are those of its formulas whatever was asked     *)
(* before, and the circles found are those of the formulas                   *)
(* (ImpactAccumulator, detect_circular_references).                          *)
THEOREM AnalysisTellsDependencies == Spec => []DependenciesExact
<1> DEFINE Holds == (part = "impacts" => ImpactInv) /\ (part = "cycles" => CycleInv)
<1>1. Init => Holds
  BY AnalysisBeginsApart, ImpactsBegin, CyclesBegin
<1>2. Holds /\ [Next]_analysisVars => Holds'
  <2>1. UNCHANGED cycleVars => UNCHANGED Circular!cycleVars
    BY DEF cycleVars, Circular!cycleVars, Circular!graphVars, Circular!walkVars
  <2> QED
    BY <2>1, AnalysisStaysApart, ImpactsSteps, CyclesSteps
<1>3. Holds => DependenciesExact
  BY ImpactsAreExact, CirclesAreExact DEF DependenciesExact
<1> QED
  BY <1>1, <1>2, <1>3, PTL DEF Spec

(* Nothing is lost or doubled on the way: each row of both sides is paired   *)
(* or told once, a population's rectangles and pairs are its members, each   *)
(* of them replayed or told once, and finding n is the nth of what was       *)
(* spilled (align_regions, membership, merge_spill, finding_by_id).          *)
THEOREM AnalysisAccounts == Spec => []AllAccountedFor
<1> DEFINE AlignHolds == part = "align" => AlignInv
           PopHolds == part = "populations" => PopInv /\ ReplayedLast
           SpillHolds == part = "spill" => SpillInv
           Holds == AlignHolds /\ PopHolds /\ SpillHolds
<1>1. Init => Holds
  <2>1. Grouped!PopInit => ReplayedLast
    BY DEF Grouped!PopInit, ReplayedLast
  <2> QED
    BY <2>1, AnalysisBeginsApart, AlignBegins, PopBegins, SpillBegins
<1>2. Holds /\ [Next]_analysisVars => Holds'
  <2> SUFFICES ASSUME Holds, [Next]_analysisVars PROVE Holds'
    OBVIOUS
  <2>1. AlignHolds'
    <3>1. UNCHANGED alignVars => UNCHANGED Align!vars
      BY DEF alignVars, Align!vars
    <3> QED
      BY <3>1, AnalysisStaysApart, AlignSteps
  <2>2. PopHolds'
    BY AnalysisStaysApart, PopSteps, PopStutters
  <2>3. SpillHolds'
    BY AnalysisStaysApart, SpillSteps
  <2> QED
    BY <2>1, <2>2, <2>3
<1>3. Holds => AllAccountedFor
  BY RowsAreAccounted, SpilledAreNumbered DEF AllAccountedFor, PopInv
<1> QED
  BY <1>1, <1>2, <1>3, PTL DEF Spec
=============================================================================
