----------------------------- MODULE QcPackage -----------------------------
(***************************************************************************)
(* A run over a package of several workbooks and a deck: one nested run    *)
(* per workbook and one of the deck, one after the other, their findings   *)
(* put together under the name of their member (_run_multi_package in      *)
(* engine.py).  What a nested run comes to is an input; QcRun models it.   *)
(***************************************************************************)
EXTENDS Naturals, Sequences, FiniteSets, Functions

CONSTANTS
  Members,   \* names of workbooks, in their order: a sequence
  None

VARIABLES
  mode,      \* "cycle", "preflight" or "final"
  sides,     \* per workbook, the sides of the package that have it
  decks,     \* the sides that have a deck
  index,     \* the workbook that is next; 0 before the deck of a final package
  ranked,    \* workbooks whose rows need a confirmation first
  added,     \* what was added to the stream: sequence of [of, what]
  ended      \* None, or [why, of]: how it ended, and whose rows to confirm

packageVars == <<mode, sides, decks, index, ranked, added, ended>>

Names == Range(Members)
Sides == {"baseline", "current"}
Having(side) == {m \in Names : side \in sides[m]}

PackageInit ==
  /\ mode \in {"cycle", "preflight", "final"}
  /\ sides \in [Names -> SUBSET Sides] /\ \E m \in Names : sides[m] # {}
  /\ decks \in SUBSET Sides
  /\ index = 0 /\ ranked = {} /\ added = <<>> /\ ended = None

(* Which packages a mode takes. *)
Accepts ==
  CASE mode = "cycle" -> (Having("baseline") # {} /\ Having("current") # {}) \/ decks = Sides
    [] mode = "preflight" ->
         Having("baseline") = {} /\ "baseline" \notin decks /\ (Having("current") # {} \/ decks # {})
    [] mode = "final" -> Having("baseline") = {} /\ decks = {"current"} /\ Having("current") # {}

Ending(why, of) == [why |-> why, of |-> of]
Ended(why) == ended # None /\ ended.why = why
Add(of, what) == added' = Append(added, [of |-> of, what |-> what])
Turn == ended = None /\ index \in DOMAIN Members
Member == Members[index]
MemberSides == sides[Member]
-----------------------------------------------------------------------------
Refuse ==
  /\ ended = None /\ index = 0 /\ ~Accepts
  /\ ended' = Ending("refused", {})
  /\ UNCHANGED <<mode, sides, decks, index, ranked, added>>

(* The workbooks of a final package are compared with a deck read before. *)
Begin ==
  /\ ended = None /\ index = 0 /\ Accepts
  /\ index' = 1
  /\ IF mode = "final" THEN Add("deck", "preflight") ELSE UNCHANGED added
  /\ UNCHANGED <<mode, sides, decks, ranked, ended>>

(* A nested run fails or is cancelled. *)
Fail ==
  /\ ended = None /\ Accepts
  /\ ended' = Ending("failed", {})
  /\ UNCHANGED <<mode, sides, decks, index, ranked, added>>

Compares == mode = "cycle" /\ MemberSides = Sides

Compare ==
  /\ Turn /\ Compares
  /\ Add(Member, "changes")
  /\ index' = index + 1
  /\ UNCHANGED <<mode, sides, decks, ranked, ended>>

(* Ranked tables: the other workbooks are looked at before it is asked.   *)

(* Mutant: the first workbook that needs a confirmation ends the run. *)
AskRowsAtOnce ==
  /\ Turn /\ Compares
  /\ ended' = Ending("rows", {Member}) /\ ranked' = ranked \cup {Member}
  /\ UNCHANGED <<mode, sides, decks, index, added>>

AskRows ==
  /\ Turn /\ Compares
  /\ ranked' = ranked \cup {Member} /\ index' = index + 1
  /\ UNCHANGED <<mode, sides, decks, added, ended>>

(* Prerequisites or blank keys of one workbook end the run. *)
AskOther ==
  /\ Turn /\ Compares
  /\ ended' = Ending("other", {Member})
  /\ UNCHANGED <<mode, sides, decks, index, ranked, added>>

(* A workbook without its baseline is only looked at. *)
Preflight ==
  /\ Turn /\ "current" \in MemberSides /\ ~Compares
  /\ added' = added \o IF mode = "cycle"
       THEN <<[of |-> Member, what |-> "preflight"], [of |-> Member, what |-> "added"]>>
       ELSE <<[of |-> Member, what |-> "preflight"]>>
  /\ index' = index + 1
  /\ UNCHANGED <<mode, sides, decks, ranked, ended>>

Removed ==
  /\ Turn /\ MemberSides = {"baseline"} /\ mode = "cycle"
  /\ Add(Member, "removed")
  /\ index' = index + 1
  /\ UNCHANGED <<mode, sides, decks, ranked, ended>>

NoSuchMember ==
  /\ Turn /\ MemberSides = {}
  /\ index' = index + 1
  /\ UNCHANGED <<mode, sides, decks, ranked, added, ended>>

(* After the workbooks: ask for the rows, or the deck and the end. *)
DeckFindings ==
  CASE mode = "cycle" /\ decks = Sides -> <<[of |-> "deck", what |-> "changes"]>>
    [] mode = "final" -> <<[of |-> "deck", what |-> "reconciled"]>>
    [] mode # "final" /\ "current" \in decks /\ ~(mode = "cycle" /\ decks = Sides) ->
         <<[of |-> "deck", what |-> "preflight"]>>
    [] OTHER -> <<>>

Finish ==
  /\ ended = None /\ index > Len(Members)
  /\ IF ranked # {}
     THEN ended' = Ending("rows", ranked) /\ UNCHANGED added
     ELSE ended' = Ending("done", {}) /\ added' = added \o DeckFindings
  /\ UNCHANGED <<mode, sides, decks, index, ranked>>

PackageNext ==
  \/ Refuse \/ Begin \/ Fail \/ Compare \/ AskRows \/ AskOther \/ Preflight \/ Removed
  \/ NoSuchMember \/ Finish

PackageSpec == PackageInit /\ [][PackageNext]_packageVars
-----------------------------------------------------------------------------
(* When rows must be confirmed, every pair of workbooks that is not named  *)
(* has been compared and needs nothing, so that one answer is enough       *)
(* (_aggregate_ranked_package_actions); a package that is done has looked  *)
(* once at each of its workbooks and at its current deck.                  *)
PackageWhole ==
  /\ IsInjective(added)
  /\ Ended("rows") =>
       \A m \in Names : sides[m] = Sides =>
         (m \in ended.of) # (\E i \in DOMAIN added : added[i].of = m)
  /\ Ended("done") =>
       {added[i].of : i \in DOMAIN added} =
         {m \in Names : sides[m] # {}} \cup IF "current" \in decks THEN {"deck"} ELSE {}
=============================================================================
