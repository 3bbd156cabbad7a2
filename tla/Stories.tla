------------------------------- MODULE Stories -------------------------------
(***************************************************************************)
(* The stories of a run (story.py), built twice: build_stories from the    *)
(* list of all findings, for a page, and StoryStreamer (review_stream.py)  *)
(* in three passes that see one finding at a time, for the reports and the *)
(* record of the run.  The passes are the actions of this module; what     *)
(* build_stories makes of the list is Told, stated as what it is to be.    *)
(***************************************************************************)
EXTENDS Integers, Sequences, FiniteSets, SequencesExt

CONSTANTS
  Tales,      \* the sequences of findings to be told
  Primary,    \* the workbook whose stories carry no name
  None

(* A finding: the workbook it belongs to, its class as far as stories tell *)
(* classes apart, what speaks for it, the words it adds to its cell (for a *)
(* driver, those that name it), its event, and its cell.                   *)
Classes == {"driver", "formula", "style", "label", "other"}
Marks == {"accepted", "growth", "turnover", "noise", "errors", "inherited", "wrapped",
          "derived", "recent"}

VARIABLES
  tale,
  pass,       \* observe, classify, accumulate, done
  at,         \* the finding to be read next
  machines,   \* per workbook (_StoryMachine)
  told        \* the stories

storyVars == <<tale, pass, at, machines, told>>

BooksOf(t) == {t[i].book : i \in DOMAIN t}
Empty == [x \in {} |-> x]
Put(f, x, y) == [z \in DOMAIN f \cup {x} |-> IF z = x THEN y ELSE f[z]]

(* What a machine keeps: findings read; for each driver the least driver   *)
(* it is joined with; the drivers that brought words and events first; the *)
(* component of each word, once frozen; components of wrapper and error    *)
(* events; linked cells; the assignments; the stories' members.            *)
NewMachine ==
  [total |-> 0, root |-> Empty, words |-> Empty, events |-> Empty, of |-> Empty,
   wrappers |-> Empty, populations |-> Empty, linked |-> Empty,
   assigned |-> <<>>, states |-> Empty, read |-> 0]

StoriesInit ==
  /\ tale \in Tales
  /\ pass = "observe" /\ at = 1
  /\ machines = [b \in BooksOf(tale) |-> NewMachine]
  /\ told = {}
-----------------------------------------------------------------------------
(* The first pass joins drivers that share a word or an event.             *)

IsDriver(f) == f.class = "driver" /\ "growth" \notin f.marks

(* _UnionFind: the lesser root stands for both. *)
Join(root, x, y) ==
  LET low == Min({root[x], root[y]}) high == Max({root[x], root[y]})
  IN  [z \in DOMAIN root |-> IF root[z] = high THEN low ELSE root[z]]
JoinAll(root, S, y) == FoldSet(LAMBDA x, r : Join(r, x, y), root, S)

(* The drivers that f is to be joined with. *)
(* Mutant: an event of drivers is not an edge. *)
KnownByWords(m, f) == {m.words[w] : w \in f.words \cap DOMAIN m.words}
Known(m, f) ==
  {m.words[w] : w \in f.words \cap DOMAIN m.words}
    \cup {m.events[e] : e \in {f.event} \cap DOMAIN m.events}

Observed(m, f) ==
  LET i == m.total
  IN  IF ~IsDriver(f) THEN [m EXCEPT !.total = i + 1]
      ELSE [m EXCEPT
              !.total = i + 1,
              !.root = JoinAll(Put(@, i, i), Known(m, f), i),
              !.words = [w \in DOMAIN @ \cup f.words |-> IF w \in DOMAIN @ THEN @[w] ELSE i],
              !.events = IF f.event = None \/ f.event \in DOMAIN @ THEN @ ELSE Put(@, f.event, i)]

Frozen(m) == [m EXCEPT !.of = [w \in DOMAIN m.words |-> m.root[m.words[w]]]]

Observe ==
  /\ pass = "observe" /\ at <= Len(tale)
  /\ machines' = [machines EXCEPT ![tale[at].book] = Observed(@, tale[at])]
  /\ at' = at + 1
  /\ UNCHANGED <<tale, pass, told>>

Freeze ==
  /\ pass = "observe" /\ at > Len(tale)
  /\ machines' = [b \in DOMAIN machines |-> Frozen(machines[b])]
  /\ pass' = "classify" /\ at' = 1
  /\ UNCHANGED <<tale, told>>
-----------------------------------------------------------------------------
(* The second pass: the first rule that fits says which story it is.       *)

Unassigned == <<"residual", -1>>
FirstFree(m) == m.total + 1

(* The rules before that of the drivers. *)
Before(f) ==
  CASE "accepted" \in f.marks -> "accepted_differences"
    [] "growth" \in f.marks \/ "turnover" \in f.marks -> "data_refresh"
    [] "noise" \in f.marks -> "representation_noise"
    [] "errors" \in f.marks /\ f.event # None -> "error_population"
    [] "inherited" \in f.marks -> "inherited"
    [] OTHER -> None

After(f) ==
  CASE f.class = "label" /\ "derived" \in f.marks -> <<"derived_labels", 0>>
    [] "recent" \in f.marks -> <<"data_refresh", 0>>
    [] OTHER -> Unassigned

Wrapped(f) == "wrapped" \in f.marks /\ f.event # None

Numbered(map, e, n) == IF e \in DOMAIN map THEN map ELSE Put(map, e, n)

(* Where formula f of machine m belongs, and what m then knows. *)
Linked(m, f, key) ==
  [m EXCEPT !.assigned = Append(@, key),
            !.linked = IF f.cell = None THEN @ ELSE Put(@, f.cell, key)]

Assign(m, key) == [m EXCEPT !.assigned = Append(@, key)]

Classified(m, f) ==
  LET i == Len(m.assigned)
      errors == Numbered(m.populations, f.event,
                         FirstFree(m) + Cardinality(DOMAIN m.wrappers) + Cardinality(DOMAIN m.populations))
      wraps == Numbered(m.wrappers, f.event, FirstFree(m) + Cardinality(DOMAIN m.wrappers))
      found == {m.of[w] : w \in f.words \cap DOMAIN m.of}
  IN  CASE Before(f) = "error_population" ->
             Assign([m EXCEPT !.populations = errors], <<"error_population", errors[f.event]>>)
        [] Before(f) \notin {None, "error_population"} -> Assign(m, <<Before(f), 0>>)
        [] Before(f) = None /\ IsDriver(f) -> Assign(m, <<"structure_driver", m.root[i]>>)
        [] Before(f) = None /\ f.class = "formula" /\ found # {} ->
             Linked(m, f, <<"structure_driver", Min(found)>>)
        [] Before(f) = None /\ f.class = "formula" /\ found = {} /\ Wrapped(f) ->
             Linked([m EXCEPT !.wrappers = wraps], f, <<"structure_driver", wraps[f.event]>>)
        [] OTHER -> Assign(m, After(f))

Classify ==
  /\ pass = "classify" /\ at <= Len(tale)
  /\ machines' = [machines EXCEPT ![tale[at].book] = Classified(@, tale[at])]
  /\ at' = at + 1
  /\ UNCHANGED <<tale, pass, told>>

StartAccumulation ==
  /\ pass = "classify" /\ at > Len(tale)
  /\ pass' = "accumulate" /\ at' = 1
  /\ UNCHANGED <<tale, machines, told>>
-----------------------------------------------------------------------------
(* The third pass: a change of format joins the formula of its cell, and   *)
(* each finding is added to its story.                                     *)

(* Mutant: a style that has a story of its own goes to its cell's as well. *)
StoryOfCell(m, f, i) ==
  IF f.class = "style" /\ f.cell \in DOMAIN m.linked THEN m.linked[f.cell]
  ELSE m.assigned[i]

StoryOf(m, f, i) ==
  IF m.assigned[i] = Unassigned /\ f.class = "style" /\ f.cell \in DOMAIN m.linked
  THEN m.linked[f.cell] ELSE m.assigned[i]

Added(m, f, n) ==
  LET key == StoryOf(m, f, m.read + 1)
  IN  [m EXCEPT !.read = @ + 1,
                !.states = Put(@, key, (IF key \in DOMAIN @ THEN @[key] ELSE {}) \cup {n})]

Accumulate ==
  /\ pass = "accumulate" /\ at <= Len(tale)
  /\ machines' = [machines EXCEPT ![tale[at].book] = Added(@, tale[at], at)]
  /\ at' = at + 1
  /\ UNCHANGED <<tale, pass, told>>

(* What a story's name is made from: the words of its drivers, or the      *)
(* least event of its formulas, or the number of its component.            *)
Anchor(kind, component, S) ==
  LET words == UNION {tale[n].words : n \in {k \in S : tale[k].class = "driver"}}
      events == {tale[n].event : n \in {k \in S : tale[k].class = "formula"}} \ {None}
  IN  CASE kind = "error_population" ->
             <<"event", {tale[Min({n \in S : tale[n].event # None})].event}>>
        [] kind = "structure_driver" /\ words # {} -> <<"words", words>>
        [] kind = "structure_driver" /\ words = {} /\ events # {} -> <<"event", events>>
        [] kind = "structure_driver" /\ words = {} /\ events = {} -> <<"component", component>>
        [] OTHER -> <<"kind", kind>>

Named(b, kind, anchor) == <<IF Cardinality(BooksOf(tale)) > 1 THEN b ELSE Primary, kind, anchor>>

Materialize ==
  /\ pass = "accumulate" /\ at > Len(tale)
  /\ pass' = "done"
  /\ told' = UNION {{[id |-> Named(b, k[1], Anchor(k[1], k[2], machines[b].states[k])),
                      kind |-> k[1], members |-> machines[b].states[k]] :
                       k \in DOMAIN machines[b].states} : b \in DOMAIN machines}
  /\ UNCHANGED <<tale, at, machines>>

StoriesNext ==
  Observe \/ Freeze \/ Classify \/ StartAccumulation \/ Accumulate \/ Materialize

StoriesSpec == StoriesInit /\ [][StoriesNext]_storyVars
-----------------------------------------------------------------------------
(* What build_stories is to make of the findings of one workbook.          *)

Of(b) == {n \in DOMAIN tale : tale[n].book = b}
Drivers(b) == {n \in Of(b) : IsDriver(tale[n])}
Touch(x, y) ==
  \/ tale[x].words \cap tale[y].words # {}
  \/ tale[x].event = tale[y].event /\ tale[x].event # None

(* The drivers that a chain of shared words and events leads to. *)
Component(b, n) ==
  LET grow[k \in 0..Len(tale)] ==
        IF k = 0 THEN {n}
        ELSE LET last == grow[k - 1]
             IN  last \cup {y \in Drivers(b) \ last : \E x \in last : Touch(x, y)}
  IN  grow[Len(tale)]

Reaches(b, n) == {x \in Drivers(b) : tale[x].words \cap tale[n].words # {}}

(* What story finding n is of: the others of it have the same answer. *)
Direct(b, n) ==
  LET f == tale[n]
      heads == {Min(Component(b, x)) : x \in Reaches(b, n)}
  IN  CASE Before(f) = "error_population" -> <<"error_population", "event", f.event>>
        [] Before(f) \notin {None, "error_population"} -> <<Before(f), "all", None>>
        [] Before(f) = None /\ IsDriver(f) -> <<"structure_driver", "driver", Min(Component(b, n))>>
        [] Before(f) = None /\ f.class = "formula" /\ heads # {} ->
             <<"structure_driver", "driver", Min(heads)>>
        [] Before(f) = None /\ f.class = "formula" /\ heads = {} /\ Wrapped(f) ->
             <<"structure_driver", "event", f.event>>
        [] OTHER -> <<After(f)[1], "all", None>>

(* The formulas at a cell that lead somewhere; the last one counts. *)
LinkedAt(b, c) ==
  {x \in Of(b) : tale[x].class = "formula" /\ tale[x].cell = c /\ c # None
                   /\ Direct(b, x)[1] = "structure_driver"}

Belongs(b, n) ==
  IF Direct(b, n)[1] = "residual" /\ tale[n].class = "style" /\ LinkedAt(b, tale[n].cell) # {}
  THEN Direct(b, Max(LinkedAt(b, tale[n].cell))) ELSE Direct(b, n)

ToldOf(b) ==
  LET story == [n \in Of(b) |-> Belongs(b, n)]
  IN  {{x \in Of(b) : story[x] = story[n]} : n \in Of(b)}
Told == UNION {ToldOf(b) : b \in BooksOf(tale)}
-----------------------------------------------------------------------------
(* Streamed, the stories are those of the list, each finding is in one of  *)
(* them, and no two have one name.                                         *)
StoriesAsListed ==
  pass = "done" =>
    /\ {s.members : s \in told} = Told
    /\ \A n \in DOMAIN tale : Cardinality({s \in told : n \in s.members}) = 1
    /\ \A s, t \in told : s.id = t.id => s = t
=============================================================================
