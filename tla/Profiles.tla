------------------------------ MODULE Profiles ------------------------------
(***************************************************************************)
(* The named profiles, one file each, and everything that writes them: the *)
(* profile editor, the promotion of a finding, the configuration of a run  *)
(* saved from its page, the setup page, and the mappings confirmed on the  *)
(* pages of a run.  Each of these has read the profile some time before it *)
(* writes.  A profile is the set of what has been put into it; each dialog *)
(* puts in one thing, which here has the forms's name.                    *)
(***************************************************************************)
EXTENDS Naturals, FiniteSets

CONSTANTS
  Names,           \* of profiles
  Default,         \* the built-in profile, which has no file
  Editors, Promotions, Exports, Workspaces,  \* dialogs, by what they do
  Ours,            \* the profile the run was made with
  Figures,         \* the figures a run suggests sources for
  MapTabs,         \* pages of that run
  MaxDialogs,      \* bound on the dialogs that are opened at all
  None

Dialogs == Editors \cup Promotions \cup Exports \cup Workspaces
Contracts == Exports \cup Workspaces   \* what they put in is the input contract
Contents == SUBSET (Dialogs \cup Figures)

VARIABLES
  files,           \* the profile under each name
  forms,          \* per forms: the profile it is about, what it read, its phase
  mapping,             \* the run's row: figures without a source, and how many have one
  listed,            \* the same on each of its pages
  final,           \* the run is signed
  owed,            \* history: what the analyst was told is in each profile
  raced            \* history: what was saved while a promotion was being checked

profileVars == <<files, forms, mapping, listed, final, owed, raced>>

Closed == [name |-> None, read |-> None, phase |-> "closed"]
Never == [Closed EXCEPT !.phase = "done"]
Mappings == [open : SUBSET Figures, mapped : 0..Cardinality(Figures)]

ProfilesTypeOK ==
  /\ files \in [Names -> {None} \cup Contents]
  /\ forms \in [Dialogs -> [name : Names \cup {Default, None}, read : {None} \cup Contents,
                             phase : {"closed", "open", "checking", "done"}]]
  /\ mapping \in Mappings /\ listed \in [MapTabs -> Mappings] /\ final \in BOOLEAN
  /\ owed \in [Names -> Contents] /\ raced \in Contents

AtFirst == [open |-> Figures, mapped |-> 0]

ProfilesInit ==
  /\ files \in [Names -> {{}, None}] /\ files[Ours] = {}
  /\ \E S \in SUBSET Dialogs :
       /\ Cardinality(S) <= MaxDialogs
       /\ forms = [d \in Dialogs |-> IF d \in S THEN Closed ELSE Never]
  /\ mapping = AtFirst /\ listed = [p \in MapTabs |-> AtFirst] /\ final = FALSE
  /\ owed = [n \in Names |-> {}] /\ raced = {}

mappingVars == <<mapping, listed, final>>

ProfileOf(n) == IF n = Default THEN {} ELSE files[n]

(* save_profile: complete under a temporary name, then in place.  Of what  *)
(* it says, x is new; a contract takes the place of another.               *)
WithNew(content, x) ==
  (IF x \in Contracts THEN content \ Contracts ELSE content) \cup {x}

Checked(n, x) == \E q \in Promotions \ {x} : forms[q].phase = "checking" /\ forms[q].name = n

Told(n, x) ==
  /\ owed' = [owed EXCEPT ![n] = WithNew(@, x)]
  /\ raced' = IF Checked(n, x) THEN raced \cup {x} ELSE raced

SaveProfile(n, content, x) == files' = [files EXCEPT ![n] = content] /\ Told(n, x)

Goes(d, n, read, phase) == forms' = [forms EXCEPT ![d] = [name |-> n, read |-> read, phase |-> phase]]
-----------------------------------------------------------------------------
(* create_profile *)
CreateProfile(n) ==
  /\ files[n] = None
  /\ files' = [files EXCEPT ![n] = {}]
  /\ UNCHANGED <<forms, mappingVars, owed, raced>>

(* A dialog is opened, or shows another profile.  An export may be about a *)
(* profile that is still to be made; a setup page may be on the built-in.  *)
OpenDialog(d, n) ==
  /\ forms[d].phase = "closed" \/ (forms[d].phase = "open" /\ d \in Exports \cup Editors)
  /\ d \in Promotions => n = Ours
  /\ d \notin Exports => ProfileOf(n) # None
  /\ d \notin Workspaces => n # Default
  /\ Goes(d, n, ProfileOf(n), "open")
  /\ UNCHANGED <<files, mappingVars, owed, raced>>

(* Mutant: what a dialog shows is taken to be what the file says. *)
CurrentAlways(d) == TRUE
Current(d) == ProfileOf(forms[d].name) = forms[d].read

(* save_draft, under the same name or under one that is free; then the old *)
(* file goes.  When it cannot be removed the new one is.                   *)
SaveDraft(e, m) ==
  /\ forms[e].phase = "open" /\ Current(e)
  /\ LET n == forms[e].name
         content == forms[e].read \cup {e}
     IN  /\ m = n \/ files[m] = None
         /\ IF m = n THEN SaveProfile(n, content, e)
            ELSE /\ files' = [files EXCEPT ![m] = content, ![n] = None]
                 /\ owed' = [owed EXCEPT ![m] = owed[n] \cup {e}, ![n] = {}]
                 /\ raced' = IF Checked(n, e) \/ Checked(m, e) THEN raced \cup content ELSE raced
         /\ Goes(e, m, content, "done")
  /\ UNCHANGED mappingVars

(* apply_promotion compares, has the draft checked against the run's files *)
(* in the exclusive slot, and saves what it made of the profile it read.   *)
CheckPromotion(q) ==
  /\ forms[q].phase = "open" /\ Current(q)
  /\ Goes(q, forms[q].name, forms[q].read, "checking")
  /\ UNCHANGED <<files, mappingVars, owed, raced>>

RefusePromotion(q) ==
  /\ forms[q].phase = "checking"
  /\ Goes(q, forms[q].name, forms[q].read, "open")
  /\ UNCHANGED <<files, mappingVars, owed, raced>>

(* The audit record that follows may fail; the profile stays. *)
SavePromotion(q) ==
  /\ forms[q].phase = "checking"
  /\ SaveProfile(forms[q].name, forms[q].read \cup {q}, q)
  /\ Goes(q, forms[q].name, forms[q].read, "done")
  /\ UNCHANGED mappingVars

(* open_configuration_promotion_dialog.do_save *)
ExportConfiguration(x) ==
  /\ forms[x].phase = "open" /\ Current(x)
  /\ LET n == forms[x].name
         found == IF files[n] = None THEN {} ELSE files[n]
     IN  SaveProfile(n, WithNew(found, x), x) /\ Goes(x, n, forms[x].read, "done")
  /\ UNCHANGED mappingVars

(* _finalize of the setup page: the profile of the page, or a new one made *)
(* from what that profile is now.                                          *)
SaveSetup(w, m) ==
  /\ forms[w].phase = "open" /\ m # Default
  /\ LET n == forms[w].name IN
       /\ ProfileOf(n) # None
       /\ IF m = n THEN Current(w) ELSE files[m] = None
       /\ SaveProfile(m, WithNew(ProfileOf(n), w), w)
       /\ Goes(w, m, WithNew(ProfileOf(n), w), "open")
  /\ UNCHANGED mappingVars
-----------------------------------------------------------------------------
(* The mapping review of the run.                                          *)

LoadTab(p) ==
  /\ listed' = [listed EXCEPT ![p] = mapping]
  /\ UNCHANGED <<files, forms, mapping, final, owed, raced>>

SignMapped ==
  /\ ~final /\ final' = TRUE
  /\ UNCHANGED <<files, forms, mapping, listed, owed, raced>>

(* Mutant: the figure stays among those without a source. *)
AfterStaysOpen(v, g) == [open |-> v.open, mapped |-> v.mapped + 1]
After(v, g) == [open |-> v.open \ {g}, mapped |-> v.mapped + 1]

(* persist_confirmed_mapping reads the profile and writes it at once; the  *)
(* row gets what the page knows.  The run may have been signed in between, *)
(* or the database refuse.                                                 *)
ConfirmMapping(p, g, saved) ==
  /\ ~final /\ g \in listed[p].open /\ files[Ours] # None
  /\ SaveProfile(Ours, files[Ours] \cup {g}, g)
  /\ listed' = [listed EXCEPT ![p] = After(@, g)]
  /\ IF saved THEN mapping' = listed'[p] /\ UNCHANGED final
     ELSE UNCHANGED mapping /\ final' \in {final, TRUE}
  /\ UNCHANGED forms
-----------------------------------------------------------------------------
ProfilesNext ==
  \/ \E n \in Names : CreateProfile(n)
  \/ \E d \in Dialogs, n \in Names \cup {Default} : OpenDialog(d, n)
  \/ \E e \in Editors, m \in Names : SaveDraft(e, m)
  \/ \E q \in Promotions : CheckPromotion(q) \/ RefusePromotion(q) \/ SavePromotion(q)
  \/ \E x \in Exports : ExportConfiguration(x)
  \/ \E w \in Workspaces, m \in Names : SaveSetup(w, m)
  \/ \E p \in MapTabs : LoadTab(p)
  \/ SignMapped
  \/ \E p \in MapTabs, g \in Figures, saved \in BOOLEAN : ConfirmMapping(p, g, saved)

ProfilesSpec == ProfilesInit /\ [][ProfilesNext]_profileVars
-----------------------------------------------------------------------------
(* What the analyst was told has been saved in a profile is in it, however *)
(* many dialogs and tabs write it, unless it was saved while a promotion   *)
(* was being checked.                                                      *)
SavedIsKept ==
  \A n \in Names : owed[n] \subseteq raced \cup (IF files[n] = None THEN {} ELSE files[n])

(* The run and its pages count each figure once, as mapped or as open, and *)
(* count no more as mapped than the analyst confirmed.                     *)
MappingsAddUp ==
  \A v \in {mapping} \cup {listed[p] : p \in MapTabs} :
    /\ v.mapped + Cardinality(v.open) = Cardinality(Figures)
    /\ v.mapped <= Cardinality((UNION {owed[n] : n \in Names}) \cap Figures)
=============================================================================
