------------------------------- MODULE MCDesk -------------------------------
(***************************************************************************)
(* The components one analyst's desk is made of: the setup pages with      *)
(* their stored session and vault, what they ask of the scanned sheets,    *)
(* the pages of a stored run, the profiles, the desktop focus, and the     *)
(* launcher.  They share no state, so one of them moves in a behaviour,    *)
(* the one that the initial state chooses; the variables of the others are *)
(* None.                                                                   *)
(***************************************************************************)
EXTENDS Naturals, Sequences, FiniteSets, TLC

CONSTANTS
  Pages, Roles, Hashes, Sheets, MaxRev,                              \* ConfigSession
  Clients, Windows, Paths, Tasks, FileIds, MaxTokens, MaxEdits,      \* Focus
  Launchers, Servers, Ports,                                         \* Launcher
  Views, Columns, Queries, Attempts, MaxRequests,                    \* SetupQueries
  Tabs, Found, Groups, Severities, Engine, Remarks, Blank, MaxWrites, \* ReviewPage
  Names, Default, Editors, Promotions, Exports, Workspaces, Ours,
  Figures, MapTabs, MaxDialogs,                                      \* Profiles
  None

ASSUME NoneIsApart == None \notin Servers \cup Launchers
ASSUME SessionConstants == MaxRev \in Nat \ {0}
ASSUME FocusConstants == MaxTokens \in Nat /\ MaxEdits \in Nat /\ FileIds # {} /\ IsFiniteSet(Tasks)
ASSUME QueryConstants == Attempts \in Nat \ {0} /\ MaxRequests \in Nat
ASSUME ReviewConstants == Groups \subseteq SUBSET Found /\ Engine \in Severities /\ MaxWrites \in Nat
ASSUME ProfileConstants ==
  /\ Ours \in Names /\ Default \notin Names /\ IsFiniteSet(Figures)
  /\ Workspaces \cap (Editors \cup Promotions \cup Exports) = {}
  /\ Exports \cap (Editors \cup Promotions) = {}
  /\ Figures \cap (Editors \cup Promotions \cup Exports \cup Workspaces) = {}
  /\ \A C \in SUBSET (Editors \cup Promotions \cup Exports \cup Workspaces \cup Figures) : C # None

VARIABLES
  part,
  row, scan, vault, page, acked,
  enabled, client, registry, here, dialog, task, queue, helper, cooling, healthPending,
  window, disk, issued, edits, confirmed, acted, taken,
  launchLock, lock, marker, listener, launcher, server,
  view, token, preview, shown, columns, chosen, query, ratio, slot, sheets, heard, overtaken, disturbed,
  stored, signed, tabs, editable, mem, timing, writes, foreign, unsaved, undone,
  files, forms, mapping, listed, final, owed, raced

Session == INSTANCE ConfigSession
Desktop == INSTANCE Focus
Local == INSTANCE Launcher
Asked == INSTANCE SetupQueries
Shown == INSTANCE ReviewPage
Saved == INSTANCE Profiles

SessionOff == row = None /\ scan = None /\ vault = None /\ page = None /\ acked = None
DesktopOff ==
  /\ enabled = None /\ client = None /\ registry = None /\ here = None /\ dialog = None
  /\ task = None /\ queue = None /\ helper = None /\ cooling = None /\ healthPending = None
  /\ window = None /\ disk = None /\ issued = None /\ edits = None
  /\ confirmed = None /\ acted = None /\ taken = None
LocalOff ==
  /\ launchLock = None /\ lock = None /\ marker = None
  /\ listener = None /\ launcher = None /\ server = None
AskedOff ==
  /\ view = None /\ token = None /\ preview = None /\ shown = None /\ columns = None /\ chosen = None
  /\ query = None /\ ratio = None /\ slot = None /\ sheets = None
  /\ heard = None /\ overtaken = None /\ disturbed = None
ShownOff ==
  /\ stored = None /\ signed = None /\ tabs = None /\ editable = None /\ mem = None
  /\ timing = None /\ writes = None /\ foreign = None /\ unsaved = None /\ undone = None
SavedOff ==
  /\ files = None /\ forms = None /\ mapping = None /\ listed = None
  /\ final = None /\ owed = None /\ raced = None
sessionVars == <<row, scan, vault, page, acked>>
focusVars == <<enabled, client, registry, here, dialog, task, queue, helper, cooling, healthPending,
               window, disk, issued, edits, confirmed, acted, taken>>
localVars == <<launchLock, lock, marker, listener, launcher, server>>
askedVars == <<view, token, preview, shown, columns, chosen, query, ratio, slot, sheets,
               heard, overtaken, disturbed>>
shownVars == <<stored, signed, tabs, editable, mem, timing, writes, foreign, unsaved, undone>>
savedVars == <<files, forms, mapping, listed, final, owed, raced>>
deskVars == <<part, sessionVars, focusVars, localVars, askedVars, shownVars, savedVars>>

Init ==
  \/ /\ part = "session" /\ Session!Init
     /\ DesktopOff /\ LocalOff /\ AskedOff /\ ShownOff /\ SavedOff
  \/ /\ part = "focus" /\ Desktop!Init
     /\ SessionOff /\ LocalOff /\ AskedOff /\ ShownOff /\ SavedOff
  \/ /\ part = "launcher" /\ Local!Init
     /\ SessionOff /\ DesktopOff /\ AskedOff /\ ShownOff /\ SavedOff
  \/ /\ part = "queries" /\ Asked!QueriesInit
     /\ SessionOff /\ DesktopOff /\ LocalOff /\ ShownOff /\ SavedOff
  \/ /\ part = "review" /\ Shown!ReviewInit
     /\ SessionOff /\ DesktopOff /\ LocalOff /\ AskedOff /\ SavedOff
  \/ /\ part = "profiles" /\ Saved!ProfilesInit
     /\ SessionOff /\ DesktopOff /\ LocalOff /\ AskedOff /\ ShownOff

Next ==
  \/ /\ part = "session" /\ Session!Next
     /\ UNCHANGED <<part, focusVars, localVars, askedVars, shownVars, savedVars>>
  \/ /\ part = "focus" /\ Desktop!Next
     /\ UNCHANGED <<part, sessionVars, localVars, askedVars, shownVars, savedVars>>
  \/ /\ part = "launcher" /\ Local!Next
     /\ UNCHANGED <<part, sessionVars, focusVars, askedVars, shownVars, savedVars>>
  \/ /\ part = "queries" /\ Asked!QueriesNext
     /\ UNCHANGED <<part, sessionVars, focusVars, localVars, shownVars, savedVars>>
  \/ /\ part = "review" /\ Shown!ReviewNext
     /\ UNCHANGED <<part, sessionVars, focusVars, localVars, askedVars, savedVars>>
  \/ /\ part = "profiles" /\ Saved!ProfilesNext
     /\ UNCHANGED <<part, sessionVars, focusVars, localVars, askedVars, shownVars>>

(* Which page, task or window it is makes no difference; the same values stand *)
(* for the views, queries, columns, tabs and figures of another behaviour.   *)
Alike == Permutations(Tasks) \cup Permutations(Windows) \cup Permutations(Pages)

Spec == Init /\ [][Next]_deskVars
-----------------------------------------------------------------------------
(* The properties of the components, each of the behaviours of its own.      *)

(* Every component is well typed.                                            *)
TypesOK ==
  /\ part = "session" => Session!TypeOK
  /\ part = "focus" => Desktop!TypeOK
  /\ part = "launcher" => Local!TypeOK
  /\ part = "queries" => Asked!QueriesTypeOK
  /\ part = "review" => Shown!ReviewTypeOK
  /\ part = "profiles" => Saved!ProfilesTypeOK

(* A generation stands for one set of files (save_choices, attach), and a    *)
(* password is kept for the workbook it was typed for only                   *)
(* (_clear_changed_credentials, credential_vault).                           *)
SessionOfFiles == part = "session" => Session!ScanOfShownFiles /\ Session!PasswordOfSource

(* A save drops no decision its page has not read (save_choices).            *)
DropsOnlyKnown == [][part = "session" => Session!DropsKnown]_deskVars

(* Office is moved in confirmed documents only, once a token, and authority *)
(* taken back before the request is given is honoured (bind, focus).         *)
FocusAuthorized == part = "focus" => Desktop!ActsAsConfirmed /\ Desktop!RevocationHonoured

(* A local server that runs is found by its marker (claim, release).         *)
ServerIsFound == part = "launcher" => Local!ServerIsFound

(* The preview and the ratio that a setup page shows answer what is asked    *)
(* now, from all the cells (_drain_preview_requests, _recompute_key_overlap,  *)
(* SetupScanStore).                                                          *)
ShownIsAsked ==
  part = "queries" =>
    Asked!PreviewIsNewest /\ Asked!RatioOfColumns /\ Asked!AnswersAreWhole

(* Pages of one run show what the store holds, keep the decisions they were  *)
(* to keep, and are timed only while they are there (persist_group_review,   *)
(* open_cluster_confirmation, cleanup).                                      *)
DecisionsShown ==
  part = "review" => Shown!PageShowsStore /\ Shown!KnownDecisionsKept /\ Shown!TimerHasPage

(* No dialog loses what another has saved in a profile, and each figure is   *)
(* counted once (save_draft, apply_promotion, persist_confirmed_mapping).    *)
ProfilesKept == part = "profiles" => Saved!SavedIsKept /\ Saved!MappingsAddUp
=============================================================================
