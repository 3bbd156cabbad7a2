---------------------------- MODULE ConfigSession ----------------------------
(***************************************************************************)
(* One configuration session: its row (history/config_session.py), the     *)
(* password vault (ui/credential_vault.py), and the two kinds of page that *)
(* work on it: the setup page (ui/config_workspace.py) and the Files page  *)
(* (ui/app.py).                                                            *)
(*                                                                         *)
(* Every page handler is synchronous on the event loop, so one is one      *)
(* step; only an upload on the setup page waits (for the file and its      *)
(* hash) between its start and the save.  A page saves with the revision   *)
(* it last saw, and with the choices it read when it was opened.           *)
(*                                                                         *)
(* A workbook role stands for everything of the input signature, mode and  *)
(* member order included; a sheet for everything decided on it.            *)
(***************************************************************************)
EXTENDS Naturals, FiniteSets

CONSTANTS
  Pages,   \* pages that may show the session
  Roles,   \* workbook roles of the run
  Hashes,  \* contents a workbook may have
  Sheets,  \* sheets on which the analyst decides something
  None,
  MaxRev   \* bound: revisions of the row

VARIABLES
  row,     \* the config_sessions row, None once it is deleted
  scan,    \* per generation: the files its setup job was given, the sheets it has read
  vault,   \* the entries of this session: [gen, role, hash, typed]
  page,    \* the pages
  acked    \* sheets whose decision a page was told is saved

vars == <<row, scan, vault, page, acked>>

Revs == 1..MaxRev
Inputs == [Roles -> Hashes \cup {None}]
NoScan == [files |-> None, ready |-> {}]

(* files, loaded, own: what was read at the opening, and what this page has  *)
(* saved itself; view: the decisions shown; seen: the sheets they are drawn  *)
(* for; creds: passwords with the content they were typed for.               *)
Closed == [kind |-> "closed", rev |-> 1, gen |-> 1, files |-> [r \in Roles |-> None],
           loaded |-> {}, own |-> {}, view |-> {}, seen |-> {}, creds |-> {}, uploads |-> {}]

TypeOK ==
  /\ row = None \/ row \in [rev : Revs, gen : Revs, files : Inputs, decided : SUBSET Sheets]
  /\ scan \in [Revs -> [files : Inputs \cup {None}, ready : SUBSET Sheets]]
  /\ vault \subseteq [gen : Revs, role : Roles, hash : Hashes, typed : Hashes]
  /\ page \in [Pages -> [kind : {"closed", "setup", "left", "files"}, rev : Revs, gen : Revs,
       files : Inputs, loaded : SUBSET Sheets, own : SUBSET Sheets, view : SUBSET Sheets,
       seen : SUBSET Sheets, creds : SUBSET [role : Roles, typed : Hashes],
       uploads : SUBSET [role : Roles, hash : Hashes]]]
  /\ acked \subseteq Sheets

Init ==
  /\ \E h \in Hashes : row = [rev |-> 1, gen |-> 1, files |-> [r \in Roles |-> h], decided |-> {}]
  /\ scan = [g \in Revs |-> NoScan] /\ vault = {} /\ acked = {}
  /\ page = [p \in Pages |-> Closed]

-----------------------------------------------------------------------------
(* The store and the vault. *)

(* Mutant: a late save of another revision is taken. *)
FreshAlways(rev) == row # None /\ row.rev < MaxRev

(* save_choices refuses another revision than the row's, and a deleted row. *)
Fresh(rev) == row # None /\ row.rev < MaxRev /\ rev = row.rev

(* Mutant: a replaced file keeps the generation of the one it replaces. *)
GenerationByRoles(files) ==
  IF \A r \in Roles : (files[r] = None) = (row.files[r] = None) THEN row.gen ELSE row.gen + 1

(* A new input signature is a new generation. *)
Generation(files) == IF files = row.files THEN row.gen ELSE row.gen + 1

(* The choices replace what was there. *)
SaveChoices(files, decided) ==
  row' = [rev |-> row.rev + 1, gen |-> Generation(files), files |-> files, decided |-> decided]

(* store_bundle: the passwords replace all entries of the session; each is   *)
(* bound to the content its role has.                                        *)
Bundle(gen, files, creds) ==
  {[gen |-> gen, role |-> c.role, hash |-> files[c.role], typed |-> c.typed] :
     c \in {d \in creds : files[d.role] # None}}

(* claim_snapshot: the entries of this generation and these contents go to   *)
(* the page, all others are dropped.                                         *)
Claim(gen, files) ==
  {[role |-> v.role, typed |-> v.typed] : v \in {e \in vault : e.gen = gen /\ e.hash = files[e.role]}}

(* Mutant: the passwords follow the role. *)
AllPasswords(creds, before, after) == creds
UnchangedSources(creds, before, after) ==
  {c \in creds : before[c.role] = after[c.role] /\ after[c.role] # None}

-----------------------------------------------------------------------------
(* Opening pages. *)

Opened(kind) ==
  [Closed EXCEPT !.kind = kind, !.rev = row.rev, !.gen = row.gen, !.files = row.files,
                 !.creds = Claim(row.gen, row.files)]

(* The setup page attaches to the job of its generation, or starts one, and  *)
(* draws the sheets that are ready with the decisions it has loaded.         *)
OpenSetup(p) ==
  /\ page[p].kind = "closed" /\ row # None
  /\ LET ready == scan[row.gen].ready
     IN page' = [page EXCEPT ![p] = [Opened("setup") EXCEPT !.loaded = row.decided,
                    !.seen = ready, !.view = row.decided \cap ready]]
  /\ scan' = [scan EXCEPT ![row.gen].files = IF @ = None THEN row.files ELSE @]
  /\ vault' = {}
  /\ UNCHANGED <<row, acked>>

OpenFiles(p) ==
  /\ page[p].kind = "closed" /\ row # None
  /\ page' = [page EXCEPT ![p] = Opened("files")]
  /\ vault' = {}
  /\ UNCHANGED <<row, scan, acked>>

ClosePage(p) ==
  /\ page[p].kind \in {"setup", "files"}
  /\ page' = [page EXCEPT ![p] = Closed]
  /\ UNCHANGED <<row, scan, vault, acked>>

-----------------------------------------------------------------------------
(* The setup page. *)

(* A sheet is read for a generation some page has asked for. *)
SheetReady(g, s) ==
  /\ scan[g].files # None /\ s \notin scan[g].ready
  /\ scan' = [scan EXCEPT ![g].ready = @ \cup {s}]
  /\ UNCHANGED <<row, vault, page, acked>>

(* Retry analysis: the replaced job starts without results. *)
RetryAnalysis(p) ==
  /\ page[p].kind = "setup" /\ scan[page[p].gen].files # None
  /\ scan' = [scan EXCEPT ![page[p].gen] = [files |-> page[p].files, ready |-> {}]]
  /\ UNCHANGED <<row, vault, page, acked>>

(* poll finds other sheets than it has drawn, and draws all of them afresh   *)
(* from the choices read at the opening (_seed_member_reviews).              *)
Poll(p) ==
  /\ page[p].kind = "setup" /\ scan[page[p].gen].files # None
  /\ page[p].seen # scan[page[p].gen].ready
  /\ page' = [page EXCEPT ![p].seen = scan[page[p].gen].ready,
                          ![p].view = page[p].loaded \cap scan[page[p].gen].ready]
  /\ UNCHANGED <<row, scan, vault, acked>>

(* _persist_choices writes the decisions that are drawn, and no others; a    *)
(* conflict is shown and the decision stays on the page.  s may be decided   *)
(* already: any control of the page saves.                                   *)
Decide(p, s) ==
  /\ page[p].kind = "setup" /\ s \in page[p].seen
  /\ LET view == page[p].view \cup {s}
     IN IF Fresh(page[p].rev)
        THEN /\ SaveChoices(page[p].files, view)
             /\ acked' = acked \cup {s}
             /\ page' = [page EXCEPT ![p] = [page[p] EXCEPT !.view = view, !.rev = row.rev + 1,
                                                      !.own = @ \cup view]]
        ELSE page' = [page EXCEPT ![p].view = view] /\ UNCHANGED <<row, acked>>
  /\ UNCHANGED <<scan, vault>>

TypePassword(p, r) ==
  /\ page[p].kind = "setup" /\ page[p].files[r] # None
  /\ page' = [page EXCEPT ![p].creds = {c \in @ : c.role # r} \cup {[role |-> r, typed |-> page[p].files[r]]}]
  /\ UNCHANGED <<row, scan, vault, acked>>

(* _persist_input_state, from the page as it was opened: the generation that *)
(* was opened is discarded, passwords of unchanged files go to the vault,    *)
(* and the browser leaves the page.  Uploads of the page that are under way  *)
(* go on.  The caller says which uploads are left.                           *)
PersistInputState(p, files, left) ==
  IF Fresh(page[p].rev)
  THEN /\ SaveChoices(files, page[p].loaded)
       /\ scan' = IF row'.gen = page[p].gen THEN scan ELSE [scan EXCEPT ![page[p].gen] = NoScan]
       /\ vault' = Bundle(row'.gen, files, UnchangedSources(page[p].creds, page[p].files, files))
       /\ page' = [page EXCEPT ![p] = [page[p] EXCEPT !.kind = "left", !.rev = row.rev + 1,
                     !.creds = {}, !.uploads = left, !.own = @ \cup page[p].loaded]]
       /\ UNCHANGED acked
  ELSE page' = [page EXCEPT ![p].uploads = left] /\ UNCHANGED <<row, scan, vault, acked>>

(* Clear a role, or add roles for another pair, which changes no file. *)
ClearFile(p, r) ==
  /\ page[p].kind = "setup" /\ page[p].files[r] # None
  /\ PersistInputState(p, [page[p].files EXCEPT ![r] = None], page[p].uploads)

AddMemberRoles(p) ==
  /\ page[p].kind = "setup"
  /\ PersistInputState(p, page[p].files, page[p].uploads)

BeginUpload(p, r, h) ==
  /\ page[p].kind = "setup" /\ \A u \in page[p].uploads : u.role # r
  /\ page' = [page EXCEPT ![p].uploads = @ \cup {[role |-> r, hash |-> h]}]
  /\ UNCHANGED <<row, scan, vault, acked>>

(* The rest of _replace_file. *)
EndUpload(p, u) ==
  /\ u \in page[p].uploads
  /\ PersistInputState(p, [page[p].files EXCEPT ![u.role] = u.hash], page[p].uploads \ {u})

Leave(p) ==
  /\ page[p].kind = "left" /\ page[p].uploads = {}
  /\ page' = [page EXCEPT ![p] = Closed]
  /\ UNCHANGED <<row, scan, vault, acked>>

BackToFiles(p) ==
  /\ page[p].kind = "setup" /\ page[p].uploads = {}
  /\ vault' = Bundle(page[p].gen, page[p].files, page[p].creds)
  /\ page' = [page EXCEPT ![p] = Closed]
  /\ UNCHANGED <<row, scan, acked>>

(* Discard setup: the decisions are taken out of the row, the job of this    *)
(* generation is forgotten.                                                  *)
DiscardSetup(p) ==
  /\ page[p].kind = "setup" /\ page[p].uploads = {} /\ Fresh(page[p].rev)
  /\ SaveChoices(page[p].files, {})
  /\ acked' = {}
  /\ scan' = [scan EXCEPT ![page[p].gen] = NoScan]
  /\ page' = [page EXCEPT ![p] = Closed]
  /\ UNCHANGED vault

-----------------------------------------------------------------------------
(* The Files page. *)

ChooseFile(p, r, h) ==
  /\ page[p].kind = "files" /\ page[p].files[r] # h
  /\ page' = [page EXCEPT ![p].files[r] = h]
  /\ UNCHANGED <<row, scan, vault, acked>>

(* Continue: the decisions are read again, the files are those of the page.  *)
(* The page shows each password beside its role, so what it hands over       *)
(* counts as typed for the file that is chosen.                              *)
Continue(p) ==
  /\ page[p].kind = "files" /\ Fresh(page[p].rev)
  /\ SaveChoices(page[p].files, row.decided)
  /\ \E typed \in SUBSET {r \in Roles : page[p].files[r] # None} :
       vault' = Bundle(row'.gen, page[p].files, {[role |-> r, typed |-> page[p].files[r]] : r \in typed})
  /\ page' = [page EXCEPT ![p] = Closed]
  /\ UNCHANGED <<scan, acked>>

(* Discard the resumed setup: refused when the row is not the one shown. *)
DiscardResumed(p) ==
  /\ page[p].kind = "files" /\ row # None /\ row.rev = page[p].rev
  /\ row' = None /\ vault' = {} /\ acked' = {}
  /\ scan' = [scan EXCEPT ![row.gen] = NoScan]
  /\ page' = [page EXCEPT ![p] = Closed]

(* The server restarts: the row stays, unless it is a week old. *)
Restart ==
  /\ row' \in {row, None}
  /\ scan' = [g \in Revs |-> NoScan] /\ vault' = {}
  /\ page' = [p \in Pages |-> Closed]
  /\ acked' = IF row' = None THEN {} ELSE acked

Next ==
  \/ \E p \in Pages :
       \/ OpenSetup(p) \/ OpenFiles(p) \/ ClosePage(p) \/ RetryAnalysis(p) \/ Poll(p)
       \/ AddMemberRoles(p) \/ Leave(p) \/ BackToFiles(p) \/ DiscardSetup(p)
       \/ Continue(p) \/ DiscardResumed(p)
       \/ \E s \in Sheets : Decide(p, s)
       \/ \E r \in Roles : TypePassword(p, r) \/ ClearFile(p, r)
       \/ \E r \in Roles, h \in Hashes : BeginUpload(p, r, h) \/ ChooseFile(p, r, h)
       \/ \E u \in page[p].uploads : EndUpload(p, u)
  \/ \E g \in Revs, s \in Sheets : SheetReady(g, s)
  \/ Restart

Spec == Init /\ [][Next]_vars

-----------------------------------------------------------------------------
Shown == {p \in Pages : page[p].kind \in {"setup", "left"}}

(* A save takes out of the row only decisions that the saving page has read  *)
(* or saved itself, never one that another tab saved after it was opened;    *)
(* and a page that is refused changes nothing (save_choices).                *)
DropsKnown ==
  row # None /\ row' # None /\ row' # row =>
    \E p \in Pages : page'[p] # page[p]
                     /\ row.decided \ row'.decided \subseteq page[p].loaded \cup page[p].own
DropsOnlyKnown == [][DropsKnown]_vars

(* A generation stands for one set of inputs: the sheets a page shows were   *)
(* read from the files it shows, and so were those of the row's generation   *)
(* (save_choices, attach, discard).                                          *)
ScanOfShownFiles ==
  /\ \A p \in Shown : scan[page[p].gen].files \in {None, page[p].files}
  /\ row # None => scan[row.gen].files \in {None, row.files}

(* A password kept for a workbook, by a setup page or in the vault, was      *)
(* typed for the content that workbook has there (_persist_input_state,      *)
(* store_bundle, claim_snapshot).                                            *)
PasswordOfSource ==
  /\ \A v \in vault : v.typed = v.hash
  /\ \A p \in Pages : page[p].kind = "setup" =>
       \A c \in page[p].creds : c.typed = page[p].files[c.role]

(* A decision the analyst was told is saved stays until setup is discarded   *)
(* (config_session.py: restored instead of redoing work).                    *)
DecisionsKept == row # None => acked \subseteq row.decided
=============================================================================
