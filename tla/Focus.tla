-------------------------------- MODULE Focus --------------------------------
(***************************************************************************)
(* The desktop focus of one finding of one run: bind an open Office        *)
(* document whose saved bytes are the run's, confirm it, and move Office   *)
(* to the place the finding names.  focus/service.py (event loop),         *)
(* focus/navigator.py (one helper process at a time, in a thread),         *)
(* focus/worker.py (the helper), focus/binding.py.                         *)
(*                                                                         *)
(* A handler of the service is one step up to its await, and one step from *)
(* the reply on; the reply and the release of the request lock are the     *)
(* same step.  Meanwhile the analyst opens, saves and closes documents.    *)
(*                                                                         *)
(* A window stands for the process, session and window handle of an open   *)
(* document; a file id for its device and inode; same says that its bytes  *)
(* are those the run recorded.  The revision of a client is left out: it   *)
(* changes exactly when its tokens are cleared.                            *)
(***************************************************************************)
EXTENDS Naturals, Sequences, FiniteSets

CONSTANTS
  Clients, Windows, Paths, Tasks, None,
  FileIds,     \* bound: files a path has been
  MaxTokens,   \* bound: action tokens issued
  MaxEdits     \* bound: what the analyst does in Office, and switches of the feature

VARIABLES
  enabled,    \* the feature is on (Windows and loopback are assumed)
  client,     \* _ClientState of a client; tokens: [id, old]; offer: pending document
  registry,   \* BindingRegistry: the binding of a client for the run, old after its ten minutes
  here,       \* clients whose browser is still connected
  dialog,     \* clients that are shown the dialog to confirm a document
  task,       \* coroutines of bind and focus
  queue,      \* tasks that wait for the request lock
  helper,     \* the helper process of the task that has the lock
  cooling, healthPending,
  window, disk,
  issued, edits,
  confirmed, acted, taken   \* for the properties: what was confirmed, what was done in Office,
                            \* clients whose authority was taken back and not given again

vars == <<enabled, client, registry, here, dialog, task, queue, helper, cooling, healthPending, window, disk,
          issued, edits, confirmed, acted, taken>>

Document == [window : Windows, path : Paths, id : FileIds]
Request == [kind : {"discover"}] \cup [kind : {"focus"}, window : Windows, path : Paths, id : FileIds]
Discover == [kind |-> "discover"]
Fresh == [ack |-> FALSE, tokens |-> {}, offer |-> None]
NoTask == [pc |-> "idle", client |-> None, token |-> 0, binding |-> None, req |-> None, late |-> FALSE]
Snapshots == SUBSET [window : Windows, path : Paths, ok : BOOLEAN]

TypeOK ==
  /\ enabled \in BOOLEAN /\ cooling \in BOOLEAN /\ healthPending \in BOOLEAN
  /\ client \in [Clients -> [ack : BOOLEAN, offer : Document \cup {None},
                             tokens : SUBSET [id : 1..MaxTokens, old : BOOLEAN]]]
  /\ registry \in [Clients -> [doc : Document, old : BOOLEAN] \cup {None}]
  /\ here \subseteq Clients /\ dialog \subseteq Clients
  /\ task \in [Tasks -> [pc : {"idle", "bind", "check", "act"}, client : Clients \cup {None},
                         token : 0..MaxTokens, binding : Document \cup {None},
                         req : Request \cup {None}, late : BOOLEAN]]
  /\ queue \in Seq(Tasks) /\ Len(queue) <= Cardinality(Tasks)
  /\ helper = None \/ helper \in [task : Tasks, step : {"health", "run", "validated", "acted", "replied"},
                                  found : Snapshots \cup {None}]
  /\ window \in [Windows -> [open : BOOLEAN, path : Paths, ok : BOOLEAN]]
  /\ disk \in [Paths -> [id : FileIds, same : BOOLEAN]]
  /\ issued \in 0..MaxTokens /\ edits \in 0..MaxEdits
  /\ confirmed \subseteq [client : Clients, doc : Document]
  /\ acted \subseteq [client : Clients, token : 1..MaxTokens, doc : Document, at : 1..MaxTokens]
  /\ taken \subseteq Clients

Init ==
  /\ enabled = TRUE /\ here = Clients /\ dialog = {} /\ client = [c \in Clients |-> Fresh]
  /\ registry = [c \in Clients |-> None]
  /\ task = [t \in Tasks |-> NoTask] /\ queue = <<>> /\ helper = None
  /\ cooling = FALSE /\ healthPending = FALSE
  /\ window \in [Windows -> [open : {TRUE}, path : Paths, ok : {TRUE}]]
  /\ \A w, v \in Windows : w # v => window[w].path # window[v].path
  /\ disk \in [Paths -> [id : {CHOOSE i \in FileIds : TRUE}, same : BOOLEAN]]
  /\ issued = 0 /\ edits = 0 /\ confirmed = {} /\ acted = {} /\ taken = {}

office == <<window, disk>>
navigator == <<queue, helper, cooling, healthPending>>
history == <<confirmed, acted, taken>>

-----------------------------------------------------------------------------
(* Tokens, offers and bindings of a client. *)

(* registry.get drops a binding that is too old. *)
Live(b) == IF b # None /\ b.old THEN None ELSE b

(* A repaint retires the tokens of the client, and offers to focus with a    *)
(* new one when there is a binding, or else to bind.                         *)
Repaint(c, state, binding) ==
  LET shows == binding # None /\ issued < MaxTokens
  IN /\ registry' = [registry EXCEPT ![c] = binding]
     /\ client' = [client EXCEPT ![c] = [state EXCEPT !.tokens =
                     IF shows THEN {[id |-> issued + 1, old |-> FALSE]} ELSE {}]]
     /\ issued' = IF shows THEN issued + 1 ELSE issued

UseToken(state, k) == [state EXCEPT !.tokens = {x \in @ : x.id # k}]

TokenAges(c) ==
  /\ \E x \in client[c].tokens : ~x.old
  /\ client' = [client EXCEPT ![c].tokens = {[x EXCEPT !.old = TRUE] : x \in @}]
  /\ UNCHANGED <<enabled, registry, here, dialog, task, navigator, office, issued, edits, history>>

BindingAges(c) ==
  /\ registry[c] # None /\ ~registry[c].old
  /\ registry' = [registry EXCEPT ![c].old = TRUE]
  /\ UNCHANGED <<enabled, client, here, dialog, task, navigator, office, issued, edits, history>>

(* Focus requests of these clients that wait for the lock or are with the    *)
(* helper are not called back.                                               *)
Revoke(clients) ==
  /\ edits < MaxEdits /\ edits' = edits + 1
  /\ taken' = taken \cup clients
  /\ task' = [t \in Tasks |-> IF task[t].pc = "act" /\ task[t].client \in clients
                           THEN [task[t] EXCEPT !.late = TRUE] ELSE task[t]]

Disable ==
  /\ enabled /\ Revoke(Clients)
  /\ enabled' = FALSE
  /\ client' = [c \in Clients |-> Fresh] /\ registry' = [c \in Clients |-> None]
  /\ UNCHANGED <<here, dialog, navigator, office, issued, confirmed, acted>>

Enable ==
  /\ ~enabled
  /\ enabled' = TRUE
  /\ UNCHANGED <<client, registry, here, dialog, task, navigator, office, issued, edits, history>>

ForgetClient(c) ==
  /\ c \in here /\ Revoke({c})
  /\ here' = here \ {c} /\ dialog' = dialog \ {c}
  /\ client' = [client EXCEPT ![c] = Fresh] /\ registry' = [registry EXCEPT ![c] = None]
  /\ UNCHANGED <<enabled, navigator, office, issued, confirmed, acted>>

ForgetRun ==
  /\ Revoke(Clients)
  /\ client' = [c \in Clients |-> [client[c] EXCEPT !.tokens = {}, !.offer = None]]
  /\ registry' = [c \in Clients |-> None]
  /\ UNCHANGED <<enabled, here, dialog, navigator, office, issued, confirmed, acted>>

-----------------------------------------------------------------------------
(* The requests of a page. *)

Ask(t, c, pc, k, binding) ==
  /\ task' = [task EXCEPT ![t] = [NoTask EXCEPT !.pc = pc, !.client = c, !.token = k,
                                                !.binding = binding, !.req = Discover]]
  /\ queue' = Append(queue, t)

ClickBind(t, c) ==
  /\ task[t].pc = "idle" /\ c \in here /\ enabled
  /\ Ask(t, c, "bind", 0, None)
  /\ UNCHANGED <<enabled, client, registry, here, dialog, helper, cooling, healthPending, office,
                 issued, edits, history>>

(* The user accepts the side effects, and confirms what is offered by then.  *)
Confirm(c) ==
  /\ c \in dialog
  /\ dialog' = dialog \ {c}
  /\ LET offer == client[c].offer
         state == [client[c] EXCEPT !.ack = TRUE, !.offer = None]
     IN IF offer = None
        THEN Repaint(c, state, Live(registry[c])) /\ UNCHANGED <<confirmed, taken>>
        ELSE /\ Repaint(c, state, [doc |-> offer, old |-> FALSE])
             /\ confirmed' = confirmed \cup {[client |-> c, doc |-> offer]}
             /\ taken' = taken \ {c}
  /\ UNCHANGED <<enabled, here, task, navigator, office, edits, acted>>

Dismiss(c) ==
  /\ c \in dialog /\ dialog' = dialog \ {c}
  /\ UNCHANGED <<enabled, client, registry, here, task, navigator, office, issued, edits, history>>

(* A button of an earlier paint may still be on the screen.  A token that is *)
(* not valid, or a refusal of focus before its first await, repaints.        *)
ClickFocus(t, c, k) ==
  /\ task[t].pc = "idle" /\ c \in here
  /\ LET valid == \E x \in client[c].tokens : x.id = k /\ ~x.old
         state == UseToken(client[c], k)
         binding == Live(registry[c])
     IN IF valid /\ enabled /\ state.ack /\ binding # None
        THEN /\ Ask(t, c, "check", k, binding.doc)
             /\ client' = [client EXCEPT ![c] = state]
             /\ UNCHANGED <<registry, issued>>
        ELSE Repaint(c, state, binding) /\ UNCHANGED <<task, queue>>
  /\ UNCHANGED <<enabled, here, dialog, helper, cooling, healthPending, office, edits, history>>

-----------------------------------------------------------------------------
(* The navigator and its helper process. *)

Helping(t, step, found) == helper' = [task |-> t, step |-> step, found |-> found]
Replied(found) == Helping(helper.task, "replied", found)

Others == <<enabled, client, registry, here, dialog, task, office, issued, edits>>

(* The first request after a cooldown starts with a health check. *)
FirstStep == IF healthPending THEN "health" ELSE "run"

SubmitLocked ==
  /\ helper = None /\ queue # <<>>
  /\ queue' = Tail(queue)
  /\ IF cooling
     THEN Helping(Head(queue), "replied", None) /\ UNCHANGED healthPending
     ELSE Helping(Head(queue), FirstStep, None) /\ healthPending' = FALSE
  /\ UNCHANGED <<Others, cooling, history>>

Health ==
  /\ helper # None /\ helper.step = "health"
  /\ Replied(None) \/ Helping(helper.task, "run", None)
  /\ UNCHANGED <<Others, queue, cooling, healthPending, history>>

Doing(kind) == helper # None /\ helper.step = "run" /\ task[helper.task].req.kind = kind

(* A discovery that is not complete, and a helper that fails, are no reply.  *)
DiscoverOpen ==
  /\ Doing("discover")
  /\ \/ Replied({[window |-> w, path |-> window[w].path, ok |-> window[w].ok] :
                   w \in {v \in Windows : window[v].open}})
     \/ Replied(None)
  /\ UNCHANGED <<Others, queue, cooling, healthPending, history>>

(* locate_bound_document, and what is checked of the document it finds. *)
Locate(r) ==
  /\ window[r.window] = [open |-> TRUE, path |-> r.path, ok |-> TRUE]
  /\ disk[r.path] = [id |-> r.id, same |-> TRUE]

PerformFocus ==
  /\ Doing("focus")
  /\ IF Locate(task[helper.task].req) THEN Helping(helper.task, "validated", None) ELSE Replied(None)
  /\ UNCHANGED <<Others, queue, cooling, healthPending, history>>

(* Mutant: the window is only looked for. *)
StillOpen(r) == window[r.window].open
StillThere(r) == window[r.window].open /\ window[r.window].path = r.path

(* navigate_excel looks once more whose window it has. *)
Act ==
  /\ helper # None /\ helper.step = "validated"
  /\ LET t == task[helper.task]
     IN IF StillThere(t.req)
        THEN /\ acted' = acted \cup {[client |-> t.client, token |-> t.token, at |-> Cardinality(acted) + 1,
                                      doc |-> [window |-> t.req.window, path |-> window[t.req.window].path, id |-> t.req.id]]}
             /\ Helping(helper.task, "acted", None)
        ELSE Replied(None) /\ UNCHANGED acted
  /\ UNCHANGED <<Others, queue, cooling, healthPending, confirmed, taken>>

Acted ==
  /\ helper # None /\ helper.step = "acted" /\ Replied(None)
  /\ UNCHANGED <<Others, queue, cooling, healthPending, history>>

(* Only the helper is killed; what Office was told stands. *)
Timeout ==
  /\ helper # None /\ helper.step # "replied"
  /\ Replied(None) /\ cooling' = TRUE /\ healthPending' = TRUE
  /\ UNCHANGED <<Others, queue, history>>

CooldownEnds ==
  /\ cooling /\ cooling' = FALSE
  /\ UNCHANGED <<Others, queue, helper, healthPending, history>>

-----------------------------------------------------------------------------
(* The reply: the lock is released and the coroutine goes on. *)

Matching(found) == {d \in found : d.ok /\ disk[d.path].same}

(* resolve_binding refuses for more reasons than the model has. *)
ResumeBind(t, c) ==
  /\ task' = [task EXCEPT ![t] = NoTask] /\ UNCHANGED <<queue, registry, issued>>
  /\ \/ UNCHANGED <<client, dialog>>
     \/ /\ helper.found # None /\ Cardinality(Matching(helper.found)) = 1
        /\ \E d \in Matching(helper.found) :
             client' = [client EXCEPT ![c].offer = [window |-> d.window, path |-> d.path, id |-> disk[d.path].id]]
        /\ dialog' = IF c \in here THEN dialog \cup {c} ELSE dialog

(* revalidate_binding, with the documents found and the bytes as they are now. *)
Revalidated(b, found) ==
  /\ found # None
  /\ [window |-> b.window, path |-> b.path, ok |-> TRUE] \in found
  /\ disk[b.path] = [id |-> b.id, same |-> TRUE]

(* Mutant: the path is that of the binding the click found. *)
PathOfClick(t) == task[t].binding.path

(* The path comes from the registry as it is after the discovery. *)
PathNow(t) == IF registry[task[t].client] = None THEN None ELSE registry[task[t].client].doc.path

ResumeCheck(t, c) ==
  LET b == task[t].binding IN
  IF Revalidated(b, helper.found) /\ PathNow(t) # None
  THEN /\ task' = [task EXCEPT ![t] = [@ EXCEPT !.pc = "act", !.req =
                     [kind |-> "focus", window |-> b.window, path |-> PathNow(t), id |-> b.id]]]
       /\ queue' = Append(queue, t)
       /\ UNCHANGED <<client, registry, issued, dialog>>
  ELSE /\ task' = [task EXCEPT ![t] = NoTask]
       /\ Repaint(c, client[c], Live(registry[c])) /\ UNCHANGED <<queue, dialog>>

Resume ==
  /\ helper # None /\ helper.step = "replied"
  /\ helper' = None
  /\ LET t == helper.task
         c == task[t].client
     IN CASE task[t].pc = "bind" -> ResumeBind(t, c)
          [] task[t].pc = "check" -> ResumeCheck(t, c)
          [] task[t].pc = "act" -> /\ task' = [task EXCEPT ![t] = NoTask]
                                   /\ Repaint(c, client[c], Live(registry[c])) /\ UNCHANGED <<queue, dialog>>
  /\ UNCHANGED <<enabled, here, cooling, healthPending, office, edits, history>>

-----------------------------------------------------------------------------
(* The analyst, in Office. *)

Edit == edits < MaxEdits /\ edits' = edits + 1
Outside == <<enabled, client, registry, here, dialog, task, navigator, issued, history>>

(* Saving, under this or another name; the file may be a new one. *)
Save(w, p) ==
  /\ window[w].open /\ Edit
  /\ window' = [window EXCEPT ![w].path = p]
  /\ \E i \in FileIds, same \in BOOLEAN : disk' = [disk EXCEPT ![p] = [id |-> i, same |-> same]]
  /\ UNCHANGED Outside

CloseWindow(w) ==
  /\ window[w].open /\ Edit
  /\ window' = [window EXCEPT ![w].open = FALSE]
  /\ UNCHANGED <<Outside, disk>>

Autosave(w) ==
  /\ window[w].open /\ Edit
  /\ window' = [window EXCEPT ![w].ok = ~@]
  /\ UNCHANGED <<Outside, disk>>

Next ==
  \/ \E c \in Clients : TokenAges(c) \/ BindingAges(c) \/ ForgetClient(c) \/ Confirm(c) \/ Dismiss(c)
  \/ \E t \in Tasks, c \in Clients : ClickBind(t, c) \/ \E k \in 1..issued : ClickFocus(t, c, k)
  \/ Disable \/ Enable \/ ForgetRun
  \/ SubmitLocked \/ Health \/ DiscoverOpen \/ PerformFocus \/ Act \/ Acted \/ Timeout \/ CooldownEnds \/ Resume
  \/ \E w \in Windows : CloseWindow(w) \/ Autosave(w) \/ \E p \in Paths : Save(w, p)

Spec == Init /\ [][Next]_vars

-----------------------------------------------------------------------------
(* Office is moved only in a window and a file that this client confirmed    *)
(* together, the window showing a path the client confirmed, and at most     *)
(* once for a token (service.focus, locate_bound_document: revalidate, then  *)
(* dispatch exactly one action).  The path may be that of a later            *)
(* confirmation: the request names it as the registry has it after the       *)
(* await.                                                                    *)
ActsAsConfirmed ==
  /\ \A a \in acted :
       /\ \E b \in confirmed : b.client = a.client /\ b.doc.window = a.doc.window /\ b.doc.id = a.doc.id
       /\ \E b \in confirmed : b.client = a.client /\ b.doc.path = a.doc.path
  /\ \A a, b \in acted : a.token = b.token => a = b

(* Authority taken back before a focus request is given to the navigator is  *)
(* honoured, whatever the coroutine read before its await: while it is not   *)
(* given again, only a request that was already there waits or runs          *)
(* (set_enabled, forget_client, forget_run, path_digest).                    *)
RevocationHonoured ==
  \A t \in Tasks : task[t].pc = "act" /\ task[t].client \in taken => task[t].late
=============================================================================
