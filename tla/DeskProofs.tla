------------------------------ MODULE DeskProofs ------------------------------
(***************************************************************************)
(* Proofs about the components of MCDesk, for every value of their         *)
(* constants.  The components share no state and one of them moves in a    *)
(* behaviour, so each invariant is that of its component under the guard   *)
(* that the behaviour is of that component, and a step of the whole is a   *)
(* step of it (StaysApart).                                                *)
(***************************************************************************)
EXTENDS MCDesk, FiniteSetTheorems, TLAPS

(* A step leaves the component that moves as it is, and is one of its steps *)
(* or changes none of its variables.                                       *)
LEMMA StaysApart ==
  ASSUME [Next]_deskVars
  PROVE  /\ part' = part
         /\ part = "session" => Session!Next \/ UNCHANGED sessionVars
         /\ part = "focus" => Desktop!Next \/ UNCHANGED focusVars
         /\ part = "launcher" => Local!Next \/ UNCHANGED localVars
         /\ part = "queries" => Asked!QueriesNext \/ UNCHANGED askedVars
         /\ part = "review" => Shown!ReviewNext \/ UNCHANGED shownVars
         /\ part = "profiles" => Saved!ProfilesNext \/ UNCHANGED savedVars
<1>1. CASE UNCHANGED deskVars
  BY <1>1 DEF deskVars
<1>2. CASE Next
  BY <1>2 DEF Next
<1> QED
  BY <1>1, <1>2

LEMMA BeginsApart ==
  ASSUME Init
  PROVE  /\ part = "session" => Session!Init
         /\ part = "focus" => Desktop!Init
         /\ part = "launcher" => Local!Init
         /\ part = "queries" => Asked!QueriesInit
         /\ part = "review" => Shown!ReviewInit
         /\ part = "profiles" => Saved!ProfilesInit
  BY DEF Init
-----------------------------------------------------------------------------
(* The launcher (Launcher).                                                  *)

AfterClaim == {"mark", "boot", "serve", "release", "unlink", "unlock"}

(* A local server past its claim has the lock, so there is one; the marker  *)
(* is its own from the writing to the release; a LAN server never writes or *)
(* takes away a marker; and a port is known once it is asked for.           *)
HolderHasLock ==
  \A s \in Servers : server[s].pc \in AfterClaim /\ ~server[s].lan => lock = s
MarkerIsOwn ==
  \A s \in Servers : server[s].pc \in {"boot", "serve"} /\ ~server[s].lan =>
    marker = [server |-> s, port |-> server[s].port]
LanClaimsNothing ==
  \A s \in Servers : server[s].pc \in AfterClaim \ {"boot", "serve"} => ~server[s].lan
PortIsKnown ==
  /\ \A s \in Servers : server[s].pc # "none" => server[s].port \in Ports
  /\ \A l \in Launchers : launcher[l].pc \in {"look", "port", "spawn", "wait"} =>
       launcher[l].port \in Ports

LocalInv == Local!TypeOK /\ HolderHasLock /\ MarkerIsOwn /\ LanClaimsNothing /\ PortIsKnown

LEMMA LocalBegins == ASSUME Local!Init PROVE LocalInv
  BY NoneIsApart DEF Local!Init, LocalInv, Local!TypeOK, HolderHasLock, MarkerIsOwn, LanClaimsNothing, PortIsKnown,
     AfterClaim, Local!NotStarted, Local!Ended

LEMMA LocalStays ==
  ASSUME LocalInv, UNCHANGED localVars
  PROVE  LocalInv'
  BY DEF LocalInv, Local!TypeOK, HolderHasLock, MarkerIsOwn, LanClaimsNothing, PortIsKnown, localVars

LEMMA ServerSteps ==
  ASSUME LocalInv, NEW s \in Servers,
         \/ \E p \in Ports, lan \in BOOLEAN : Local!Command(s, p, lan)
         \/ Local!Claim(s) \/ Local!WriteMarker(s) \/ Local!Listen(s) \/ Local!Stop(s)
         \/ Local!ReadOwn(s) \/ Local!Unlink(s) \/ Local!Unlock(s) \/ Local!CrashServer(s)
  PROVE  LocalInv'
<1> USE NoneIsApart DEF LocalInv, Local!TypeOK, HolderHasLock, MarkerIsOwn, LanClaimsNothing, PortIsKnown,
        AfterClaim, Local!Become, Local!Ending, Local!Serve, Local!Unbound, Local!Ended
<1>1. ASSUME NEW p \in Ports, NEW lan \in BOOLEAN, Local!Command(s, p, lan) PROVE LocalInv'
  BY <1>1 DEF Local!Command
<1>2. CASE Local!Claim(s)
  <2>1. CASE server[s].lan
    <3>1. server' = [server EXCEPT ![s].pc = "boot"] /\ UNCHANGED <<launchLock, lock, marker, listener, launcher>>
      BY <1>2, <2>1 DEF Local!Claim
    <3> QED
      BY <1>2, <2>1, <3>1 DEF Local!Claim
  <2>2. CASE ~server[s].lan /\ lock = None
    <3>1. server' = [server EXCEPT ![s].pc = "mark"] /\ lock' = s /\ UNCHANGED <<launchLock, marker, listener, launcher>>
      BY <1>2, <2>2 DEF Local!Claim
    <3> QED
      BY <1>2, <2>2, <3>1 DEF Local!Claim
  <2>3. CASE ~server[s].lan /\ lock # None
    <3>1. server' = [server EXCEPT ![s].pc = "gone"] /\ UNCHANGED <<launchLock, lock, marker, listener, launcher>>
      BY <1>2, <2>3 DEF Local!Claim
    <3> QED
      BY <1>2, <2>3, <3>1 DEF Local!Claim
  <2> QED
    BY <2>1, <2>2, <2>3
<1>3. CASE Local!WriteMarker(s)
  BY <1>3 DEF Local!WriteMarker
<1>4. CASE Local!Listen(s)
  <2>1. CASE listener[server[s].port] = None
    <3>1. /\ server' = [server EXCEPT ![s].pc = "serve"]
          /\ listener' = [listener EXCEPT ![server[s].port] = s]
          /\ UNCHANGED <<launchLock, lock, marker, launcher>>
      BY <1>4, <2>1 DEF Local!Listen
    <3>2. server[s].pc = "boot" /\ server[s].port \in Ports
      BY <1>4, <2>1 DEF Local!Listen
    <3> QED
      BY <2>1, <3>1, <3>2
  <2>2. CASE listener[server[s].port] # None /\ server[s].lan
    <3>1. /\ server' = [server EXCEPT ![s].pc = "gone"]
          /\ UNCHANGED <<launchLock, lock, marker, listener, launcher>>
      BY <1>4, <2>2 DEF Local!Listen
    <3>2. server[s].pc = "boot"
      BY <1>4, <2>2 DEF Local!Listen
    <3> QED
      BY <2>2, <3>1, <3>2
  <2>3. CASE listener[server[s].port] # None /\ ~server[s].lan
    BY <1>4, <2>3 DEF Local!Listen
  <2> QED
    BY <2>1, <2>2, <2>3
<1>5. CASE Local!Stop(s)
  BY <1>5 DEF Local!Stop
<1>6. CASE Local!ReadOwn(s)
  BY <1>6 DEF Local!ReadOwn
<1>7. CASE Local!Unlink(s)
  BY <1>7 DEF Local!Unlink
<1>8. CASE Local!Unlock(s)
  BY <1>8 DEF Local!Unlock
<1>9. CASE Local!CrashServer(s)
  BY <1>9 DEF Local!CrashServer
<1> QED
  BY <1>1, <1>2, <1>3, <1>4, <1>5, <1>6, <1>7, <1>8, <1>9

LEMMA WaitsFor ==
  ASSUME Local!TypeOK, NEW l \in Launchers, NEW s,
         launcher' = [launcher EXCEPT ![l].pc = "wait", ![l].child = s]
  PROVE  launcher' = [launcher EXCEPT ![l] = [pc |-> "wait", port |-> launcher[l].port, child |-> s]]
<1> DEFINE Phases == {"idle", "look", "port", "spawn", "wait"} \cup Local!Ended
<1>1. launcher \in [Launchers -> [pc : Phases, port : Ports \cup {None}, child : Servers \cup {None}]]
  BY DEF Local!TypeOK
<1> HIDE DEF Phases
<1>2. launcher[l] = [pc |-> launcher[l].pc, port |-> launcher[l].port, child |-> launcher[l].child]
  BY <1>1
<1>3. launcher'[l] = [pc |-> "wait", port |-> launcher[l].port, child |-> s]
  BY <1>1, <1>2
<1> QED
  BY <1>1, <1>3

LEMMA LauncherSteps ==
  ASSUME LocalInv, NEW l \in Launchers,
         \/ \E p \in Ports : Local!Launch(l, p)
         \/ Local!Look(l) \/ Local!CheckPort(l) \/ Local!Spawn(l) \/ Local!Wait(l) \/ Local!CrashLauncher(l)
  PROVE  LocalInv'
<1> USE NoneIsApart DEF LocalInv, Local!TypeOK, HolderHasLock, MarkerIsOwn, LanClaimsNothing, PortIsKnown,
        AfterClaim, Local!Serve, Local!Ended, Local!Ends, Local!Goes
<1>1. ASSUME NEW p \in Ports, Local!Launch(l, p) PROVE LocalInv'
  <2>1. CASE launchLock = None
    <3>1. /\ launchLock' = l /\ launcher' = [launcher EXCEPT ![l] = [pc |-> "look", port |-> p, child |-> launcher[l].child]]
          /\ UNCHANGED <<lock, marker, listener, server>>
      BY <1>1, <2>1 DEF Local!Launch
    <3>2. launcher[l].pc = "idle"
      BY <1>1, <2>1 DEF Local!Launch
    <3> QED
      BY <2>1, <3>1, <3>2
  <2>2. CASE launchLock # None
    <3>1. /\ launcher' = [launcher EXCEPT ![l] = [pc |-> "in_progress", port |-> p, child |-> launcher[l].child]]
          /\ UNCHANGED <<launchLock, lock, marker, listener, server>>
      BY <1>1, <2>2 DEF Local!Launch
    <3>2. launcher[l].pc = "idle"
      BY <1>1, <2>2 DEF Local!Launch
    <3> QED
      BY <2>2, <3>1, <3>2
  <2> QED
    BY <2>1, <2>2
<1>2. CASE Local!Look(l)
  BY <1>2 DEF Local!Look
<1>3. CASE Local!CheckPort(l)
  BY <1>3 DEF Local!CheckPort
<1>4. CASE Local!Spawn(l)
  <2>1. CASE Local!Ends(l, "start_failed") /\ UNCHANGED server
    BY <1>4, <2>1 DEF Local!Spawn
  <2>2. ASSUME NEW s \in Servers, server[s].pc = "none", Local!Serve(s, launcher[l].port, FALSE),
               launcher' = [launcher EXCEPT ![l].pc = "wait", ![l].child = s], UNCHANGED launchLock
        PROVE  LocalInv'
    <3>1. launcher[l].pc = "spawn" /\ launcher[l].port \in Ports /\ UNCHANGED <<lock, marker, listener>>
      BY <1>4 DEF Local!Spawn
    <3>2. server' = [server EXCEPT ![s] = [pc |-> "claim", port |-> launcher[l].port, lan |-> FALSE]]
      BY <2>2
    <3>3. launcher' = [launcher EXCEPT ![l] = [pc |-> "wait", port |-> launcher[l].port, child |-> s]]
      BY <2>2, WaitsFor
    <3>4. Local!TypeOK'
      <4>1. server' \in [Servers -> [pc : {"none", "claim", "mark", "boot", "serve", "release", "unlink",
                                           "unlock", "gone"}, port : Ports \cup {None}, lan : BOOLEAN]]
        BY <3>1, <3>2
      <4>2. launcher' \in [Launchers -> [pc : {"idle", "look", "port", "spawn", "wait"} \cup Local!Ended,
                                         port : Ports \cup {None}, child : Servers \cup {None}]]
        BY <3>1, <3>3
      <4>3. \A k \in Launchers : launchLock' = k <=> launcher'[k].pc \in {"look", "port", "spawn", "wait"}
        BY <2>2, <3>1, <3>3
      <4> QED
        BY <2>2, <3>1, <4>1, <4>2, <4>3
    <3>5. (HolderHasLock /\ MarkerIsOwn /\ LanClaimsNothing)'
      BY <2>2, <3>1, <3>2
    <3>6. PortIsKnown'
      BY <3>1, <3>2, <3>3
    <3> QED
      BY <3>4, <3>5, <3>6
  <2> QED
    BY <1>4, <2>1, <2>2 DEF Local!Spawn
<1>5. CASE Local!Wait(l)
  BY <1>5 DEF Local!Wait
<1>6. CASE Local!CrashLauncher(l)
  BY <1>6 DEF Local!CrashLauncher
<1> QED
  BY <1>1, <1>2, <1>3, <1>4, <1>5, <1>6

LEMMA LocalSteps ==
  ASSUME LocalInv, Local!Next
  PROVE  LocalInv'
<1>1. ASSUME NEW p \in Ports, Local!OtherProgram(p) PROVE LocalInv'
  BY <1>1 DEF Local!OtherProgram, LocalInv, Local!TypeOK, HolderHasLock, MarkerIsOwn, LanClaimsNothing,
     PortIsKnown, Local!Other
<1> QED
  BY <1>1, ServerSteps, LauncherSteps DEF Local!Next

(* A local server that runs is found by its marker, and no other local      *)
(* server runs beside it (_claim_local_instance, release_local_instance).   *)
THEOREM ServersFound == Spec => []ServerIsFound
<1> DEFINE Inv == part = "launcher" => LocalInv
<1>1. Init => Inv
  BY BeginsApart, LocalBegins
<1>2. Inv /\ [Next]_deskVars => Inv'
  BY StaysApart, LocalSteps, LocalStays
<1>3. Inv => ServerIsFound
  BY NoneIsApart DEF LocalInv, ServerIsFound, Local!ServerIsFound, Local!TypeOK, HolderHasLock, MarkerIsOwn,
     AfterClaim
<1> QED
  BY <1>1, <1>2, <1>3, PTL DEF Spec
-----------------------------------------------------------------------------
(* The pages of a run (ReviewPage).                                          *)

ReviewInv ==
  Shown!ReviewTypeOK /\ Shown!PageShowsStore /\ Shown!KnownDecisionsKept /\ Shown!TimerHasPage

(* What a write leaves alone is shown as before, and what it writes is then *)
(* shown on the page that wrote it and foreign on the others.               *)
LEMMA WriteKeeps ==
  ASSUME ReviewInv, NEW p \in tabs, NEW F \in SUBSET Found, NEW update \in [F -> Shown!Decisions],
         NEW keeping \in BOOLEAN, Shown!Write(p, update, keeping),
         Shown!Shows(p, update), Shown!Saved(p, F), UNCHANGED <<signed, tabs, editable, timing>>,
         keeping => \A f \in F : mem[p][f] = stored[f] => ~Shown!Replaces(stored[f], update[f])
  PROVE  ReviewInv'
<1> USE DEF ReviewInv
<1>1. /\ stored' = Shown!Amend(stored, update)
      /\ foreign' = [q \in Tabs |-> IF q \in tabs \ {p} THEN foreign[q] \cup F ELSE foreign[q]]
      /\ writes < MaxWrites /\ writes' = writes + 1
  BY DEF Shown!Write
<1>2. mem' = [mem EXCEPT ![p] = Shown!Amend(@, update)] /\ unsaved' = [unsaved EXCEPT ![p] = @ \ F]
  BY DEF Shown!Shows, Shown!Saved
<1>3. undone' \subseteq {"known", "unknown"} /\ "known" \notin undone'
  <2>1. \A f \in F : keeping /\ Shown!Replaces(stored[f], update[f]) => mem[p][f] # stored[f]
    OBVIOUS
  <2>2. undone' = undone \cup {IF mem[p][f] = stored[f] THEN "known" ELSE "unknown" :
                                 f \in {g \in F : keeping /\ Shown!Replaces(stored[g], update[g])}}
    BY DEF Shown!Write
  <2> QED
    BY <2>1, <2>2 DEF Shown!ReviewTypeOK, Shown!KnownDecisionsKept
<1>4. /\ stored' \in [Found -> Shown!Decisions]
      /\ mem' \in [Tabs -> [Found -> Shown!Decisions]]
      /\ p \in Tabs
  BY <1>1, <1>2 DEF Shown!ReviewTypeOK, Shown!Amend
<1>5. Shown!ReviewTypeOK'
  BY <1>1, <1>2, <1>3, <1>4, ReviewConstants DEF Shown!ReviewTypeOK
<1>6. Shown!PageShowsStore'
  <2> SUFFICES ASSUME NEW q \in tabs, NEW f \in Found, f \notin foreign'[q] \cup unsaved'[q]
               PROVE  mem'[q][f] = stored'[f]
    BY DEF Shown!PageShowsStore
  <2>1. q \in Tabs /\ mem[q] \in [Found -> Shown!Decisions]
    BY DEF Shown!ReviewTypeOK
  <2>2. CASE q = p
    <3>1. f \notin foreign[q] /\ (f \notin F => f \notin unsaved[q])
      BY <1>1, <1>2, <2>1, <2>2 DEF Shown!ReviewTypeOK
    <3>2. f \notin F => mem[q][f] = stored[f]
      BY <3>1 DEF Shown!PageShowsStore
    <3>3. mem'[q] = Shown!Amend(mem[q], update)
      BY <1>2, <2>1, <2>2 DEF Shown!ReviewTypeOK
    <3> QED
      BY <1>1, <3>2, <3>3 DEF Shown!Amend
  <2>3. CASE q # p
    <3>1. f \notin F /\ f \notin foreign[q] /\ f \notin unsaved[q] /\ mem'[q] = mem[q]
      BY <1>1, <1>2, <2>1, <2>3 DEF Shown!ReviewTypeOK
    <3> QED
      BY <1>1, <3>1 DEF Shown!Amend, Shown!PageShowsStore
  <2> QED
    BY <2>2, <2>3
<1>7. Shown!KnownDecisionsKept' /\ Shown!TimerHasPage'
  BY <1>3 DEF Shown!KnownDecisionsKept, Shown!TimerHasPage
<1> QED
  BY <1>5, <1>6, <1>7

LEMMA ReviewBegins == ASSUME Shown!ReviewInit PROVE ReviewInv
<1>1. Shown!NewRun \in [Found -> Shown!Decisions]
  BY DEF Shown!NewRun, Shown!Undecided, Shown!Decisions
<1>2. Shown!ReviewTypeOK
  <2>1. mem \in [Tabs -> [Found -> Shown!Decisions]] /\ stored \in [Found -> Shown!Decisions]
    BY <1>1 DEF Shown!ReviewInit
  <2>2. writes \in 0..MaxWrites
    BY ReviewConstants DEF Shown!ReviewInit
  <2> QED
    BY <2>1, <2>2 DEF Shown!ReviewInit, Shown!ReviewTypeOK
<1> QED
  BY <1>2 DEF Shown!ReviewInit, ReviewInv, Shown!PageShowsStore, Shown!KnownDecisionsKept,
     Shown!TimerHasPage

LEMMA ReviewStays ==
  ASSUME ReviewInv, UNCHANGED shownVars
  PROVE  ReviewInv'
  BY DEF ReviewInv, Shown!ReviewTypeOK, Shown!PageShowsStore, Shown!KnownDecisionsKept, Shown!TimerHasPage,
     shownVars

LEMMA FailedWriteTypes ==
  ASSUME Shown!ReviewTypeOK, Shown!WriteFails
  PROVE  /\ stored' \in [Found -> Shown!Decisions] /\ writes' \in 0..MaxWrites
         /\ foreign' \in [Tabs -> SUBSET Found] /\ undone' \subseteq {"known", "unknown"}
  BY ReviewConstants DEF Shown!ReviewTypeOK, Shown!WriteFails

LEMMA FailedWriteKeeps ==
  ASSUME ReviewInv, Shown!WriteFails, UNCHANGED <<signed, tabs, editable, timing, mem, unsaved>>
  PROVE  ReviewInv'
<1>1. Shown!ReviewTypeOK'
  BY FailedWriteTypes DEF ReviewInv, Shown!ReviewTypeOK
<1> QED
  BY <1>1 DEF ReviewInv, Shown!WriteFails, Shown!PageShowsStore, Shown!KnownDecisionsKept,
     Shown!TimerHasPage

LEMMA GroupReviewKeeps ==
  ASSUME ReviewInv, NEW p \in Tabs, NEW g \in Groups, NEW s \in Severities \cup {Blank},
         NEW n \in Remarks \cup {Blank}, NEW replace \in BOOLEAN, Shown!GroupReview(p, g, s, n, replace)
  PROVE  ReviewInv'
<1> DEFINE members == {f \in g : Shown!Touched(mem[p][f], s, n, replace)}
           update == [f \in members |-> Shown!Decide(mem[p][f], s, n, replace)]
<1>1. /\ p \in editable /\ UNCHANGED <<signed, tabs, editable, timing>>
      /\ \/ Shown!Write(p, update, ~replace) /\ Shown!Shows(p, update) /\ Shown!Saved(p, members)
         \/ Shown!WriteFails /\ UNCHANGED <<mem, unsaved>>
  BY DEF Shown!GroupReview, Shown!TakenBack
<1>2. p \in tabs /\ members \in SUBSET Found
  BY <1>1, ReviewConstants DEF ReviewInv, Shown!ReviewTypeOK
<1>3. ASSUME NEW f \in members
      PROVE  /\ Shown!Decide(mem[p][f], s, n, replace) \in Shown!Decisions
             /\ ~replace => ~Shown!Replaces(mem[p][f], update[f])
  <2>1. mem[p][f] \in Shown!Decisions
    BY <1>2 DEF ReviewInv, Shown!ReviewTypeOK
  <2> QED
    BY <2>1 DEF Shown!Decide, Shown!Applies, Shown!Replaces, Shown!Decisions
<1>4. update \in [members -> Shown!Decisions]
  BY <1>3
<1>5. ~replace => \A f \in members : mem[p][f] = stored[f] => ~Shown!Replaces(stored[f], update[f])
  BY <1>3
<1>6. CASE Shown!WriteFails /\ UNCHANGED <<mem, unsaved>>
  BY <1>1, <1>6, FailedWriteKeeps
<1> HIDE DEF members, update
<1> QED
  BY <1>1, <1>2, <1>4, <1>5, <1>6, WriteKeeps

LEMMA ConfirmKeeps ==
  ASSUME ReviewInv, NEW p \in Tabs, NEW g \in Groups, NEW n \in Remarks \cup {Blank}, Shown!Confirm(p, g, n)
  PROVE  ReviewInv'
<1> DEFINE ready == {f \in g : Shown!Confirmable(mem[p][f])}
           update == [f \in ready |-> [sev |-> Engine, note |-> n]]
<1>1. /\ p \in editable /\ UNCHANGED <<signed, tabs, editable, timing>>
      /\ \/ Shown!Write(p, update, TRUE) /\ Shown!Shows(p, update) /\ Shown!Saved(p, ready)
         \/ Shown!WriteFails /\ UNCHANGED <<mem, unsaved>>
  BY DEF Shown!Confirm
<1>2. p \in tabs /\ ready \in SUBSET Found
  BY <1>1, ReviewConstants DEF ReviewInv, Shown!ReviewTypeOK
<1>3. update \in [ready -> Shown!Decisions]
  BY ReviewConstants DEF Shown!Decisions
<1>4. \A f \in ready : mem[p][f] = stored[f] => ~Shown!Replaces(stored[f], update[f])
  BY DEF Shown!Confirmable, Shown!Undecided, Shown!Replaces
<1>5. CASE Shown!WriteFails /\ UNCHANGED <<mem, unsaved>>
  BY <1>1, <1>5, FailedWriteKeeps
<1> HIDE DEF ready, update
<1> QED
  BY <1>1, <1>2, <1>3, <1>4, <1>5, WriteKeeps

LEMMA EditKeeps ==
  ASSUME ReviewInv, NEW p \in Tabs, NEW f \in Found, NEW d \in Shown!Decisions, Shown!Edit(p, f, d)
  PROVE  ReviewInv'
<1> DEFINE update == [g \in {f} |-> d]
<1>1. /\ p \in editable /\ UNCHANGED <<signed, tabs, editable, timing>> /\ Shown!Shows(p, update)
      /\ \/ Shown!Write(p, update, FALSE) /\ Shown!Saved(p, {f})
         \/ Shown!WriteFails /\ unsaved' = [unsaved EXCEPT ![p] = @ \cup {f}]
  BY DEF Shown!Edit
<1>2. p \in tabs /\ {f} \in SUBSET Found /\ update \in [{f} -> Shown!Decisions]
  BY <1>1 DEF ReviewInv, Shown!ReviewTypeOK
<1>3. CASE Shown!WriteFails /\ unsaved' = [unsaved EXCEPT ![p] = @ \cup {f}]
  <2>1. mem' = [mem EXCEPT ![p] = Shown!Amend(@, update)]
    BY <1>1 DEF Shown!Shows
  <2>2. mem' \in [Tabs -> [Found -> Shown!Decisions]]
    BY <2>1 DEF ReviewInv, Shown!ReviewTypeOK, Shown!Amend
  <2>3. \A q \in Tabs : \A h \in Found : q # p \/ h # f => mem'[q][h] = mem[q][h]
    BY <2>1 DEF ReviewInv, Shown!ReviewTypeOK, Shown!Amend
  <2>4. Shown!ReviewTypeOK'
    BY <1>1, <1>3, <2>2, FailedWriteTypes DEF ReviewInv, Shown!ReviewTypeOK
  <2>5. Shown!PageShowsStore'
    BY <1>1, <1>3, <2>3 DEF ReviewInv, Shown!ReviewTypeOK, Shown!PageShowsStore, Shown!WriteFails
  <2> QED
    BY <1>1, <1>3, <2>4, <2>5 DEF ReviewInv, Shown!WriteFails, Shown!KnownDecisionsKept, Shown!TimerHasPage
<1> HIDE DEF update
<1> QED
  BY <1>1, <1>2, <1>3, WriteKeeps

LEMMA CarryOverKeeps ==
  ASSUME ReviewInv, NEW p \in Tabs, NEW f \in Found, NEW s \in Severities, Shown!CarryOver(p, f, s)
  PROVE  ReviewInv'
<1> DEFINE update == [g \in {f} |-> [sev |-> s, note |-> Blank]]
<1>1. /\ p \in editable /\ UNCHANGED <<signed, tabs, editable, timing>>
      /\ mem' = [mem EXCEPT ![p] = stored'] /\ unsaved' = [unsaved EXCEPT ![p] = @ \ Found]
      /\ Shown!Write(p, update, FALSE)
  BY DEF Shown!CarryOver, Shown!Saved
<1>2. /\ stored' = Shown!Amend(stored, update)
      /\ foreign' = [q \in Tabs |-> IF q \in tabs \ {p} THEN foreign[q] \cup {f} ELSE foreign[q]]
      /\ writes < MaxWrites /\ writes' = writes + 1 /\ undone' = undone
  BY <1>1 DEF Shown!Write
<1>3. stored' \in [Found -> Shown!Decisions] /\ \A h \in Found \ {f} : stored'[h] = stored[h]
  BY <1>2 DEF ReviewInv, Shown!ReviewTypeOK, Shown!Amend, Shown!Decisions
<1>4. Shown!ReviewTypeOK'
  BY <1>1, <1>2, <1>3, ReviewConstants DEF ReviewInv, Shown!ReviewTypeOK
<1>5. Shown!PageShowsStore'
  BY <1>1, <1>2, <1>3 DEF ReviewInv, Shown!ReviewTypeOK, Shown!PageShowsStore
<1> QED
  BY <1>1, <1>2, <1>4, <1>5 DEF ReviewInv, Shown!KnownDecisionsKept, Shown!TimerHasPage

LEMMA ReviewSteps ==
  ASSUME ReviewInv, Shown!ReviewNext
  PROVE  ReviewInv'
<1> USE DEF ReviewInv, Shown!ReviewTypeOK, Shown!PageShowsStore, Shown!KnownDecisionsKept, Shown!TimerHasPage
<1>1. ASSUME NEW p \in Tabs, Shown!LoadPage(p) PROVE ReviewInv'
  BY <1>1 DEF Shown!LoadPage
<1>2. ASSUME NEW p \in Tabs, Shown!ClosePage(p) PROVE ReviewInv'
  <2>1. Shown!NewRun \in [Found -> Shown!Decisions]
    BY DEF Shown!NewRun, Shown!Undecided, Shown!Decisions
  <2> QED
    BY <1>2, <2>1 DEF Shown!ClosePage, Shown!StillTimed
<1>3. ASSUME NEW on \in BOOLEAN, Shown!SwitchTimer(on) PROVE ReviewInv'
  BY <1>3 DEF Shown!SwitchTimer
<1>4. CASE Shown!SignRun
  BY <1>4 DEF Shown!SignRun
<1>5. ASSUME NEW p \in Tabs, NEW f \in Found, NEW s \in Severities, Shown!SetSeverity(p, f, s)
      PROVE  ReviewInv'
  <2>1. p \in tabs
    BY <1>5 DEF Shown!SetSeverity, Shown!Edit
  <2>2. [mem[p][f] EXCEPT !.sev = s] \in Shown!Decisions
    <3>1. mem[p][f] \in Shown!Decisions
      OBVIOUS
    <3> QED
      BY <3>1 DEF Shown!Decisions
  <2> QED
    BY <1>5, <2>2, EditKeeps DEF Shown!SetSeverity
<1>6. ASSUME NEW p \in Tabs, NEW f \in Found, NEW n \in Remarks \cup {Blank}, Shown!SetNote(p, f, n)
      PROVE  ReviewInv'
  <2>1. p \in tabs
    BY <1>6 DEF Shown!SetNote, Shown!Edit
  <2>2. [mem[p][f] EXCEPT !.note = n] \in Shown!Decisions
    <3>1. mem[p][f] \in Shown!Decisions
      OBVIOUS
    <3> QED
      BY <3>1 DEF Shown!Decisions
  <2> QED
    BY <1>6, <2>2, EditKeeps DEF Shown!SetNote
<1> HIDE DEF ReviewInv, Shown!ReviewTypeOK, Shown!PageShowsStore, Shown!KnownDecisionsKept, Shown!TimerHasPage
<1> QED
  BY <1>1, <1>2, <1>3, <1>4, <1>5, <1>6, GroupReviewKeeps, ConfirmKeeps, CarryOverKeeps DEF Shown!ReviewNext

(* Pages of one run show what the store holds but for what they cannot      *)
(* know, an action that is to keep decisions keeps those its page knows,    *)
(* and a review is timed only while a page of the run is there              *)
(* (persist_group_review, cluster_confirmation_updates, cleanup).           *)
THEOREM PagesShowDecisions == Spec => []DecisionsShown
<1> DEFINE Inv == part = "review" => ReviewInv
<1>1. Init => Inv
  BY BeginsApart, ReviewBegins
<1>2. Inv /\ [Next]_deskVars => Inv'
  BY StaysApart, ReviewSteps, ReviewStays
<1>3. Inv => DecisionsShown
  BY DEF ReviewInv, DecisionsShown
<1> QED
  BY <1>1, <1>2, <1>3, PTL DEF Spec
-----------------------------------------------------------------------------
(* What a setup page asks of the scanned sheets (SetupQueries).              *)

UnderWay == {"ask", "found", "answered", "back"}

(* A request that is under way was made for what is looked at, unless there *)
(* is a newer one; its answer is for what it asked.                         *)
PreviewAsksNewest ==
  /\ preview.token <= token
  /\ preview.pc \in UnderWay /\ preview.token = token => preview.view = view
  /\ preview.pc \in {"answered", "back"} =>
       /\ preview.answer \in Asked!Answer
       /\ preview.answer.of \in {None, preview.view}
       /\ preview.answer.whole \/ disturbed
  /\ preview.pc = "found" => sheets \/ disturbed
  /\ shown # None => shown.of \in {None, view} /\ (shown.whole \/ disturbed)

(* The same for each query, whose number is that of the choice it read.     *)
QueryAsks(x) ==
  /\ x.tries < Attempts
  /\ x.pc \in UnderWay => x.nth <= chosen /\ (x.nth = chosen => x.columns = columns)
  /\ x.pc \in {"answered", "back"} =>
       /\ x.answer \in Asked!Answer
       /\ x.answer.of \in {None, x.columns}
       /\ x.answer.whole \/ disturbed
  /\ x.pc = "found" => sheets \/ disturbed
QueriesAskColumns == \A q \in Queries : QueryAsks(query[q])

(* The ratio answers the newest choice that was heard, when it came last.   *)
RatioIsHeard ==
  /\ heard <= chosen
  /\ ratio # None => ratio.whole \/ disturbed
  /\ ~overtaken /\ heard = chosen => ratio = None \/ ratio.of = columns

AskedInv == Asked!QueriesTypeOK /\ PreviewAsksNewest /\ QueriesAskColumns /\ RatioIsHeard

PreviewRecords ==
  [pc : {"idle", "start"} \cup UnderWay, token : 0..MaxRequests,
   view : Views \cup {None}, answer : Asked!Answer \cup {None}]
QueryRecords ==
  [pc : {"idle", "start"} \cup UnderWay, columns : Columns \cup {None}, nth : 0..MaxRequests,
   tries : 0..Attempts, answer : Asked!Answer \cup {None}]

LEMMA AskedRecords ==
  ASSUME Asked!QueriesTypeOK
  PROVE  preview \in PreviewRecords /\ query \in [Queries -> QueryRecords]
  BY DEF Asked!QueriesTypeOK, PreviewRecords, QueryRecords, UnderWay

LEMMA AskedBegins == ASSUME Asked!QueriesInit PROVE AskedInv
<1>1. Asked!QueriesTypeOK
  <2>1. 0 \in 0..MaxRequests /\ 0 \in 0..Attempts
    BY QueryConstants
  <2> QED
    BY <2>1 DEF Asked!QueriesInit, Asked!QueriesTypeOK, Asked!Idle, Asked!NoQuery
<1> QED
  BY <1>1, QueryConstants DEF Asked!QueriesInit, AskedInv, PreviewAsksNewest, QueriesAskColumns, RatioIsHeard,
     QueryAsks, Asked!Idle, Asked!NoQuery, UnderWay

LEMMA AskedStays ==
  ASSUME AskedInv, UNCHANGED askedVars
  PROVE  AskedInv'
  BY DEF AskedInv, Asked!QueriesTypeOK, PreviewAsksNewest, QueriesAskColumns, QueryAsks, RatioIsHeard, askedVars

(* The preview after a step, written out.                                   *)
LEMMA PreviewGoes ==
  ASSUME preview \in PreviewRecords, NEW c \in {"idle", "start"} \cup UnderWay,
         NEW a \in Asked!Answer \cup {None}
  PROVE  /\ [preview EXCEPT !.pc = c] =
              [pc |-> c, token |-> preview.token, view |-> preview.view, answer |-> preview.answer]
         /\ [preview EXCEPT !.pc = c, !.answer = a] =
              [pc |-> c, token |-> preview.token, view |-> preview.view, answer |-> a]
<1> DEFINE r == [preview EXCEPT !.pc = c, !.answer = a]
<1>1. [preview EXCEPT !.pc = c] =
        [pc |-> c, token |-> preview.token, view |-> preview.view, answer |-> preview.answer]
  BY DEF PreviewRecords
<1>2. /\ r \in PreviewRecords
      /\ r.pc = c /\ r.token = preview.token /\ r.view = preview.view /\ r.answer = a
  BY DEF PreviewRecords
<1> HIDE DEF r
<1>3. r = [pc |-> r.pc, token |-> r.token, view |-> r.view, answer |-> r.answer]
  BY <1>2 DEF PreviewRecords
<1>4. r = [pc |-> c, token |-> preview.token, view |-> preview.view, answer |-> a]
  BY <1>2, <1>3
<1> QED
  BY <1>1, <1>4 DEF r

LEMMA FailedIsAnswer ==
  Asked!Failed \in Asked!Answer /\ Asked!Failed.of = None /\ Asked!Failed.whole = TRUE
  BY DEF Asked!Failed, Asked!Answer

(* A step of the preview leaves the queries alone.                          *)
LEMMA PreviewSteps ==
  ASSUME AskedInv, Asked!PreviewStep
  PROVE  AskedInv'
<1> USE DEF AskedInv
<1>1. preview \in PreviewRecords /\ token \in Nat /\ view \in Views
  BY AskedRecords, QueryConstants DEF Asked!QueriesTypeOK
<1>2. /\ UNCHANGED <<columns, chosen, query, ratio, sheets, heard, overtaken, disturbed>>
      /\ slot' \in {None, "preview", slot}
  BY DEF Asked!PreviewStep, Asked!LookAt, Asked!Reload, Asked!LoadPreview, Asked!PreviewEnters,
     Asked!PreviewReads, Asked!PreviewTimesOut, Asked!PreviewLeaves, Asked!PreviewBack, Asked!Schedule,
     Asked!overlapVars, Asked!historyVars
<1>3. QueriesAskColumns' /\ RatioIsHeard'
  BY <1>2 DEF QueriesAskColumns, QueryAsks, RatioIsHeard
<1>4. ASSUME /\ preview' \in PreviewRecords /\ token' \in 0..MaxRequests /\ view' \in Views
             /\ shown' \in Asked!Answer \cup {None}
      PROVE  Asked!QueriesTypeOK'
  BY <1>2, <1>4 DEF Asked!QueriesTypeOK, PreviewRecords, UnderWay
<1>5. token + chosen < MaxRequests => token + 1 \in 0..MaxRequests
  BY QueryConstants DEF Asked!QueriesTypeOK
<1> DEFINE Good == preview' \in PreviewRecords /\ token' \in 0..MaxRequests /\ view' \in Views
                   /\ shown' \in Asked!Answer \cup {None} /\ PreviewAsksNewest'
<1> SUFFICES Good
  BY <1>3, <1>4
<1> HIDE DEF Good
<1>6. /\ preview.pc \in {"idle", "start"} \cup UnderWay /\ preview.token \in 0..MaxRequests
      /\ preview.view \in Views \cup {None} /\ preview.answer \in Asked!Answer \cup {None}
      /\ shown \in Asked!Answer \cup {None} /\ token \in 0..MaxRequests
      /\ shown # None => shown.of \in {None, view} /\ (shown.whole \/ disturbed)
      /\ preview.token <= token
  BY <1>1 DEF PreviewRecords, Asked!QueriesTypeOK, PreviewAsksNewest
<1>7. ASSUME Asked!Schedule, UNCHANGED <<sheets, disturbed>>, view' \in Views,
             (shown' = None /\ view' # view) \/ UNCHANGED <<shown, view>>
      PROVE  Good
  <2>1. token' = token + 1 /\ token' \in 0..MaxRequests
    BY <1>5, <1>7 DEF Asked!Schedule, Asked!Asked
  <2>2. CASE preview.pc = "idle"
    <3>1. preview' = [pc |-> "start", token |-> preview.token, view |-> preview.view, answer |-> preview.answer]
      BY <1>1, <1>7, <2>2, PreviewGoes DEF Asked!Schedule, UnderWay
    <3> QED
      BY <1>1, <1>6, <1>7, <2>1, <3>1 DEF Good, UnderWay, PreviewAsksNewest, PreviewRecords
  <2>3. CASE preview.pc # "idle"
    <3>1. preview' = preview
      BY <1>7, <2>3 DEF Asked!Schedule
    <3>2. preview.pc \in UnderWay => preview.token # token + 1
      BY <1>1, <1>6 DEF PreviewAsksNewest
    <3> QED
      BY <1>1, <1>6, <1>7, <2>1, <3>1, <3>2 DEF Good, PreviewAsksNewest
  <2> QED
    BY <2>2, <2>3
<1>8. ASSUME NEW v \in Views, Asked!LookAt(v) \/ Asked!Reload PROVE Good
  BY <1>1, <1>7, <1>8 DEF Asked!LookAt, Asked!Reload, Asked!historyVars
<1>9. CASE Asked!LoadPreview
  <2>1. preview' = [pc |-> "ask", token |-> token, view |-> view, answer |-> None]
        /\ UNCHANGED <<view, token, shown, sheets, disturbed>>
    BY <1>9 DEF Asked!LoadPreview, Asked!historyVars
  <2> QED
    BY <1>1, <1>6, <2>1 DEF Good, UnderWay, PreviewAsksNewest, PreviewRecords
<1>10. CASE Asked!PreviewEnters
  <2>1. preview.pc = "ask" /\ UNCHANGED <<view, token, shown, sheets, disturbed>>
    BY <1>10 DEF Asked!PreviewEnters, Asked!historyVars
  <2>2. \/ preview' = [preview EXCEPT !.pc = "found"] /\ sheets
        \/ \E pc \in {"answered", "back"} : preview' = [preview EXCEPT !.pc = pc, !.answer = Asked!Failed]
    BY <1>10 DEF Asked!PreviewEnters, Asked!InventoryFound
  <2>3. preview.token = token => preview.view = view
    BY <2>1 DEF PreviewAsksNewest, UnderWay
  <2>4. CASE preview' = [preview EXCEPT !.pc = "found"] /\ sheets
    <3>1. preview' = [pc |-> "found", token |-> preview.token, view |-> preview.view, answer |-> preview.answer]
      BY <1>1, <2>4, PreviewGoes DEF UnderWay
    <3> QED
      BY <1>1, <1>6, <2>1, <2>3, <2>4, <3>1 DEF Good, UnderWay, PreviewAsksNewest, PreviewRecords
  <2>5. ASSUME NEW pc \in {"answered", "back"}, preview' = [preview EXCEPT !.pc = pc, !.answer = Asked!Failed]
        PROVE  Good
    <3>1. preview' = [pc |-> pc, token |-> preview.token, view |-> preview.view, answer |-> Asked!Failed]
      BY <1>1, <2>5, PreviewGoes, FailedIsAnswer DEF UnderWay
    <3> QED
      BY <1>1, <1>6, <2>1, <2>3, <3>1, FailedIsAnswer DEF Good, UnderWay, PreviewAsksNewest, PreviewRecords
  <2> QED
    BY <2>2, <2>4, <2>5
<1>11. ASSUME NEW a \in Asked!Answer, a.of \in {None, preview.view}, a.whole \/ disturbed, preview.pc = "found",
              preview' = [preview EXCEPT !.pc = "answered", !.answer = a],
              UNCHANGED <<view, token, shown>>
       PROVE  Good
  <2>1. preview' = [pc |-> "answered", token |-> preview.token, view |-> preview.view, answer |-> a]
    BY <1>1, <1>11, PreviewGoes DEF UnderWay
  <2>2. preview.token = token => preview.view = view
    BY <1>11 DEF PreviewAsksNewest, UnderWay
  <2> QED
    BY <1>1, <1>2, <1>6, <1>11, <2>1, <2>2 DEF Good, UnderWay, PreviewAsksNewest, PreviewRecords
<1>12. CASE Asked!PreviewReads
  <2>1. [of |-> preview.view, whole |-> sheets] \in Asked!Answer
    BY <1>6 DEF Asked!Answer, Asked!QueriesTypeOK
  <2>2. sheets \/ disturbed
    BY <1>12 DEF Asked!PreviewReads, PreviewAsksNewest
  <2> QED
    BY <1>11, <1>12, <2>1, <2>2 DEF Asked!PreviewReads
<1>13. CASE Asked!PreviewTimesOut
  BY <1>11, <1>13, FailedIsAnswer DEF Asked!PreviewTimesOut
<1>14. CASE Asked!PreviewLeaves
  <2>1. /\ preview' = [pc |-> "back", token |-> preview.token, view |-> preview.view, answer |-> preview.answer]
        /\ preview.pc = "answered" /\ UNCHANGED <<view, token, shown>>
    BY <1>1, <1>14, PreviewGoes DEF Asked!PreviewLeaves, UnderWay
  <2>2. /\ preview.token = token => preview.view = view
        /\ preview.answer \in Asked!Answer /\ preview.answer.of \in {None, preview.view}
        /\ preview.answer.whole \/ disturbed
    BY <2>1 DEF PreviewAsksNewest, UnderWay
  <2> QED
    BY <1>1, <1>2, <1>6, <2>1, <2>2 DEF Good, UnderWay, PreviewAsksNewest, PreviewRecords
<1>15. CASE Asked!PreviewBack
  <2>1. /\ preview.pc = "back" /\ UNCHANGED <<view, token>>
        /\ shown' = IF preview.token = token THEN preview.answer ELSE shown
        /\ \E pc \in {"idle", "start"} :
             preview' = [pc |-> pc, token |-> 0, view |-> None, answer |-> None]
    BY <1>15 DEF Asked!PreviewBack, Asked!StillAsked, Asked!Idle
  <2>2. /\ preview.token = token => preview.view = view
        /\ preview.answer \in Asked!Answer /\ preview.answer.of \in {None, preview.view}
        /\ preview.answer.whole \/ disturbed
    BY <2>1 DEF PreviewAsksNewest, UnderWay
  <2>3. shown' \in Asked!Answer \cup {None} /\ (shown' # None => shown'.of \in {None, view} /\ (shown'.whole \/ disturbed))
    BY <1>6, <2>1, <2>2
  <2>4. 0 \in 0..MaxRequests /\ 0 <= token
    BY <1>1, QueryConstants
  <2> QED
    BY <1>1, <1>2, <1>6, <2>1, <2>3, <2>4 DEF Good, UnderWay, PreviewAsksNewest, PreviewRecords
<1> QED
  BY <1>1, <1>8, <1>9, <1>10, <1>12, <1>13, <1>14, <1>15 DEF Asked!PreviewStep

(* A step of one query is well typed when its record and what it writes are. *)
LEMMA QueryKeeps ==
  ASSUME AskedInv, NEW q \in Queries, NEW x \in QueryRecords, query' = [query EXCEPT ![q] = x],
         UNCHANGED <<columns, chosen, view, token, preview, shown, sheets, disturbed>>,
         QueryAsks(x),
         slot' \in {None, "preview", "overlap", "scan"}, heard' \in 0..MaxRequests, overtaken' \in BOOLEAN,
         ratio' \in Asked!Answer \cup {None}, RatioIsHeard'
  PROVE  AskedInv'
<1>1. query' \in [Queries -> QueryRecords]
  BY AskedRecords DEF AskedInv
<1>2. Asked!QueriesTypeOK'
  BY <1>1 DEF AskedInv, Asked!QueriesTypeOK, QueryRecords, UnderWay
<1>3. QueriesAskColumns'
  <2>1. query \in [Queries -> QueryRecords]
    BY AskedRecords DEF AskedInv
  <2>2. \A p \in Queries : QueryAsks(query'[p])
    BY <2>1 DEF AskedInv, QueriesAskColumns
  <2> QED
    BY <2>2 DEF QueriesAskColumns, QueryAsks
<1>4. PreviewAsksNewest'
  BY DEF AskedInv, PreviewAsksNewest
<1> QED
  BY <1>2, <1>3, <1>4 DEF AskedInv

LEMMA QuerySteps ==
  ASSUME AskedInv, NEW q \in Queries, Asked!QueryStep(q)
  PROVE  AskedInv'
<1> DEFINE x0 == query[q]
<1>1. /\ query \in [Queries -> QueryRecords] /\ columns \in Columns \cup {None}
      /\ chosen \in 0..MaxRequests /\ heard \in 0..MaxRequests /\ heard <= chosen
      /\ ratio \in Asked!Answer \cup {None} /\ overtaken \in BOOLEAN
      /\ slot \in {None, "preview", "overlap", "scan"}
  BY AskedRecords DEF AskedInv, Asked!QueriesTypeOK, RatioIsHeard
<1>2. x0 \in QueryRecords /\ QueryAsks(x0) /\ RatioIsHeard
  BY <1>1 DEF AskedInv, QueriesAskColumns
<1>3. /\ x0.tries \in 0..Attempts /\ x0.tries < Attempts /\ x0.nth \in 0..MaxRequests
      /\ x0.columns \in Columns \cup {None} /\ x0.answer \in Asked!Answer \cup {None}
  BY <1>2 DEF QueryRecords, QueryAsks
<1>4. Asked!NoQuery \in QueryRecords /\ QueryAsks(Asked!NoQuery)
  BY QueryConstants DEF Asked!NoQuery, QueryRecords, QueryAsks, UnderWay
<1>5. ASSUME NEW c \in Columns \cup {None}, Asked!Choose(q, c) PROVE AskedInv'
  <2>1. /\ columns' = c /\ chosen' = chosen + 1 /\ chosen' \in 0..MaxRequests
        /\ query' = [query EXCEPT ![q] = [Asked!NoQuery EXCEPT !.pc = "start"]]
        /\ UNCHANGED <<ratio, view, token, preview, shown, slot, sheets, heard, overtaken, disturbed>>
    BY <1>1, <1>5, QueryConstants
    DEF Asked!Choose, Asked!Asked, Asked!previewVars, Asked!historyVars, AskedInv, Asked!QueriesTypeOK
  <2>2. [Asked!NoQuery EXCEPT !.pc = "start"] \in QueryRecords
    BY <1>4 DEF QueryRecords
  <2>3. query' \in [Queries -> QueryRecords]
    BY <1>1, <2>1, <2>2
  <2>4. Asked!QueriesTypeOK'
    BY <1>5, <2>1, <2>3 DEF AskedInv, Asked!QueriesTypeOK, QueryRecords, UnderWay
  <2>5. QueriesAskColumns'
    <3>1. \A p \in Queries \ {q} : query'[p] = query[p] /\ query[p] \in QueryRecords /\ QueryAsks(query[p])
      BY <1>1, <2>1 DEF AskedInv, QueriesAskColumns
    <3>2. \A p \in Queries \ {q} : QueryAsks(query[p])'
      BY <1>1, <2>1, <3>1, QueryConstants DEF QueryAsks, QueryRecords
    <3>3. query'[q] = [Asked!NoQuery EXCEPT !.pc = "start"]
      BY <1>1, <2>1
    <3>4. QueryAsks(query[q])'
      BY <3>3, QueryConstants DEF QueryAsks, Asked!NoQuery, UnderWay
    <3> QED
      BY <3>2, <3>4 DEF QueriesAskColumns
  <2>6. RatioIsHeard' /\ PreviewAsksNewest'
    BY <1>1, <2>1, QueryConstants DEF AskedInv, RatioIsHeard, PreviewAsksNewest
  <2> QED
    BY <2>4, <2>5, <2>6 DEF AskedInv
<1>6. CASE Asked!BeginQuery(q)
  <2>1. UNCHANGED <<columns, chosen, view, token, preview, shown, slot, sheets, disturbed>> /\ x0.pc = "start"
    BY <1>6 DEF Asked!BeginQuery, Asked!previewVars
  <2>2. CASE columns = None
    <3>1. /\ query' = [query EXCEPT ![q] = Asked!NoQuery] /\ ratio' = None
          /\ overtaken' = (chosen < heard) /\ heard' = IF chosen > heard THEN chosen ELSE heard
      BY <1>6, <2>2 DEF Asked!BeginQuery, Asked!NoColumns, Asked!Heard
    <3>2. RatioIsHeard' /\ heard' \in 0..MaxRequests
      BY <1>1, <2>1, <3>1, QueryConstants DEF RatioIsHeard
    <3>3. overtaken' \in BOOLEAN
      BY <3>1
    <3> QED
      BY <1>1, <1>4, <2>1, <3>1, <3>2, <3>3, QueryKeeps
  <2>3. CASE columns # None
    <3>1. query' = [query EXCEPT ![q].pc = "ask", ![q].columns = columns, ![q].nth = chosen]
          /\ UNCHANGED <<ratio, heard, overtaken>>
      BY <1>6, <2>3 DEF Asked!BeginQuery
    <3> DEFINE x == [query[q] EXCEPT !.pc = "ask", !.columns = columns, !.nth = chosen]
    <3>2. /\ query' = [query EXCEPT ![q] = x] /\ x \in QueryRecords
         /\ x.pc = "ask" /\ x.columns = columns /\ x.nth = chosen /\ x.tries = x0.tries
      <4>1. query' = [query EXCEPT ![q] = x]
        BY <3>1
      <4>2. x \in QueryRecords
        BY <1>1, <1>2 DEF QueryRecords, UnderWay
      <4>3. x.pc = "ask" /\ x.columns = columns /\ x.nth = chosen /\ x.tries = x0.tries
        BY <1>2 DEF QueryRecords
      <4> QED
        BY <4>1, <4>2, <4>3
    <3> HIDE DEF x
    <3>3. QueryAsks(x)
      BY <1>1, <1>3, <3>2, QueryConstants DEF QueryAsks
    <3>4. RatioIsHeard'
      BY <1>2, <2>1, <3>1 DEF RatioIsHeard
    <3> QED
      BY <1>1, <2>1, <3>1, <3>2, <3>3, <3>4, QueryKeeps
  <2> QED
    BY <2>2, <2>3
<1>7. CASE Asked!QueryEnters(q)
  <2>1. UNCHANGED <<columns, chosen, ratio, view, token, preview, shown, sheets, heard, overtaken, disturbed>>
        /\ x0.pc = "ask" /\ slot' \in {slot, "overlap"}
    BY <1>7 DEF Asked!QueryEnters, Asked!previewVars, Asked!historyVars
  <2>2. RatioIsHeard'
    BY <1>2, <2>1 DEF RatioIsHeard
  <2>3. ASSUME NEW x \in QueryRecords, query' = [query EXCEPT ![q] = x], QueryAsks(x) PROVE AskedInv'
    BY <1>1, <2>1, <2>2, <2>3, QueryKeeps
  <2>4. CASE Asked!Free("overlap") /\ sheets
    <3>1. query' = [query EXCEPT ![q].pc = "found", ![q].answer = None]
      BY <1>7, <2>4 DEF Asked!QueryEnters, Asked!InventoryFound
    <3> DEFINE x == [query[q] EXCEPT !.pc = "found", !.answer = None]
    <3>2. /\ query' = [query EXCEPT ![q] = x] /\ x \in QueryRecords
         /\ x.pc = "found" /\ x.columns = x0.columns /\ x.nth = x0.nth /\ x.tries = x0.tries
      <4>1. query' = [query EXCEPT ![q] = x]
        BY <3>1
      <4>2. x \in QueryRecords
        BY <1>1, <1>2 DEF QueryRecords, UnderWay
      <4>3. x.pc = "found" /\ x.columns = x0.columns /\ x.nth = x0.nth /\ x.tries = x0.tries
        BY <1>2 DEF QueryRecords
      <4> QED
        BY <4>1, <4>2, <4>3
    <3> HIDE DEF x
    <3> QED
      BY <1>2, <2>1, <2>3, <2>4, <3>2 DEF QueryAsks, UnderWay
  <2>5. CASE Asked!Free("overlap") /\ ~sheets
    <3>1. query' = [query EXCEPT ![q].pc = "answered", ![q].answer = Asked!Failed]
      BY <1>7, <2>5 DEF Asked!QueryEnters, Asked!InventoryFound
    <3> DEFINE x == [query[q] EXCEPT !.pc = "answered", !.answer = Asked!Failed]
    <3>2. /\ query' = [query EXCEPT ![q] = x] /\ x \in QueryRecords
         /\ x.answer = Asked!Failed /\ x.pc = "answered" /\ x.columns = x0.columns /\ x.nth = x0.nth /\ x.tries = x0.tries
      <4>1. query' = [query EXCEPT ![q] = x]
        BY <3>1
      <4>2. x \in QueryRecords
        BY <1>1, <1>2, FailedIsAnswer DEF QueryRecords, UnderWay
      <4>3. x.answer = Asked!Failed /\ x.pc = "answered" /\ x.columns = x0.columns /\ x.nth = x0.nth /\ x.tries = x0.tries
        BY <1>2 DEF QueryRecords
      <4> QED
        BY <4>1, <4>2, <4>3
    <3> HIDE DEF x
    <3> QED
      BY <1>2, <2>1, <2>3, <3>2, FailedIsAnswer DEF QueryAsks, UnderWay
  <2>6. CASE ~Asked!Free("overlap") /\ x0.tries + 1 = Attempts
    <3>1. query' = [query EXCEPT ![q] = Asked!NoQuery]
      BY <1>1, <1>7, <2>6 DEF Asked!QueryEnters, Asked!Retried
    <3> QED
      BY <1>4, <2>3, <3>1
  <2>7. CASE ~Asked!Free("overlap") /\ x0.tries + 1 # Attempts
    <3> DEFINE x == [x0 EXCEPT !.tries = x0.tries + 1]
    <3>1. query' = [query EXCEPT ![q] = x]
      <4>1. query' = [query EXCEPT ![q] = Asked!Retried(query[q])]
        BY <1>7, <2>7 DEF Asked!QueryEnters
      <4> QED
        BY <2>7, <4>1 DEF Asked!Retried
    <3>2. x0.tries + 1 \in 0..Attempts /\ x0.tries + 1 < Attempts
      BY <1>3, <2>7, QueryConstants
    <3>3. x \in QueryRecords /\ x.tries = x0.tries + 1 /\ x.pc = "ask" /\ x.nth = x0.nth /\ x.columns = x0.columns
      BY <1>2, <2>1, <3>2 DEF QueryRecords
    <3>4. QueryAsks(x)
      BY <1>2, <2>1, <3>2, <3>3 DEF QueryAsks, UnderWay
    <3> QED
      BY <2>3, <3>1, <3>3, <3>4
  <2> QED
    BY <2>4, <2>5, <2>6, <2>7
<1>8. ASSUME NEW a \in Asked!Answer, a.of \in {None, x0.columns}, a.whole \/ disturbed, x0.pc = "found",
             query' = [query EXCEPT ![q].pc = "answered", ![q].answer = a],
             UNCHANGED <<columns, chosen, ratio, view, token, preview, shown, slot, sheets, heard, overtaken, disturbed>>
      PROVE  AskedInv'
  <2> DEFINE x == [query[q] EXCEPT !.pc = "answered", !.answer = a]
  <2>1. /\ query' = [query EXCEPT ![q] = x] /\ x \in QueryRecords
       /\ x.answer = a /\ x.pc = "answered" /\ x.columns = x0.columns /\ x.nth = x0.nth /\ x.tries = x0.tries
    <3>1. query' = [query EXCEPT ![q] = x]
      BY <1>8
    <3>2. x \in QueryRecords
      BY <1>1, <1>2, <1>8 DEF QueryRecords, UnderWay
    <3>3. x.answer = a /\ x.pc = "answered" /\ x.columns = x0.columns /\ x.nth = x0.nth /\ x.tries = x0.tries
      BY <1>2 DEF QueryRecords
    <3> QED
      BY <3>1, <3>2, <3>3
  <2> HIDE DEF x
  <2>2. QueryAsks(x)
    BY <1>2, <1>8, <2>1 DEF QueryAsks, UnderWay
  <2>3. RatioIsHeard'
    BY <1>2, <1>8 DEF RatioIsHeard
  <2> QED
    BY <1>1, <1>8, <2>1, <2>2, <2>3, QueryKeeps
<1>9. CASE Asked!QueryReads(q)
  <2>1. [of |-> x0.columns, whole |-> sheets] \in Asked!Answer
    BY <1>3 DEF Asked!Answer, AskedInv, Asked!QueriesTypeOK
  <2>2. sheets \/ disturbed
    BY <1>2, <1>9 DEF Asked!QueryReads, QueryAsks
  <2> QED
    BY <1>8, <1>9, <2>1, <2>2 DEF Asked!QueryReads, Asked!previewVars, Asked!historyVars
<1>10. CASE Asked!QueryTimesOut(q)
  BY <1>8, <1>10, FailedIsAnswer DEF Asked!QueryTimesOut, Asked!previewVars, Asked!historyVars
<1>11. CASE Asked!QueryLeaves(q)
  <2>1. /\ UNCHANGED <<columns, chosen, ratio, view, token, preview, shown, sheets, heard, overtaken, disturbed>>
        /\ x0.pc = "answered" /\ slot' \in {slot, None} /\ query' = [query EXCEPT ![q].pc = "back"]
    BY <1>11 DEF Asked!QueryLeaves, Asked!previewVars, Asked!historyVars
  <2> DEFINE x == [query[q] EXCEPT !.pc = "back"]
  <2>2. /\ query' = [query EXCEPT ![q] = x] /\ x \in QueryRecords
       /\ x.answer = x0.answer /\ x.pc = "back" /\ x.columns = x0.columns /\ x.nth = x0.nth /\ x.tries = x0.tries
    <3>1. query' = [query EXCEPT ![q] = x]
      BY <2>1
    <3>2. x \in QueryRecords
      BY <1>1, <1>2 DEF QueryRecords, UnderWay
    <3>3. x.answer = x0.answer /\ x.pc = "back" /\ x.columns = x0.columns /\ x.nth = x0.nth /\ x.tries = x0.tries
      BY <1>2 DEF QueryRecords
    <3> QED
      BY <3>1, <3>2, <3>3
  <2> HIDE DEF x
  <2>3. QueryAsks(x)
    BY <1>2, <2>1, <2>2 DEF QueryAsks, UnderWay
  <2>4. RatioIsHeard'
    BY <1>2, <2>1 DEF RatioIsHeard
  <2> QED
    BY <1>1, <2>1, <2>2, <2>3, <2>4, QueryKeeps
<1>12. CASE Asked!QueryBack(q)
  <2>1. /\ UNCHANGED <<columns, chosen, view, token, preview, shown, slot, sheets, disturbed>> /\ x0.pc = "back"
        /\ ratio' = IF x0.answer.of = None THEN None ELSE x0.answer
        /\ overtaken' = (x0.nth < heard) /\ heard' = IF x0.nth > heard THEN x0.nth ELSE heard
        /\ query' = [query EXCEPT ![q] = Asked!NoQuery]
    BY <1>12 DEF Asked!QueryBack, Asked!previewVars, Asked!RatioOf, Asked!Heard
  <2>2. /\ x0.nth <= chosen /\ (x0.nth = chosen => x0.columns = columns)
        /\ x0.answer \in Asked!Answer /\ x0.answer.of \in {None, x0.columns} /\ (x0.answer.whole \/ disturbed)
    BY <1>2, <2>1 DEF QueryAsks, UnderWay
  <2>3. heard' \in 0..MaxRequests /\ heard' <= chosen
    <3>1. heard' \in {x0.nth, heard}
      BY <2>1
    <3> QED
      BY <1>1, <1>3, <2>2, <3>1
  <2>4. ~overtaken' /\ heard' = chosen => x0.nth = chosen
    <3>1. x0.nth < heard => overtaken'
      BY <2>1
    <3>2. ~(x0.nth < heard) => heard' = x0.nth
      <4>1. \A i, j \in Nat : ~(i < j) => i > j \/ i = j
        OBVIOUS
      <4>2. x0.nth \in Nat /\ heard \in Nat
        BY <1>1, <1>3, QueryConstants
      <4> QED
        BY <2>1, <4>1, <4>2
    <3> QED
      BY <3>1, <3>2
  <2>5. RatioIsHeard'
    BY <2>1, <2>2, <2>3, <2>4 DEF RatioIsHeard
  <2>6. overtaken' \in BOOLEAN /\ ratio' \in Asked!Answer \cup {None}
    BY <2>1, <2>2
  <2> QED
    BY <1>1, <1>4, <2>1, <2>3, <2>5, <2>6, QueryKeeps
<1> QED
  BY <1>5, <1>6, <1>7, <1>9, <1>10, <1>11, <1>12 DEF Asked!QueryStep

(* Sheets are removed under a reader only with a note of it.                *)
LEMMA AskedSteps ==
  ASSUME AskedInv, Asked!QueriesNext
  PROVE  AskedInv'
<1>1. ASSUME UNCHANGED <<view, token, preview, shown, columns, chosen, query, ratio, heard, overtaken>>,
             slot' \in {None, "preview", "overlap", "scan"}, sheets' \in BOOLEAN, disturbed' \in BOOLEAN,
             disturbed => disturbed',
             sheets => sheets' \/ (Asked!Reading => disturbed')
      PROVE  AskedInv'
  <2>1. Asked!QueriesTypeOK'
    BY <1>1 DEF AskedInv, Asked!QueriesTypeOK
  <2>2. PreviewAsksNewest'
    BY <1>1 DEF AskedInv, Asked!QueriesTypeOK, PreviewAsksNewest, Asked!Reading
  <2>3. QueriesAskColumns'
    BY <1>1 DEF AskedInv, Asked!QueriesTypeOK, QueriesAskColumns, QueryAsks, Asked!Reading
  <2>4. RatioIsHeard'
    BY <1>1 DEF AskedInv, RatioIsHeard
  <2> QED
    BY <2>1, <2>2, <2>3, <2>4 DEF AskedInv
<1>2. /\ disturbed \in BOOLEAN /\ Asked!Reading \in BOOLEAN /\ sheets \in BOOLEAN
      /\ slot \in {None, "preview", "overlap", "scan"}
  BY DEF AskedInv, Asked!QueriesTypeOK, Asked!Reading
<1>3. CASE Asked!ScanEnters
  BY <1>1, <1>2, <1>3 DEF Asked!ScanEnters, Asked!previewVars, Asked!overlapVars
<1>4. CASE Asked!ScanLeaves
  BY <1>1, <1>2, <1>4 DEF Asked!ScanLeaves, Asked!previewVars, Asked!overlapVars, Asked!historyVars
<1>5. CASE Asked!DiscardSheets
  BY <1>1, <1>2, <1>5 DEF Asked!DiscardSheets, Asked!previewVars, Asked!overlapVars
<1> QED
  BY <1>3, <1>4, <1>5, PreviewSteps, QuerySteps DEF Asked!QueriesNext

(* What a setup page shows of the scanned sheets answers what it asks now,  *)
(* and was read whole unless sheets were removed under its reader           *)
(* (_drain_preview_requests, _recompute_key_overlap, SetupScanStore).       *)
THEOREM AnswersAreCurrent == Spec => []ShownIsAsked
<1> DEFINE Inv == part = "queries" => AskedInv
<1>1. Init => Inv
  BY BeginsApart, AskedBegins
<1>2. Inv /\ [Next]_deskVars => Inv'
  BY StaysApart, AskedSteps, AskedStays
<1>3. Inv => ShownIsAsked
  <2> SUFFICES ASSUME AskedInv
               PROVE  Asked!PreviewIsNewest /\ Asked!RatioOfColumns /\ Asked!AnswersAreWhole
    BY DEF ShownIsAsked
  <2> QED
    BY DEF AskedInv, PreviewAsksNewest, RatioIsHeard, Asked!PreviewIsNewest, Asked!RatioOfColumns,
       Asked!AnswersAreWhole
<1> QED
  BY <1>1, <1>2, <1>3, PTL DEF Spec
-----------------------------------------------------------------------------
(* The profiles and their dialogs (Profiles).                                *)

Sitting == {"open", "checking"}

(* A dialog that is open is about a profile, and only a setup page may be on *)
(* the built-in one; what a profile editor or a promotion has read is one.   *)
FormsAreNamed ==
  \A d \in Saved!Dialogs : forms[d].phase \in Sitting =>
    /\ forms[d].name \in Names \cup {Default}
    /\ d \notin Workspaces => forms[d].name \in Names
    /\ d \notin Exports => forms[d].read \in Saved!Contents

(* A name without a profile owes nothing.                                   *)
NothingOwed == \A n \in Names : files[n] = None => owed[n] = {}

(* What a promotion is about to write over has what it read or was saved    *)
(* while it was checked.                                                    *)
PromotionKnows ==
  \A q \in Promotions : forms[q].phase = "checking" => owed[forms[q].name] \subseteq raced \cup forms[q].read

(* Each figure is open or confirmed in a profile.                           *)
Confirmed == UNION {owed[n] : n \in Names}
FiguresOf(v, told) ==
  /\ v.open \in SUBSET Figures
  /\ v.mapped = Cardinality(Figures \ v.open)
  /\ Figures \ v.open \subseteq told
FiguresIn(v) == FiguresOf(v, Confirmed)
FiguresCounted == FiguresIn(mapping) /\ \A p \in MapTabs : FiguresIn(listed[p])

SavedInv ==
  /\ Saved!ProfilesTypeOK /\ FormsAreNamed /\ NothingOwed /\ PromotionKnows
  /\ Saved!SavedIsKept /\ FiguresCounted

LEMMA NewContent ==
  ASSUME NEW c \in Saved!Contents, NEW x \in Saved!Dialogs \cup Figures
  PROVE  /\ Saved!WithNew(c, x) \in Saved!Contents
         /\ c \cup {x} \in Saved!Contents
         /\ Saved!WithNew(c, x) \subseteq c \cup {x}
         /\ c \cap Figures \subseteq Saved!WithNew(c, x)
         /\ x \in Saved!WithNew(c, x)
  BY ProfileConstants DEF Saved!WithNew, Saved!Contents, Saved!Contracts

LEMMA NoneIsNoContent == \A c \in Saved!Contents : c # None
  BY ProfileConstants DEF Saved!Contents, Saved!Dialogs

(* Saving x in profile n leaves the others and their history alone, adds to *)
(* what profile n owes, and is noted when a promotion checks that profile.  *)
LEMMA SaveKeeps ==
  ASSUME SavedInv, NEW n \in Names, NEW x \in Saved!Dialogs \cup Figures, NEW content \in Saved!Contents,
         Saved!SaveProfile(n, content, x),
         Saved!WithNew(owed[n], x) \subseteq raced \cup content
  PROVE  /\ files' \in [Names -> {None} \cup Saved!Contents] /\ owed' \in [Names -> Saved!Contents]
         /\ raced' \in Saved!Contents
         /\ NothingOwed' /\ Saved!SavedIsKept'
         /\ Confirmed \cap Figures \subseteq Confirmed' /\ x \in Confirmed'
         /\ \A q \in Promotions \ {x} : forms[q].phase = "checking" =>
              owed'[forms[q].name] \subseteq raced' \cup forms[q].read
<1>1. /\ files \in [Names -> {None} \cup Saved!Contents] /\ owed \in [Names -> Saved!Contents]
      /\ raced \in Saved!Contents
  BY DEF SavedInv, Saved!ProfilesTypeOK
<1>2. /\ files' = [files EXCEPT ![n] = content]
      /\ owed' = [owed EXCEPT ![n] = Saved!WithNew(owed[n], x)]
      /\ raced' = IF Saved!Checked(n, x) THEN raced \cup {x} ELSE raced
  BY DEF Saved!SaveProfile, Saved!Told
<1>3. /\ Saved!WithNew(owed[n], x) \in Saved!Contents /\ raced \cup {x} \in Saved!Contents
      /\ Saved!WithNew(owed[n], x) \subseteq owed[n] \cup {x}
  <2>1. owed[n] \in Saved!Contents
    BY <1>1
  <2> QED
    BY <1>1, <2>1, NewContent
<1>4. /\ files' \in [Names -> {None} \cup Saved!Contents] /\ owed' \in [Names -> Saved!Contents]
      /\ raced' \in Saved!Contents /\ raced \subseteq raced'
  BY <1>1, <1>2, <1>3
<1>5. NothingOwed'
  BY <1>1, <1>2, NoneIsNoContent DEF SavedInv, NothingOwed
<1>6. Saved!SavedIsKept'
  BY <1>1, <1>2, <1>4, NoneIsNoContent DEF SavedInv, Saved!SavedIsKept
<1>7. \A m \in Names : owed[m] \cap Figures \subseteq owed'[m]
  BY <1>1, <1>2, NewContent
<1>8. x \in owed'[n]
  BY <1>1, <1>2, NewContent
<1>9. ASSUME NEW q \in Promotions \ {x}, forms[q].phase = "checking"
      PROVE  owed'[forms[q].name] \subseteq raced' \cup forms[q].read
  <2>1. forms[q].name \in Names /\ owed[forms[q].name] \subseteq raced \cup forms[q].read
    BY <1>9, ProfileConstants DEF SavedInv, FormsAreNamed, PromotionKnows, Sitting, Saved!Dialogs
  <2>2. CASE forms[q].name = n
    <3>1. raced' = raced \cup {x}
      BY <1>2, <1>9, <2>2 DEF Saved!Checked
    <3>2. owed'[n] \subseteq owed[n] \cup {x}
      <4>1. owed'[n] = Saved!WithNew(owed[n], x) /\ owed[n] \in Saved!Contents
        BY <1>1, <1>2
      <4> QED
        BY <1>3, <4>1
    <3> QED
      BY <2>1, <2>2, <3>1, <3>2
  <2>3. CASE forms[q].name # n
    BY <1>1, <1>2, <1>4, <2>1, <2>3
  <2> QED
    BY <2>2, <2>3
<1> QED
  BY <1>4, <1>5, <1>6, <1>7, <1>8, <1>9 DEF Confirmed

(* Figures that were confirmed stay so, and the counts with them.           *)
LEMMA CountsKept ==
  ASSUME FiguresCounted, Confirmed \cap Figures \subseteq Confirmed', UNCHANGED <<mapping, listed>>
  PROVE  FiguresCounted'
  BY DEF FiguresCounted, FiguresIn, FiguresOf

(* The instance counts as the standard module does.                         *)
LEMMA SameCount == \A S : Saved!Cardinality(S) = Cardinality(S)
  BY DEF Saved!Cardinality, Cardinality

LEMMA SavedBegins == ASSUME Saved!ProfilesInit PROVE SavedInv
<1>1. Cardinality(Figures) \in Nat /\ Cardinality({}) = 0
  BY ProfileConstants, FS_CardinalityType, FS_EmptySet
<1>2. Saved!AtFirst \in Saved!Mappings /\ FiguresIn(Saved!AtFirst)
  <2>1. Saved!AtFirst = [open |-> Figures, mapped |-> 0] /\ Figures \ Figures = {}
    BY DEF Saved!AtFirst
  <2>2. 0 \in 0..Cardinality(Figures)
    BY <1>1
  <2>3. Saved!AtFirst.open = Figures /\ Saved!AtFirst.mapped = 0
    BY <2>1
  <2>4. FiguresIn(Saved!AtFirst)
    BY <1>1, <2>1, <2>3 DEF FiguresIn, FiguresOf
  <2>5. Saved!AtFirst \in Saved!Mappings
    BY <2>2, SameCount DEF Saved!AtFirst, Saved!Mappings
  <2> QED
    BY <2>4, <2>5
<1>3. PICK S \in SUBSET Saved!Dialogs : forms = [d \in Saved!Dialogs |-> IF d \in S THEN Saved!Closed ELSE Saved!Never]
  BY DEF Saved!ProfilesInit
<1>4. \A d \in Saved!Dialogs : forms[d].phase \in {"closed", "done"} /\ forms[d].name = None /\ forms[d].read = None
  BY <1>3 DEF Saved!Closed, Saved!Never
<1>5. Saved!ProfilesTypeOK
  <2>1. forms \in [Saved!Dialogs -> [name : Names \cup {Default, None}, read : {None} \cup Saved!Contents,
                                     phase : {"closed", "open", "checking", "done"}]]
    BY <1>3 DEF Saved!Closed, Saved!Never
  <2> QED
    BY <1>2, <2>1 DEF Saved!ProfilesInit, Saved!ProfilesTypeOK, Saved!Contents
<1>6. FormsAreNamed /\ PromotionKnows
  BY <1>4 DEF FormsAreNamed, PromotionKnows, Sitting, Saved!Dialogs
<1>7. NothingOwed /\ Saved!SavedIsKept /\ FiguresCounted
  BY <1>2 DEF Saved!ProfilesInit, NothingOwed, Saved!SavedIsKept, FiguresCounted
<1> QED
  BY <1>5, <1>6, <1>7 DEF SavedInv

LEMMA SavedStays ==
  ASSUME SavedInv, UNCHANGED savedVars
  PROVE  SavedInv'
  BY DEF savedVars, SavedInv, Saved!ProfilesTypeOK, FormsAreNamed, NothingOwed, PromotionKnows, Saved!SavedIsKept,
     FiguresCounted, FiguresIn, Confirmed

(* A dialog that goes on as the others may see it go.                       *)
FormRecords == [name : Names \cup {Default, None}, read : {None} \cup Saved!Contents,
                phase : {"closed", "open", "checking", "done"}]

LEMMA FormKeeps ==
  ASSUME SavedInv, NEW d \in Saved!Dialogs, NEW n \in Names \cup {Default},
         NEW c \in {None} \cup Saved!Contents, NEW phase \in {"open", "checking", "done"},
         Saved!Goes(d, n, c, phase),
         phase \in Sitting => (d \notin Workspaces => n \in Names) /\ (d \notin Exports => c \in Saved!Contents),
         d \in Promotions /\ phase = "checking" => owed'[n] \subseteq raced' \cup c,
         \A q \in Promotions \ {d} : forms[q].phase = "checking" =>
           owed'[forms[q].name] \subseteq raced' \cup forms[q].read
  PROVE  forms' \in [Saved!Dialogs -> FormRecords] /\ FormsAreNamed' /\ PromotionKnows'
<1> DEFINE r == [name |-> n, read |-> c, phase |-> phase]
<1>1. forms' = [forms EXCEPT ![d] = r] /\ forms \in [Saved!Dialogs -> FormRecords]
  BY DEF Saved!Goes, SavedInv, Saved!ProfilesTypeOK, FormRecords
<1>2. r \in FormRecords /\ r.name = n /\ r.read = c /\ r.phase = phase
  BY DEF FormRecords
<1> HIDE DEF r
<1>3. /\ forms' \in [Saved!Dialogs -> FormRecords] /\ forms'[d] = r
      /\ \A e \in Saved!Dialogs \ {d} : forms'[e] = forms[e]
  BY <1>1, <1>2
<1>4. FormsAreNamed'
  <2> SUFFICES ASSUME NEW e \in Saved!Dialogs, forms'[e].phase \in Sitting
               PROVE  /\ forms'[e].name \in Names \cup {Default}
                      /\ e \notin Workspaces => forms'[e].name \in Names
                      /\ e \notin Exports => forms'[e].read \in Saved!Contents
    BY DEF FormsAreNamed
  <2>1. CASE e = d
    BY <1>2, <1>3, <2>1
  <2>2. CASE e # d
    BY <1>3, <2>2 DEF SavedInv, FormsAreNamed
  <2> QED
    BY <2>1, <2>2
<1>5. PromotionKnows'
  <2> SUFFICES ASSUME NEW q \in Promotions, forms'[q].phase = "checking"
               PROVE  owed'[forms'[q].name] \subseteq raced' \cup forms'[q].read
    BY DEF PromotionKnows
  <2>1. CASE q = d
    BY <1>2, <1>3, <2>1
  <2>2. CASE q # d
    BY <1>3, <2>2 DEF Saved!Dialogs
  <2> QED
    BY <2>1, <2>2
<1> QED
  BY <1>3, <1>4, <1>5

(* What a step has to show that saves x through a dialog of that name.      *)
LEMMA SavedFrom ==
  ASSUME SavedInv,
         files' \in [Names -> {None} \cup Saved!Contents], owed' \in [Names -> Saved!Contents],
         raced' \in Saved!Contents, forms' \in [Saved!Dialogs -> FormRecords],
         UNCHANGED <<mapping, listed, final>>,
         Confirmed \cap Figures \subseteq Confirmed',
         NothingOwed', Saved!SavedIsKept', FormsAreNamed', PromotionKnows'
  PROVE  SavedInv'
<1>1. FiguresCounted'
  BY CountsKept DEF SavedInv
<1> QED
  BY <1>1 DEF SavedInv, Saved!ProfilesTypeOK, FormRecords

(* A dialog saves what it puts in, and goes on about the same profile.      *)
LEMMA DialogSaves ==
  ASSUME SavedInv, NEW d \in Saved!Dialogs, NEW n \in Names, NEW content \in Saved!Contents,
         Saved!SaveProfile(n, content, d), Saved!WithNew(owed[n], d) \subseteq raced \cup content,
         NEW c \in {None} \cup Saved!Contents, NEW phase \in {"open", "done"}, Saved!Goes(d, n, c, phase),
         phase = "open" /\ d \notin Exports => c \in Saved!Contents,
         UNCHANGED <<mapping, listed, final>>
  PROVE  SavedInv'
<1>1. d \in Saved!Dialogs \cup Figures
  OBVIOUS
<1>2. /\ files' \in [Names -> {None} \cup Saved!Contents] /\ owed' \in [Names -> Saved!Contents]
      /\ raced' \in Saved!Contents
      /\ NothingOwed' /\ Saved!SavedIsKept'
      /\ Confirmed \cap Figures \subseteq Confirmed'
      /\ \A q \in Promotions \ {d} : forms[q].phase = "checking" =>
           owed'[forms[q].name] \subseteq raced' \cup forms[q].read
  BY <1>1, SaveKeeps
<1>3. /\ n \in Names \cup {Default} /\ phase \in {"open", "checking", "done"} /\ ~(phase = "checking")
      /\ phase \in Sitting => (d \notin Workspaces => n \in Names) /\ (d \notin Exports => c \in Saved!Contents)
  BY DEF Sitting
<1>4. forms' \in [Saved!Dialogs -> FormRecords] /\ FormsAreNamed' /\ PromotionKnows'
  BY <1>2, <1>3, FormKeeps
<1> QED
  BY <1>2, <1>4, SavedFrom

(* A dialog that saves nothing.                                             *)
LEMMA DialogGoesOn ==
  ASSUME SavedInv, NEW d \in Saved!Dialogs, NEW n \in Names \cup {Default},
         NEW c \in {None} \cup Saved!Contents, NEW phase \in {"open", "checking"}, Saved!Goes(d, n, c, phase),
         d \notin Workspaces => n \in Names, d \notin Exports => c \in Saved!Contents,
         d \in Promotions /\ phase = "checking" => owed[n] \subseteq raced \cup c,
         UNCHANGED <<files, owed, raced, mapping, listed, final>>
  PROVE  SavedInv'
<1>1. /\ phase \in {"open", "checking", "done"}
      /\ d \in Promotions /\ phase = "checking" => owed'[n] \subseteq raced' \cup c
      /\ \A q \in Promotions \ {d} : forms[q].phase = "checking" =>
           owed'[forms[q].name] \subseteq raced' \cup forms[q].read
  BY DEF SavedInv, PromotionKnows
<1>2. forms' \in [Saved!Dialogs -> FormRecords] /\ FormsAreNamed' /\ PromotionKnows'
  BY <1>1, FormKeeps
<1>3. /\ files' \in [Names -> {None} \cup Saved!Contents] /\ owed' \in [Names -> Saved!Contents]
      /\ raced' \in Saved!Contents /\ Confirmed \cap Figures \subseteq Confirmed'
      /\ NothingOwed' /\ Saved!SavedIsKept'
  BY DEF SavedInv, Saved!ProfilesTypeOK, NothingOwed, Saved!SavedIsKept, Confirmed
<1> QED
  BY <1>2, <1>3, SavedFrom

LEMMA ProfileOfTyped ==
  ASSUME SavedInv, NEW n \in Names \cup {Default}
  PROVE  /\ Saved!ProfileOf(n) \in {None} \cup Saved!Contents
         /\ n \in Names => Saved!ProfileOf(n) = files[n]
  BY ProfileConstants DEF SavedInv, Saved!ProfilesTypeOK, Saved!ProfileOf, Saved!Contents

LEMMA OpenSteps ==
  ASSUME SavedInv, NEW d \in Saved!Dialogs, NEW n \in Names \cup {Default}, Saved!OpenDialog(d, n)
  PROVE  SavedInv'
<1>1. /\ Saved!ProfileOf(n) \in {None} \cup Saved!Contents
      /\ d \notin Exports => Saved!ProfileOf(n) \in Saved!Contents
      /\ d \notin Workspaces => n \in Names
  BY ProfileOfTyped DEF Saved!OpenDialog
<1>2. "open" \in {"open", "checking"} /\ "open" # "checking"
  OBVIOUS
<1>3. Saved!Goes(d, n, Saved!ProfileOf(n), "open") /\ UNCHANGED <<files, owed, raced, mapping, listed, final>>
  BY DEF Saved!OpenDialog, Saved!mappingVars
<1> QED
  BY <1>1, <1>2, <1>3, DialogGoesOn

LEMMA PromotionSteps ==
  ASSUME SavedInv, NEW q \in Promotions,
         Saved!CheckPromotion(q) \/ Saved!RefusePromotion(q) \/ Saved!SavePromotion(q)
  PROVE  SavedInv'
<1> DEFINE n == forms[q].name
           read == forms[q].read
<1>1. q \in Saved!Dialogs /\ q \notin Workspaces /\ q \notin Exports /\ forms[q].phase \in Sitting
  BY ProfileConstants DEF Saved!Dialogs, Saved!CheckPromotion, Saved!RefusePromotion, Saved!SavePromotion, Sitting
<1>2. n \in Names /\ read \in Saved!Contents
  BY <1>1, ProfileConstants DEF SavedInv, FormsAreNamed
<1>3. read \in {None} \cup Saved!Contents /\ owed \in [Names -> Saved!Contents]
  BY <1>2 DEF SavedInv, Saved!ProfilesTypeOK
<1>4. CASE Saved!CheckPromotion(q)
  <2>1. Saved!Goes(q, n, read, "checking") /\ UNCHANGED <<files, owed, raced, mapping, listed, final>>
        /\ Saved!ProfileOf(n) = read /\ forms[q].phase = "open"
    BY <1>4 DEF Saved!CheckPromotion, Saved!Current, Saved!mappingVars
  <2>2. files[n] = read
    BY <1>2, <2>1, ProfileOfTyped
  <2>3. q \in Promotions /\ read \in {None} \cup Saved!Contents
    BY <1>3
  <2>4. owed[n] \subseteq raced \cup read
    BY <1>2, <2>2, NoneIsNoContent DEF SavedInv, Saved!SavedIsKept, NothingOwed
  <2>5. n \in Names \cup {Default} /\ "checking" \in {"open", "checking"}
    BY <1>2
  <2> HIDE DEF n, read
  <2> QED
    BY <1>1, <1>2, <1>3, <2>1, <2>3, <2>4, <2>5, DialogGoesOn
<1>5. CASE Saved!RefusePromotion(q)
  <2>1. Saved!Goes(q, n, read, "open") /\ UNCHANGED <<files, owed, raced, mapping, listed, final>>
    BY <1>5 DEF Saved!RefusePromotion, Saved!mappingVars
  <2>2. n \in Names \cup {Default} /\ "open" \in {"open", "checking"} /\ "open" # "checking"
    BY <1>2
  <2> HIDE DEF n, read
  <2> QED
    BY <1>1, <1>2, <1>3, <2>1, <2>2, DialogGoesOn
<1>6. CASE Saved!SavePromotion(q)
  <2>1. Saved!Goes(q, n, read, "done") /\ Saved!SaveProfile(n, read \cup {q}, q)
        /\ UNCHANGED <<mapping, listed, final>> /\ forms[q].phase = "checking"
    BY <1>6 DEF Saved!SavePromotion, Saved!mappingVars
  <2>2. owed[n] \subseteq raced \cup read
    BY <2>1 DEF SavedInv, PromotionKnows
  <2>3. q \in Saved!Dialogs \cup Figures /\ owed[n] \in Saved!Contents
    BY <1>1, <1>2, <1>3
  <2> HIDE DEF n, read
  <2>4. read \cup {q} \in Saved!Contents /\ Saved!WithNew(owed[n], q) \subseteq owed[n] \cup {q}
    BY <1>2, <2>3, NewContent
  <2>5. Saved!WithNew(owed[n], q) \subseteq raced \cup (read \cup {q})
    BY <2>2, <2>4
  <2>6. "done" \in {"open", "done"} /\ "done" # "open"
    OBVIOUS
  <2> QED
    BY <1>1, <1>2, <1>3, <2>1, <2>4, <2>5, <2>6, DialogSaves
<1> QED
  BY <1>4, <1>5, <1>6

LEMMA ExportSteps ==
  ASSUME SavedInv, NEW x \in Exports, Saved!ExportConfiguration(x)
  PROVE  SavedInv'
<1> DEFINE n == forms[x].name
           found == IF files[n] = None THEN {} ELSE files[n]
           content == Saved!WithNew(found, x)
<1>1. x \in Saved!Dialogs /\ x \in Saved!Dialogs \cup Figures /\ x \in Saved!Contracts
  BY DEF Saved!Dialogs, Saved!Contracts
<1>2. /\ forms[x].phase = "open" /\ n = forms[x].name
      /\ Saved!SaveProfile(n, content, x) /\ Saved!Goes(x, n, forms[x].read, "done")
      /\ UNCHANGED <<mapping, listed, final>>
  BY DEF Saved!ExportConfiguration, Saved!mappingVars
<1>3. n \in Names
  BY <1>1, <1>2, ProfileConstants DEF SavedInv, FormsAreNamed, Sitting
<1>4. /\ found \in Saved!Contents /\ owed[n] \in Saved!Contents /\ owed[n] \subseteq raced \cup found
      /\ forms[x].read \in {None} \cup Saved!Contents
  BY <1>1, <1>3 DEF SavedInv, Saved!ProfilesTypeOK, Saved!SavedIsKept, Saved!Contents
<1>5. content \in Saved!Contents
  BY <1>1, <1>4, NewContent
<1>6. Saved!WithNew(owed[n], x) \subseteq raced \cup content
  BY <1>1, <1>4 DEF Saved!WithNew
<1>7. "done" \in {"open", "done"} /\ "done" # "open"
  OBVIOUS
<1> HIDE DEF n, content
<1> QED
  BY <1>1, <1>2, <1>3, <1>4, <1>5, <1>6, <1>7, DialogSaves

LEMMA SetupSteps ==
  ASSUME SavedInv, NEW w \in Workspaces, NEW m \in Names, Saved!SaveSetup(w, m)
  PROVE  SavedInv'
<1> DEFINE n == forms[w].name
           content == Saved!WithNew(Saved!ProfileOf(n), w)
<1>1. w \in Saved!Dialogs /\ w \in Saved!Dialogs \cup Figures /\ w \in Saved!Contracts
  BY DEF Saved!Dialogs, Saved!Contracts
<1>2. /\ forms[w].phase = "open" /\ m # Default /\ n = forms[w].name
      /\ Saved!ProfileOf(n) # None /\ (IF m = n THEN Saved!Current(w) ELSE files[m] = None)
      /\ Saved!SaveProfile(m, content, w) /\ Saved!Goes(w, m, content, "open")
      /\ UNCHANGED <<mapping, listed, final>>
  BY DEF Saved!SaveSetup, Saved!mappingVars
<1>3. n \in Names \cup {Default}
  BY <1>1, <1>2 DEF SavedInv, FormsAreNamed, Sitting
<1>4. Saved!ProfileOf(n) \in Saved!Contents /\ (n \in Names => Saved!ProfileOf(n) = files[n])
  BY <1>2, <1>3, ProfileOfTyped
<1>5. content \in Saved!Contents
  BY <1>1, <1>4, NewContent
<1>6. owed[m] \in Saved!Contents /\ owed[m] \subseteq raced \cup Saved!ProfileOf(n)
  <2>1. owed[m] \in Saved!Contents
    BY DEF SavedInv, Saved!ProfilesTypeOK
  <2>2. CASE m = n
    BY <1>2, <1>4, <2>1, <2>2 DEF SavedInv, Saved!SavedIsKept
  <2>3. CASE m # n
    BY <1>2, <2>1, <2>3 DEF SavedInv, NothingOwed
  <2> QED
    BY <2>1, <2>2, <2>3
<1>7. Saved!WithNew(owed[m], w) \subseteq raced \cup content
  BY <1>1, <1>6 DEF Saved!WithNew
<1>8. content \in {None} \cup Saved!Contents /\ "open" \in {"open", "done"}
  BY <1>5
<1> HIDE DEF n, content
<1> QED
  BY <1>1, <1>2, <1>5, <1>7, <1>8, DialogSaves

LEMMA CreateSteps ==
  ASSUME SavedInv, NEW n \in Names, Saved!CreateProfile(n)
  PROVE  SavedInv'
<1>1. /\ files[n] = None /\ files' = [files EXCEPT ![n] = {}]
      /\ UNCHANGED <<forms, mapping, listed, final, owed, raced>>
  BY DEF Saved!CreateProfile, Saved!mappingVars
<1>2. files \in [Names -> {None} \cup Saved!Contents] /\ {} \in Saved!Contents
  BY DEF SavedInv, Saved!ProfilesTypeOK, Saved!Contents
<1>3. /\ files' \in [Names -> {None} \cup Saved!Contents] /\ files'[n] = {} /\ files'[n] # None
      /\ \A k \in Names \ {n} : files'[k] = files[k]
  BY <1>1, <1>2, NoneIsNoContent
<1>4. NothingOwed'
  BY <1>1, <1>3 DEF SavedInv, NothingOwed
<1>5. Saved!SavedIsKept'
  BY <1>1, <1>3 DEF SavedInv, NothingOwed, Saved!SavedIsKept
<1>6. /\ owed' \in [Names -> Saved!Contents] /\ raced' \in Saved!Contents
      /\ forms' \in [Saved!Dialogs -> FormRecords] /\ FormsAreNamed' /\ PromotionKnows'
      /\ Confirmed \cap Figures \subseteq Confirmed'
  BY <1>1 DEF SavedInv, Saved!ProfilesTypeOK, FormsAreNamed, PromotionKnows, Confirmed, FormRecords
<1> QED
  BY <1>1, <1>3, <1>4, <1>5, <1>6, SavedFrom

(* A draft saved under a name that was free takes what is owed with it.     *)
LEMMA DraftSteps ==
  ASSUME SavedInv, NEW e \in Editors, NEW m \in Names, Saved!SaveDraft(e, m)
  PROVE  SavedInv'
<1> DEFINE n == forms[e].name
           content == forms[e].read \cup {e}
<1>1. /\ e \in Saved!Dialogs /\ e \in Saved!Dialogs \cup Figures /\ e \notin Workspaces /\ e \notin Exports
  BY ProfileConstants DEF Saved!Dialogs
<1>2. /\ forms[e].phase = "open" /\ Saved!Current(e) /\ (m = n \/ files[m] = None)
      /\ UNCHANGED <<mapping, listed, final>> /\ Saved!Goes(e, m, content, "done")
  BY DEF Saved!SaveDraft, Saved!mappingVars
<1>3. n \in Names /\ forms[e].read \in Saved!Contents
  BY <1>1, <1>2 DEF SavedInv, FormsAreNamed, Sitting
<1>4. content \in Saved!Contents
  BY <1>1, <1>3 DEF Saved!Contents
<1>5. /\ files \in [Names -> {None} \cup Saved!Contents] /\ owed \in [Names -> Saved!Contents]
      /\ raced \in Saved!Contents
  BY DEF SavedInv, Saved!ProfilesTypeOK
<1>6. files[n] = forms[e].read /\ owed[n] \subseteq raced \cup forms[e].read
  <2>1. files[n] = forms[e].read
    BY <1>2, <1>3, ProfileOfTyped DEF Saved!Current
  <2> QED
    BY <1>3, <2>1, NoneIsNoContent DEF SavedInv, Saved!SavedIsKept
<1>7. content \in {None} \cup Saved!Contents /\ "done" \in {"open", "done"} /\ "done" # "open"
  BY <1>4
<1>8. CASE m = n
  <2>1. Saved!SaveProfile(m, content, e)
    BY <1>8 DEF Saved!SaveDraft
  <2>2. owed[m] \in Saved!Contents
    BY <1>5
  <2>3. Saved!WithNew(owed[m], e) \subseteq owed[m] \cup {e}
    BY <1>1, <2>2, NewContent
  <2>4. Saved!WithNew(owed[m], e) \subseteq raced \cup content
    BY <1>6, <1>8, <2>3
  <2> HIDE DEF content
  <2> QED
    BY <1>1, <1>2, <1>4, <1>7, <2>1, <2>4, DialogSaves
<1>9. CASE m # n
  <2>1. /\ files[m] = None
        /\ files' = [files EXCEPT ![m] = content, ![n] = None]
        /\ owed' = [owed EXCEPT ![m] = owed[n] \cup {e}, ![n] = {}]
        /\ raced' = IF Saved!Checked(n, e) \/ Saved!Checked(m, e) THEN raced \cup content ELSE raced
    BY <1>2, <1>9 DEF Saved!SaveDraft
  <2>2. owed[m] = {}
    BY <2>1 DEF SavedInv, NothingOwed
  <2> HIDE DEF n, content
  <2>3. owed[n] \cup {e} \in Saved!Contents /\ raced \cup content \in Saved!Contents /\ {} \in Saved!Contents
    BY <1>1, <1>3, <1>4, <1>5 DEF Saved!Contents
  <2>4. /\ files' \in [Names -> {None} \cup Saved!Contents] /\ files'[m] = content /\ files'[n] = None
        /\ \A k \in Names \ {m, n} : files'[k] = files[k]
    BY <1>3, <1>4, <1>5, <1>9, <2>1
  <2>5. /\ owed' \in [Names -> Saved!Contents] /\ owed'[m] = owed[n] \cup {e} /\ owed'[n] = {}
        /\ \A k \in Names \ {m, n} : owed'[k] = owed[k]
    BY <1>3, <1>5, <1>9, <2>1, <2>3
  <2>6. raced' \in Saved!Contents /\ raced \subseteq raced'
    BY <1>5, <2>1, <2>3
  <2>7. NothingOwed'
    BY <1>4, <1>9, <2>4, <2>5, NoneIsNoContent DEF SavedInv, NothingOwed
  <2>8. owed[n] \cup {e} \subseteq raced \cup content
    BY <1>6 DEF n, content
  <2>9. Saved!SavedIsKept'
    <3> SUFFICES ASSUME NEW k \in Names
                 PROVE  owed'[k] \subseteq raced' \cup (IF files'[k] = None THEN {} ELSE files'[k])
      BY DEF Saved!SavedIsKept
    <3>1. CASE k = m
      BY <1>4, <2>4, <2>5, <2>6, <2>8, <3>1, NoneIsNoContent
    <3>2. CASE k = n
      BY <2>5, <3>2
    <3>3. CASE k \notin {m, n}
      <4>1. owed'[k] = owed[k] /\ files'[k] = files[k]
        BY <2>4, <2>5, <3>3
      <4> QED
        BY <2>6, <4>1 DEF SavedInv, Saved!SavedIsKept
    <3> QED
      BY <3>1, <3>2, <3>3
  <2>10. Confirmed \cap Figures \subseteq Confirmed'
    <3> SUFFICES ASSUME NEW g, g \in Confirmed
                 PROVE  g \in Confirmed'
      OBVIOUS
    <3>1. PICK k \in Names : g \in owed[k]
      BY DEF Confirmed
    <3>2. k # m
      BY <2>2, <3>1
    <3>3. g \in owed'[k] \/ g \in owed'[m]
      BY <2>5, <3>1, <3>2
    <3> QED
      BY <3>3 DEF Confirmed
  <2>11. ASSUME NEW q \in Promotions \ {e}, forms[q].phase = "checking"
         PROVE  owed'[forms[q].name] \subseteq raced' \cup forms[q].read
    <3>1. forms[q].name \in Names /\ owed[forms[q].name] \subseteq raced \cup forms[q].read
      BY <2>11, ProfileConstants DEF SavedInv, FormsAreNamed, PromotionKnows, Sitting, Saved!Dialogs
    <3>2. CASE forms[q].name = m
      <4>1. raced' = raced \cup content
        BY <2>1, <2>11, <3>2 DEF Saved!Checked
      <4> QED
        BY <2>5, <2>8, <3>2, <4>1
    <3>3. CASE forms[q].name = n
      BY <2>5, <3>3
    <3>4. CASE forms[q].name \notin {m, n}
      BY <2>5, <2>6, <3>1, <3>4
    <3> QED
      BY <3>2, <3>3, <3>4
  <2>12. m \in Names \cup {Default} /\ "done" \in {"open", "checking", "done"} /\ "done" # "checking"
         /\ "done" \notin Sitting
    BY DEF Sitting
  <2>13. forms' \in [Saved!Dialogs -> FormRecords] /\ FormsAreNamed' /\ PromotionKnows'
    BY <1>1, <1>2, <1>7, <2>11, <2>12, FormKeeps
  <2> QED
    BY <1>2, <2>4, <2>5, <2>6, <2>7, <2>9, <2>10, <2>13, SavedFrom
<1> QED
  BY <1>8, <1>9

(* A figure that is confirmed goes from the open to the mapped.             *)
LEMMA OneMore ==
  ASSUME NEW v \in Saved!Mappings, FiguresIn(v), NEW g \in v.open, g \in Confirmed',
         Confirmed \cap Figures \subseteq Confirmed'
  PROVE  Saved!After(v, g) \in Saved!Mappings /\ FiguresOf(Saved!After(v, g), Confirmed')
<1> DEFINE w == Saved!After(v, g)
           M == Figures \ v.open
<1>1. /\ v.open \in SUBSET Figures /\ v.mapped \in Nat /\ v.mapped = Cardinality(M)
  BY ProfileConstants, FS_Subset, FS_CardinalityType DEF FiguresIn, FiguresOf
<1>2. IsFiniteSet(Figures) /\ IsFiniteSet(M) /\ g \notin M /\ M \cup {g} \subseteq Figures
  BY <1>1, ProfileConstants, FS_Subset
<1>3. IsFiniteSet(M \cup {g}) /\ Cardinality(M \cup {g}) = v.mapped + 1
  BY <1>1, <1>2, FS_AddElement
<1>4. /\ Cardinality(M \cup {g}) \in Nat /\ Cardinality(Figures) \in Nat
      /\ Cardinality(M \cup {g}) <= Cardinality(Figures)
  BY <1>2, <1>3, FS_Subset, FS_CardinalityType
<1>5. w = [open |-> v.open \ {g}, mapped |-> v.mapped + 1]
  BY DEF Saved!After
<1>6. w.open = v.open \ {g} /\ w.mapped = v.mapped + 1
  BY <1>5
<1>7. Figures \ w.open = M \cup {g}
  BY <1>1, <1>6
<1>8. v.mapped + 1 \in 0..Cardinality(Figures)
  BY <1>1, <1>3, <1>4
<1>9. w \in Saved!Mappings
  BY <1>1, <1>5, <1>8, SameCount DEF Saved!Mappings
<1>10. M \subseteq Confirmed'
  BY DEF FiguresIn, FiguresOf
<1>11. /\ w.open \in SUBSET Figures /\ w.mapped = Cardinality(Figures \ w.open)
       /\ Figures \ w.open \subseteq Confirmed'
  BY <1>1, <1>3, <1>6, <1>7, <1>10
<1> QED
  BY <1>9, <1>11 DEF FiguresIn, FiguresOf

LEMMA MappingSteps ==
  ASSUME SavedInv,
         \/ \E p \in MapTabs : Saved!LoadTab(p)
         \/ Saved!SignMapped
         \/ \E p \in MapTabs, g \in Figures, saved \in BOOLEAN : Saved!ConfirmMapping(p, g, saved)
  PROVE  SavedInv'
<1>1. /\ mapping \in Saved!Mappings /\ listed \in [MapTabs -> Saved!Mappings] /\ final \in BOOLEAN
      /\ FiguresIn(mapping) /\ \A p \in MapTabs : FiguresIn(listed[p])
  BY DEF SavedInv, Saved!ProfilesTypeOK, FiguresCounted
<1>2. ASSUME UNCHANGED <<files, forms, owed, raced>>, mapping' = mapping, final' \in BOOLEAN,
             listed' \in [MapTabs -> Saved!Mappings],
             \A p \in MapTabs : listed'[p] \in {listed[p], mapping}
      PROVE  SavedInv'
  <2>1. Saved!ProfilesTypeOK' /\ FormsAreNamed' /\ NothingOwed' /\ PromotionKnows' /\ Saved!SavedIsKept'
    BY <1>1, <1>2 DEF SavedInv, Saved!ProfilesTypeOK, FormsAreNamed, NothingOwed, PromotionKnows,
       Saved!SavedIsKept
  <2>2. FiguresCounted'
    BY <1>1, <1>2 DEF FiguresCounted, FiguresIn, FiguresOf, Confirmed
  <2> QED
    BY <2>1, <2>2 DEF SavedInv
<1>3. CASE \E p \in MapTabs : Saved!LoadTab(p)
  BY <1>1, <1>2, <1>3 DEF Saved!LoadTab
<1>4. CASE Saved!SignMapped
  BY <1>1, <1>2, <1>4 DEF Saved!SignMapped
<1>5. ASSUME NEW p \in MapTabs, NEW g \in Figures, NEW saved \in BOOLEAN, Saved!ConfirmMapping(p, g, saved)
      PROVE  SavedInv'
  <2> DEFINE v == Saved!After(listed[p], g)
             content == files[Ours] \cup {g}
  <2>1. /\ g \in listed[p].open /\ files[Ours] # None /\ UNCHANGED forms
        /\ Saved!SaveProfile(Ours, content, g) /\ listed' = [listed EXCEPT ![p] = v]
        /\ IF saved THEN mapping' = listed'[p] /\ UNCHANGED final
           ELSE UNCHANGED mapping /\ final' \in {final, TRUE}
    BY <1>5 DEF Saved!ConfirmMapping
  <2>2. Ours \in Names /\ g \in Saved!Dialogs \cup Figures /\ g \notin Saved!Contracts
    BY ProfileConstants DEF Saved!Contracts
  <2>3. files[Ours] \in Saved!Contents /\ owed[Ours] \in Saved!Contents /\ owed[Ours] \subseteq raced \cup files[Ours]
    BY <2>1, <2>2 DEF SavedInv, Saved!ProfilesTypeOK, Saved!SavedIsKept
  <2>4. content \in Saved!Contents /\ Saved!WithNew(owed[Ours], g) \subseteq raced \cup content
    BY <2>2, <2>3, NewContent
  <2> HIDE DEF content
  <2>5. /\ files' \in [Names -> {None} \cup Saved!Contents] /\ owed' \in [Names -> Saved!Contents]
        /\ raced' \in Saved!Contents
        /\ NothingOwed' /\ Saved!SavedIsKept'
        /\ Confirmed \cap Figures \subseteq Confirmed' /\ g \in Confirmed'
        /\ \A q \in Promotions \ {g} : forms[q].phase = "checking" =>
             owed'[forms[q].name] \subseteq raced' \cup forms[q].read
    BY <2>1, <2>2, <2>4, SaveKeeps
  <2>6. v \in Saved!Mappings /\ FiguresOf(v, Confirmed')
    BY <1>1, <2>1, <2>5, OneMore
  <2> HIDE DEF v
  <2>7. /\ listed' \in [MapTabs -> Saved!Mappings] /\ listed'[p] = v
        /\ \A t \in MapTabs \ {p} : listed'[t] = listed[t]
    BY <1>1, <2>1, <2>6
  <2>8. mapping' \in {mapping, v} /\ final' \in BOOLEAN
    BY <1>1, <2>1, <2>7
  <2>9. FiguresCounted'
    <3>1. \A t \in MapTabs \ {p} : FiguresOf(listed[t], Confirmed')
      BY <1>1, <2>5 DEF FiguresIn, FiguresOf
    <3>2. FiguresOf(mapping, Confirmed')
      BY <1>1, <2>5 DEF FiguresIn, FiguresOf
    <3>3. \A t \in MapTabs : FiguresOf(listed'[t], Confirmed')
      BY <2>6, <2>7, <3>1
    <3>4. FiguresOf(mapping', Confirmed')
      BY <2>6, <2>8, <3>2
    <3> QED
      BY <3>3, <3>4 DEF FiguresCounted, FiguresIn
  <2>10. \A q \in Promotions : forms[q].phase = "checking" =>
           owed'[forms[q].name] \subseteq raced' \cup forms[q].read
    <3>1. Promotions \ {g} = Promotions
      BY ProfileConstants
    <3> QED
      BY <2>5, <3>1
  <2>11. FormsAreNamed' /\ PromotionKnows'
    BY <2>1, <2>10 DEF SavedInv, FormsAreNamed, PromotionKnows
  <2>12. Saved!ProfilesTypeOK'
    BY <1>1, <2>1, <2>5, <2>6, <2>7, <2>8 DEF SavedInv, Saved!ProfilesTypeOK
  <2> QED
    BY <2>5, <2>9, <2>11, <2>12 DEF SavedInv
<1> QED
  BY <1>3, <1>4, <1>5

(* Each page counts every figure once.                                      *)
LEMMA AddsUp ==
  ASSUME NEW v \in Saved!Mappings, FiguresIn(v), IsFiniteSet(Confirmed \cap Figures)
  PROVE  /\ v.mapped + Saved!Cardinality(v.open) = Saved!Cardinality(Figures)
         /\ v.mapped <= Saved!Cardinality(Confirmed \cap Figures)
<1> DEFINE M == Figures \ v.open
<1>1. /\ v.open \in SUBSET Figures /\ v.mapped = Cardinality(M) /\ M \subseteq Confirmed \cap Figures
  BY DEF FiguresIn, FiguresOf
<1>2. IsFiniteSet(Figures) /\ IsFiniteSet(v.open) /\ Cardinality(v.open) \in Nat
  BY <1>1, ProfileConstants, FS_Subset, FS_CardinalityType
<1>3. Figures \cap v.open = v.open
  BY <1>1
<1>4. Cardinality(M) = Cardinality(Figures) - Cardinality(v.open)
  BY <1>2, <1>3, FS_Difference
<1>5. Cardinality(M) <= Cardinality(Confirmed \cap Figures)
  BY <1>1, FS_Subset
<1>6. Cardinality(Figures) \in Nat
  BY <1>2, FS_CardinalityType
<1> QED
  BY <1>1, <1>2, <1>4, <1>5, <1>6, SameCount

LEMMA SavedSteps ==
  ASSUME SavedInv, Saved!ProfilesNext
  PROVE  SavedInv'
<1>1. ASSUME NEW d \in Saved!Dialogs, NEW n \in Names \cup {Default}, Saved!OpenDialog(d, n)
      PROVE  SavedInv'
  BY <1>1, OpenSteps
<1>2. ASSUME NEW e \in Editors, NEW m \in Names, Saved!SaveDraft(e, m)
      PROVE  SavedInv'
  BY <1>2, DraftSteps
<1>3. ASSUME NEW w \in Workspaces, NEW m \in Names, Saved!SaveSetup(w, m)
      PROVE  SavedInv'
  BY <1>3, SetupSteps
<1> QED
  BY <1>1, <1>2, <1>3, CreateSteps, PromotionSteps, ExportSteps, MappingSteps DEF Saved!ProfilesNext

(* What the analyst was told is in a profile stays in it, whichever dialogs *)
(* and tabs write it, and each figure is counted once (save_draft,          *)
(* apply_promotion, do_save, persist_confirmed_mapping).                    *)
THEOREM ProfilesKeepAll == Spec => []ProfilesKept
<1> DEFINE Inv == part = "profiles" => SavedInv
<1>1. Init => Inv
  BY BeginsApart, SavedBegins
<1>2. Inv /\ [Next]_deskVars => Inv'
  BY StaysApart, SavedSteps, SavedStays
<1>3. Inv => ProfilesKept
  <2> SUFFICES ASSUME SavedInv
               PROVE  Saved!SavedIsKept /\ Saved!MappingsAddUp
    BY DEF ProfilesKept
  <2>1. IsFiniteSet(Confirmed \cap Figures)
    BY ProfileConstants, FS_Subset
  <2>2. \A v \in {mapping} \cup {listed[p] : p \in MapTabs} : v \in Saved!Mappings /\ FiguresIn(v)
    BY DEF SavedInv, Saved!ProfilesTypeOK, FiguresCounted
  <2>3. \A v \in {mapping} \cup {listed[p] : p \in MapTabs} :
          /\ v.mapped + Saved!Cardinality(v.open) = Saved!Cardinality(Figures)
          /\ v.mapped <= Saved!Cardinality(Confirmed \cap Figures)
    BY <2>1, <2>2, AddsUp
  <2> QED
    BY <2>3 DEF SavedInv, Saved!MappingsAddUp, Confirmed
<1> QED
  BY <1>1, <1>2, <1>3, PTL DEF Spec
-----------------------------------------------------------------------------
(* The configuration session and its pages (ConfigSession).                  *)

RowRecords == [rev : Session!Revs, gen : Session!Revs, files : Session!Inputs, decided : SUBSET Sheets]
PageRecords ==
  [kind : {"closed", "setup", "left", "files"}, rev : Session!Revs, gen : Session!Revs,
   files : Session!Inputs, loaded : SUBSET Sheets, own : SUBSET Sheets, view : SUBSET Sheets,
   seen : SUBSET Sheets, creds : SUBSET [role : Roles, typed : Hashes],
   uploads : SUBSET [role : Roles, hash : Hashes]]
ScanRecords == [files : Session!Inputs \cup {None}, ready : SUBSET Sheets]
VaultRecords == [gen : Session!Revs, role : Roles, hash : Hashes, typed : Hashes]
SetupKinds == {"setup", "left"}

(* A page of the setup is behind the row or as far as it is: as far as it,  *)
(* it has read or saved itself what is decided there, and at the row's      *)
(* generation it has the row's files.                                       *)
PageFollows(x) ==
  row # None =>
    /\ x.rev <= row.rev /\ x.gen <= row.gen
    /\ x.gen = row.gen => x.files = row.files
    /\ x.rev = row.rev => row.decided \subseteq x.loaded \cup x.own

(* Its analysis has read its files, and its passwords are for them.         *)
PageFits(x) ==
  /\ x.uploads # {} => x.kind \in SetupKinds
  /\ x.kind \in SetupKinds =>
       /\ PageFollows(x)
       /\ scan[x.gen].files \in {None, x.files}
       /\ \A c \in x.creds : c.typed = x.files[c.role]

PagesFit == \A p \in Pages : PageFits(page[p])

(* Pages of one generation have the same files.                             *)
PagesAgree ==
  \A p, q \in Pages : page[p].kind \in SetupKinds /\ page[q].kind \in SetupKinds /\ page[p].gen = page[q].gen =>
    page[p].files = page[q].files

(* No generation is analysed before the row has come to it.                 *)
RowFits ==
  row # None =>
    /\ row.gen <= row.rev
    /\ scan[row.gen].files \in {None, row.files}
    /\ \A g \in Session!Revs : g > row.gen => scan[g].files = None

VaultFits == \A v \in vault : v.typed = v.hash

SessionInv == Session!TypeOK /\ PagesFit /\ PagesAgree /\ RowFits /\ VaultFits

LEMMA SessionTyped ==
  ASSUME SessionInv
  PROVE  /\ row = None \/ row \in RowRecords
         /\ scan \in [Session!Revs -> ScanRecords] /\ vault \subseteq VaultRecords
         /\ page \in [Pages -> PageRecords] /\ acked \in SUBSET Sheets
         /\ \A p \in Pages : page[p] \in PageRecords /\ PageFits(page[p])
  BY DEF SessionInv, Session!TypeOK, RowRecords, ScanRecords, VaultRecords, PageRecords, PagesFit

LEMMA ClosedFits ==
  Session!Closed \in PageRecords /\ Session!Closed.kind = "closed" /\ Session!Closed.uploads = {}
<1>1. 1 \in Session!Revs /\ [r \in Roles |-> None] \in Session!Inputs
  BY SessionConstants DEF Session!Revs, Session!Inputs
<1> QED
  BY <1>1 DEF Session!Closed, PageRecords

LEMMA SessionBegins == ASSUME Session!Init PROVE SessionInv
<1>1. PICK h \in Hashes : row = [rev |-> 1, gen |-> 1, files |-> [r \in Roles |-> h], decided |-> {}]
  BY DEF Session!Init
<1>2. 1 \in Session!Revs /\ [r \in Roles |-> h] \in Session!Inputs
  BY SessionConstants DEF Session!Revs, Session!Inputs
<1>3. row \in RowRecords /\ row.gen = 1 /\ row.rev = 1
  BY <1>1, <1>2 DEF RowRecords
<1>4. /\ scan = [g \in Session!Revs |-> Session!NoScan] /\ vault = {} /\ acked = {}
      /\ page = [p \in Pages |-> Session!Closed]
  BY DEF Session!Init
<1>5. Session!NoScan \in ScanRecords /\ Session!NoScan.files = None
  BY DEF Session!NoScan, ScanRecords
<1>6. scan \in [Session!Revs -> ScanRecords] /\ \A g \in Session!Revs : scan[g].files = None
  BY <1>4, <1>5
<1>7. page \in [Pages -> PageRecords] /\ \A p \in Pages : page[p] = Session!Closed
  BY <1>4, ClosedFits
<1>8. Session!TypeOK
  BY <1>3, <1>4, <1>6, <1>7 DEF Session!TypeOK, RowRecords, PageRecords, ScanRecords
<1>9. PagesFit /\ PagesAgree
  BY <1>7, ClosedFits DEF PagesFit, PageFits, PagesAgree, SetupKinds
<1>10. RowFits /\ VaultFits
  BY <1>2, <1>3, <1>4, <1>6 DEF RowFits, VaultFits
<1> QED
  BY <1>8, <1>9, <1>10 DEF SessionInv

LEMMA SessionStays ==
  ASSUME SessionInv, UNCHANGED sessionVars
  PROVE  SessionInv'
  BY DEF sessionVars, SessionInv, Session!TypeOK, PagesFit, PageFits, PageFollows, PagesAgree, RowFits, VaultFits

(* One page of the setup moves on, or closes, and no analysis gets files.   *)
LEMMA PageMoves ==
  ASSUME SessionInv, NEW p \in Pages, NEW x \in PageRecords, page' = [page EXCEPT ![p] = x],
         UNCHANGED row, scan' \in [Session!Revs -> ScanRecords],
         \A g \in Session!Revs : scan'[g].files \in {scan[g].files, None},
         vault' \subseteq VaultRecords, VaultFits', acked' \in SUBSET Sheets,
         x.uploads # {} => x.kind \in SetupKinds,
         x.kind \in SetupKinds =>
           /\ page[p].kind \in SetupKinds
           /\ x.gen = page[p].gen /\ x.files = page[p].files /\ x.rev = page[p].rev
           /\ x.loaded = page[p].loaded /\ x.own = page[p].own
           /\ \A c \in x.creds : c.typed = x.files[c.role]
  PROVE  SessionInv'
<1>1. /\ page' \in [Pages -> PageRecords] /\ page'[p] = x
      /\ \A q \in Pages \ {p} : page'[q] = page[q]
  BY SessionTyped
<1>2. Session!TypeOK'
  BY <1>1, SessionTyped DEF Session!TypeOK, RowRecords, PageRecords, ScanRecords, VaultRecords
<1>3. /\ x.gen \in Session!Revs /\ \A q \in Pages : page[q].gen \in Session!Revs
  BY SessionTyped DEF PageRecords
<1>4. PagesFit'
  <2> SUFFICES ASSUME NEW q \in Pages
               PROVE  PageFits(page[q])'
    BY DEF PagesFit
  <2>1. PageFits(page[p])
    BY SessionTyped
  <2>2. CASE q = p
    BY <1>1, <1>3, <2>1, <2>2 DEF PageFits, PageFollows
  <2>3. CASE q # p
    <3>1. page'[q] = page[q] /\ PageFits(page[q])
      BY <1>1, <2>3, SessionTyped
    <3> QED
      BY <1>3, <3>1 DEF PageFits, PageFollows
  <2> QED
    BY <2>2, <2>3
<1>5. PagesAgree'
  BY <1>1 DEF SessionInv, PagesAgree
<1>6. RowFits'
  BY SessionTyped DEF SessionInv, RowFits, RowRecords
<1> QED
  BY <1>2, <1>4, <1>5, <1>6 DEF SessionInv

(* A save that is taken: the row is one revision on, and keeps its          *)
(* generation with its files only.                                          *)
LEMMA RowGrows ==
  ASSUME SessionInv, NEW rev, Session!Fresh(rev), NEW f \in Session!Inputs, NEW decided \in SUBSET Sheets,
         Session!SaveChoices(f, decided)
  PROVE  /\ row # None /\ row \in RowRecords /\ rev = row.rev
         /\ row' \in RowRecords /\ row'.rev = row.rev + 1 /\ row'.files = f /\ row'.decided = decided
         /\ (row'.gen = row.gen /\ f = row.files) \/ row'.gen = row.gen + 1
         /\ row'.gen <= row'.rev
<1>1. row # None /\ row \in RowRecords /\ rev = row.rev /\ row.rev < MaxRev /\ row.gen <= row.rev
  BY SessionTyped DEF Session!Fresh, SessionInv, RowFits
<1>2. /\ row.rev \in Session!Revs /\ row.gen \in Session!Revs
      /\ row' = [rev |-> row.rev + 1, gen |-> Session!Generation(f), files |-> f, decided |-> decided]
  BY <1>1 DEF RowRecords, Session!SaveChoices
<1>3. row.rev + 1 \in Session!Revs /\ row.gen + 1 \in Session!Revs /\ row.gen + 1 <= row.rev + 1
      /\ row.gen <= row.rev + 1
  BY <1>1, <1>2, SessionConstants DEF Session!Revs
<1>4. /\ (Session!Generation(f) = row.gen /\ f = row.files) \/ Session!Generation(f) = row.gen + 1
      /\ Session!Generation(f) \in Session!Revs /\ Session!Generation(f) <= row.rev + 1
  BY <1>2, <1>3 DEF Session!Generation
<1>5. row' \in RowRecords
  BY <1>2, <1>3, <1>4 DEF RowRecords
<1>6. /\ row'.rev = row.rev + 1 /\ row'.gen = Session!Generation(f)
      /\ row'.files = f /\ row'.decided = decided
  BY <1>2
<1> QED
  BY <1>1, <1>4, <1>5, <1>6

LEMMA PageSaves ==
  ASSUME SessionInv, NEW p \in Pages, NEW x \in PageRecords, page' = [page EXCEPT ![p] = x],
         Session!Fresh(page[p].rev), NEW f \in Session!Inputs, NEW decided \in SUBSET Sheets,
         Session!SaveChoices(f, decided),
         scan' \in [Session!Revs -> ScanRecords],
         \A g \in Session!Revs : scan'[g].files \in {scan[g].files, None},
         vault' \subseteq VaultRecords, VaultFits', acked' \in SUBSET Sheets,
         x.uploads # {} => x.kind \in SetupKinds,
         x.kind \in SetupKinds =>
           /\ page[p].kind \in SetupKinds
           /\ x.gen = page[p].gen /\ x.files = page[p].files /\ x.rev = row.rev + 1
           /\ decided \subseteq x.loaded \cup x.own
           /\ \A c \in x.creds : c.typed = x.files[c.role]
  PROVE  SessionInv'
<1>1. /\ page' \in [Pages -> PageRecords] /\ page'[p] = x
      /\ \A q \in Pages \ {p} : page'[q] = page[q]
  BY SessionTyped
<1>2. /\ row # None /\ row \in RowRecords
      /\ row' \in RowRecords /\ row'.rev = row.rev + 1 /\ row'.files = f /\ row'.decided = decided
      /\ (row'.gen = row.gen /\ f = row.files) \/ row'.gen = row.gen + 1
      /\ row'.gen <= row'.rev
  BY RowGrows
<1>3. Session!TypeOK'
  BY <1>1, <1>2, SessionTyped DEF Session!TypeOK, RowRecords, PageRecords, ScanRecords, VaultRecords
<1>4. /\ row.gen \in Nat /\ row.rev \in Nat /\ row.gen \in Session!Revs /\ row'.gen \in Session!Revs
      /\ \A q \in Pages : page[q].gen \in Session!Revs /\ page[q].gen \in Nat /\ page[q].rev \in Nat
      /\ \A g \in Session!Revs : g \in Nat
  BY <1>2, SessionTyped, SessionConstants DEF RowRecords, PageRecords, Session!Revs
<1>5. ASSUME NEW y \in PageRecords, y.kind \in SetupKinds, PageFollows(y)
      PROVE  /\ y.rev <= row.rev /\ y.gen <= row'.gen
             /\ y.gen = row'.gen => y.files = row'.files
  <2>1. y.rev <= row.rev /\ y.gen <= row.gen /\ (y.gen = row.gen => y.files = row.files)
    BY <1>2, <1>5 DEF PageFollows
  <2>2. y.gen \in Nat /\ y.rev \in Nat
    BY SessionConstants DEF PageRecords, Session!Revs
  <2>3. CASE row'.gen = row.gen /\ f = row.files
    BY <1>2, <2>1, <2>3
  <2>4. CASE row'.gen = row.gen + 1
    <3>1. y.gen # row'.gen /\ y.gen <= row'.gen
      BY <1>4, <2>1, <2>2, <2>4
    <3> QED
      BY <2>1, <3>1
  <2> QED
    BY <1>2, <2>3, <2>4
<1>6. PagesFit'
  <2> SUFFICES ASSUME NEW q \in Pages
               PROVE  PageFits(page[q])'
    BY DEF PagesFit
  <2>1. /\ page[q] \in PageRecords /\ PageFits(page[q])
        /\ page[p] \in PageRecords /\ PageFits(page[p])
    BY SessionTyped
  <2>2. CASE q = p
    <3> SUFFICES ASSUME x.kind \in SetupKinds
                 PROVE  /\ PageFollows(page[q])' /\ scan'[x.gen].files \in {None, x.files}
      BY <1>1, <2>2 DEF PageFits
    <3>1. PageFollows(page[p]) /\ scan[x.gen].files \in {None, x.files} /\ x.gen \in Session!Revs
      BY <2>1 DEF PageFits, PageRecords
    <3>2. /\ x.gen <= row'.gen
          /\ x.gen = row'.gen => x.files = row'.files
      BY <1>5, <2>1, <3>1
    <3>3. x.rev <= row'.rev
      BY <1>2, <1>4
    <3> QED
      BY <1>1, <1>2, <2>2, <3>1, <3>2, <3>3 DEF PageFollows
  <2>3. CASE q # p
    <3>1. page'[q] = page[q]
      BY <1>1, <2>3
    <3> SUFFICES ASSUME page[q].kind \in SetupKinds
                 PROVE  /\ PageFollows(page[q])' /\ scan'[page[q].gen].files \in {None, page[q].files}
      BY <2>1, <3>1 DEF PageFits
    <3>2. PageFollows(page[q]) /\ scan[page[q].gen].files \in {None, page[q].files}
      BY <2>1 DEF PageFits
    <3>3. /\ page[q].rev <= row.rev /\ page[q].gen <= row'.gen
          /\ page[q].gen = row'.gen => page[q].files = row'.files
      BY <1>5, <2>1, <3>2
    <3>4. page[q].rev <= row'.rev /\ page[q].rev # row'.rev
      BY <1>2, <1>4, <3>3
    <3> QED
      BY <1>4, <3>1, <3>2, <3>3, <3>4 DEF PageFollows
  <2> QED
    BY <2>2, <2>3
<1>7. PagesAgree'
  BY <1>1 DEF SessionInv, PagesAgree
<1>8. RowFits'
  <2>1. /\ scan[row.gen].files \in {None, row.files}
        /\ \A g \in Session!Revs : g > row.gen => scan[g].files = None
    BY <1>2 DEF SessionInv, RowFits
  <2>2. scan[row'.gen].files \in {None, row'.files}
    <3>1. CASE row'.gen = row.gen + 1
      BY <1>2, <1>4, <2>1, <3>1
    <3> QED
      BY <1>2, <2>1, <3>1
  <2>3. \A g \in Session!Revs : g > row'.gen => g > row.gen
    BY <1>2, <1>4
  <2> QED
    BY <1>2, <1>4, <2>1, <2>2, <2>3 DEF RowFits
<1> QED
  BY <1>3, <1>6, <1>7, <1>8 DEF SessionInv

(* What the vault hands over was typed for the row's files.                 *)
LEMMA OpenedPage ==
  ASSUME SessionInv, row # None, NEW kind \in {"setup", "files"}
  PROVE  LET x == Session!Opened(kind)
         IN  /\ x \in PageRecords /\ x.kind = kind /\ x.rev = row.rev /\ x.gen = row.gen
             /\ x.files = row.files /\ x.uploads = {} /\ \A c \in x.creds : c.typed = row.files[c.role]
<1>1. row \in RowRecords /\ vault \subseteq VaultRecords
  BY SessionTyped
<1>2. Session!Claim(row.gen, row.files) \subseteq [role : Roles, typed : Hashes]
  BY <1>1 DEF Session!Claim, VaultRecords
<1>3. \A c \in Session!Claim(row.gen, row.files) : c.typed = row.files[c.role]
  BY DEF Session!Claim, SessionInv, VaultFits
<1>4. /\ Session!Opened(kind) \in PageRecords
      /\ Session!Opened(kind).kind = kind /\ Session!Opened(kind).rev = row.rev
      /\ Session!Opened(kind).gen = row.gen /\ Session!Opened(kind).files = row.files
      /\ Session!Opened(kind).creds = Session!Claim(row.gen, row.files) /\ Session!Opened(kind).uploads = {}
  BY <1>1, <1>2, ClosedFits DEF Session!Opened, PageRecords, RowRecords
<1> QED
  BY <1>3, <1>4

(* Passwords in the vault are for the content they were typed for.          *)
LEMMA BundleFits ==
  ASSUME NEW g \in Session!Revs, NEW f \in Session!Inputs, NEW creds \in SUBSET [role : Roles, typed : Hashes],
         \A c \in creds : c.typed = f[c.role]
  PROVE  Session!Bundle(g, f, creds) \subseteq VaultRecords
         /\ \A v \in Session!Bundle(g, f, creds) : v.typed = v.hash
<1> SUFFICES ASSUME NEW v \in Session!Bundle(g, f, creds)
             PROVE  v \in VaultRecords /\ v.typed = v.hash
  OBVIOUS
<1>1. PICK c \in creds : f[c.role] # None /\ v = [gen |-> g, role |-> c.role, hash |-> f[c.role], typed |-> c.typed]
  BY DEF Session!Bundle
<1>2. c \in [role : Roles, typed : Hashes] /\ c.typed = f[c.role]
  BY <1>1
<1>3. f[c.role] \in Hashes
  BY <1>2
<1>4. c.role \in Roles /\ c.typed \in Hashes
  BY <1>2
<1>5. v \in VaultRecords
  BY <1>1, <1>3, <1>4 DEF VaultRecords
<1> QED
  BY <1>1, <1>2, <1>5

LEMMA OpenSetupSteps ==
  ASSUME SessionInv, NEW p \in Pages, Session!OpenSetup(p)
  PROVE  SessionInv'
<1> DEFINE ready == scan[row.gen].ready
           opened == Session!Opened("setup")
           x == [opened EXCEPT !.loaded = row.decided, !.seen = ready, !.view = row.decided \cap ready]
           y == [scan[row.gen] EXCEPT !.files = IF scan[row.gen].files = None THEN row.files ELSE scan[row.gen].files]
<1>1. row # None /\ row \in RowRecords /\ UNCHANGED <<row, acked>> /\ vault' = {}
  BY SessionTyped DEF Session!OpenSetup
<1>2. /\ scan \in [Session!Revs -> ScanRecords] /\ row.gen \in Session!Revs /\ row.gen <= row.rev
      /\ row.files \in Session!Inputs /\ row.decided \in SUBSET Sheets /\ row.gen \in Nat /\ row.rev \in Nat
  BY <1>1, SessionTyped, SessionConstants DEF RowRecords, SessionInv, RowFits, Session!Revs
<1>3. ready \in SUBSET Sheets /\ scan[row.gen].files \in {None, row.files} /\ scan[row.gen] \in ScanRecords
  BY <1>1, <1>2 DEF ScanRecords, SessionInv, RowFits
<1>4. y \in ScanRecords /\ y.files = row.files
  BY <1>2, <1>3 DEF ScanRecords
<1>5. scan' = [scan EXCEPT ![row.gen] = y]
  BY <1>2, <1>3 DEF Session!OpenSetup
<1>6. page' = [page EXCEPT ![p] = x]
  BY DEF Session!OpenSetup
<1>7. /\ opened \in PageRecords /\ opened.kind = "setup" /\ opened.rev = row.rev /\ opened.gen = row.gen
      /\ opened.files = row.files /\ opened.uploads = {} /\ \A c \in opened.creds : c.typed = row.files[c.role]
  BY <1>1, OpenedPage
<1> HIDE DEF opened
<1>8. /\ x \in PageRecords /\ x.kind = "setup" /\ x.rev = row.rev /\ x.gen = row.gen /\ x.files = row.files
      /\ x.loaded = row.decided /\ x.uploads = {} /\ \A c \in x.creds : c.typed = x.files[c.role]
  BY <1>2, <1>3, <1>7 DEF PageRecords
<1> HIDE DEF x, y
<1>9. /\ page' \in [Pages -> PageRecords] /\ page'[p] = x
      /\ \A q \in Pages \ {p} : page'[q] = page[q]
  BY <1>6, <1>8, SessionTyped
<1>10. /\ scan' \in [Session!Revs -> ScanRecords] /\ scan'[row.gen].files = row.files
       /\ \A g \in Session!Revs \ {row.gen} : scan'[g] = scan[g]
  BY <1>2, <1>4, <1>5
<1>11. Session!TypeOK'
  BY <1>1, <1>9, <1>10, SessionTyped DEF Session!TypeOK, RowRecords, PageRecords, ScanRecords
<1>12. PagesFit'
  <2> SUFFICES ASSUME NEW q \in Pages
               PROVE  PageFits(page[q])'
    BY DEF PagesFit
  <2>1. CASE q = p
    BY <1>1, <1>2, <1>8, <1>9, <1>10, <2>1 DEF PageFits, PageFollows
  <2>2. CASE q # p
    <3>1. page'[q] = page[q] /\ PageFits(page[q]) /\ page[q].gen \in Session!Revs
      BY <1>9, <2>2, SessionTyped DEF PageRecords
    <3>2. page[q].kind \in SetupKinds => scan'[page[q].gen].files \in {None, page[q].files}
      BY <1>1, <1>10, <3>1 DEF PageFits, PageFollows
    <3> QED
      BY <1>1, <3>1, <3>2 DEF PageFits, PageFollows
  <2> QED
    BY <2>1, <2>2
<1>13. PagesAgree'
  <2>1. \A q \in Pages \ {p} : page[q].kind \in SetupKinds /\ page[q].gen = row.gen => page[q].files = row.files
    BY <1>1, SessionTyped DEF PageFits, PageFollows
  <2> QED
    BY <1>8, <1>9, <2>1 DEF SessionInv, PagesAgree
<1>14. RowFits' /\ VaultFits'
  BY <1>1, <1>2, <1>10 DEF SessionInv, RowFits, VaultFits
<1> QED
  BY <1>11, <1>12, <1>13, <1>14 DEF SessionInv

(* Steps of a page that leave the row, the analyses and the vault alone.    *)
LEMMA QuietPage ==
  ASSUME SessionInv, NEW p \in Pages, NEW x \in PageRecords, page' = [page EXCEPT ![p] = x],
         UNCHANGED <<row, scan, acked>>, vault' \subseteq VaultRecords, \A v \in vault' : v.typed = v.hash,
         x.uploads # {} => x.kind \in SetupKinds,
         x.kind \in SetupKinds =>
           /\ page[p].kind \in SetupKinds
           /\ x.gen = page[p].gen /\ x.files = page[p].files /\ x.rev = page[p].rev
           /\ x.loaded = page[p].loaded /\ x.own = page[p].own
           /\ \A c \in x.creds : c.typed = x.files[c.role]
  PROVE  SessionInv'
<1>1. /\ scan' \in [Session!Revs -> ScanRecords] /\ \A g \in Session!Revs : scan'[g].files \in {scan[g].files, None}
      /\ VaultFits' /\ acked' \in SUBSET Sheets
  BY SessionTyped DEF VaultFits
<1> QED
  BY <1>1, PageMoves

LEMMA QuietSteps ==
  ASSUME SessionInv, NEW p \in Pages,
         \/ Session!OpenFiles(p) \/ Session!ClosePage(p) \/ Session!Poll(p) \/ Session!Leave(p)
         \/ Session!BackToFiles(p)
         \/ \E r \in Roles : Session!TypePassword(p, r)
         \/ \E r \in Roles, h \in Hashes : Session!BeginUpload(p, r, h) \/ Session!ChooseFile(p, r, h)
  PROVE  SessionInv'
<1>1. /\ vault \subseteq VaultRecords /\ page[p] \in PageRecords /\ PageFits(page[p])
      /\ \A v \in vault : v.typed = v.hash
  BY SessionTyped DEF SessionInv, VaultFits
<1>2. CASE Session!OpenFiles(p)
  <2>1. /\ row # None /\ page' = [page EXCEPT ![p] = Session!Opened("files")] /\ vault' = {}
        /\ UNCHANGED <<row, scan, acked>>
    BY <1>2 DEF Session!OpenFiles
  <2>2. Session!Opened("files") \in PageRecords /\ Session!Opened("files").kind = "files"
        /\ Session!Opened("files").uploads = {}
    BY <2>1, OpenedPage
  <2> QED
    BY <2>1, <2>2, QuietPage DEF SetupKinds
<1>3. CASE Session!ClosePage(p)
  BY <1>1, <1>3, ClosedFits, QuietPage DEF Session!ClosePage, SetupKinds
<1>4. CASE Session!Leave(p)
  BY <1>1, <1>4, ClosedFits, QuietPage DEF Session!Leave, SetupKinds
<1>5. CASE Session!BackToFiles(p)
  <2>1. /\ page[p].kind = "setup" /\ page' = [page EXCEPT ![p] = Session!Closed]
        /\ UNCHANGED <<row, scan, acked>>
        /\ vault' = Session!Bundle(page[p].gen, page[p].files, page[p].creds)
    BY <1>5 DEF Session!BackToFiles
  <2>2. /\ \A c \in page[p].creds : c.typed = page[p].files[c.role]
        /\ page[p].gen \in Session!Revs /\ page[p].files \in Session!Inputs
        /\ page[p].creds \in SUBSET [role : Roles, typed : Hashes]
    BY <1>1, <2>1 DEF PageFits, SetupKinds, PageRecords
  <2>3. vault' \subseteq VaultRecords /\ \A v \in vault' : v.typed = v.hash
    BY <2>1, <2>2, BundleFits
  <2> QED
    BY <2>1, <2>3, ClosedFits, QuietPage DEF SetupKinds
<1>6. CASE Session!Poll(p)
  <2> DEFINE ready == scan[page[p].gen].ready
             x == [page[p] EXCEPT !.seen = ready, !.view = page[p].loaded \cap ready]
  <2>1. page' = [page EXCEPT ![p] = x] /\ page[p].kind = "setup" /\ UNCHANGED <<row, scan, vault, acked>>
    BY <1>6 DEF Session!Poll
  <2>2. ready \in SUBSET Sheets
    BY <1>1, SessionTyped DEF PageRecords, ScanRecords
  <2>3. /\ x \in PageRecords /\ x.kind = "setup" /\ x.gen = page[p].gen /\ x.files = page[p].files
        /\ x.rev = page[p].rev /\ x.loaded = page[p].loaded /\ x.own = page[p].own
        /\ x.creds = page[p].creds
    BY <1>1, <2>1, <2>2 DEF PageRecords
  <2> HIDE DEF x
  <2>4. "setup" \in SetupKinds
    BY DEF SetupKinds
  <2>5. /\ \A c \in x.creds : c.typed = x.files[c.role]
        /\ x.uploads # {} => x.kind \in SetupKinds
    BY <1>1, <2>1, <2>3, <2>4 DEF PageFits
  <2> QED
    BY <1>1, <2>1, <2>3, <2>4, <2>5, QuietPage
<1>7. ASSUME NEW r \in Roles, Session!TypePassword(p, r)
      PROVE  SessionInv'
  <2> DEFINE creds == {c \in page[p].creds : c.role # r} \cup {[role |-> r, typed |-> page[p].files[r]]}
             x == [page[p] EXCEPT !.creds = creds]
  <2>1. page' = [page EXCEPT ![p] = x] /\ page[p].kind = "setup" /\ UNCHANGED <<row, scan, vault, acked>>
        /\ page[p].files[r] # None
    BY <1>7 DEF Session!TypePassword
  <2>2. creds \in SUBSET [role : Roles, typed : Hashes] /\ \A c \in creds : c.typed = page[p].files[c.role]
    <3>1. page[p].files[r] \in Hashes
      BY <1>1, <2>1 DEF PageRecords, Session!Inputs
    <3> QED
      BY <1>1, <2>1, <3>1 DEF PageRecords, PageFits, SetupKinds
  <2> HIDE DEF creds
  <2>3. /\ x \in PageRecords /\ x.kind = "setup" /\ x.gen = page[p].gen /\ x.files = page[p].files
        /\ x.rev = page[p].rev /\ x.loaded = page[p].loaded /\ x.own = page[p].own
        /\ x.creds = creds
    BY <1>1, <2>1, <2>2 DEF PageRecords
  <2> HIDE DEF x
  <2>4. "setup" \in SetupKinds
    BY DEF SetupKinds
  <2> QED
    BY <1>1, <2>1, <2>2, <2>3, <2>4, QuietPage
<1>8. ASSUME NEW r \in Roles, NEW h \in Hashes, Session!BeginUpload(p, r, h)
      PROVE  SessionInv'
  <2> DEFINE uploads == page[p].uploads \cup {[role |-> r, hash |-> h]}
             x == [page[p] EXCEPT !.uploads = uploads]
  <2>1. page' = [page EXCEPT ![p] = x] /\ page[p].kind = "setup" /\ UNCHANGED <<row, scan, vault, acked>>
    BY <1>8 DEF Session!BeginUpload
  <2>2. uploads \in SUBSET [role : Roles, hash : Hashes]
    BY <1>1 DEF PageRecords
  <2> HIDE DEF uploads
  <2>3. /\ x \in PageRecords /\ x.kind = "setup" /\ x.gen = page[p].gen /\ x.files = page[p].files
        /\ x.rev = page[p].rev /\ x.loaded = page[p].loaded /\ x.own = page[p].own
        /\ x.creds = page[p].creds
    BY <1>1, <2>1, <2>2 DEF PageRecords
  <2> HIDE DEF x
  <2>4. "setup" \in SetupKinds
    BY DEF SetupKinds
  <2>5. \A c \in x.creds : c.typed = x.files[c.role]
    BY <1>1, <2>1, <2>3, <2>4 DEF PageFits
  <2> QED
    BY <1>1, <2>1, <2>3, <2>4, <2>5, QuietPage
<1>9. ASSUME NEW r \in Roles, NEW h \in Hashes, Session!ChooseFile(p, r, h)
      PROVE  SessionInv'
  <2> DEFINE f == [page[p].files EXCEPT ![r] = h]
             x == [page[p] EXCEPT !.files = f]
  <2>1. page' = [page EXCEPT ![p] = x] /\ page[p].kind = "files" /\ UNCHANGED <<row, scan, vault, acked>>
    BY <1>9 DEF Session!ChooseFile
  <2>2. f \in Session!Inputs
    BY <1>1 DEF PageRecords, Session!Inputs
  <2> HIDE DEF f
  <2>3. x \in PageRecords /\ x.kind = "files" /\ x.uploads = page[p].uploads
    BY <1>1, <2>1, <2>2 DEF PageRecords
  <2> HIDE DEF x
  <2>4. "files" \notin SetupKinds /\ page[p].uploads = {}
    BY <1>1, <2>1 DEF SetupKinds, PageFits
  <2> QED
    BY <1>1, <2>1, <2>3, <2>4, QuietPage
<1> QED
  BY <1>2, <1>3, <1>4, <1>5, <1>6, <1>7, <1>8, <1>9

(* The sheets of an analysis appear, and are read again on a retry.         *)
LEMMA AnalysisSteps ==
  ASSUME SessionInv,
         \/ \E g \in Session!Revs, s \in Sheets : Session!SheetReady(g, s)
         \/ \E p \in Pages : Session!RetryAnalysis(p)
  PROVE  SessionInv'
<1>1. ASSUME UNCHANGED <<row, vault, page, acked>>, NEW g \in Session!Revs, NEW y \in ScanRecords,
             scan' = [scan EXCEPT ![g] = y],
             \/ y.files = scan[g].files
             \/ \E p \in Pages : page[p].kind \in SetupKinds /\ page[p].gen = g /\ y.files = page[p].files
      PROVE  SessionInv'
  <2>1. /\ scan' \in [Session!Revs -> ScanRecords] /\ scan'[g] = y
        /\ \A k \in Session!Revs \ {g} : scan'[k] = scan[k]
    BY <1>1, SessionTyped
  <2>2. Session!TypeOK'
    BY <1>1, <2>1, SessionTyped DEF Session!TypeOK, RowRecords, PageRecords, ScanRecords, VaultRecords
  <2>3. ASSUME NEW q \in Pages, page[q].kind \in SetupKinds, page[q].gen = g
        PROVE  y.files \in {None, page[q].files}
    BY <1>1, <2>3, SessionTyped DEF SessionInv, PagesAgree, PageFits
  <2>4. PagesFit'
    <3> SUFFICES ASSUME NEW q \in Pages
                 PROVE  PageFits(page[q])'
      BY DEF PagesFit
    <3>1. PageFits(page[q]) /\ page[q].gen \in Session!Revs
      BY SessionTyped DEF PageRecords
    <3>2. page[q].kind \in SetupKinds => scan'[page[q].gen].files \in {None, page[q].files}
      BY <2>1, <2>3, <3>1 DEF PageFits
    <3> QED
      BY <1>1, <3>1, <3>2 DEF PageFits, PageFollows
  <2>5. PagesAgree' /\ VaultFits'
    BY <1>1 DEF SessionInv, PagesAgree, VaultFits
  <2>6. RowFits'
    <3> SUFFICES ASSUME row # None
                 PROVE  /\ row.gen <= row.rev
                        /\ scan'[row.gen].files \in {None, row.files}
                        /\ \A k \in Session!Revs : k > row.gen => scan'[k].files = None
      BY <1>1 DEF RowFits
    <3>1. /\ row.gen <= row.rev /\ scan[row.gen].files \in {None, row.files} /\ row.gen \in Session!Revs
          /\ \A k \in Session!Revs : k > row.gen => scan[k].files = None
      BY SessionTyped DEF SessionInv, RowFits, RowRecords
    <3>2. CASE y.files = scan[g].files
      BY <2>1, <3>1, <3>2
    <3>3. ASSUME NEW p \in Pages, page[p].kind \in SetupKinds, page[p].gen = g, y.files = page[p].files
          PROVE  g <= row.gen /\ (g = row.gen => y.files = row.files)
      BY <3>3, SessionTyped DEF PageFits, PageFollows
    <3>4. CASE g <= row.gen /\ (g = row.gen => y.files = row.files)
      <4>1. ~(g > row.gen)
        BY <3>1, <3>4, SessionConstants DEF Session!Revs
      <4> QED
        BY <2>1, <3>1, <3>4, <4>1
    <3> QED
      BY <1>1, <3>2, <3>3, <3>4
  <2> QED
    BY <2>2, <2>4, <2>5, <2>6 DEF SessionInv
<1>2. ASSUME NEW g \in Session!Revs, NEW s \in Sheets, Session!SheetReady(g, s)
      PROVE  SessionInv'
  <2> DEFINE y == [scan[g] EXCEPT !.ready = scan[g].ready \cup {s}]
  <2>1. UNCHANGED <<row, vault, page, acked>> /\ scan' = [scan EXCEPT ![g] = y]
    BY <1>2 DEF Session!SheetReady
  <2>2. y \in ScanRecords /\ y.files = scan[g].files
    BY SessionTyped DEF ScanRecords
  <2> HIDE DEF y
  <2> QED
    BY <1>1, <2>1, <2>2
<1>3. ASSUME NEW p \in Pages, Session!RetryAnalysis(p)
      PROVE  SessionInv'
  <2> DEFINE y == [files |-> page[p].files, ready |-> {}]
  <2>1. /\ UNCHANGED <<row, vault, page, acked>> /\ scan' = [scan EXCEPT ![page[p].gen] = y]
        /\ page[p].kind \in SetupKinds
    BY <1>3 DEF Session!RetryAnalysis, SetupKinds
  <2>2. y \in ScanRecords /\ y.files = page[p].files /\ page[p].gen \in Session!Revs
    BY SessionTyped DEF ScanRecords, PageRecords
  <2> HIDE DEF y
  <2> QED
    BY <1>1, <2>1, <2>2
<1> QED
  BY <1>2, <1>3

(* The row is gone, and with it what pages follow.                          *)
LEMMA RowGoes ==
  ASSUME SessionInv, \/ \E p \in Pages : Session!DiscardResumed(p)
                     \/ Session!Restart
  PROVE  SessionInv'
<1>1. Session!NoScan \in ScanRecords /\ Session!NoScan.files = None
  BY DEF Session!NoScan, ScanRecords
<1>2. ASSUME NEW p \in Pages, Session!DiscardResumed(p)
      PROVE  SessionInv'
  <2>1. /\ row # None /\ row' = None /\ vault' = {} /\ acked' = {}
        /\ scan' = [scan EXCEPT ![row.gen] = Session!NoScan]
        /\ page' = [page EXCEPT ![p] = Session!Closed]
    BY <1>2 DEF Session!DiscardResumed
  <2>2. /\ page' \in [Pages -> PageRecords] /\ page'[p] = Session!Closed
        /\ \A q \in Pages \ {p} : page'[q] = page[q]
    BY <2>1, ClosedFits, SessionTyped
  <2>3. scan' \in [Session!Revs -> ScanRecords] /\ \A g \in Session!Revs : scan'[g].files \in {None, scan[g].files}
    BY <1>1, <2>1, SessionTyped
  <2>4. Session!TypeOK'
    BY <2>1, <2>2, <2>3 DEF Session!TypeOK, PageRecords, ScanRecords
  <2>5. PagesFit'
    <3> SUFFICES ASSUME NEW q \in Pages
                 PROVE  PageFits(page[q])'
      BY DEF PagesFit
    <3>1. CASE q = p
      BY <2>2, <3>1, ClosedFits DEF PageFits, SetupKinds
    <3>2. CASE q # p
      BY <2>1, <2>2, <2>3, <3>2, SessionTyped DEF PageFits, PageFollows, PageRecords
    <3> QED
      BY <3>1, <3>2
  <2>6. PagesAgree'
    BY <2>2, ClosedFits DEF SessionInv, PagesAgree, SetupKinds
  <2> QED
    BY <2>1, <2>4, <2>5, <2>6 DEF SessionInv, RowFits, VaultFits
<1>3. CASE Session!Restart
  <2>1. /\ row' \in {row, None} /\ vault' = {}
        /\ scan' = [g \in Session!Revs |-> Session!NoScan] /\ page' = [p \in Pages |-> Session!Closed]
    BY <1>3 DEF Session!Restart
  <2>2. acked' \in SUBSET Sheets
    BY <1>3, SessionTyped DEF Session!Restart
  <2>3. scan' \in [Session!Revs -> ScanRecords] /\ \A g \in Session!Revs : scan'[g].files = None
    BY <1>1, <2>1
  <2>4. page' \in [Pages -> PageRecords] /\ \A q \in Pages : page'[q] = Session!Closed
    BY <2>1, ClosedFits
  <2>5. Session!TypeOK'
    BY <2>1, <2>2, <2>3, <2>4, SessionTyped DEF Session!TypeOK, RowRecords, PageRecords, ScanRecords
  <2>6. PagesFit' /\ PagesAgree'
    BY <2>4, ClosedFits DEF PagesFit, PageFits, PagesAgree, SetupKinds
  <2>7. RowFits' /\ VaultFits'
    BY <2>1, <2>3, SessionTyped DEF SessionInv, RowFits, VaultFits, RowRecords
  <2> QED
    BY <2>5, <2>6, <2>7 DEF SessionInv
<1> QED
  BY <1>2, <1>3

(* A save that is taken drops what its page knows.                          *)
LEMMA SaveDrops ==
  ASSUME SessionInv, NEW p \in Pages, Session!Fresh(page[p].rev), NEW f \in Session!Inputs,
         NEW decided \in SUBSET Sheets, Session!SaveChoices(f, decided), page'[p] # page[p],
         page[p].kind \in SetupKinds \/ row.decided \subseteq decided
  PROVE  Session!DropsKnown
<1>1. row # None /\ page[p].rev = row.rev /\ row'.decided = decided
  BY RowGrows
<1>2. row.decided \ row'.decided \subseteq page[p].loaded \cup page[p].own
  BY <1>1, SessionTyped DEF PageFits, PageFollows
<1> QED
  BY <1>2 DEF Session!DropsKnown

LEMMA DecideSteps ==
  ASSUME SessionInv, NEW p \in Pages, NEW s \in Sheets, Session!Decide(p, s)
  PROVE  SessionInv' /\ Session!DropsKnown
<1> DEFINE shows == page[p].view \cup {s}
           x == [page[p] EXCEPT !.view = shows, !.rev = row.rev + 1, !.own = page[p].own \cup shows]
           z == [page[p] EXCEPT !.view = shows]
<1>1. /\ page[p] \in PageRecords /\ PageFits(page[p]) /\ page[p].kind = "setup" /\ "setup" \in SetupKinds
      /\ UNCHANGED <<scan, vault>>
  BY SessionTyped DEF Session!Decide, SetupKinds
<1>2. shows \in SUBSET Sheets /\ page[p].files \in Session!Inputs
  BY <1>1 DEF PageRecords
<1>3. \A c \in page[p].creds : c.typed = page[p].files[c.role]
  BY <1>1 DEF PageFits
<1>4. /\ scan' \in [Session!Revs -> ScanRecords] /\ \A g \in Session!Revs : scan'[g].files \in {scan[g].files, None}
      /\ vault' \subseteq VaultRecords /\ VaultFits' /\ \A v \in vault' : v.typed = v.hash
  BY <1>1, SessionTyped DEF SessionInv, VaultFits
<1>5. CASE Session!Fresh(page[p].rev)
  <2>1. /\ Session!SaveChoices(page[p].files, shows) /\ acked' = acked \cup {s}
        /\ page' = [page EXCEPT ![p] = x]
    BY <1>5 DEF Session!Decide
  <2> HIDE DEF shows
  <2>2. row.rev + 1 \in Session!Revs /\ row.rev + 1 # page[p].rev
    <3>1. row' \in RowRecords /\ row'.rev = row.rev + 1 /\ row \in RowRecords /\ page[p].rev = row.rev
      BY <1>2, <1>5, <2>1, RowGrows
    <3> QED
      BY <3>1, SessionConstants DEF RowRecords, Session!Revs
  <2>3. /\ x \in PageRecords /\ x.kind = "setup" /\ x.gen = page[p].gen /\ x.files = page[p].files
        /\ x.rev = row.rev + 1 /\ x.loaded = page[p].loaded /\ x.own = page[p].own \cup shows
        /\ x.creds = page[p].creds
    BY <1>1, <1>2, <2>2 DEF PageRecords
  <2> HIDE DEF x
  <2>4. acked' \in SUBSET Sheets /\ shows \subseteq x.loaded \cup x.own
        /\ \A c \in x.creds : c.typed = x.files[c.role]
    BY <1>3, <2>1, <2>3, SessionTyped
  <2>5. SessionInv'
    BY <1>1, <1>2, <1>4, <1>5, <2>1, <2>3, <2>4, PageSaves
  <2>6. page'[p] = x
    BY <2>1, SessionTyped
  <2>7. page'[p] # page[p]
    BY <2>2, <2>3, <2>6
  <2> QED
    BY <1>1, <1>2, <1>5, <2>1, <2>5, <2>7, SaveDrops
<1>6. CASE ~Session!Fresh(page[p].rev)
  <2>1. page' = [page EXCEPT ![p] = z] /\ UNCHANGED <<row, scan, acked>>
    BY <1>1, <1>6 DEF Session!Decide
  <2> HIDE DEF shows
  <2>2. /\ z \in PageRecords /\ z.kind = "setup" /\ z.gen = page[p].gen /\ z.files = page[p].files
        /\ z.rev = page[p].rev /\ z.loaded = page[p].loaded /\ z.own = page[p].own
        /\ z.creds = page[p].creds
    BY <1>1, <1>2 DEF PageRecords
  <2> HIDE DEF z
  <2>3. \A c \in z.creds : c.typed = z.files[c.role]
    BY <1>3, <2>2
  <2>4. SessionInv'
    BY <1>1, <1>4, <2>1, <2>2, <2>3, QuietPage
  <2> QED
    BY <2>1, <2>4 DEF Session!DropsKnown
<1> QED
  BY <1>5, <1>6

(* _persist_input_state, whoever calls it.                                  *)
LEMMA PersistSteps ==
  ASSUME SessionInv, NEW p \in Pages, page[p].kind \in SetupKinds, NEW f \in Session!Inputs,
         NEW left \in SUBSET [role : Roles, hash : Hashes], Session!PersistInputState(p, f, left)
  PROVE  SessionInv' /\ Session!DropsKnown
<1> DEFINE o == page[p]
           x == [o EXCEPT !.kind = "left", !.rev = row.rev + 1,
                     !.creds = {}, !.uploads = left, !.own = o.own \cup o.loaded]
           z == [o EXCEPT !.uploads = left]
           kept == Session!UnchangedSources(o.creds, o.files, f)
<1>1. o \in PageRecords /\ PageFits(o) /\ o.kind \in SetupKinds /\ "left" \in SetupKinds
  BY SessionTyped DEF SetupKinds
<1>2. /\ o.loaded \in SUBSET Sheets /\ o.files \in Session!Inputs /\ o.gen \in Session!Revs
      /\ o.creds \in SUBSET [role : Roles, typed : Hashes]
      /\ \A c \in o.creds : c.typed = o.files[c.role]
  BY <1>1 DEF PageRecords, PageFits
<1>3. kept \in SUBSET [role : Roles, typed : Hashes] /\ \A c \in kept : c.typed = f[c.role]
  BY <1>2 DEF Session!UnchangedSources
<1> HIDE DEF kept
<1>4. CASE Session!Fresh(o.rev)
  <2>1. /\ Session!SaveChoices(f, o.loaded) /\ page' = [page EXCEPT ![p] = x] /\ UNCHANGED acked
        /\ scan' = IF row'.gen = o.gen THEN scan ELSE [scan EXCEPT ![o.gen] = Session!NoScan]
        /\ vault' = Session!Bundle(row'.gen, f, kept)
    BY <1>4 DEF Session!PersistInputState, kept
  <2>2. /\ row' \in RowRecords /\ row'.rev = row.rev + 1 /\ row \in RowRecords /\ o.rev = row.rev
    BY <1>2, <1>4, <2>1, RowGrows
  <2>3. row.rev + 1 \in Session!Revs /\ row.rev + 1 # o.rev /\ row'.gen \in Session!Revs
    BY <2>2, SessionConstants DEF RowRecords, Session!Revs
  <2>4. Session!NoScan \in ScanRecords /\ Session!NoScan.files = None
    BY DEF Session!NoScan, ScanRecords
  <2>5. /\ scan' \in [Session!Revs -> ScanRecords]
        /\ \A g \in Session!Revs : scan'[g].files \in {scan[g].files, None}
    BY <1>2, <2>1, <2>4, SessionTyped
  <2>6. vault' \subseteq VaultRecords /\ VaultFits'
    BY <1>3, <2>1, <2>3, BundleFits DEF VaultFits
  <2>7. /\ x \in PageRecords /\ x.kind = "left" /\ x.gen = o.gen /\ x.files = o.files
        /\ x.rev = row.rev + 1 /\ x.loaded = o.loaded /\ x.own = o.own \cup o.loaded
        /\ x.creds = {}
    BY <1>1, <2>3 DEF PageRecords
  <2> HIDE DEF x
  <2>8. acked' \in SUBSET Sheets /\ o.loaded \subseteq x.loaded \cup x.own
        /\ \A c \in x.creds : c.typed = x.files[c.role]
    BY <2>1, <2>7, SessionTyped
  <2>9. SessionInv'
    BY <1>1, <1>2, <1>4, <2>1, <2>5, <2>6, <2>7, <2>8, PageSaves
  <2>10. page'[p] = x
    BY <2>1, SessionTyped
  <2>11. page'[p] # page[p]
    BY <2>3, <2>7, <2>10
  <2> QED
    BY <1>1, <1>2, <1>4, <2>1, <2>9, <2>11, SaveDrops
<1>5. CASE ~Session!Fresh(o.rev)
  <2>1. page' = [page EXCEPT ![p] = z] /\ UNCHANGED <<row, scan, vault, acked>>
    BY <1>5 DEF Session!PersistInputState
  <2>2. /\ z \in PageRecords /\ z.kind = o.kind /\ z.gen = o.gen /\ z.files = o.files
        /\ z.rev = o.rev /\ z.loaded = o.loaded /\ z.own = o.own /\ z.creds = o.creds
    BY <1>1 DEF PageRecords
  <2>3. vault' \subseteq VaultRecords /\ \A v \in vault' : v.typed = v.hash
    BY <2>1, SessionTyped DEF SessionInv, VaultFits
  <2> HIDE DEF z
  <2>4. \A c \in z.creds : c.typed = z.files[c.role]
    BY <1>2, <2>2
  <2>5. SessionInv'
    BY <1>1, <2>1, <2>2, <2>3, <2>4, QuietPage
  <2> QED
    BY <2>1, <2>5 DEF Session!DropsKnown
<1> QED
  BY <1>4, <1>5

LEMMA InputSteps ==
  ASSUME SessionInv, NEW p \in Pages,
         \/ \E r \in Roles : Session!ClearFile(p, r)
         \/ Session!AddMemberRoles(p)
         \/ \E u \in page[p].uploads : Session!EndUpload(p, u)
  PROVE  SessionInv' /\ Session!DropsKnown
<1>1. /\ page[p].files \in Session!Inputs /\ page[p].uploads \in SUBSET [role : Roles, hash : Hashes]
      /\ page[p].uploads # {} => page[p].kind \in SetupKinds
  BY SessionTyped DEF PageRecords, PageFits
<1>2. ASSUME NEW r \in Roles, Session!ClearFile(p, r)
      PROVE  SessionInv' /\ Session!DropsKnown
  <2>1. [page[p].files EXCEPT ![r] = None] \in Session!Inputs
    BY <1>1 DEF Session!Inputs
  <2> QED
    BY <1>1, <1>2, <2>1, PersistSteps DEF Session!ClearFile, SetupKinds
<1>3. CASE Session!AddMemberRoles(p)
  BY <1>1, <1>3, PersistSteps DEF Session!AddMemberRoles, SetupKinds
<1>4. ASSUME NEW u \in page[p].uploads, Session!EndUpload(p, u)
      PROVE  SessionInv' /\ Session!DropsKnown
  <2>1. u \in [role : Roles, hash : Hashes]
    BY <1>1, <1>4
  <2>2. [page[p].files EXCEPT ![u.role] = u.hash] \in Session!Inputs
    BY <1>1, <2>1 DEF Session!Inputs
  <2>3. page[p].uploads \ {u} \in SUBSET [role : Roles, hash : Hashes] /\ page[p].kind \in SetupKinds
    BY <1>1, <1>4
  <2> QED
    BY <1>4, <2>2, <2>3, PersistSteps DEF Session!EndUpload
<1> QED
  BY <1>2, <1>3, <1>4

LEMMA EndSteps ==
  ASSUME SessionInv, NEW p \in Pages, Session!DiscardSetup(p) \/ Session!Continue(p)
  PROVE  SessionInv' /\ Session!DropsKnown
<1> DEFINE decided == IF page[p].kind = "setup" THEN {} ELSE row.decided
<1>1. page[p] \in PageRecords /\ page[p].files \in Session!Inputs /\ page[p].gen \in Session!Revs
  BY SessionTyped DEF PageRecords
<1>2. /\ Session!Fresh(page[p].rev) /\ page' = [page EXCEPT ![p] = Session!Closed]
      /\ page[p].kind \in {"setup", "files"}
      /\ acked' \in {acked, {}}
  BY DEF Session!DiscardSetup, Session!Continue
<1>3. row # None /\ row \in RowRecords
  BY <1>2, SessionTyped DEF Session!Fresh
<1>4. decided \in SUBSET Sheets
  BY <1>3 DEF RowRecords
<1>5. Session!SaveChoices(page[p].files, decided)
  BY DEF Session!DiscardSetup, Session!Continue
<1>6. row' \in RowRecords
  BY <1>1, <1>2, <1>4, <1>5, RowGrows
<1>7. Session!NoScan \in ScanRecords /\ Session!NoScan.files = None
  BY DEF Session!NoScan, ScanRecords
<1>8. /\ scan' \in [Session!Revs -> ScanRecords]
      /\ \A g \in Session!Revs : scan'[g].files \in {scan[g].files, None}
  BY <1>1, <1>7, SessionTyped DEF Session!DiscardSetup, Session!Continue
<1>9. vault' \subseteq VaultRecords /\ VaultFits'
  <2>1. CASE Session!DiscardSetup(p)
    BY <2>1, SessionTyped DEF Session!DiscardSetup, SessionInv, VaultFits
  <2>2. CASE Session!Continue(p)
    <3>1. PICK typed \in SUBSET {r \in Roles : page[p].files[r] # None} :
            vault' = Session!Bundle(row'.gen, page[p].files, {[role |-> r, typed |-> page[p].files[r]] : r \in typed})
      BY <2>2 DEF Session!Continue
    <3> DEFINE creds == {[role |-> r, typed |-> page[p].files[r]] : r \in typed}
    <3>2. \A r \in typed : r \in Roles /\ page[p].files[r] \in Hashes
      BY <1>1 DEF Session!Inputs
    <3>3. creds \in SUBSET [role : Roles, typed : Hashes] /\ \A c \in creds : c.typed = page[p].files[c.role]
      BY <3>2
    <3>4. row'.gen \in Session!Revs
      BY <1>6 DEF RowRecords
    <3> HIDE DEF creds
    <3>5. vault' = Session!Bundle(row'.gen, page[p].files, creds)
      BY <3>1 DEF creds
    <3> QED
      BY <1>1, <3>3, <3>4, <3>5, BundleFits DEF VaultFits
  <2> QED
    BY <2>1, <2>2
<1>10. acked' \in SUBSET Sheets
  BY <1>2, SessionTyped
<1>11. page'[p] = Session!Closed /\ page'[p] # page[p]
  BY <1>2, ClosedFits, SessionTyped
<1>12. page[p].kind \in SetupKinds \/ row.decided \subseteq decided
  BY <1>2 DEF SetupKinds
<1> HIDE DEF decided
<1>13. SessionInv'
  BY <1>1, <1>2, <1>4, <1>5, <1>8, <1>9, <1>10, ClosedFits, PageSaves DEF SetupKinds
<1> QED
  BY <1>1, <1>2, <1>4, <1>5, <1>11, <1>12, <1>13, SaveDrops

(* A step that leaves the row alone, or takes it away, drops nothing.       *)
LEMMA SessionSteps ==
  ASSUME SessionInv, Session!Next
  PROVE  SessionInv' /\ Session!DropsKnown
<1>1. ASSUME NEW p \in Pages, Session!OpenSetup(p)
      PROVE  SessionInv' /\ Session!DropsKnown
  BY <1>1, OpenSetupSteps DEF Session!OpenSetup, Session!DropsKnown
<1>2. ASSUME NEW p \in Pages,
             \/ Session!OpenFiles(p) \/ Session!ClosePage(p) \/ Session!Poll(p) \/ Session!Leave(p)
             \/ Session!BackToFiles(p)
             \/ \E r \in Roles : Session!TypePassword(p, r)
             \/ \E r \in Roles, h \in Hashes : Session!BeginUpload(p, r, h) \/ Session!ChooseFile(p, r, h)
      PROVE  SessionInv' /\ Session!DropsKnown
  <2>1. row' = row
    BY <1>2 DEF Session!OpenFiles, Session!ClosePage, Session!Poll, Session!Leave, Session!BackToFiles,
       Session!TypePassword, Session!BeginUpload, Session!ChooseFile
  <2> QED
    BY <1>2, <2>1, QuietSteps DEF Session!DropsKnown
<1>3. ASSUME \/ \E g \in Session!Revs, s \in Sheets : Session!SheetReady(g, s)
             \/ \E p \in Pages : Session!RetryAnalysis(p)
      PROVE  SessionInv' /\ Session!DropsKnown
  <2>1. row' = row
    BY <1>3 DEF Session!SheetReady, Session!RetryAnalysis
  <2> QED
    BY <1>3, <2>1, AnalysisSteps DEF Session!DropsKnown
<1>4. ASSUME \/ \E p \in Pages : Session!DiscardResumed(p)
             \/ Session!Restart
      PROVE  SessionInv' /\ Session!DropsKnown
  <2>1. row' \in {row, None}
    BY <1>4 DEF Session!DiscardResumed, Session!Restart
  <2> QED
    BY <1>4, <2>1, RowGoes DEF Session!DropsKnown
<1> QED
  BY <1>1, <1>2, <1>3, <1>4, DecideSteps, InputSteps, EndSteps DEF Session!Next

(* A generation stands for one set of files, and a password is kept for the *)
(* workbook it was typed for only (save_choices, attach,                    *)
(* _clear_changed_credentials, credential_vault).                           *)
THEOREM SessionKeepsFiles == Spec => []SessionOfFiles
<1> DEFINE Inv == part = "session" => SessionInv
<1>1. Init => Inv
  BY BeginsApart, SessionBegins
<1>2. Inv /\ [Next]_deskVars => Inv'
  BY StaysApart, SessionSteps, SessionStays
<1>3. Inv => SessionOfFiles
  <2> SUFFICES ASSUME SessionInv
               PROVE  Session!ScanOfShownFiles /\ Session!PasswordOfSource
    BY DEF SessionOfFiles
  <2>1. Session!ScanOfShownFiles
    BY SessionTyped DEF SessionInv, RowFits, PageFits, SetupKinds, Session!ScanOfShownFiles, Session!Shown
  <2>2. Session!PasswordOfSource
    BY SessionTyped DEF SessionInv, VaultFits, PageFits, SetupKinds, Session!PasswordOfSource
  <2> QED
    BY <2>1, <2>2
<1> QED
  BY <1>1, <1>2, <1>3, PTL DEF Spec

(* A save drops no decision that its page has neither read nor saved itself *)
(* (save_choices).                                                          *)
THEOREM SavesDropOnlyKnown == Spec => DropsOnlyKnown
<1> DEFINE Inv == part = "session" => SessionInv
<1>1. Init => Inv
  BY BeginsApart, SessionBegins
<1>2. Inv /\ [Next]_deskVars => Inv'
  BY StaysApart, SessionSteps, SessionStays
<1>3. Inv /\ [Next]_deskVars => [part = "session" => Session!DropsKnown]_deskVars
  BY StaysApart, SessionSteps DEF sessionVars, Session!DropsKnown
<1> QED
  BY <1>1, <1>2, <1>3, PTL DEF Spec, DropsOnlyKnown
-----------------------------------------------------------------------------
(* The desktop focus (Focus).                                                *)

ClientRecords == [ack : BOOLEAN, offer : Desktop!Document \cup {None},
                  tokens : SUBSET [id : 1..MaxTokens, old : BOOLEAN]]
BindingRecords == [doc : Desktop!Document, old : BOOLEAN]
TaskRecords == [pc : {"idle", "bind", "check", "act"}, client : Clients \cup {None},
                token : 0..MaxTokens, binding : Desktop!Document \cup {None},
                req : Desktop!Request \cup {None}, late : BOOLEAN]
HelperRecords == [task : Tasks, step : {"health", "run", "validated", "acted", "replied"},
                  found : Desktop!Snapshots \cup {None}]

FocusTyped ==
  /\ client \in [Clients -> ClientRecords]
  /\ registry \in [Clients -> BindingRecords \cup {None}]
  /\ task \in [Tasks -> TaskRecords] /\ queue \in Seq(Tasks)
  /\ helper = None \/ helper \in HelperRecords
  /\ window \in [Windows -> [open : BOOLEAN, path : Paths, ok : BOOLEAN]]
  /\ disk \in [Paths -> [id : FileIds, same : BOOLEAN]]
  /\ issued \in 0..MaxTokens

Busy == {"bind", "check", "act"}
Holding == {"check", "act"}
Bound(c, d) == [client |-> c, doc |-> d] \in confirmed

(* A binding was confirmed, and its client's authority stands.              *)
BindingsStand ==
  \A c \in Clients : registry[c] # None => Bound(c, registry[c].doc) /\ c \notin taken

(* A task is of a client; a focus is of a binding that was confirmed, and   *)
(* asks for its window and file, under a path that was confirmed; it is     *)
(* late when the authority was taken back.                                  *)
TaskFits(x) ==
  /\ x.pc \in Busy => x.client \in Clients
  /\ x.pc \in {"bind", "check"} => x.req.kind = "discover"
  /\ x.pc \in Holding => x.binding \in Desktop!Document /\ Bound(x.client, x.binding)
  /\ x.pc = "act" =>
       /\ x.req.window = x.binding.window /\ x.req.id = x.binding.id
       /\ \E b \in confirmed : b.client = x.client /\ b.doc.path = x.req.path
       /\ x.client \in taken => x.late
TasksFit == \A t \in Tasks : TaskFits(task[t])

(* The lock is waited for once, by tasks that are under way and not with    *)
(* the helper.                                                              *)
QueueFits ==
  /\ \A i \in 1..Len(queue) : task[queue[i]].pc \in Busy
  /\ \A i, j \in 1..Len(queue) : queue[i] = queue[j] => i = j
HelperFits ==
  helper # None =>
    /\ task[helper.task].pc \in Busy
    /\ \A i \in 1..Len(queue) : queue[i] # helper.task
    /\ helper.step \in {"validated", "acted"} => task[helper.task].pc = "act"

(* A token is offered to one client, or held by one task, or used up: a     *)
(* task whose token is used has acted, and only waits for its reply.        *)
TokensOffered ==
  \A c \in Clients : \A x \in client[c].tokens :
    /\ x.id <= issued
    /\ \A d \in Clients : \A y \in client[d].tokens : x.id = y.id => c = d
    /\ \A t \in Tasks : task[t].pc \in Holding => task[t].token # x.id
    /\ \A a \in acted : a.token # x.id
TokensHeld ==
  \A t \in Tasks : task[t].pc \in Holding =>
    /\ task[t].token \in 1..issued
    /\ \A u \in Tasks : task[u].pc \in Holding /\ task[u].token = task[t].token => u = t
    /\ \A a \in acted : a.token = task[t].token =>
         /\ task[t].pc = "act"
         /\ \A i \in 1..Len(queue) : queue[i] # t
         /\ helper # None /\ helper.task = t => helper.step \in {"acted", "replied"}
TokensUsed ==
  /\ \A a \in acted : a.token \in 1..issued
  /\ \A a, b \in acted : a.token = b.token => a = b

(* What was done in Office was confirmed.                                   *)
ActsFit ==
  \A a \in acted :
    /\ \E b \in confirmed : b.client = a.client /\ b.doc.window = a.doc.window /\ b.doc.id = a.doc.id
    /\ \E b \in confirmed : b.client = a.client /\ b.doc.path = a.doc.path

TokensFit == TokensOffered /\ TokensHeld /\ TokensUsed

FocusInv ==
  FocusTyped /\ BindingsStand /\ TasksFit /\ QueueFits /\ HelperFits /\ TokensFit /\ ActsFit

LEMMA FocusBegins == ASSUME Desktop!Init PROVE FocusInv
<1>1. /\ client = [c \in Clients |-> Desktop!Fresh] /\ registry = [c \in Clients |-> None]
      /\ task = [t \in Tasks |-> Desktop!NoTask] /\ queue = <<>> /\ helper = None
      /\ issued = 0 /\ confirmed = {} /\ acted = {} /\ taken = {}
  BY DEF Desktop!Init
<1>2. Desktop!Fresh \in ClientRecords /\ Desktop!Fresh.tokens = {}
  BY DEF Desktop!Fresh, ClientRecords
<1>3. Desktop!NoTask \in TaskRecords /\ Desktop!NoTask.pc = "idle"
  BY FocusConstants DEF Desktop!NoTask, TaskRecords
<1>4. FocusTyped
  <2>1. /\ client \in [Clients -> ClientRecords] /\ registry \in [Clients -> BindingRecords \cup {None}]
        /\ task \in [Tasks -> TaskRecords] /\ queue \in Seq(Tasks)
    BY <1>1, <1>2, <1>3
  <2>2. issued \in 0..MaxTokens
    BY <1>1, FocusConstants
  <2>3. window \in [Windows -> [open : BOOLEAN, path : Paths, ok : BOOLEAN]]
    BY DEF Desktop!Init
  <2>4. disk \in [Paths -> [id : FileIds, same : BOOLEAN]]
    BY FocusConstants DEF Desktop!Init
  <2> QED
    BY <1>1, <2>1, <2>2, <2>3, <2>4 DEF FocusTyped
<1>5. \A t \in Tasks : task[t].pc = "idle"
  BY <1>1, <1>3
<1>6. BindingsStand /\ TasksFit /\ ActsFit
  BY <1>1, <1>5 DEF BindingsStand, TasksFit, TaskFits, ActsFit, Busy, Holding
<1>7. QueueFits /\ HelperFits
  BY <1>1 DEF QueueFits, HelperFits
<1>8. TokensFit
  BY <1>1, <1>2, <1>5 DEF TokensFit, TokensOffered, TokensHeld, TokensUsed, Holding
<1> QED
  BY <1>4, <1>6, <1>7, <1>8 DEF FocusInv

LEMMA FocusStays ==
  ASSUME FocusInv, UNCHANGED focusVars
  PROVE  FocusInv'
  BY DEF focusVars, FocusInv, FocusTyped, BindingsStand, TasksFit, TaskFits, Bound, QueueFits, HelperFits,
     TokensFit, TokensOffered, TokensHeld, TokensUsed, ActsFit

LEMMA FocusTypes ==
  ASSUME FocusInv
  PROVE  /\ client \in [Clients -> ClientRecords] /\ registry \in [Clients -> BindingRecords \cup {None}]
         /\ task \in [Tasks -> TaskRecords] /\ queue \in Seq(Tasks) /\ Len(queue) \in Nat
         /\ helper # None => helper \in HelperRecords
         /\ issued \in Nat /\ issued \in 0..MaxTokens
         /\ \A t \in Tasks : task[t] \in TaskRecords /\ TaskFits(task[t])
         /\ \A i \in 1..Len(queue) : queue[i] \in Tasks
  BY FocusConstants DEF FocusInv, FocusTyped, TasksFit

(* The helper goes on, and has not acted.                                   *)
LEMMA HelperGoes ==
  ASSUME FocusInv, helper # None, NEW step \in {"run", "validated", "replied"},
         NEW found \in Desktop!Snapshots \cup {None}, Desktop!Helping(helper.task, step, found),
         UNCHANGED <<client, registry, task, queue, window, disk, issued, confirmed, acted, taken>>,
         step = "validated" => task[helper.task].pc = "act",
         step # "replied" => helper.step \in {"health", "run"}
  PROVE  FocusInv'
<1>1. /\ helper' = [task |-> helper.task, step |-> step, found |-> found]
      /\ helper.task \in Tasks
  BY FocusTypes DEF Desktop!Helping, HelperRecords
<1>2. helper' \in HelperRecords /\ helper'.task = helper.task /\ helper'.step = step
  BY <1>1 DEF HelperRecords
<1>3. FocusTyped'
  BY <1>2 DEF FocusInv, FocusTyped
<1>4. BindingsStand' /\ TasksFit' /\ QueueFits' /\ ActsFit'
  BY DEF FocusInv, BindingsStand, TasksFit, TaskFits, Bound, QueueFits, ActsFit
<1>5. HelperFits'
  BY <1>2 DEF FocusInv, HelperFits
<1>6. TokensOffered' /\ TokensUsed'
  BY DEF FocusInv, TokensFit, TokensOffered, TokensUsed
<1>7. TokensHeld'
  BY <1>2 DEF FocusInv, TokensFit, TokensHeld
<1> QED
  BY <1>3, <1>4, <1>5, <1>6, <1>7 DEF FocusInv, TokensFit

LEMMA HelperSteps ==
  ASSUME FocusInv,
         \/ Desktop!Health \/ Desktop!DiscoverOpen \/ Desktop!PerformFocus \/ Desktop!Acted
         \/ Desktop!Timeout \/ Desktop!CooldownEnds
  PROVE  FocusInv'
<1>1. CASE Desktop!CooldownEnds
  BY <1>1, FocusStays DEF Desktop!CooldownEnds, Desktop!Others, Desktop!history, Desktop!office, focusVars,
     FocusInv, FocusTyped, BindingsStand, TasksFit, TaskFits, Bound, QueueFits, HelperFits,
     TokensFit, TokensOffered, TokensHeld, TokensUsed, ActsFit
<1>2. None \in Desktop!Snapshots \cup {None} /\ "replied" \in {"run", "validated", "replied"}
  OBVIOUS
<1>3. ASSUME helper # None, NEW found \in Desktop!Snapshots \cup {None}, Desktop!Replied(found),
             UNCHANGED <<client, registry, task, queue, window, disk, issued, confirmed, acted, taken>>
      PROVE  FocusInv'
  BY <1>2, <1>3, HelperGoes DEF Desktop!Replied
<1>4. CASE Desktop!Health
  <2>1. helper # None /\ helper.step = "health" /\ (Desktop!Replied(None) \/ Desktop!Helping(helper.task, "run", None))
        /\ UNCHANGED <<client, registry, task, queue, window, disk, issued, confirmed, acted, taken>>
    BY <1>4 DEF Desktop!Health, Desktop!Others, Desktop!history, Desktop!office
  <2>2. CASE Desktop!Replied(None)
    BY <1>2, <1>3, <2>1, <2>2
  <2>3. CASE Desktop!Helping(helper.task, "run", None)
    BY <1>2, <2>1, <2>3, HelperGoes
  <2> QED
    BY <2>1, <2>2, <2>3
<1>5. CASE Desktop!DiscoverOpen
  <2> DEFINE seen == {[window |-> w, path |-> window[w].path, ok |-> window[w].ok] :
                        w \in {v \in Windows : window[v].open}}
  <2>1. helper # None /\ (Desktop!Replied(seen) \/ Desktop!Replied(None))
        /\ UNCHANGED <<client, registry, task, queue, window, disk, issued, confirmed, acted, taken>>
    BY <1>5 DEF Desktop!DiscoverOpen, Desktop!Doing, Desktop!Others, Desktop!history, Desktop!office
  <2>2. seen \in Desktop!Snapshots
    BY DEF FocusInv, FocusTyped, Desktop!Snapshots
  <2> HIDE DEF seen
  <2> QED
    BY <1>2, <1>3, <2>1, <2>2
<1>6. CASE Desktop!PerformFocus
  <2>1. helper # None /\ (Desktop!Helping(helper.task, "validated", None) \/ Desktop!Replied(None))
        /\ UNCHANGED <<client, registry, task, queue, window, disk, issued, confirmed, acted, taken>>
        /\ helper.step = "run" /\ task[helper.task].req.kind = "focus"
    BY <1>6 DEF Desktop!PerformFocus, Desktop!Doing, Desktop!Others, Desktop!history, Desktop!office
  <2>2. task[helper.task].pc = "act"
    <3>1. helper.task \in Tasks /\ task[helper.task].pc \in Busy
      BY <2>1, FocusTypes DEF HelperRecords, FocusInv, HelperFits
    <3>2. task[helper.task].pc \notin {"bind", "check"}
      BY <2>1, <3>1, FocusTypes DEF TaskFits
    <3> QED
      BY <3>1, <3>2 DEF Busy
  <2>3. CASE Desktop!Replied(None)
    BY <1>2, <1>3, <2>1, <2>3
  <2>4. CASE Desktop!Helping(helper.task, "validated", None)
    BY <1>2, <2>1, <2>2, <2>4, HelperGoes
  <2> QED
    BY <2>1, <2>3, <2>4
<1>7. CASE Desktop!Acted
  BY <1>2, <1>3, <1>7 DEF Desktop!Acted, Desktop!Others, Desktop!history, Desktop!office
<1>8. CASE Desktop!Timeout
  BY <1>2, <1>3, <1>8 DEF Desktop!Timeout, Desktop!Others, Desktop!history, Desktop!office
<1> QED
  BY <1>1, <1>4, <1>5, <1>6, <1>7, <1>8

(* The one step that moves Office.                                          *)
LEMMA ActSteps ==
  ASSUME FocusInv, Desktop!Act
  PROVE  FocusInv'
<1> DEFINE t == helper.task
           a == [client |-> task[t].client, token |-> task[t].token, at |-> Desktop!Cardinality(acted) + 1,
                 doc |-> [window |-> task[t].req.window, path |-> window[task[t].req.window].path,
                          id |-> task[t].req.id]]
<1>1. /\ helper # None /\ helper.step = "validated" /\ t \in Tasks
      /\ UNCHANGED <<client, registry, task, queue, window, disk, issued, confirmed, taken>>
  BY FocusTypes DEF Desktop!Act, Desktop!Others, Desktop!office, HelperRecords
<1>2. CASE Desktop!Replied(None) /\ UNCHANGED acted
  BY <1>1, <1>2, HelperGoes DEF Desktop!Replied
<1>3. CASE Desktop!StillThere(task[t].req) /\ acted' = acted \cup {a} /\ Desktop!Helping(t, "acted", None)
  <2>1. /\ helper' = [task |-> t, step |-> "acted", found |-> None]
    BY <1>3 DEF Desktop!Helping
  <2>2. helper' \in HelperRecords /\ helper'.task = t /\ helper'.step = "acted"
    BY <1>1, <2>1 DEF HelperRecords
  <2>3. FocusTyped'
    BY <1>1, <2>2 DEF FocusInv, FocusTyped
  <2>4. task[t].pc = "act" /\ TaskFits(task[t]) /\ "act" \in Holding /\ task[t] \in TaskRecords
    BY <1>1, FocusTypes DEF FocusInv, HelperFits, Holding
  <2>5. BindingsStand' /\ TasksFit' /\ QueueFits'
    BY <1>1 DEF FocusInv, BindingsStand, TasksFit, TaskFits, Bound, QueueFits
  <2>6. HelperFits'
    BY <1>1, <2>2, <2>4 DEF FocusInv, HelperFits
  <2>7. /\ task[t].token \in 1..issued
        /\ \A u \in Tasks : task[u].pc \in Holding /\ task[u].token = task[t].token => u = t
        /\ \A b \in acted : b.token # task[t].token
    BY <1>1, <2>4 DEF FocusInv, TokensFit, TokensHeld
  <2>8. a.token = task[t].token /\ a.client = task[t].client
        /\ a.doc = [window |-> task[t].req.window, path |-> window[task[t].req.window].path, id |-> task[t].req.id]
    OBVIOUS
  <2>9. /\ \E b \in confirmed : b.client = a.client /\ b.doc.window = a.doc.window /\ b.doc.id = a.doc.id
        /\ \E b \in confirmed : b.client = a.client /\ b.doc.path = a.doc.path
    <3>1. /\ task[t].req.window = task[t].binding.window /\ task[t].req.id = task[t].binding.id
          /\ Bound(task[t].client, task[t].binding)
          /\ \E b \in confirmed : b.client = task[t].client /\ b.doc.path = task[t].req.path
      BY <2>4 DEF TaskFits
    <3>2. window[task[t].req.window].path = task[t].req.path
      BY <1>3 DEF Desktop!StillThere
    <3>3. [client |-> task[t].client, doc |-> task[t].binding] \in confirmed
      BY <3>1 DEF Bound
    <3> QED
      BY <2>8, <3>1, <3>2, <3>3
  <2>10. acted' = acted \cup {a}
    BY <1>3
  <2> HIDE DEF a
  <2>11. ActsFit'
    BY <1>1, <2>9, <2>10 DEF FocusInv, ActsFit
  <2>12. TokensUsed'
    BY <1>1, <2>7, <2>8, <2>10 DEF FocusInv, TokensFit, TokensUsed
  <2>13. TokensOffered'
    BY <1>1, <2>4, <2>8, <2>10 DEF FocusInv, TokensFit, TokensOffered
  <2>14. TokensHeld'
    <3> SUFFICES ASSUME NEW u \in Tasks, task[u].pc \in Holding
                 PROVE  /\ task[u].token \in 1..issued
                        /\ \A v \in Tasks : task[v].pc \in Holding /\ task[v].token = task[u].token => v = u
                        /\ \A b \in acted' : b.token = task[u].token =>
                             /\ task[u].pc = "act"
                             /\ \A i \in 1..Len(queue) : queue[i] # u
                             /\ helper' # None /\ helper'.task = u => helper'.step \in {"acted", "replied"}
      BY <1>1 DEF TokensHeld
    <3>1. /\ task[u].token \in 1..issued
          /\ \A v \in Tasks : task[v].pc \in Holding /\ task[v].token = task[u].token => v = u
      BY DEF FocusInv, TokensFit, TokensHeld
    <3>2. ASSUME NEW b \in acted, b.token = task[u].token
          PROVE  /\ task[u].pc = "act"
                 /\ \A i \in 1..Len(queue) : queue[i] # u
      BY <3>2 DEF FocusInv, TokensFit, TokensHeld
    <3>3. ASSUME a.token = task[u].token
          PROVE  /\ task[u].pc = "act"
                 /\ \A i \in 1..Len(queue) : queue[i] # u
      <4>1. u = t
        BY <2>7, <2>8, <3>3
      <4> QED
        BY <1>1, <2>4, <4>1 DEF FocusInv, HelperFits
    <3> QED
      BY <2>2, <2>10, <3>1, <3>2, <3>3
  <2> QED
    BY <2>3, <2>5, <2>6, <2>11, <2>12, <2>13, <2>14 DEF FocusInv, TokensFit
<1> QED
  BY <1>1, <1>2, <1>3 DEF Desktop!Act

(* The first in the queue gets the lock.                                    *)
LEMMA SubmitSteps ==
  ASSUME FocusInv, Desktop!SubmitLocked
  PROVE  FocusInv'
<1> DEFINE t == Head(queue)
<1>1. /\ queue # <<>> /\ queue' = Tail(queue) /\ helper = None
      /\ UNCHANGED <<client, registry, task, window, disk, issued, confirmed, acted, taken>>
  BY DEF Desktop!SubmitLocked, Desktop!Others, Desktop!history, Desktop!office
<1>2. PICK step \in {"replied", "health", "run"} : helper' = [task |-> t, step |-> step, found |-> None]
  BY DEF Desktop!SubmitLocked, Desktop!Helping, Desktop!FirstStep
<1>3. queue \in Seq(Tasks) /\ Len(queue) \in Nat /\ 1 \in 1..Len(queue) /\ t = queue[1] /\ t \in Tasks
  BY <1>1, FocusTypes
<1>4. /\ queue' \in Seq(Tasks) /\ Len(queue') = Len(queue) - 1
      /\ \A i \in 1..Len(queue') : i + 1 \in 1..Len(queue) /\ queue'[i] = queue[i + 1] /\ i + 1 # 1
  BY <1>1, <1>3
<1> HIDE DEF t
<1>5. helper' \in HelperRecords /\ helper'.task = t /\ helper'.step = step
  BY <1>2, <1>3 DEF HelperRecords
<1>6. FocusTyped'
  BY <1>1, <1>4, <1>5 DEF FocusInv, FocusTyped
<1>7. BindingsStand' /\ TasksFit' /\ ActsFit'
  BY <1>1 DEF FocusInv, BindingsStand, TasksFit, TaskFits, Bound, ActsFit
<1>8. QueueFits'
  <2>1. \A i \in 1..Len(queue') : task[queue'[i]].pc \in Busy
    BY <1>4 DEF FocusInv, QueueFits
  <2>2. ASSUME NEW i \in 1..Len(queue'), NEW j \in 1..Len(queue'), queue'[i] = queue'[j]
        PROVE  i = j
    <3>1. i + 1 = j + 1
      BY <1>4, <2>2 DEF FocusInv, QueueFits
    <3> QED
      BY <1>3, <1>4, <3>1
  <2> QED
    BY <1>1, <2>1, <2>2 DEF QueueFits
<1>9. HelperFits'
  <2>1. task[t].pc \in Busy
    BY <1>3 DEF FocusInv, QueueFits
  <2>2. \A i \in 1..Len(queue') : queue'[i] # t
    BY <1>3, <1>4 DEF FocusInv, QueueFits
  <2> QED
    BY <1>1, <1>5, <2>1, <2>2 DEF HelperFits
<1>10. TokensOffered' /\ TokensUsed'
  BY <1>1 DEF FocusInv, TokensFit, TokensOffered, TokensUsed
<1>11. TokensHeld'
  <2> SUFFICES ASSUME NEW u \in Tasks, task[u].pc \in Holding
               PROVE  /\ task[u].token \in 1..issued
                      /\ \A v \in Tasks : task[v].pc \in Holding /\ task[v].token = task[u].token => v = u
                      /\ \A b \in acted : b.token = task[u].token =>
                           /\ task[u].pc = "act"
                           /\ \A i \in 1..Len(queue') : queue'[i] # u
                           /\ helper' # None /\ helper'.task = u => helper'.step \in {"acted", "replied"}
    BY <1>1 DEF TokensHeld
  <2>1. /\ task[u].token \in 1..issued
        /\ \A v \in Tasks : task[v].pc \in Holding /\ task[v].token = task[u].token => v = u
        /\ \A b \in acted : b.token = task[u].token =>
             /\ task[u].pc = "act" /\ \A i \in 1..Len(queue) : queue[i] # u
    BY DEF FocusInv, TokensFit, TokensHeld
  <2> QED
    BY <1>3, <1>4, <1>5, <2>1
<1> QED
  BY <1>6, <1>7, <1>8, <1>9, <1>10, <1>11 DEF FocusInv, TokensFit

(* More that is confirmed takes nothing from what was done.                 *)
LEMMA ActsGrow ==
  ASSUME ActsFit, confirmed \subseteq confirmed', UNCHANGED acted
  PROVE  ActsFit'
  BY DEF ActsFit

(* A repaint, of a client that is idle for the rest, or whose task ends     *)
(* with it: the new token is nobody's.                                      *)
LEMMA RepaintGoes ==
  ASSUME FocusInv, NEW c \in Clients, NEW state \in ClientRecords, NEW binding \in BindingRecords \cup {None},
         Desktop!Repaint(c, state, binding),
         confirmed \subseteq confirmed', taken' \subseteq taken, UNCHANGED <<queue, window, disk, acted>>,
         binding # None => [client |-> c, doc |-> binding.doc] \in confirmed' /\ c \notin taken',
         \/ UNCHANGED <<task, helper>>
         \/ /\ helper # None /\ helper' = None
            /\ task' = [task EXCEPT ![helper.task] = Desktop!NoTask]
  PROVE  FocusInv'
<1> DEFINE shows == binding # None /\ issued < MaxTokens
           offer == IF shows THEN {[id |-> issued + 1, old |-> FALSE]} ELSE {}
           x == [state EXCEPT !.tokens = offer]
<1>1. /\ registry' = [registry EXCEPT ![c] = binding] /\ client' = [client EXCEPT ![c] = x]
      /\ issued' = IF shows THEN issued + 1 ELSE issued
  BY DEF Desktop!Repaint
<1>2. /\ issued' \in 0..MaxTokens /\ issued' \in Nat /\ issued <= issued' /\ issued \in Nat
      /\ offer \in SUBSET [id : 1..MaxTokens, old : BOOLEAN]
      /\ \A y \in offer : y.id <= issued' /\ y.id > issued
      /\ \A y, z \in offer : y.id = z.id
  <2>1. CASE shows
    BY <1>1, <2>1, FocusTypes, FocusConstants
  <2>2. CASE ~shows
    BY <1>1, <2>2, FocusTypes, FocusConstants
  <2> QED
    BY <2>1, <2>2
<1> HIDE DEF offer, shows
<1>3. x \in ClientRecords /\ x.tokens = offer
  BY <1>2 DEF ClientRecords
<1> HIDE DEF x
<1>4. /\ client' \in [Clients -> ClientRecords] /\ client'[c] = x
      /\ \A d \in Clients \ {c} : client'[d] = client[d]
      /\ registry' \in [Clients -> BindingRecords \cup {None}] /\ registry'[c] = binding
      /\ \A d \in Clients \ {c} : registry'[d] = registry[d]
  BY <1>1, <1>3, FocusTypes
<1>5. Desktop!NoTask \in TaskRecords /\ Desktop!NoTask.pc = "idle"
  BY FocusConstants DEF Desktop!NoTask, TaskRecords
<1>6. /\ helper' \in {helper, None} /\ task' \in [Tasks -> TaskRecords]
      /\ \A t \in Tasks : task'[t] = task[t] \/ (task'[t].pc = "idle" /\ helper # None /\ helper.task = t /\ helper' = None)
  <2>1. CASE UNCHANGED <<task, helper>>
    BY <2>1, FocusTypes
  <2>2. CASE helper # None /\ helper' = None /\ task' = [task EXCEPT ![helper.task] = Desktop!NoTask]
    BY <1>5, <2>2, FocusTypes
  <2> QED
    BY <2>1, <2>2
<1>7. FocusTyped'
  BY <1>2, <1>4, <1>6 DEF FocusInv, FocusTyped
<1>8. BindingsStand'
  BY <1>4 DEF FocusInv, BindingsStand, Bound
<1>9. TasksFit'
  <2> SUFFICES ASSUME NEW t \in Tasks
               PROVE  TaskFits(task[t])'
    BY DEF TasksFit
  <2>1. CASE task'[t] = task[t]
    BY <2>1, FocusTypes DEF TaskFits, Bound
  <2>2. CASE task'[t].pc = "idle"
    BY <2>2 DEF TaskFits, Busy, Holding
  <2> QED
    BY <1>6, <2>1, <2>2
<1>10. QueueFits'
  <2>1. \A i \in 1..Len(queue) : queue[i] \in Tasks /\ task[queue[i]].pc \in Busy
    BY FocusTypes DEF FocusInv, QueueFits
  <2>2. \A i \in 1..Len(queue) : task'[queue[i]] = task[queue[i]]
    BY <1>6, <2>1 DEF FocusInv, HelperFits
  <2> QED
    BY <2>1, <2>2 DEF FocusInv, QueueFits
<1>11. HelperFits'
  <2> SUFFICES ASSUME helper' # None
               PROVE  HelperFits'
    BY DEF HelperFits
  <2>1. helper' = helper /\ helper.task \in Tasks
    BY <1>6, FocusTypes DEF HelperRecords
  <2>2. task'[helper.task] = task[helper.task]
    BY <1>6, <2>1
  <2> QED
    BY <2>1, <2>2 DEF FocusInv, HelperFits
<1>12. \A t \in Tasks : task'[t].pc \in Holding => task'[t] = task[t]
  BY <1>6 DEF Holding
<1>13. TokensUsed'
  <2>1. \A n \in 1..issued : n \in 1..issued'
    BY <1>2
  <2> QED
    BY <2>1 DEF FocusInv, TokensFit, TokensUsed
<1>14. TokensHeld'
  <2>1. \A n \in 1..issued : n \in 1..issued'
    BY <1>2
  <2>2. helper' # None => helper' = helper
    BY <1>6
  <2> QED
    BY <1>12, <2>1, <2>2 DEF FocusInv, TokensFit, TokensHeld
<1>15. TokensOffered'
  <2>1. ASSUME NEW d \in Clients, NEW y \in client'[d].tokens
        PROVE  \/ d # c /\ y \in client[d].tokens /\ y.id <= issued /\ y.id \in Nat
               \/ d = c /\ y \in offer /\ y.id > issued
    <3>1. CASE d = c
      BY <1>2, <1>3, <1>4, <2>1, <3>1
    <3>2. CASE d # c
      <4>1. client'[d] = client[d] /\ client[d] \in ClientRecords
        BY <1>4, <3>2, FocusTypes
      <4>2. y \in [id : 1..MaxTokens, old : BOOLEAN]
        BY <2>1, <4>1 DEF ClientRecords
      <4>3. y.id \in Nat
        BY <4>2, FocusConstants
      <4> QED
        BY <2>1, <3>2, <4>1, <4>3 DEF FocusInv, TokensFit, TokensOffered
    <3> QED
      BY <3>1, <3>2
  <2>2. \A n \in 1..issued : ~(n > issued)
    BY <1>2
  <2> SUFFICES ASSUME NEW d \in Clients, NEW y \in client'[d].tokens
               PROVE  /\ y.id <= issued'
                      /\ \A e \in Clients : \A z \in client'[e].tokens : y.id = z.id => d = e
                      /\ \A t \in Tasks : task'[t].pc \in Holding => task'[t].token # y.id
                      /\ \A a \in acted : a.token # y.id
    BY DEF TokensOffered
  <2>3. CASE d # c /\ y \in client[d].tokens /\ y.id <= issued /\ y.id \in Nat
    <3>1. y.id <= issued'
      BY <1>2, <2>3
    <3>2. ASSUME NEW e \in Clients, NEW z \in client'[e].tokens, y.id = z.id
          PROVE  d = e
      <4>1. ~(z.id > issued)
        BY <1>2, <2>3, <3>2
      <4>2. z \in client[e].tokens
        BY <2>1, <3>2, <4>1
      <4> QED
        BY <2>3, <3>2, <4>2 DEF FocusInv, TokensFit, TokensOffered
    <3>3. \A t \in Tasks : task'[t].pc \in Holding => task'[t].token # y.id
      BY <1>12, <2>3 DEF FocusInv, TokensFit, TokensOffered
    <3>4. \A a \in acted : a.token # y.id
      BY <2>3 DEF FocusInv, TokensFit, TokensOffered
    <3> QED
      BY <3>1, <3>2, <3>3, <3>4
  <2>4. CASE d = c /\ y \in offer /\ y.id > issued
    <3>1. y.id <= issued'
      BY <1>2, <2>4
    <3>2. ASSUME NEW e \in Clients, NEW z \in client'[e].tokens, y.id = z.id
          PROVE  d = e
      <4>1. ~(z.id <= issued) \/ z.id \notin Nat
        BY <1>2, <2>4, <3>2
      <4> QED
        BY <2>1, <2>4, <3>2, <4>1
    <3>3. \A t \in Tasks : task'[t].pc \in Holding => task'[t].token # y.id
      <4>1. \A t \in Tasks : task'[t].pc \in Holding => task'[t].token \in 1..issued
        BY <1>12 DEF FocusInv, TokensFit, TokensHeld
      <4> QED
        BY <2>2, <2>4, <4>1
    <3>4. \A a \in acted : a.token # y.id
      <4>1. \A a \in acted : a.token \in 1..issued
        BY DEF FocusInv, TokensFit, TokensUsed
      <4> QED
        BY <2>2, <2>4, <4>1
    <3> QED
      BY <3>1, <3>2, <3>3, <3>4
  <2> QED
    BY <2>1, <2>3, <2>4
<1> QED
  BY <1>7, <1>8, <1>9, <1>10, <1>11, <1>13, <1>14, <1>15, ActsGrow DEF FocusInv, TokensFit

(* A task joins the queue, at its beginning or after its first reply: it    *)
(* holds a token that is nobody else's and is not used.                     *)
LEMMA TaskQueues ==
  ASSUME FocusInv, NEW t \in Tasks, NEW x \in TaskRecords, x.pc \in Busy, TaskFits(x),
         task' = [task EXCEPT ![t] = x], queue' = Append(queue, t),
         \/ task[t].pc = "idle" /\ UNCHANGED helper
         \/ helper # None /\ helper.task = t /\ helper' = None,
         client' \in [Clients -> ClientRecords],
         \A c \in Clients : client'[c].tokens \subseteq client[c].tokens,
         UNCHANGED <<registry, window, disk, issued, confirmed, acted, taken>>,
         x.pc \in Holding =>
           /\ x.token \in 1..issued
           /\ \A u \in Tasks \ {t} : task[u].pc \in Holding => task[u].token # x.token
           /\ \A c \in Clients : \A y \in client'[c].tokens : y.id # x.token
           /\ \A a \in acted : a.token # x.token
  PROVE  FocusInv'
<1>1. /\ task' \in [Tasks -> TaskRecords] /\ task'[t] = x
      /\ \A u \in Tasks \ {t} : task'[u] = task[u]
  BY FocusTypes
<1>2. /\ Len(queue) \in Nat /\ queue' \in Seq(Tasks) /\ Len(queue') = Len(queue) + 1
      /\ queue'[Len(queue) + 1] = t
      /\ \A i \in 1..Len(queue) : queue'[i] = queue[i] /\ queue[i] \in Tasks
  BY FocusTypes
<1>3. \A i \in 1..Len(queue) : queue[i] # t
  BY FocusTypes DEF FocusInv, QueueFits, HelperFits, Busy
<1>4. \A i \in 1..Len(queue') : i \in 1..Len(queue) \/ i = Len(queue) + 1
  BY <1>2
<1>5. helper' # None => helper' = helper /\ helper # None /\ helper.task # t /\ helper.task \in Tasks
  <2>1. CASE task[t].pc = "idle" /\ UNCHANGED helper
    BY <2>1, FocusTypes DEF FocusInv, HelperFits, Busy, HelperRecords
  <2> QED
    BY <2>1
<1>6. FocusTyped'
  BY <1>1, <1>2, <1>5 DEF FocusInv, FocusTyped
<1>7. BindingsStand' /\ ActsFit' /\ TokensUsed'
  BY DEF FocusInv, BindingsStand, Bound, ActsFit, TokensFit, TokensUsed
<1>8. TasksFit'
  <2> SUFFICES ASSUME NEW u \in Tasks
               PROVE  TaskFits(task[u])'
    BY DEF TasksFit
  <2>1. TaskFits(task'[u]) <=> TaskFits(task[u])'
    BY DEF TaskFits, Bound
  <2> QED
    BY <1>1, <2>1, FocusTypes
<1>9. QueueFits'
  <2>1. \A i \in 1..Len(queue') : task'[queue'[i]].pc \in Busy
    BY <1>1, <1>2, <1>3, <1>4 DEF FocusInv, QueueFits
  <2>2. \A i, j \in 1..Len(queue') : queue'[i] = queue'[j] => i = j
    BY <1>2, <1>3, <1>4 DEF FocusInv, QueueFits
  <2> QED
    BY <2>1, <2>2 DEF QueueFits
<1>10. HelperFits'
  BY <1>1, <1>2, <1>4, <1>5 DEF FocusInv, HelperFits
<1>11. TokensOffered'
  BY <1>1 DEF FocusInv, TokensFit, TokensOffered
<1>12. TokensHeld'
  <2> SUFFICES ASSUME NEW u \in Tasks, task'[u].pc \in Holding
               PROVE  /\ task'[u].token \in 1..issued
                      /\ \A v \in Tasks : task'[v].pc \in Holding /\ task'[v].token = task'[u].token => v = u
                      /\ \A b \in acted : b.token = task'[u].token =>
                           /\ task'[u].pc = "act"
                           /\ \A i \in 1..Len(queue') : queue'[i] # u
                           /\ helper' # None /\ helper'.task = u => helper'.step \in {"acted", "replied"}
    BY DEF TokensHeld
  <2>1. CASE u = t
    BY <1>1, <2>1
  <2>2. CASE u # t
    <3>1. task'[u] = task[u]
      BY <1>1, <2>2
    <3>2. /\ task[u].token \in 1..issued
          /\ \A v \in Tasks : task[v].pc \in Holding /\ task[v].token = task[u].token => v = u
          /\ \A b \in acted : b.token = task[u].token =>
               /\ task[u].pc = "act"
               /\ \A i \in 1..Len(queue) : queue[i] # u
               /\ helper # None /\ helper.task = u => helper.step \in {"acted", "replied"}
      BY <3>1 DEF FocusInv, TokensFit, TokensHeld
    <3>3. \A v \in Tasks : task'[v].pc \in Holding /\ task'[v].token = task'[u].token => v = u
      BY <1>1, <3>1, <3>2
    <3>4. ASSUME NEW b \in acted, b.token = task'[u].token
          PROVE  \A i \in 1..Len(queue') : queue'[i] # u
      BY <1>2, <1>4, <2>2, <3>1, <3>2, <3>4
    <3> QED
      BY <1>5, <3>1, <3>2, <3>3, <3>4
  <2> QED
    BY <2>1, <2>2
<1> QED
  BY <1>6, <1>7, <1>8, <1>9, <1>10, <1>11, <1>12 DEF FocusInv, TokensFit

(* The lock is released by a task that is done.                             *)
LEMMA TaskEnds ==
  ASSUME FocusInv, helper # None, helper' = None, task' = [task EXCEPT ![helper.task] = Desktop!NoTask],
         client' \in [Clients -> ClientRecords], \A c \in Clients : client'[c].tokens = client[c].tokens,
         UNCHANGED <<registry, queue, window, disk, issued, confirmed, acted, taken>>
  PROVE  FocusInv'
<1>1. Desktop!NoTask \in TaskRecords /\ Desktop!NoTask.pc = "idle"
  BY FocusConstants DEF Desktop!NoTask, TaskRecords
<1>2. /\ task' \in [Tasks -> TaskRecords] /\ helper.task \in Tasks /\ task'[helper.task].pc = "idle"
      /\ \A u \in Tasks : u # helper.task => task'[u] = task[u]
  BY <1>1, FocusTypes DEF HelperRecords
<1>3. FocusTyped'
  BY <1>2 DEF FocusInv, FocusTyped
<1>4. BindingsStand' /\ ActsFit' /\ TokensUsed' /\ HelperFits'
  BY DEF FocusInv, BindingsStand, Bound, ActsFit, TokensFit, TokensUsed, HelperFits
<1>5. TasksFit'
  BY <1>2 DEF FocusInv, TasksFit, TaskFits, Bound, Busy, Holding
<1>6. QueueFits'
  BY <1>2, FocusTypes DEF FocusInv, QueueFits, HelperFits
<1>7. \A u \in Tasks : task'[u].pc \in Holding => task'[u] = task[u]
  BY <1>2 DEF Holding
<1>8. TokensOffered' /\ TokensHeld'
  BY <1>7 DEF FocusInv, TokensFit, TokensOffered, TokensHeld
<1> QED
  BY <1>3, <1>4, <1>5, <1>6, <1>8 DEF FocusInv, TokensFit

LEMMA LiveBinding ==
  ASSUME FocusInv, NEW c \in Clients
  PROVE  /\ Desktop!Live(registry[c]) \in BindingRecords \cup {None}
         /\ Desktop!Live(registry[c]) # None =>
              /\ Desktop!Live(registry[c]) = registry[c] /\ registry[c] # None
              /\ [client |-> c, doc |-> registry[c].doc] \in confirmed /\ c \notin taken
  BY FocusTypes DEF Desktop!Live, FocusInv, BindingsStand, Bound

LEMMA ConfirmSteps ==
  ASSUME FocusInv, NEW c \in Clients, Desktop!Confirm(c)
  PROVE  FocusInv'
<1> DEFINE offer == client[c].offer
           state == [client[c] EXCEPT !.ack = TRUE, !.offer = None]
           binding == [doc |-> offer, old |-> FALSE]
<1>1. client[c] \in ClientRecords
  BY FocusTypes
<1>2. state \in ClientRecords /\ offer \in Desktop!Document \cup {None}
  BY <1>1 DEF ClientRecords
<1>3. UNCHANGED <<task, queue, helper, window, disk, acted>>
  BY DEF Desktop!Confirm, Desktop!navigator, Desktop!office
<1>4. CASE offer = None
  <2>1. Desktop!Repaint(c, state, Desktop!Live(registry[c])) /\ UNCHANGED <<confirmed, taken>>
    BY <1>4 DEF Desktop!Confirm
  <2> HIDE DEF state
  <2> QED
    BY <1>2, <1>3, <2>1, LiveBinding, RepaintGoes
<1>5. CASE offer # None
  <2>1. /\ Desktop!Repaint(c, state, binding)
        /\ confirmed' = confirmed \cup {[client |-> c, doc |-> offer]} /\ taken' = taken \ {c}
    BY <1>5 DEF Desktop!Confirm
  <2>2. binding \in BindingRecords /\ binding.doc = offer
    BY <1>2, <1>5 DEF BindingRecords
  <2> HIDE DEF state, binding
  <2> QED
    BY <1>2, <1>3, <2>1, <2>2, RepaintGoes
<1> QED
  BY <1>4, <1>5

LEMMA ClickSteps ==
  ASSUME FocusInv, NEW t \in Tasks, NEW c \in Clients,
         Desktop!ClickBind(t, c) \/ \E k \in 1..issued : Desktop!ClickFocus(t, c, k)
  PROVE  FocusInv'
<1>1. client[c] \in ClientRecords /\ Desktop!Discover = [kind |-> "discover"]
      /\ Desktop!Discover \in Desktop!Request /\ Desktop!Discover.kind = "discover"
  BY FocusTypes DEF Desktop!Discover, Desktop!Request
<1>2. Desktop!NoTask \in TaskRecords /\ 0 \in 0..MaxTokens
  BY FocusConstants DEF Desktop!NoTask, TaskRecords
<1>3. CASE Desktop!ClickBind(t, c)
  <2> DEFINE x == [Desktop!NoTask EXCEPT !.pc = "bind", !.client = c, !.token = 0,
                                         !.binding = None, !.req = Desktop!Discover]
  <2>1. /\ task[t].pc = "idle" /\ task' = [task EXCEPT ![t] = x] /\ queue' = Append(queue, t)
        /\ UNCHANGED <<client, registry, helper, window, disk, issued, confirmed, acted, taken>>
    BY <1>3 DEF Desktop!ClickBind, Desktop!Ask, Desktop!office, Desktop!history
  <2>2. x \in TaskRecords /\ x.pc = "bind" /\ x.client = c /\ x.req.kind = "discover"
    BY <1>1, <1>2 DEF TaskRecords
  <2> HIDE DEF x
  <2>3. x.pc \in Busy /\ TaskFits(x) /\ x.pc \notin Holding
    BY <2>2 DEF Busy, Holding, TaskFits
  <2>4. client' \in [Clients -> ClientRecords] /\ \A d \in Clients : client'[d].tokens \subseteq client[d].tokens
    BY <2>1, FocusTypes
  <2> QED
    BY <2>1, <2>2, <2>3, <2>4, TaskQueues
<1>4. ASSUME NEW k \in 1..issued, Desktop!ClickFocus(t, c, k)
      PROVE  FocusInv'
  <2> DEFINE valid == \E y \in client[c].tokens : y.id = k /\ ~y.old
             state == [client[c] EXCEPT !.tokens = {y \in client[c].tokens : y.id # k}]
             binding == Desktop!Live(registry[c])
             x == [Desktop!NoTask EXCEPT !.pc = "check", !.client = c, !.token = k,
                                         !.binding = binding.doc, !.req = Desktop!Discover]
  <2>1. state = Desktop!UseToken(client[c], k)
    BY DEF Desktop!UseToken
  <2>2. state \in ClientRecords /\ state.tokens = {y \in client[c].tokens : y.id # k}
    BY <1>1 DEF ClientRecords
  <2> HIDE DEF state
  <2>3. /\ task[t].pc = "idle"
        /\ UNCHANGED <<helper, window, disk, confirmed, acted, taken>>
        /\ \/ /\ valid /\ binding # None /\ Desktop!Ask(t, c, "check", k, binding.doc)
              /\ client' = [client EXCEPT ![c] = state] /\ UNCHANGED <<registry, issued>>
           \/ Desktop!Repaint(c, state, binding) /\ UNCHANGED <<task, queue>>
    BY <1>4, <2>1 DEF Desktop!ClickFocus, Desktop!office, Desktop!history
  <2>4. CASE Desktop!Repaint(c, state, binding) /\ UNCHANGED <<task, queue>>
    BY <2>2, <2>3, <2>4, LiveBinding, RepaintGoes
  <2>5. CASE /\ valid /\ binding # None /\ Desktop!Ask(t, c, "check", k, binding.doc)
             /\ client' = [client EXCEPT ![c] = state] /\ UNCHANGED <<registry, issued>>
    <3>1. task' = [task EXCEPT ![t] = x] /\ queue' = Append(queue, t)
      BY <2>5 DEF Desktop!Ask
    <3>2. binding = registry[c] /\ binding \in BindingRecords
          /\ [client |-> c, doc |-> binding.doc] \in confirmed
      BY <2>5, LiveBinding
    <3>3. binding.doc \in Desktop!Document /\ k \in 0..MaxTokens
      BY <3>2, FocusTypes, FocusConstants DEF BindingRecords
    <3>4. x \in TaskRecords /\ x.pc = "check" /\ x.client = c /\ x.token = k
          /\ x.binding = binding.doc /\ x.req.kind = "discover"
      BY <1>1, <1>2, <3>3 DEF TaskRecords
    <3> HIDE DEF x
    <3>5. x.pc \in Busy /\ TaskFits(x)
      BY <3>2, <3>3, <3>4 DEF Busy, Holding, TaskFits, Bound
    <3>6. /\ client' \in [Clients -> ClientRecords] /\ client'[c] = state
          /\ \A d \in Clients \ {c} : client'[d] = client[d]
      BY <2>2, <2>5, FocusTypes
    <3>7. \A d \in Clients : client'[d].tokens \subseteq client[d].tokens
      BY <2>2, <3>6
    <3>8. PICK y \in client[c].tokens : y.id = k
      BY <2>5
    <3>9. /\ \A d \in Clients : \A z \in client[d].tokens : k = z.id => c = d
          /\ \A u \in Tasks : task[u].pc \in Holding => task[u].token # k
          /\ \A a \in acted : a.token # k
      BY <3>8 DEF FocusInv, TokensFit, TokensOffered
    <3>10. \A d \in Clients : \A z \in client'[d].tokens : z.id # k
      BY <2>2, <3>6, <3>9
    <3> HIDE DEF binding
    <3> QED
      BY <2>3, <2>5, <3>1, <3>4, <3>5, <3>6, <3>7, <3>9, <3>10, TaskQueues
  <2> QED
    BY <2>3, <2>4, <2>5
<1> QED
  BY <1>3, <1>4

LEMMA ResumeSteps ==
  ASSUME FocusInv, Desktop!Resume
  PROVE  FocusInv'
<1> DEFINE t == helper.task
           c == task[t].client
<1>1. /\ helper # None /\ helper.step = "replied" /\ helper' = None /\ helper \in HelperRecords /\ t \in Tasks
      /\ UNCHANGED <<window, disk, confirmed, acted, taken>>
      /\ task[t].pc \in Busy
  BY FocusTypes DEF Desktop!Resume, Desktop!office, Desktop!history, HelperRecords, FocusInv, HelperFits
<1>2. c \in Clients /\ TaskFits(task[t]) /\ task[t] \in TaskRecords /\ client[c] \in ClientRecords
  BY <1>1, FocusTypes DEF TaskFits
<1>3. ASSUME task' = [task EXCEPT ![t] = Desktop!NoTask], UNCHANGED queue,
             Desktop!Repaint(c, client[c], Desktop!Live(registry[c]))
      PROVE  FocusInv'
  <2> HIDE DEF c
  <2>1. c \in Clients
    BY <1>2
  <2> QED
    BY <1>1, <1>2, <1>3, <2>1, LiveBinding, RepaintGoes
<1>4. CASE task[t].pc = "bind"
  <2>1. Desktop!ResumeBind(t, c)
    BY <1>1, <1>4 DEF Desktop!Resume
  <2>2. /\ task' = [task EXCEPT ![t] = Desktop!NoTask] /\ UNCHANGED <<queue, registry, issued>>
    BY <2>1 DEF Desktop!ResumeBind
  <2>3. client' \in [Clients -> ClientRecords] /\ \A d \in Clients : client'[d].tokens = client[d].tokens
    <3>1. CASE UNCHANGED client
      BY <3>1, FocusTypes
    <3>2. CASE client' # client
      <4>1. PICK d \in Desktop!Matching(helper.found) : helper.found # None /\
              client' = [client EXCEPT ![c].offer = [window |-> d.window, path |-> d.path, id |-> disk[d.path].id]]
        BY <2>1, <3>2 DEF Desktop!ResumeBind
      <4> DEFINE o == [window |-> d.window, path |-> d.path, id |-> disk[d.path].id]
                 y == [client[c] EXCEPT !.offer = o]
      <4>2. d \in [window : Windows, path : Paths, ok : BOOLEAN]
        BY <1>1, <4>1 DEF Desktop!Matching, HelperRecords, Desktop!Snapshots
      <4>3. o \in Desktop!Document
        BY <4>2 DEF Desktop!Document, FocusInv, FocusTyped
      <4> HIDE DEF o
      <4>4. y \in ClientRecords /\ y.tokens = client[c].tokens
        BY <1>2, <4>3 DEF ClientRecords
      <4>5. client' = [client EXCEPT ![c] = y]
        BY <4>1 DEF o
      <4> HIDE DEF y
      <4> QED
        BY <1>2, <4>4, <4>5, FocusTypes
    <3> QED
      BY <3>1, <3>2
  <2> QED
    BY <1>1, <2>2, <2>3, TaskEnds
<1>5. CASE task[t].pc = "check"
  <2> DEFINE b == task[t].binding
             path == registry[c].doc.path
             r == [kind |-> "focus", window |-> b.window, path |-> path, id |-> b.id]
             x == [task[t] EXCEPT !.pc = "act", !.req = r]
  <2>1. Desktop!ResumeCheck(t, c)
    BY <1>1, <1>5 DEF Desktop!Resume
  <2>2. CASE Desktop!Revalidated(b, helper.found) /\ Desktop!PathNow(t) # None
    <3>1. registry[c] # None /\ Desktop!PathNow(t) = path
      BY <2>2 DEF Desktop!PathNow
    <3>2. /\ task' = [task EXCEPT ![t] = x] /\ queue' = Append(queue, t)
          /\ UNCHANGED <<client, registry, issued>>
      BY <2>1, <2>2, <3>1 DEF Desktop!ResumeCheck
    <3>3. b \in Desktop!Document /\ Bound(c, b)
      BY <1>2, <1>5 DEF TaskFits, Holding
    <3>4. registry[c].doc \in Desktop!Document /\ Bound(c, registry[c].doc) /\ c \notin taken
      BY <1>2, <3>1, FocusTypes DEF FocusInv, BindingsStand, BindingRecords
    <3>5. r \in Desktop!Request /\ r.window = b.window /\ r.path = path /\ r.id = b.id
      BY <3>3, <3>4 DEF Desktop!Request, Desktop!Document
    <3> HIDE DEF r
    <3>6. /\ x \in TaskRecords /\ x.pc = "act" /\ x.client = c /\ x.token = task[t].token
          /\ x.binding = b /\ x.req = r
      BY <1>2, <3>5 DEF TaskRecords
    <3> HIDE DEF x
    <3>7. x.pc \in Busy
      BY <3>6 DEF Busy
    <3>8. TaskFits(x)
      <4>1. [client |-> c, doc |-> registry[c].doc] \in confirmed
        BY <3>4 DEF Bound
      <4>2. \E z \in confirmed : z.client = x.client /\ z.doc.path = x.req.path
        BY <3>5, <3>6, <4>1
      <4> QED
        BY <1>2, <3>3, <3>4, <3>5, <3>6, <4>2 DEF TaskFits, Holding, Bound
    <3>9. /\ x.token \in 1..issued
          /\ \A u \in Tasks \ {t} : task[u].pc \in Holding => task[u].token # x.token
          /\ \A d \in Clients : \A y \in client[d].tokens : y.id # x.token
          /\ \A a \in acted : a.token # x.token
      BY <1>1, <1>5, <3>6 DEF FocusInv, TokensFit, TokensOffered, TokensHeld, Holding
    <3>10. client' \in [Clients -> ClientRecords] /\ \A d \in Clients : client'[d].tokens \subseteq client[d].tokens
      BY <3>2, FocusTypes
    <3> QED
      BY <1>1, <3>2, <3>6, <3>7, <3>8, <3>9, <3>10, TaskQueues
  <2>3. CASE ~(Desktop!Revalidated(b, helper.found) /\ Desktop!PathNow(t) # None)
    BY <1>3, <2>1, <2>3 DEF Desktop!ResumeCheck
  <2> QED
    BY <2>2, <2>3
<1>6. CASE task[t].pc = "act"
  BY <1>1, <1>3, <1>6 DEF Desktop!Resume
<1> QED
  BY <1>1, <1>4, <1>5, <1>6 DEF Busy

SameButLate(x, y) ==
  x.pc = y.pc /\ x.client = y.client /\ x.token = y.token /\ x.binding = y.binding /\ x.req = y.req

(* Steps that give nothing: tokens and bindings age or are taken back, and  *)
(* with them the authority of the requests that are under way.              *)
LEMMA NothingGiven ==
  ASSUME FocusInv,
         window' \in [Windows -> [open : BOOLEAN, path : Paths, ok : BOOLEAN]],
         disk' \in [Paths -> [id : FileIds, same : BOOLEAN]],
         client' \in [Clients -> ClientRecords],
         \A c \in Clients : \A y \in client'[c].tokens : \E z \in client[c].tokens : z.id = y.id,
         registry' \in [Clients -> BindingRecords \cup {None}],
         \A c \in Clients : registry'[c] # None =>
           registry[c] # None /\ registry'[c].doc = registry[c].doc /\ c \notin taken',
         task' \in [Tasks -> TaskRecords], \A t \in Tasks : SameButLate(task'[t], task[t]),
         \A t \in Tasks : task[t].pc = "act" /\ task[t].client \in taken' => task'[t].late,
         UNCHANGED <<queue, helper, issued, confirmed, acted>>
  PROVE  FocusInv'
<1>1. FocusTyped'
  BY DEF FocusInv, FocusTyped
<1>2. BindingsStand'
  BY DEF FocusInv, BindingsStand, Bound
<1>3. TasksFit'
  BY FocusTypes DEF TasksFit, TaskFits, Bound, SameButLate
<1>4. QueueFits' /\ HelperFits'
  <2>1. \A i \in 1..Len(queue) : queue[i] \in Tasks
    BY FocusTypes
  <2>2. helper # None => helper.task \in Tasks
    BY FocusTypes DEF HelperRecords
  <2> QED
    BY <2>1, <2>2 DEF FocusInv, QueueFits, HelperFits, SameButLate
<1>5. ActsFit' /\ TokensUsed' /\ TokensHeld'
  <2>1. ActsFit' /\ TokensUsed'
    BY DEF FocusInv, ActsFit, TokensFit, TokensUsed
  <2>2. \A t \in Tasks : task'[t].pc = task[t].pc /\ task'[t].token = task[t].token
    BY DEF SameButLate
  <2>3. TokensHeld'
    BY <2>2 DEF FocusInv, TokensFit, TokensHeld
  <2> QED
    BY <2>1, <2>3
<1>6. TokensOffered'
  <2> SUFFICES ASSUME NEW c \in Clients, NEW y \in client'[c].tokens
               PROVE  /\ y.id <= issued
                      /\ \A d \in Clients : \A z \in client'[d].tokens : y.id = z.id => c = d
                      /\ \A t \in Tasks : task'[t].pc \in Holding => task'[t].token # y.id
                      /\ \A a \in acted : a.token # y.id
    BY DEF TokensOffered
  <2>1. PICK x \in client[c].tokens : x.id = y.id
    OBVIOUS
  <2>2. /\ x.id <= issued
        /\ \A d \in Clients : \A z \in client[d].tokens : x.id = z.id => c = d
        /\ \A t \in Tasks : task[t].pc \in Holding => task[t].token # x.id
        /\ \A a \in acted : a.token # x.id
    BY DEF FocusInv, TokensFit, TokensOffered
  <2>3. \A d \in Clients : \A z \in client'[d].tokens : y.id = z.id => c = d
    BY <2>1, <2>2
  <2> QED
    BY <2>1, <2>2, <2>3 DEF SameButLate
<1> QED
  BY <1>1, <1>2, <1>3, <1>4, <1>5, <1>6 DEF FocusInv, TokensFit

LEMMA RevokeSteps ==
  ASSUME FocusInv, Desktop!Disable \/ Desktop!ForgetRun \/ \E c \in Clients : Desktop!ForgetClient(c)
  PROVE  FocusInv'
<1>1. ASSUME NEW clients \in SUBSET Clients, Desktop!Revoke(clients),
             client' \in [Clients -> ClientRecords],
             \A c \in Clients : client'[c].tokens \subseteq client[c].tokens,
             \A c \in Clients : registry'[c] = IF c \in clients THEN None ELSE registry[c],
             registry' \in [Clients -> BindingRecords \cup {None}],
             UNCHANGED <<queue, helper, window, disk, issued, confirmed, acted>>
      PROVE  FocusInv'
  <2>1. /\ taken' = taken \cup clients
        /\ task' = [t \in Tasks |-> IF task[t].pc = "act" /\ task[t].client \in clients
                                    THEN [task[t] EXCEPT !.late = TRUE] ELSE task[t]]
    BY <1>1 DEF Desktop!Revoke
  <2>2. ASSUME NEW t \in Tasks
        PROVE  /\ task'[t] \in TaskRecords /\ SameButLate(task'[t], task[t])
               /\ task[t].pc = "act" /\ task[t].client \in taken' => task'[t].late
    <3>1. task[t] \in TaskRecords /\ TaskFits(task[t])
      BY FocusTypes
    <3>2. CASE task[t].pc = "act" /\ task[t].client \in clients
      <4> DEFINE x == [task[t] EXCEPT !.late = TRUE]
      <4>1. task'[t] = x
        BY <2>1, <3>2
      <4>2. x \in TaskRecords /\ SameButLate(x, task[t]) /\ x.late
        BY <3>1 DEF TaskRecords, SameButLate
      <4> HIDE DEF x
      <4> QED
        BY <4>1, <4>2
    <3>3. CASE ~(task[t].pc = "act" /\ task[t].client \in clients)
      <4>1. task'[t] = task[t]
        BY <2>1, <3>3
      <4> QED
        BY <2>1, <3>1, <3>3, <4>1 DEF SameButLate, TaskFits
    <3> QED
      BY <3>2, <3>3
  <2>3. task' \in [Tasks -> TaskRecords]
    <3>1. \A t \in Tasks : task'[t] \in TaskRecords
      BY <2>2
    <3>2. task' = [t \in Tasks |-> task'[t]]
      BY <2>1
    <3> QED
      BY <3>1, <3>2
  <2>4. \A c \in Clients : registry'[c] # None =>
          registry[c] # None /\ registry'[c].doc = registry[c].doc /\ c \notin taken'
    BY <1>1, <2>1 DEF FocusInv, BindingsStand
  <2>5. \A c \in Clients : \A y \in client'[c].tokens : \E z \in client[c].tokens : z.id = y.id
    BY <1>1
  <2>6. /\ window' \in [Windows -> [open : BOOLEAN, path : Paths, ok : BOOLEAN]]
        /\ disk' \in [Paths -> [id : FileIds, same : BOOLEAN]]
    BY <1>1 DEF FocusInv, FocusTyped
  <2> QED
    BY <1>1, <2>2, <2>3, <2>4, <2>5, <2>6, NothingGiven
<1>2. Desktop!Fresh \in ClientRecords /\ Desktop!Fresh.tokens = {}
  BY DEF Desktop!Fresh, ClientRecords
<1>3. CASE Desktop!Disable
  <2>1. /\ Desktop!Revoke(Clients) /\ client' = [c \in Clients |-> Desktop!Fresh]
        /\ registry' = [c \in Clients |-> None]
        /\ UNCHANGED <<queue, helper, window, disk, issued, confirmed, acted>>
    BY <1>3 DEF Desktop!Disable, Desktop!navigator, Desktop!office
  <2>2. /\ client' \in [Clients -> ClientRecords] /\ registry' \in [Clients -> BindingRecords \cup {None}]
        /\ \A c \in Clients : client'[c].tokens \subseteq client[c].tokens
        /\ \A c \in Clients : registry'[c] = IF c \in Clients THEN None ELSE registry[c]
    BY <1>2, <2>1
  <2> QED
    BY <1>1, <2>1, <2>2
<1>4. CASE Desktop!ForgetRun
  <2>1. /\ Desktop!Revoke(Clients)
        /\ client' = [c \in Clients |-> [client[c] EXCEPT !.tokens = {}, !.offer = None]]
        /\ registry' = [c \in Clients |-> None]
        /\ UNCHANGED <<queue, helper, window, disk, issued, confirmed, acted>>
    BY <1>4 DEF Desktop!ForgetRun, Desktop!navigator, Desktop!office
  <2>2. ASSUME NEW c \in Clients
        PROVE  [client[c] EXCEPT !.tokens = {}, !.offer = None] \in ClientRecords
               /\ client'[c].tokens = {}
    BY <2>1, FocusTypes DEF ClientRecords
  <2>3. /\ client' \in [Clients -> ClientRecords] /\ registry' \in [Clients -> BindingRecords \cup {None}]
        /\ \A c \in Clients : client'[c].tokens \subseteq client[c].tokens
        /\ \A c \in Clients : registry'[c] = IF c \in Clients THEN None ELSE registry[c]
    BY <2>1, <2>2
  <2> QED
    BY <1>1, <2>1, <2>3
<1>5. ASSUME NEW d \in Clients, Desktop!ForgetClient(d)
      PROVE  FocusInv'
  <2>1. /\ Desktop!Revoke({d}) /\ client' = [client EXCEPT ![d] = Desktop!Fresh]
        /\ registry' = [registry EXCEPT ![d] = None]
        /\ UNCHANGED <<queue, helper, window, disk, issued, confirmed, acted>>
    BY <1>5 DEF Desktop!ForgetClient, Desktop!navigator, Desktop!office
  <2>2. /\ client' \in [Clients -> ClientRecords] /\ registry' \in [Clients -> BindingRecords \cup {None}]
        /\ \A c \in Clients : client'[c].tokens \subseteq client[c].tokens
        /\ \A c \in Clients : registry'[c] = IF c \in {d} THEN None ELSE registry[c]
    BY <1>2, <2>1, FocusTypes
  <2> QED
    BY <1>1, <2>1, <2>2
<1> QED
  BY <1>3, <1>4, <1>5

LEMMA AgeSteps ==
  ASSUME FocusInv,
         \/ \E c \in Clients : Desktop!TokenAges(c) \/ Desktop!BindingAges(c) \/ Desktop!Dismiss(c)
         \/ Desktop!Enable
         \/ \E w \in Windows : Desktop!CloseWindow(w) \/ Desktop!Autosave(w) \/ \E p \in Paths : Desktop!Save(w, p)
  PROVE  FocusInv'
<1> DEFINE Opens == [Windows -> [open : BOOLEAN, path : Paths, ok : BOOLEAN]]
           Disks == [Paths -> [id : FileIds, same : BOOLEAN]]
<1>1. /\ window \in Opens /\ disk \in Disks
      /\ \A c \in Clients : client[c] \in ClientRecords
  BY FocusTypes DEF FocusInv, FocusTyped
<1>2. ASSUME window' \in Opens, disk' \in Disks, client' \in [Clients -> ClientRecords],
             \A c \in Clients : \A y \in client'[c].tokens : \E z \in client[c].tokens : z.id = y.id,
             registry' \in [Clients -> BindingRecords \cup {None}],
             \A c \in Clients : registry'[c] # None => registry[c] # None /\ registry'[c].doc = registry[c].doc,
             UNCHANGED <<task, queue, helper, issued, confirmed, acted, taken>>
      PROVE  FocusInv'
  <2>1. \A c \in Clients : registry'[c] # None =>
          registry[c] # None /\ registry'[c].doc = registry[c].doc /\ c \notin taken'
    BY <1>2 DEF FocusInv, BindingsStand
  <2>2. task' \in [Tasks -> TaskRecords] /\ (\A t \in Tasks : SameButLate(task'[t], task[t]))
        /\ \A t \in Tasks : task[t].pc = "act" /\ task[t].client \in taken' => task'[t].late
    BY <1>2, FocusTypes DEF SameButLate, TaskFits
  <2> QED
    BY <1>2, <2>1, <2>2, NothingGiven
<1>3. ASSUME window' \in Opens, disk' \in Disks,
             UNCHANGED <<client, registry, task, queue, helper, issued, confirmed, acted, taken>>
      PROVE  FocusInv'
  BY <1>2, <1>3, FocusTypes
<1>4. ASSUME NEW c \in Clients, Desktop!TokenAges(c)
      PROVE  FocusInv'
  <2> DEFINE old == {[x EXCEPT !.old = TRUE] : x \in client[c].tokens}
             y == [client[c] EXCEPT !.tokens = old]
  <2>1. /\ client' = [client EXCEPT ![c] = y]
        /\ UNCHANGED <<registry, task, queue, helper, window, disk, issued, confirmed, acted, taken>>
    BY <1>4 DEF Desktop!TokenAges, Desktop!navigator, Desktop!office, Desktop!history
  <2>2. client[c].tokens \in SUBSET [id : 1..MaxTokens, old : BOOLEAN]
    BY <1>1 DEF ClientRecords
  <2>3. /\ old \in SUBSET [id : 1..MaxTokens, old : BOOLEAN]
        /\ \A z \in old : \E x \in client[c].tokens : x.id = z.id
    BY <2>2
  <2> HIDE DEF old
  <2>4. y \in ClientRecords /\ y.tokens = old
    BY <1>1, <2>3 DEF ClientRecords
  <2> HIDE DEF y
  <2>5. client' \in [Clients -> ClientRecords]
        /\ \A d \in Clients : \A x \in client'[d].tokens : \E z \in client[d].tokens : z.id = x.id
    BY <2>1, <2>3, <2>4, FocusTypes
  <2> QED
    BY <1>1, <1>2, <2>1, <2>5, FocusTypes
<1>5. ASSUME NEW c \in Clients, Desktop!BindingAges(c)
      PROVE  FocusInv'
  <2> DEFINE b == [registry[c] EXCEPT !.old = TRUE]
  <2>1. /\ registry' = [registry EXCEPT ![c] = b] /\ registry[c] # None
        /\ UNCHANGED <<client, task, queue, helper, window, disk, issued, confirmed, acted, taken>>
    BY <1>5 DEF Desktop!BindingAges, Desktop!navigator, Desktop!office, Desktop!history
  <2>2. b \in BindingRecords /\ b.doc = registry[c].doc
    BY <2>1, FocusTypes DEF BindingRecords
  <2> HIDE DEF b
  <2>3. registry' \in [Clients -> BindingRecords \cup {None}]
        /\ \A d \in Clients : registry'[d] # None => registry[d] # None /\ registry'[d].doc = registry[d].doc
    BY <2>1, <2>2, FocusTypes
  <2> QED
    BY <1>1, <1>2, <2>1, <2>3, FocusTypes
<1>6. ASSUME (\E c \in Clients : Desktop!Dismiss(c)) \/ Desktop!Enable
      PROVE  FocusInv'
  BY <1>1, <1>3, <1>6 DEF Desktop!Dismiss, Desktop!Enable, Desktop!navigator, Desktop!office, Desktop!history
<1>7. ASSUME NEW w \in Windows,
             Desktop!CloseWindow(w) \/ Desktop!Autosave(w) \/ \E p \in Paths : Desktop!Save(w, p)
      PROVE  FocusInv'
  <2>1. window' \in Opens
    <3>1. CASE Desktop!CloseWindow(w)
      BY <1>1, <3>1 DEF Desktop!CloseWindow
    <3>2. CASE Desktop!Autosave(w)
      <4>1. window[w].ok \in BOOLEAN /\ (~window[w].ok) \in BOOLEAN
        BY <1>1
      <4>2. window' = [window EXCEPT ![w].ok = ~window[w].ok]
        BY <3>2 DEF Desktop!Autosave
      <4> QED
        BY <1>1, <4>1, <4>2
    <3>3. ASSUME NEW p \in Paths, Desktop!Save(w, p)
          PROVE  window' \in Opens
      BY <1>1, <3>3 DEF Desktop!Save
    <3> QED
      BY <1>7, <3>1, <3>2, <3>3
  <2>2. disk' \in Disks
    <3>1. CASE disk' = disk
      BY <1>1, <3>1
    <3>2. CASE \E p \in Paths : Desktop!Save(w, p)
      <4>1. PICK p \in Paths, i \in FileIds, same \in BOOLEAN : disk' = [disk EXCEPT ![p] = [id |-> i, same |-> same]]
        BY <3>2 DEF Desktop!Save
      <4> QED
        BY <1>1, <4>1
    <3> QED
      BY <1>7, <3>1, <3>2 DEF Desktop!CloseWindow, Desktop!Autosave
  <2> QED
    BY <1>3, <1>7, <2>1, <2>2 DEF Desktop!CloseWindow, Desktop!Autosave, Desktop!Save, Desktop!Outside,
       Desktop!navigator, Desktop!history
<1> QED
  BY <1>4, <1>5, <1>6, <1>7

LEMMA FocusSteps ==
  ASSUME FocusInv, Desktop!Next
  PROVE  FocusInv'
  BY HelperSteps, ActSteps, SubmitSteps, ConfirmSteps, ClickSteps, ResumeSteps, RevokeSteps, AgeSteps
     DEF Desktop!Next

(* Office is moved in documents that were confirmed, once for a token, and  *)
(* authority that is taken back stops what is not yet given to the          *)
(* navigator (bind, confirm, focus, path_digest, set_enabled, forget_run).  *)
THEOREM FocusAsConfirmed == Spec => []FocusAuthorized
<1> DEFINE Inv == part = "focus" => FocusInv
<1>1. Init => Inv
  BY BeginsApart, FocusBegins
<1>2. Inv /\ [Next]_deskVars => Inv'
  BY StaysApart, FocusSteps, FocusStays
<1>3. Inv => FocusAuthorized
  <2> SUFFICES ASSUME FocusInv
               PROVE  Desktop!ActsAsConfirmed /\ Desktop!RevocationHonoured
    BY DEF FocusAuthorized
  <2>1. Desktop!ActsAsConfirmed
    BY DEF FocusInv, ActsFit, TokensFit, TokensUsed, Desktop!ActsAsConfirmed
  <2>2. Desktop!RevocationHonoured
    BY FocusTypes DEF TaskFits, Desktop!RevocationHonoured
  <2> QED
    BY <2>1, <2>2
<1> QED
  BY <1>1, <1>2, <1>3, PTL DEF Spec
-----------------------------------------------------------------------------
(* Every component is well typed.                                            *)

FocusRest ==
  /\ enabled \in BOOLEAN /\ cooling \in BOOLEAN /\ healthPending \in BOOLEAN
  /\ here \subseteq Clients /\ dialog \subseteq Clients /\ taken \subseteq Clients
  /\ edits \in 0..MaxEdits
  /\ confirmed \subseteq [client : Clients, doc : Desktop!Document]
  /\ acted \subseteq [client : Clients, token : 1..MaxTokens, doc : Desktop!Document, at : 1..MaxTokens]

LEMMA SameCountThere == \A S : Desktop!Cardinality(S) = Cardinality(S)
  BY DEF Desktop!Cardinality, Cardinality

LEMMA CountTo ==
  ASSUME NEW n \in Nat
  PROVE  IsFiniteSet(1..n) /\ Cardinality(1..n) = n
<1>1. 1 \in Int /\ n \in Int
  OBVIOUS
<1>2. IsFiniteSet(1..n) /\ Cardinality(1..n) = IF 1 > n THEN 0 ELSE n - 1 + 1
  BY <1>1, FS_Interval
<1>3. (IF 1 > n THEN 0 ELSE n - 1 + 1) = n
  OBVIOUS
<1> QED
  BY <1>2, <1>3

(* No token is used twice, so no more is done than tokens are issued; nor   *)
(* do more tasks wait than there are.                                       *)
LEMMA OncePerToken ==
  ASSUME NEW A, \A a \in A : a.token \in 1..MaxTokens, \A a, b \in A : a.token = b.token => a = b
  PROVE  IsFiniteSet(A) /\ Cardinality(A) \in Nat /\ Cardinality(A) <= MaxTokens
<1> DEFINE f == [a \in A |-> a.token]
<1>1. f \in Injection(A, 1..MaxTokens)
  BY DEF Injection, IsInjective
<1>2. IsFiniteSet(1..MaxTokens) /\ Cardinality(1..MaxTokens) = MaxTokens
  BY CountTo, FocusConstants
<1>3. IsFiniteSet(A) /\ Cardinality(A) <= MaxTokens
  BY <1>1, <1>2, FS_Injection
<1> QED
  BY <1>3, FS_CardinalityType

LEMMA FewActs == FocusInv => IsFiniteSet(acted) /\ Cardinality(acted) \in Nat /\ Cardinality(acted) <= MaxTokens
<1> SUFFICES ASSUME FocusInv PROVE IsFiniteSet(acted) /\ Cardinality(acted) \in Nat /\ Cardinality(acted) <= MaxTokens
  OBVIOUS
<1>1. \A n \in 1..issued : n \in 1..MaxTokens
  BY FocusTypes, FocusConstants
<1>2. /\ \A a \in acted : a.token \in 1..MaxTokens
      /\ \A a, b \in acted : a.token = b.token => a = b
  BY <1>1 DEF FocusInv, TokensFit, TokensUsed
<1> QED
  BY <1>2, OncePerToken

LEMMA ShortQueue ==
  ASSUME FocusInv
  PROVE  Len(queue) <= Cardinality(Tasks)
<1>1. queue \in [1..Len(queue) -> Tasks] /\ Len(queue) \in Nat
  BY FocusTypes
<1>2. queue \in Injection(1..Len(queue), Tasks)
  BY <1>1 DEF Injection, IsInjective, FocusInv, QueueFits
<1>3. IsFiniteSet(1..Len(queue)) /\ Cardinality(1..Len(queue)) = Len(queue)
  BY <1>1, CountTo
<1> QED
  BY <1>2, <1>3, FocusConstants, FS_Injection

LEMMA RestBegins == ASSUME Desktop!Init PROVE FocusRest
<1>1. /\ enabled = TRUE /\ here = Clients /\ dialog = {} /\ cooling = FALSE /\ healthPending = FALSE
      /\ edits = 0 /\ confirmed = {} /\ acted = {} /\ taken = {}
  BY DEF Desktop!Init
<1>2. edits \in 0..MaxEdits
  BY <1>1, FocusConstants
<1> QED
  BY <1>1, <1>2 DEF FocusRest

LEMMA RestStays ==
  ASSUME FocusRest, UNCHANGED focusVars
  PROVE  FocusRest'
  BY DEF focusVars, FocusRest

LEMMA RestSteps ==
  ASSUME FocusInv, FocusRest, FocusInv', Desktop!Next
  PROVE  FocusRest'
<1>1. ASSUME UNCHANGED <<edits, confirmed, acted, taken, dialog, here, enabled>>,
             cooling' \in BOOLEAN, healthPending' \in BOOLEAN
      PROVE  FocusRest'
  BY <1>1 DEF FocusRest
<1>2. ASSUME UNCHANGED <<cooling, healthPending, confirmed, acted>>, enabled' \in BOOLEAN,
             here' \subseteq Clients, dialog' \subseteq Clients, taken' \subseteq Clients, edits' \in 0..MaxEdits
      PROVE  FocusRest'
  BY <1>2 DEF FocusRest
<1>3. /\ cooling \in BOOLEAN /\ healthPending \in BOOLEAN /\ enabled \in BOOLEAN /\ here \subseteq Clients
      /\ dialog \subseteq Clients /\ taken \subseteq Clients /\ edits \in 0..MaxEdits
  BY DEF FocusRest
<1>4. ASSUME edits < MaxEdits, edits' = edits + 1
      PROVE  edits' \in 0..MaxEdits
  BY <1>3, <1>4, FocusConstants
<1>5. ASSUME NEW c \in Clients, Desktop!TokenAges(c) \/ Desktop!BindingAges(c)
      PROVE  FocusRest'
  BY <1>1, <1>3, <1>5 DEF Desktop!TokenAges, Desktop!BindingAges, Desktop!navigator, Desktop!history
<1>6. ASSUME NEW c \in Clients, Desktop!ForgetClient(c) \/ Desktop!Dismiss(c)
      PROVE  FocusRest'
  BY <1>2, <1>3, <1>4, <1>6 DEF Desktop!ForgetClient, Desktop!Dismiss, Desktop!Revoke, Desktop!navigator,
     Desktop!history
<1>7. ASSUME NEW c \in Clients, Desktop!Confirm(c)
      PROVE  FocusRest'
  <2>1. client[c].offer \in Desktop!Document \cup {None}
    BY FocusTypes DEF ClientRecords
  <2>2. /\ UNCHANGED <<enabled, here, cooling, healthPending, edits, acted>> /\ dialog' = dialog \ {c}
        /\ \/ UNCHANGED <<confirmed, taken>>
           \/ /\ client[c].offer # None /\ taken' = taken \ {c}
              /\ confirmed' = confirmed \cup {[client |-> c, doc |-> client[c].offer]}
    BY <1>7 DEF Desktop!Confirm, Desktop!navigator
  <2> QED
    BY <2>1, <2>2 DEF FocusRest
<1>8. ASSUME NEW t \in Tasks, NEW c \in Clients,
             Desktop!ClickBind(t, c) \/ \E k \in 1..issued : Desktop!ClickFocus(t, c, k)
      PROVE  FocusRest'
  BY <1>1, <1>3, <1>8 DEF Desktop!ClickBind, Desktop!ClickFocus, Desktop!history
<1>9. CASE Desktop!Disable \/ Desktop!Enable \/ Desktop!ForgetRun
  BY <1>2, <1>3, <1>4, <1>9 DEF Desktop!Disable, Desktop!Enable, Desktop!ForgetRun, Desktop!Revoke,
     Desktop!navigator, Desktop!history
<1>10. CASE \/ Desktop!SubmitLocked \/ Desktop!Health \/ Desktop!DiscoverOpen \/ Desktop!PerformFocus
            \/ Desktop!Acted \/ Desktop!Timeout \/ Desktop!CooldownEnds
  BY <1>1, <1>3, <1>10 DEF Desktop!SubmitLocked, Desktop!Health, Desktop!DiscoverOpen, Desktop!PerformFocus,
     Desktop!Acted, Desktop!Timeout, Desktop!CooldownEnds, Desktop!Others, Desktop!history
<1>11. CASE Desktop!Resume
  <2>1. /\ UNCHANGED <<enabled, here, cooling, healthPending, edits, confirmed, acted, taken>>
        /\ helper # None /\ helper \in HelperRecords
    BY <1>11, FocusTypes DEF Desktop!Resume, Desktop!history
  <2>2. helper.task \in Tasks /\ task[helper.task].pc \in Busy
    BY <2>1 DEF FocusInv, HelperFits, HelperRecords
  <2>3. dialog' \subseteq Clients
    BY <1>3, <1>11, <2>2 DEF Desktop!Resume, Desktop!ResumeBind, Desktop!ResumeCheck, Busy
  <2> QED
    BY <1>2, <1>3, <2>1, <2>3
<1>12. ASSUME NEW w \in Windows,
              Desktop!CloseWindow(w) \/ Desktop!Autosave(w) \/ \E p \in Paths : Desktop!Save(w, p)
       PROVE  FocusRest'
  BY <1>2, <1>3, <1>4, <1>12 DEF Desktop!CloseWindow, Desktop!Autosave, Desktop!Save, Desktop!Edit,
     Desktop!Outside, Desktop!navigator, Desktop!history
<1>13. CASE Desktop!Act
  <2> DEFINE t == helper.task
             d == [window |-> task[t].req.window, path |-> window[task[t].req.window].path, id |-> task[t].req.id]
             a == [client |-> task[t].client, token |-> task[t].token, at |-> Desktop!Cardinality(acted) + 1,
                   doc |-> d]
  <2>1. /\ UNCHANGED <<enabled, here, dialog, cooling, healthPending, edits, confirmed, taken>>
        /\ helper # None /\ helper \in HelperRecords /\ helper.step = "validated"
        /\ (acted' = acted \cup {a} \/ UNCHANGED acted)
    BY <1>13, FocusTypes DEF Desktop!Act, Desktop!Others
  <2>2. t \in Tasks /\ task[t].pc = "act" /\ TaskFits(task[t])
    BY <2>1, FocusTypes DEF FocusInv, HelperFits, HelperRecords
  <2>3. /\ task[t].client \in Clients /\ task[t].binding \in Desktop!Document
        /\ task[t].req.window = task[t].binding.window /\ task[t].req.id = task[t].binding.id
        /\ task[t].token \in 1..issued
    BY <2>2 DEF TaskFits, Busy, Holding, FocusInv, TokensFit, TokensHeld
  <2>4. d \in Desktop!Document
    BY <2>3 DEF Desktop!Document, FocusInv, FocusTyped
  <2>5. \A b \in acted : b.token # task[t].token
    BY <2>1, <2>2 DEF FocusInv, TokensFit, TokensHeld, Holding
  <2>6. task[t].token \in 1..MaxTokens
    BY <2>3, FocusTypes, FocusConstants
  <2>7. CASE acted' = acted \cup {a}
    <3>1. a \notin acted
      BY <2>5
    <3>2. IsFiniteSet(acted) /\ Cardinality(acted) \in Nat
      BY FewActs
    <3>6. Cardinality(acted') <= MaxTokens
      <4>1. \A n \in 1..issued' : n \in 1..MaxTokens
        BY <2>1, FocusConstants DEF FocusInv, FocusTyped
      <4>2. /\ \A x \in acted' : x.token \in 1..MaxTokens
            /\ \A x, y \in acted' : x.token = y.token => x = y
        BY <4>1 DEF FocusInv, TokensFit, TokensUsed
      <4> QED
        BY <4>2, OncePerToken
    <3>3. Cardinality(acted') = Cardinality(acted) + 1
      BY <2>7, <3>1, <3>2, FS_AddElement
    <3>4. Cardinality(acted) + 1 \in 1..MaxTokens
      BY <3>2, <3>3, <3>6, FocusConstants
    <3>5. a \in [client : Clients, token : 1..MaxTokens, doc : Desktop!Document, at : 1..MaxTokens]
      BY <2>3, <2>4, <2>6, <3>4, SameCountThere
    <3> QED
      BY <2>1, <2>7, <3>5 DEF FocusRest
  <2>8. CASE UNCHANGED acted
    BY <2>1, <2>8 DEF FocusRest
  <2> QED
    BY <2>1, <2>7, <2>8
<1> QED
  BY <1>5, <1>6, <1>7, <1>8, <1>9, <1>10, <1>11, <1>12, <1>13 DEF Desktop!Next

LEMMA FocusIsTyped ==
  ASSUME FocusInv, FocusRest
  PROVE  Desktop!TypeOK
BY ShortQueue, SameCountThere
   DEF FocusInv, FocusTyped, FocusRest, Desktop!TypeOK, ClientRecords, BindingRecords, TaskRecords, HelperRecords

(* The setup pages, what they ask, the pages of a run, the profiles, the    *)
(* desktop focus and the launcher are well typed.                           *)
THEOREM DeskTypes == Spec => []TypesOK
<1> DEFINE Inv ==
      /\ part = "session" => SessionInv
      /\ part = "focus" => FocusInv /\ FocusRest
      /\ part = "launcher" => LocalInv
      /\ part = "queries" => AskedInv
      /\ part = "review" => ReviewInv
      /\ part = "profiles" => SavedInv
<1>1. Init => Inv
  BY BeginsApart, SessionBegins, FocusBegins, RestBegins, LocalBegins, AskedBegins, ReviewBegins, SavedBegins
<1>2. ASSUME Inv, [Next]_deskVars PROVE Inv'
  <2>1. part' = part
    BY <1>2, StaysApart
  <2>2. CASE part = "session"
    BY <1>2, <2>1, <2>2, StaysApart, SessionSteps, SessionStays
  <2>3. CASE part = "focus"
    BY <1>2, <2>1, <2>3, StaysApart, FocusSteps, FocusStays, RestSteps, RestStays
  <2>4. CASE part = "launcher"
    BY <1>2, <2>1, <2>4, StaysApart, LocalSteps, LocalStays
  <2>5. CASE part = "queries"
    BY <1>2, <2>1, <2>5, StaysApart, AskedSteps, AskedStays
  <2>6. CASE part = "review"
    BY <1>2, <2>1, <2>6, StaysApart, ReviewSteps, ReviewStays
  <2>7. CASE part = "profiles"
    BY <1>2, <2>1, <2>7, StaysApart, SavedSteps, SavedStays
  <2> QED
    BY <2>1, <2>2, <2>3, <2>4, <2>5, <2>6, <2>7
<1>3. Inv => TypesOK
  BY FocusIsTyped DEF TypesOK, SessionInv, LocalInv, AskedInv, ReviewInv, SavedInv
<1> QED
  BY <1>1, <1>2, <1>3, PTL DEF Spec
=============================================================================
