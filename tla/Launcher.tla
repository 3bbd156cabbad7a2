------------------------------ MODULE Launcher ------------------------------
(***************************************************************************)
(* Quiet launches and servers of one data directory (launcher.py, run_app).*)
(* Two locked files, which the system unlocks when their process ends:     *)
(* .launch.lock for the one active launch, .instance.lock for the local    *)
(* server; the marker file, which outlives a crash; and the loopback       *)
(* ports.  The secret of a marker is the server that wrote it, and a probe *)
(* is the moment at which the listener of the port proves it.              *)
(***************************************************************************)
EXTENDS Naturals, FiniteSets

CONSTANTS Launchers, Servers, Ports, None

VARIABLES
  launchLock,   \* the launcher that has it
  lock,         \* the server that has .instance.lock
  marker,       \* .instance.json
  listener,     \* who listens at a port: a server, another program, nobody
  launcher, server

vars == <<launchLock, lock, marker, listener, launcher, server>>

Other == "other"
Ended == {"reused", "started", "in_progress", "port_occupied", "start_failed", "start_timeout"}
NotStarted == [pc |-> "none", port |-> None, lan |-> FALSE]

TypeOK ==
  /\ launchLock \in Launchers \cup {None} /\ lock \in Servers \cup {None}
  /\ marker \in [server : Servers, port : Ports] \cup {None}
  /\ listener \in [Ports -> Servers \cup {Other, None}]
  /\ launcher \in [Launchers -> [pc : {"idle", "look", "port", "spawn", "wait"} \cup Ended,
                                 port : Ports \cup {None}, child : Servers \cup {None}]]
  /\ server \in [Servers -> [pc : {"none", "claim", "mark", "boot", "serve", "release", "unlink",
                                   "unlock", "gone"}, port : Ports \cup {None}, lan : BOOLEAN]]
  /\ \A l \in Launchers : launchLock = l <=> launcher[l].pc \in {"look", "port", "spawn", "wait"}

Init ==
  /\ launchLock = None /\ lock = None /\ marker = None
  /\ listener = [p \in Ports |-> None]
  /\ launcher = [l \in Launchers |-> [pc |-> "idle", port |-> None, child |-> None]]
  /\ server = [s \in Servers |-> NotStarted]

-----------------------------------------------------------------------------
(* run_app: claim, write the marker, serve, release. *)

Become(s, pc) == server' = [server EXCEPT ![s].pc = pc]
Ending(s) == Become(s, IF server[s].lan THEN "gone" ELSE "release")

(* serve on the command line; a launcher spawns with local mode. *)
Serve(s, p, lan) == server' = [server EXCEPT ![s] = [pc |-> "claim", port |-> p, lan |-> lan]]

Command(s, p, lan) ==
  /\ server[s].pc = "none" /\ Serve(s, p, lan)
  /\ UNCHANGED <<launchLock, lock, marker, listener, launcher>>

(* A LAN server claims nothing. *)
Claim(s) ==
  /\ server[s].pc = "claim"
  /\ CASE server[s].lan -> Become(s, "boot") /\ UNCHANGED lock
       [] ~server[s].lan /\ lock = None -> Become(s, "mark") /\ lock' = s
       [] ~server[s].lan /\ lock # None -> Become(s, "gone") /\ UNCHANGED lock
  /\ UNCHANGED <<launchLock, marker, listener, launcher>>

WriteMarker(s) ==
  /\ server[s].pc = "mark" /\ Become(s, "boot")
  /\ marker' = [server |-> s, port |-> server[s].port]
  /\ UNCHANGED <<launchLock, lock, listener, launcher>>

(* The port may be taken: then the server ends as if it were stopped. *)
Listen(s) ==
  /\ server[s].pc = "boot"
  /\ IF listener[server[s].port] = None
     THEN Become(s, "serve") /\ listener' = [listener EXCEPT ![server[s].port] = s]
     ELSE Ending(s) /\ UNCHANGED listener
  /\ UNCHANGED <<launchLock, lock, marker, launcher>>

Unbound(s) == [p \in Ports |-> IF listener[p] = s THEN None ELSE listener[p]]

Stop(s) ==
  /\ server[s].pc = "serve" /\ Ending(s)
  /\ listener' = Unbound(s)
  /\ UNCHANGED <<launchLock, lock, marker, launcher>>

(* Mutant: the lock is given back first. *)
ReadOwnUnlocked(s) ==
  /\ server[s].pc = "release"
  /\ Become(s, IF marker # None /\ marker.server = s THEN "unlink" ELSE "unlock")
  /\ lock' = (IF lock = s THEN None ELSE lock)
  /\ UNCHANGED <<launchLock, marker, listener, launcher>>

(* release_local_instance: only its own marker is taken away. *)
ReadOwn(s) ==
  /\ server[s].pc = "release"
  /\ Become(s, IF marker # None /\ marker.server = s THEN "unlink" ELSE "unlock")
  /\ UNCHANGED <<launchLock, lock, marker, listener, launcher>>

Unlink(s) ==
  /\ server[s].pc = "unlink" /\ Become(s, "unlock") /\ marker' = None
  /\ UNCHANGED <<launchLock, lock, listener, launcher>>

Unlock(s) ==
  /\ server[s].pc = "unlock" /\ Become(s, "gone")
  /\ lock' = IF lock = s THEN None ELSE lock
  /\ UNCHANGED <<launchLock, marker, listener, launcher>>

(* As also when the marker cannot be written. *)
CrashServer(s) ==
  /\ server[s].pc \notin {"none", "gone"} /\ Become(s, "gone")
  /\ lock' = (IF lock = s THEN None ELSE lock) /\ listener' = Unbound(s)
  /\ UNCHANGED <<launchLock, marker, launcher>>

-----------------------------------------------------------------------------
(* launch_local_app. *)

Goes(l, pc) == launcher' = [launcher EXCEPT ![l].pc = pc] /\ UNCHANGED launchLock

(* Mutant: the request lock stays with a launcher that has ended. *)
EndsLocked(l, outcome) == launcher' = [launcher EXCEPT ![l].pc = outcome] /\ UNCHANGED launchLock
Ends(l, outcome) == launcher' = [launcher EXCEPT ![l].pc = outcome] /\ launchLock' = None

(* probe_instance: the listener knows the secret of the marker. *)
Proven(p) == marker # None /\ marker.port = p /\ listener[p] = marker.server

Launch(l, p) ==
  /\ launcher[l].pc = "idle"
  /\ IF launchLock = None
     THEN launchLock' = l /\ launcher' = [launcher EXCEPT ![l].pc = "look", ![l].port = p]
     ELSE UNCHANGED launchLock /\ launcher' = [launcher EXCEPT ![l].pc = "in_progress", ![l].port = p]
  /\ UNCHANGED <<lock, marker, listener, server>>

Look(l) ==
  /\ launcher[l].pc = "look"
  /\ IF Proven(launcher[l].port) THEN Ends(l, "reused") ELSE Goes(l, "port")
  /\ UNCHANGED <<lock, marker, listener, server>>

CheckPort(l) ==
  /\ launcher[l].pc = "port"
  /\ IF listener[launcher[l].port] # None THEN Ends(l, "port_occupied") ELSE Goes(l, "spawn")
  /\ UNCHANGED <<lock, marker, listener, server>>

Spawn(l) ==
  /\ launcher[l].pc = "spawn"
  /\ \/ Ends(l, "start_failed") /\ UNCHANGED server
     \/ \E s \in Servers : /\ server[s].pc = "none" /\ Serve(s, launcher[l].port, FALSE)
                           /\ launcher' = [launcher EXCEPT ![l].pc = "wait", ![l].child = s]
                           /\ UNCHANGED launchLock
  /\ UNCHANGED <<lock, marker, listener>>

(* Whichever server proves itself will do; then the child is looked at. *)
Wait(l) ==
  /\ launcher[l].pc = "wait"
  /\ CASE Proven(launcher[l].port) -> Ends(l, "started")
       [] ~Proven(launcher[l].port) /\ server[launcher[l].child].pc = "gone" -> Ends(l, "start_failed")
       [] OTHER -> Ends(l, "start_timeout")
  /\ UNCHANGED <<lock, marker, listener, server>>

CrashLauncher(l) ==
  /\ launchLock = l /\ Ends(l, "start_failed")
  /\ UNCHANGED <<lock, marker, listener, server>>

(* Another program takes or leaves a port. *)
OtherProgram(p) ==
  /\ listener[p] \in {None, Other}
  /\ listener' = [listener EXCEPT ![p] = IF @ = None THEN Other ELSE None]
  /\ UNCHANGED <<launchLock, lock, marker, launcher, server>>

Next ==
  \/ \E s \in Servers :
       \/ \E p \in Ports, lan \in BOOLEAN : Command(s, p, lan)
       \/ Claim(s) \/ WriteMarker(s) \/ Listen(s) \/ Stop(s) \/ ReadOwn(s) \/ Unlink(s) \/ Unlock(s)
       \/ CrashServer(s)
  \/ \E l \in Launchers :
       \/ \E p \in Ports : Launch(l, p)
       \/ Look(l) \/ CheckPort(l) \/ Spawn(l) \/ Wait(l) \/ CrashLauncher(l)
  \/ \E p \in Ports : OtherProgram(p)

Spec == Init /\ [][Next]_vars

-----------------------------------------------------------------------------
(* A local server that runs can be found: the marker is its own from the     *)
(* claim until it releases, whatever crashed before it and whoever is just   *)
(* ending (release_local_instance: without deleting a newer process's        *)
(* marker), and no second local server runs beside it.                       *)
ServerIsFound ==
  \A s \in Servers : server[s].pc \in {"boot", "serve"} /\ ~server[s].lan =>
    /\ lock = s /\ marker = [server |-> s, port |-> server[s].port]
    /\ \A t \in Servers \ {s} : server[t].lan \/ server[t].pc \notin {"mark", "boot", "serve"}
=============================================================================
