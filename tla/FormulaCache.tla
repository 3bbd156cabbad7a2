---------------------------- MODULE FormulaCache ----------------------------
(***************************************************************************)
(* The cache of extracted formula texts (io/formula_cache.py), shared by   *)
(* processes that know nothing of each other: QC workers, and the page or  *)
(* command that clears it.  A process looks its key up, extracts on a miss,*)
(* writes a temporary file, publishes it with one rename, lists what is    *)
(* there and removes the least recently used, one file after the other.    *)
(* A key stands for everything that is digested into the file name.  The   *)
(* bound on bytes works as the one on entries does and is left out.        *)
(***************************************************************************)
EXTENDS Naturals, FiniteSets

CONSTANTS Users, Keys, None, MaxEntries,
          MaxClock,   \* bound: accesses
          MaxDamage   \* bound: entries damaged from outside, crashes

(* texts: a good entry gives back the extraction, a bad one fails to read or *)
(* fails the validation; at: last access.                                    *)
VARIABLES
  entry,   \* files of the cache
  temp,    \* temporary files of processes that crashed
  clock, damage,
  user     \* the processes; plan: entries a process is going to remove

vars == <<entry, temp, clock, damage, user>>

Idle == [pc |-> "idle", key |-> None, plan |-> {}, sees |-> None]

TypeOK ==
  /\ entry \in [Keys -> [good : BOOLEAN, at : 0..MaxClock] \cup {None}]
  /\ temp \in 0..MaxDamage /\ clock \in 0..MaxClock /\ damage \in 0..MaxDamage
  /\ user \in [Users -> [pc : {"idle", "read", "quarantine", "extract", "publish", "list", "evict"},
                         key : Keys \cup {None}, plan : SUBSET Keys, sees : BOOLEAN \cup {None}]]

Init ==
  /\ entry = [k \in Keys |-> None] /\ temp = 0 /\ clock = 0 /\ damage = 0
  /\ user = [u \in Users |-> Idle]

Present == {k \in Keys : entry[k] # None}
Goes(u, pc) == user' = [user EXCEPT ![u].pc = pc]

(* A hit is a fresh access, unless the file is gone by then. *)
Touch(k) ==
  /\ clock' = (IF clock < MaxClock THEN clock + 1 ELSE clock)
  /\ entry' = IF k \in Present THEN [entry EXCEPT ![k].at = clock'] ELSE entry

Lookup(u, k) ==
  /\ user[u].pc = "idle"
  /\ user' = [user EXCEPT ![u] = [Idle EXCEPT !.key = k,
                !.pc = IF k \in Present THEN "read" ELSE "extract",
                !.sees = IF k \in Present THEN entry[k].good ELSE None]]
  /\ UNCHANGED <<entry, temp, clock, damage>>

(* The file that was opened is read even when it is replaced or removed.     *)
Hit(u) ==
  /\ user[u].pc = "read" /\ user[u].sees
  /\ Touch(user[u].key) /\ user' = [user EXCEPT ![u] = Idle]
  /\ UNCHANGED <<temp, damage>>

Unusable(u) ==
  /\ user[u].pc = "read" /\ ~user[u].sees /\ Goes(u, "quarantine")
  /\ UNCHANGED <<entry, temp, clock, damage>>

(* By name: another process may have put a good entry there meanwhile. *)
Quarantine(u) ==
  /\ user[u].pc = "quarantine" /\ Goes(u, "extract")
  /\ entry' = [entry EXCEPT ![user[u].key] = None]
  /\ UNCHANGED <<temp, clock, damage>>

(* The extraction is what the caller gets.  An entry that is too large, and  *)
(* an error while it is written, leave nothing; so does an adapter without   *)
(* a fingerprint, which does not look the key up.                            *)
Extract(u) ==
  /\ user[u].pc = "extract"
  /\ Goes(u, "publish") \/ user' = [user EXCEPT ![u] = Idle]
  /\ UNCHANGED <<entry, temp, clock, damage>>

Publish(u) ==
  /\ user[u].pc = "publish" /\ Goes(u, "list")
  /\ clock' = (IF clock < MaxClock THEN clock + 1 ELSE clock)
  /\ entry' = [entry EXCEPT ![user[u].key] = [good |-> TRUE, at |-> clock']]
  /\ UNCHANGED <<temp, damage>>

(* The least recently used ones of S, as many as S has too many.  Those of   *)
(* one age come in any order.                                                *)
Eldest(S) ==
  {V \in SUBSET S :
     /\ Cardinality(V) = (IF Cardinality(S) > MaxEntries THEN Cardinality(S) - MaxEntries ELSE 0)
     /\ \A j \in V, k \in S \ V : entry[j].at <= entry[k].at}

(* Mutant: the entry just published is not counted. *)
OldestOthers(u) == Eldest(Present \ {user[u].key})
Oldest(u) == Eldest(Present)

List(u) ==
  /\ user[u].pc = "list"
  /\ \E V \in Oldest(u) : user' = [user EXCEPT ![u].plan = V, ![u].pc = "evict"]
  /\ UNCHANGED <<entry, temp, clock, damage>>

(* An entry on the list is removed though it was read or replaced since.     *)
(* The code takes the oldest first; here they go in any order, which nothing *)
(* that is said of the cache depends on.                                     *)
Evict(u) ==
  /\ user[u].pc = "evict"
  /\ IF user[u].plan = {}
     THEN user' = [user EXCEPT ![u] = Idle] /\ UNCHANGED entry
     ELSE \E k \in user[u].plan :
            /\ entry' = [entry EXCEPT ![k] = None]
            /\ user' = [user EXCEPT ![u].plan = @ \ {k}]
  /\ UNCHANGED <<temp, clock, damage>>

(* clear removes what it has listed, in the same way. *)
Clear(u) ==
  /\ user[u].pc = "idle"
  /\ user' = [user EXCEPT ![u].pc = "evict", ![u].plan = Present]
  /\ UNCHANGED <<entry, temp, clock, damage>>

(* A worker is killed, at a cancel or with the machine; its temporary file   *)
(* stays, and neither the bounds nor clear ever count it.                    *)
Crash(u) ==
  /\ user[u].pc # "idle" /\ damage < MaxDamage /\ damage' = damage + 1
  /\ user' = [user EXCEPT ![u] = Idle]
  /\ temp' = IF user[u].pc = "publish" THEN temp + 1 ELSE temp
  /\ UNCHANGED <<entry, clock>>

Damage(k) ==
  /\ k \in Present /\ damage < MaxDamage /\ damage' = damage + 1
  /\ entry' = [entry EXCEPT ![k].good = FALSE]
  /\ UNCHANGED <<temp, clock, user>>

Next ==
  \/ \E u \in Users :
       \/ \E k \in Keys : Lookup(u, k)
       \/ Hit(u) \/ Unusable(u) \/ Quarantine(u) \/ Extract(u) \/ Publish(u) \/ List(u) \/ Evict(u)
       \/ Clear(u) \/ Crash(u)
  \/ \E k \in Keys : Damage(k)

Spec == Init /\ [][Next]_vars

-----------------------------------------------------------------------------
(* However the stores, hits, quarantines and clears of several processes     *)
(* interleave: when no process is between its publication and the end of its *)
(* eviction, the cache is within its bound, unless one crashed there         *)
(* (_evict_over_cap).                                                        *)
CacheIsBounded ==
  damage = 0 /\ (\A u \in Users : user[u].pc \notin {"list", "evict"})
    => Cardinality(Present) <= MaxEntries
=============================================================================
