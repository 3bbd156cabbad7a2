--------------------------- MODULE ExclusiveSlot ---------------------------
(***************************************************************************)
(* The exclusive work slot of one data directory (ExclusiveWorkSlot and    *)
(* run_exclusive in runqueue.py).  Every kind of heavy work takes it: a QC *)
(* run through the run queue, or a short job (profile validation, loading  *)
(* a population excerpt) through one call of run_exclusive.  The slot      *)
(* never queues and never waits; it knows its holder only by a name.       *)
(***************************************************************************)
CONSTANTS
  Callers,   \* calls of run_exclusive, each made once
  Requests,  \* QC run requests; a request holds the slot under its own id
  HolderOf,  \* the holder name each call of run_exclusive passes
  None       \* no holder

ASSUME CallersHaveNames ==
  /\ DOMAIN HolderOf = Callers
  /\ \A c \in Callers : HolderOf[c] \notin Requests \cup {None}
ASSUME NoneIsNoRequest == None \notin Requests

VARIABLES
  holder,    \* ExclusiveWorkSlot._holder
  calls      \* how far each call of run_exclusive is

slotVars == <<holder, calls>>

Names == Requests \cup {HolderOf[c] : c \in Callers}

SlotTypeOK ==
  /\ holder \in Names \cup {None}
  /\ calls \in [Callers -> {"idle", "inside", "done"}]

SlotInit ==
  /\ holder = None
  /\ calls = [c \in Callers |-> "idle"]

(* The slot is free, or the very same name holds it already. *)
CanAcquire(h) == holder \in {None, h}

(* Mutant: the name of the present holder is not compared. *)
TakeAlways(h) == holder' = h

TryAcquire(h) ==
  /\ CanAcquire(h)
  /\ holder' = h

(* Mutant: the slot is not given back. *)
KeepSlot(h) == holder' = holder

(* Anyone but the holder releases nothing. *)
Release(h) == holder' = IF holder = h THEN None ELSE holder

(* run_exclusive starts its body; when the slot is refused it raises        *)
(* QueueBusyError and the state is as before, so the call is still idle.    *)
EnterExclusive(c) ==
  /\ calls[c] = "idle"
  /\ TryAcquire(HolderOf[c])
  /\ calls' = [calls EXCEPT ![c] = "inside"]

(* The body returned or raised: the finally clause releases the slot. *)
LeaveExclusive(c) ==
  /\ calls[c] = "inside"
  /\ Release(HolderOf[c])
  /\ calls' = [calls EXCEPT ![c] = "done"]

(* The process that held the slot is gone, and its threads with it. *)
SlotLost ==
  /\ holder' = None
  /\ calls' = [c \in Callers |-> IF calls[c] = "inside" THEN "done" ELSE calls[c]]

Inside == {c \in Callers : calls[c] = "inside"}
=============================================================================
