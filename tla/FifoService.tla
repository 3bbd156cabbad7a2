---------------------------- MODULE FifoService ----------------------------
(***************************************************************************)
(* What the run queue promises while its server lives: requests are        *)
(* served one at a time, in the order they were accepted, each at most     *)
(* once; a waiting request may be withdrawn and then is never served; when *)
(* the server goes away everything it had accepted is abandoned, never     *)
(* resumed.                                                                *)
(***************************************************************************)
EXTENDS SequencesExt

CONSTANTS Requests, None

VARIABLES
  line,     \* accepted and waiting, oldest first
  serving,  \* the request whose worker process is alive
  seen      \* every request ever accepted

fifoVars == <<line, serving, seen>>

FifoInit == line = <<>> /\ serving = None /\ seen = {}

(* A submission that fails half way has used its id up but does not wait. *)
Accept(r) ==
  /\ r \notin seen
  /\ seen' = seen \cup {r}
  /\ line' \in {line, Append(line, r)}
  /\ UNCHANGED serving

Serve ==
  /\ serving = None /\ line # <<>>
  /\ serving' = Head(line)
  /\ line' = Tail(line)
  /\ UNCHANGED seen

Withdraw ==
  /\ \E i \in DOMAIN line : line' = RemoveAt(line, i)
  /\ UNCHANGED <<serving, seen>>

Stop ==
  /\ serving # None
  /\ serving' = None
  /\ UNCHANGED <<line, seen>>

Abandon ==
  /\ line' = <<>> /\ serving' = None
  /\ UNCHANGED seen

FifoNext ==
  \/ \E r \in Requests : Accept(r)
  \/ Serve \/ Withdraw \/ Stop \/ Abandon

FifoSpec == FifoInit /\ [][FifoNext]_fifoVars
=============================================================================
