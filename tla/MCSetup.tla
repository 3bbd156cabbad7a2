------------------------------- MODULE MCSetup -------------------------------
EXTENDS SetupCoordinator
CONSTANT excerpt_name
ExcerptName == [c \in Others |-> excerpt_name]

(* A job nobody refers to, and the events of an ended thread whose job is one *)
(* of those, can change nothing any more: states that differ in them only are *)
(* one state.                                                                 *)
View ==
  <<[j \in Jobs |-> IF j \in Held \/ j \notin Made THEN job[j] ELSE [NoJob EXCEPT !.status = "stale"]],
    [t \in Threads |-> IF Alive(t) \/ t \notin Started \/ \E j \in Held : job[j].thread = t
                      THEN thread[t] ELSE [NoThread EXCEPT !.pc = "ended"]],
    current, row, page, handler, writer, sidecar, cleaners, holder, calls, overlap, crashes>>
=============================================================================
