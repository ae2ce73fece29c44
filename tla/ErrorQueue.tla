----------------------------- MODULE ErrorQueue -----------------------------
(***************************************************************************)
(* What the error list of the master promises: a queue of bounded length   *)
(* in which a new error displaces the oldest, and a flag that is raised    *)
(* with every error and lowered when the queue is found empty.             *)
(***************************************************************************)
EXTENDS Naturals, Sequences

CONSTANTS Error, Capacity

VARIABLES queue, flag

qVars == <<queue, flag>>

Init == queue = <<>> /\ flag = FALSE

WithRoom(q) == IF Len(q) = Capacity THEN Tail(q) ELSE q

Put(e) == queue' = Append(WithRoom(queue), e) /\ flag' = TRUE

Take ==
  IF queue = <<>> THEN queue' = queue /\ flag' = FALSE
                  ELSE queue' = Tail(queue) /\ flag' = flag

Next == Take \/ \E e \in Error : Put(e)

Spec == Init /\ [][Next]_qVars
=============================================================================
