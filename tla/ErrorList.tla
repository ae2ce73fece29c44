------------------------------ MODULE ErrorList ------------------------------
(***************************************************************************)
(* The error list of soem/ethercatmain.c: ecx_pusherror, ecx_poperror and  *)
(* the flag EcatError.  The list is a ring of EC_MAXELIST + 1 cells; one   *)
(* stays free, so that a full ring differs from an empty one.              *)
(***************************************************************************)
EXTENDS Integers, Sequences

CONSTANTS
  Error,        \* what an error says: its type here
  EC_MAXELIST   \* the last cell of the ring

ASSUME ErrorListConstants == EC_MAXELIST \in Nat \ {0}

VARIABLES
  elist,        \* the ring: its cells, where the next error goes (head) and
                \* the oldest is (tail)
  ecaterror     \* EcatError

errVars == <<elist, ecaterror>>

Cell == 0..EC_MAXELIST

NoError == "no error"     \* a cell whose Signal is FALSE

ErrInit ==
  /\ elist = [cell |-> [i \in Cell |-> NoError], head |-> 0, tail |-> 0]
  /\ ecaterror = FALSE

Following(i) == IF i = EC_MAXELIST THEN 0 ELSE i + 1

(* Whether the error fills the ring and the oldest has to go. *)
Displaces(l) == Following(l.head) = l.tail

(* ecx_pusherror; a mutation lets the head run into the tail. *)
Pushed_OverTail(l, e) ==
  [l EXCEPT !.cell[l.head] = e, !.head = Following(l.head)]
Pushed(l, e) ==
  [cell |-> [l.cell EXCEPT ![l.head] = e],
   head |-> Following(l.head),
   tail |-> IF Displaces(l) THEN Following(l.tail) ELSE l.tail]

Push(e) == elist' = Pushed(elist, e) /\ ecaterror' = TRUE

(* ecx_poperror: the flag falls when nothing is left to take. *)
Pop ==
  IF elist.head # elist.tail
  THEN /\ elist' = [elist EXCEPT !.cell[elist.tail] = NoError,
                                 !.tail = Following(@)]
       /\ ecaterror' = ecaterror
  ELSE ecaterror' = FALSE /\ elist' = elist

ErrNext == Pop \/ \E e \in Error : Push(e)
ErrSpec == ErrInit /\ [][ErrNext]_errVars

-----------------------------------------------------------------------------
(* The errors in the ring, the oldest first. *)
Place(l, i) ==
  IF l.tail + i - 1 > EC_MAXELIST THEN l.tail + i - 2 - EC_MAXELIST
                                  ELSE l.tail + i - 1
Count(l) ==
  IF l.head >= l.tail THEN l.head - l.tail
                      ELSE l.head + EC_MAXELIST + 1 - l.tail
Listed(l) == [i \in 1..Count(l) |-> l.cell[Place(l, i)]]

Queue == INSTANCE ErrorQueue WITH
  Capacity <- EC_MAXELIST, queue <- Listed(elist), flag <- ecaterror

(* The ring is a queue: errors leave in the order they came, none but the  *)
(* oldest is ever dropped and only when EC_MAXELIST are waiting, and the   *)
(* flag falls only when the list is found empty.                           *)
ErrorsInOrder == Queue!Spec
=============================================================================
