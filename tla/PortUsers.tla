------------------------------- MODULE PortUsers -------------------------------
(* Who shares the frame buffers of a port, for ErikaDrv. *)
EXTENDS Integers, FiniteSets

CONSTANTS
  User,      \* users of frame indices
  MaxBuf,    \* EC_MAXBUF, the number of frame buffers
  NGen,      \* bound: consecutive requests of a user that are told apart
  NoOne      \* the lock is free

(* EC_MAXBUF is 16: there is an index for every user.                      *)
ASSUME UserAssumption ==
  IsFiniteSet(User) /\ Cardinality(User) <= MaxBuf /\ NoOne \notin User
ASSUME ErikaConstants == MaxBuf \in Nat \ {0} /\ NGen \in Nat \ {0}
===============================================================================
