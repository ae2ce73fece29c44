----------------------------- MODULE FrameExchange -----------------------------
(***************************************************************************)
(* What the frame driver promises to its users, with no cable, socket or   *)
(* lock: whoever wants to exchange a frame gets an index nobody else uses, *)
(* then either the answer to exactly this request or nothing, and gives    *)
(* the index back.                                                         *)
(***************************************************************************)
EXTENDS Integers

CONSTANTS
  Slot,     \* the users of frame indices
  Idx,      \* the indices
  NoIdx,    \* no index is held
  NGen,     \* consecutive requests of a slot that are told apart
  NoReq     \* no answer

VARIABLES
  held,     \* the index each slot uses
  num,      \* the generation of its current request
  got       \* the answer it was given

vars == <<held, num, got>>

Init ==
  /\ held = [s \in Slot |-> NoIdx]
  /\ num = [s \in Slot |-> 0]
  /\ got = [s \in Slot |-> NoReq]

Begin(s) ==
  /\ held[s] = NoIdx
  /\ \E i \in Idx :
       /\ \A t \in Slot : held[t] # i
       /\ held' = [held EXCEPT ![s] = i]
  /\ UNCHANGED <<num, got>>

Obtain(s) ==
  /\ held[s] # NoIdx
  /\ got[s] = NoReq
  /\ got' = [got EXCEPT ![s] = <<s, num[s]>>]
  /\ UNCHANGED <<held, num>>

End(s) ==
  /\ held[s] # NoIdx
  /\ held' = [held EXCEPT ![s] = NoIdx]
  /\ num' = [num EXCEPT ![s] = IF num[s] + 1 = NGen THEN 0 ELSE num[s] + 1]
  /\ got' = [got EXCEPT ![s] = NoReq]

Next == \E s \in Slot : Begin(s) \/ Obtain(s) \/ End(s)

Spec == Init /\ [][Next]_vars
===============================================================================
