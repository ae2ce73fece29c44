------------------------------- MODULE MbxCall -------------------------------
(***************************************************************************)
(* What the services over the mailbox (ecx_SDOread, ecx_FOEread,           *)
(* ecx_SoEread, ...) have in common: a call empties the mailbox from the   *)
(* slave, places a request, and waits for the response; it reports errors  *)
(* on the error list and returns a working counter or an error code.       *)
(*                                                                         *)
(* What is read or written is the value of an object: of the object        *)
(* dictionary, or a file, an IDN, an Ethernet frame.  A value is a         *)
(* sequence of parts.  Values are numbered: 0 is the one an object has at  *)
(* the start.                                                              *)
(***************************************************************************)
EXTENDS Mailbox, SequencesExt

CONSTANTS
  Obj,       \* the objects used
  Index,     \* Index[o]: objects that differ by their subindex share it
  NParts,    \* NParts[o]: parts of the value of o
  M          \* parts in a mailbox full of file, IDN or frame

ASSUME MbxCallConstants ==
  /\ Index \in [Obj -> Nat]
  /\ NParts \in [Obj -> Nat]
  /\ M \in Nat \ {0}

(* The value v of object o, in parts. *)
Content(o, v) == [i \in 1..NParts[o] |-> [obj |-> o, val |-> v, num |-> i]]

VARIABLES
  pc,      \* where the function is
  call,    \* its parameters: kind, obj, val to write, room in the buffer
  buf,     \* read: what has been put in the parameter buffer
  sent,    \* write: the parts sent; packets received, of a file
  toggle,  \* the toggle bit
  stored,  \* the slave's objects
  xfer     \* the transfer the slave's server is busy with

callVars == <<pc, call, buf, sent, toggle>>
serverVars == <<stored, xfer>>

NoXfer == [kind |-> "none"]

CallInit ==
  /\ pc = "returned"
  /\ call = [kind |-> "none"]
  /\ buf = <<>> /\ sent = 0 /\ toggle = FALSE
  /\ stored = [o \in Obj |-> Content(o, 0)]
  /\ xfer = NoXfer

-----------------------------------------------------------------------------
(* A call first empties the mailbox from the slave, with timeout 0. *)
Enter(c) ==
  /\ pc = "returned"
  /\ call' = c
  /\ pc' = "drain"
  /\ buf' = <<>> /\ sent' = 0 /\ toggle' = FALSE
  /\ StartReceive("expired")
  /\ UNCHANGED serverVars

At(p) == pc = p /\ link = "done"
Answered(p) == At(p) /\ wkc > 0

(* A message is sent, and p is where the call goes on. *)
Post(m, p) ==
  /\ StartSend(m)
  /\ pc' = p
  /\ UNCHANGED <<call, buf, toggle, serverVars>>

(* A step of the master between its datagrams. *)
LinkUnchanged ==
  /\ UNCHANGED <<sm0, sm1, repeatReq, slaveVars, mbxOut, mbx_cnt>>
  /\ UNCHANGED <<hook, rx, faults, clean, serverVars>>

Quiet == LinkUnchanged /\ UNCHANGED errVars
Report(e) == LinkUnchanged /\ Push(e)

GoTo(p) == pc' = p /\ UNCHANGED masterVars

Return(r) ==
  /\ pc' = "returned"
  /\ wkc' = r
  /\ timer' = "expired" /\ tries' = 0 /\ smRep' = FALSE /\ mbxIn' = NoMsg
  /\ link' = link

(* The request could not be placed: the function gives up at once.         *)
NotPlaced ==
  /\ At("request") /\ wkc <= 0
  /\ Return(wkc) /\ Quiet
  /\ UNCHANGED <<call, buf, sent, toggle>>

Placed ==
  /\ Answered("request")
  /\ pc' = "response"
  /\ StartReceive("running")
  /\ UNCHANGED <<call, buf, sent, toggle, serverVars>>

-----------------------------------------------------------------------------
(* The k-th mailbox full of the value s, from 0 on. *)
Chunk(s, k) ==
  SubSeq(s, k * M + 1, IF (k + 1) * M < Len(s) THEN (k + 1) * M ELSE Len(s))

(* The slave has dealt with a message, with no answer to it. *)
Absorb ==
  /\ alive /\ job # NoMsg
  /\ job' = NoMsg
  /\ UNCHANGED <<sm0, sm1, repeatReq, lastOut, repeatAck, outbox, lastCnt, alive,
                 masterVars, mbxOut, mbx_cnt, handled, faults, clean>>
=============================================================================
