----------------------------- MODULE PdoTransfer -----------------------------
(***************************************************************************)
(* PDOs over the mailbox: ecx_RxPDO, ecx_TxPDO of soem/ethercatcoe.c and   *)
(* the server of the slave.  A PDO to the slave is sent and not answered.  *)
(***************************************************************************)
EXTENDS MbxCall

RxPDO(v)    == Enter([kind |-> "RxPDO", obj |-> "pdo", val |-> v])
TxPDO(room) == Enter([kind |-> "TxPDO", obj |-> "pdo", room |-> room])

(* What of a PDO fits a mailbox; the rest is not sent, and nobody told.    *)
OneMailbox(d) == Chunk(d, 0)

PdoSend ==
  /\ call.kind = "RxPDO" /\ At("drain")
  /\ Post([op |-> "RxPDO", data |-> OneMailbox(Content("pdo", call.val))],
          "sending")
  /\ sent' = sent

PdoSent ==
  /\ call.kind = "RxPDO" /\ At("sending")
  /\ Return(wkc) /\ Quiet
  /\ UNCHANGED <<call, buf, sent, toggle>>

PdoRequest ==
  /\ call.kind = "TxPDO" /\ At("drain")
  /\ Post([op |-> "TxPDOrequest"], "request")
  /\ sent' = sent

(* The response is known by its service alone.  One too long for the       *)
(* buffer is an error.                                                     *)
PdoReceived ==
  /\ call.kind = "TxPDO" /\ Answered("response") /\ mbxIn.op = "TxPDO"
  /\ IF Len(mbxIn.data) <= call.room
     THEN buf' = mbxIn.data /\ Return(wkc) /\ Quiet
     ELSE buf' = buf /\ Return(0) /\ Report("packet")
  /\ UNCHANGED <<call, sent, toggle>>

(* No response, or one to something else. *)
PdoFails ==
  /\ call.kind = "TxPDO" /\ At("response")
  /\ IF wkc <= 0 THEN Return(wkc) /\ Quiet
     ELSE /\ mbxIn.op # "TxPDO"
          /\ Return(0) /\ Report("packet")
  /\ UNCHANGED <<call, buf, sent, toggle>>

PdoStep == PdoSend \/ PdoSent \/ PdoRequest \/ PdoReceived \/ PdoFails

-----------------------------------------------------------------------------
(* The server *)
ServePdo ==
  \/ /\ job.op = "RxPDO"
     /\ Absorb
     /\ stored' = [stored EXCEPT !["pdo"] = job.data] /\ xfer' = xfer
  \/ /\ job.op = "TxPDOrequest"
     /\ Respond([op |-> "TxPDO", data |-> OneMailbox(stored["pdo"])])
     /\ UNCHANGED serverVars
=============================================================================
