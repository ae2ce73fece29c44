----------------------------- MODULE SoeTransfer -----------------------------
(***************************************************************************)
(* Parameters of a servo drive over the mailbox: ecx_SoEread and           *)
(* ecx_SoEwrite of soem/ethercatsoe.c and the server of the slave.  A      *)
(* value is sent in fragments; all but the last say that it is incomplete. *)
(***************************************************************************)
EXTENDS MbxCall

SoeRead(i, room) == Enter([kind |-> "SoEread", obj |-> i, room |-> room])
SoeWrite(i, v)   == Enter([kind |-> "SoEwrite", obj |-> i, val |-> v])

IsSoe == call.kind \in {"SoEread", "SoEwrite"}

Soe(type) == [op |-> "soe", type |-> type]
IsSoeOf(m, type) == m.op = "soe" /\ m.type = type

SoeReadRequest ==
  /\ call.kind = "SoEread" /\ At("drain")
  /\ Post([op |-> "soe", type |-> "read", obj |-> call.obj], "request")
  /\ sent' = sent

(* Whether another fragment follows. *)
NotLast == NParts[call.obj] - sent * M > M

(* A fragment of a write. *)
SoeFragment ==
  /\ call.kind = "SoEwrite"
  /\ (At("drain") \/ pc = "fragment")
  /\ Post([op |-> "soe", type |-> "write", obj |-> call.obj,
           incomplete |-> NotLast,
           data |-> Chunk(Content(call.obj, call.val), sent)],
          IF NotLast THEN "fragmentSent" ELSE "request")
  /\ sent' = sent + 1

(* A fragment before the last was placed: wait until the slave has taken   *)
(* it.  If it was not, the next one is sent all the same.                  *)
SoeFragmentSent ==
  /\ At("fragmentSent")
  /\ IF wkc > 0
     THEN StartEmpty /\ pc' = "emptied" /\ UNCHANGED serverVars
     ELSE GoTo("fragment") /\ Quiet
  /\ UNCHANGED <<call, buf, sent, toggle>>

(* It was taken; or it was not in time, and a response is read.            *)
SoeEmptied ==
  /\ At("emptied")
  /\ IF wkc > 0
     THEN GoTo("fragment") /\ Quiet
     ELSE StartReceive("running") /\ pc' = "early" /\ UNCHANGED serverVars
  /\ UNCHANGED <<call, buf, sent, toggle>>

(* No response: an error is reported.  When it was one to a fragment       *)
(* before the last, the next is sent.                                      *)
SoeNoResponse ==
  /\ IsSoe /\ wkc <= 0
  /\ (At("response") \/ At("early"))
  /\ Report("packet")
  /\ IF pc = "early" THEN GoTo("fragment") ELSE Return(wkc)
  /\ UNCHANGED <<call, buf, sent, toggle>>

(* A fragment of a read.  What does not fit is cut off. *)
Cut(d) ==
  IF Len(buf) + Len(d) > call.room THEN SubSeq(d, 1, call.room - Len(buf)) ELSE d

SoeReceived ==
  /\ call.kind = "SoEread" /\ Answered("response") /\ IsSoeOf(mbxIn, "data")
  /\ buf' = buf \o Cut(mbxIn.data)
  /\ IF mbxIn.incomplete
     THEN StartReceive("running") /\ UNCHANGED <<pc, serverVars>>
     ELSE Return(wkc) /\ Quiet
  /\ UNCHANGED <<call, sent, toggle>>

SoeWritten ==
  /\ call.kind = "SoEwrite"
  /\ (Answered("response") \/ Answered("early"))
  /\ IsSoeOf(mbxIn, "written")
  /\ Return(wkc) /\ Quiet
  /\ UNCHANGED <<call, buf, sent, toggle>>

(* Any other response.  The error of a write is looked for in the response *)
(* to a read, and so reported as an unexpected frame.                      *)
SoeUnexpected ==
  /\ IsSoe
  /\ (Answered("response") \/ Answered("early"))
  /\ ~IsSoeOf(mbxIn, IF call.kind = "SoEread" THEN "data" ELSE "written")
  /\ Return(0)
  /\ Report(IF IsSoeOf(mbxIn, "readError") THEN "soe" ELSE "packet")
  /\ UNCHANGED <<call, buf, sent, toggle>>

SoeStep ==
  \/ SoeReadRequest \/ SoeFragment \/ SoeFragmentSent \/ SoeEmptied
  \/ SoeNoResponse \/ SoeReceived \/ SoeWritten \/ SoeUnexpected

-----------------------------------------------------------------------------
(* The server: a read is answered with all fragments, one after the other. *)
ServeIdn ==
  /\ (IsSoeOf(job, "read") \/ IsSoeOf(job, "rest"))
  /\ LET k == IF job.type = "read" THEN 0 ELSE job.sent
         more == NParts[job.obj] > (k + 1) * M IN
     RespondAndGoOn([op |-> "soe", type |-> "data", incomplete |-> more,
                     data |-> Chunk(stored[job.obj], k)],
                    IF more THEN [op |-> "soe", type |-> "rest", obj |-> job.obj,
                                  sent |-> k + 1]
                            ELSE NoMsg)
  /\ UNCHANGED serverVars

(* The fragments of a write are put together; the last is answered. *)
ServeFragment ==
  /\ IsSoeOf(job, "write")
  /\ LET data == (IF xfer.kind = "soe" THEN xfer.data ELSE <<>>) \o job.data IN
     IF job.incomplete
     THEN Absorb /\ xfer' = [kind |-> "soe", data |-> data] /\ stored' = stored
     ELSE /\ Respond(Soe("written")) /\ xfer' = NoXfer
          /\ stored' = [stored EXCEPT ![job.obj] = data]

(* It refuses. *)
ServeSoeError ==
  /\ \/ IsSoeOf(job, "read") /\ Spoil(Soe("readError"))
     \/ IsSoeOf(job, "write") /\ Spoil(Soe("writeError"))
  /\ xfer' = NoXfer /\ stored' = stored

ServeSoe == ServeIdn \/ ServeFragment \/ ServeSoeError
=============================================================================
