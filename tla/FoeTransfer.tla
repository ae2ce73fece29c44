----------------------------- MODULE FoeTransfer -----------------------------
(***************************************************************************)
(* Files over the mailbox: ecx_FOEread and ecx_FOEwrite of                 *)
(* soem/ethercatfoe.c and the file server of the slave.  A file travels in *)
(* numbered packets, each acknowledged with its number; a packet that is   *)
(* not full is the last.                                                   *)
(***************************************************************************)
EXTENDS MbxCall

(* The errors returned, with their negative codes in ethercattype.h. *)
FOE_ERROR    == -5
FOE_BUF2SMALL == -6
FOE_PACKETNUMBER == -7
PACKET_ERROR == -3

FoeRead(f, room) == Enter([kind |-> "FOEread", obj |-> f, room |-> room])
FoeWrite(f, v)   == Enter([kind |-> "FOEwrite", obj |-> f, val |-> v])

IsFoe == call.kind \in {"FOEread", "FOEwrite"}

Foe(type, num) == [op |-> "foe", type |-> type, num |-> num]

FoeRequest ==
  /\ IsFoe /\ At("drain")
  /\ Post([op |-> "foe", type |-> IF call.kind = "FOEread" THEN "read" ELSE "write",
           obj |-> call.obj], "request")
  /\ sent' = 0

(* The last acknowledge, or no response: the loop ends. *)
FoeEnds ==
  /\ IsFoe
  /\ (At("last") \/ (At("response") /\ wkc <= 0))
  /\ Return(wkc) /\ Quiet
  /\ UNCHANGED <<call, buf, sent, toggle>>

(* A packet of a read: it has the number after the last one and fits the   *)
(* buffer.                                                                 *)
InTurn(m) == m.num = sent + 1 /\ Len(buf) + Len(m.data) <= call.room

FoePacket ==
  /\ call.kind = "FOEread" /\ Answered("response")
  /\ mbxIn.op = "foe" /\ mbxIn.type = "data" /\ InTurn(mbxIn)
  /\ buf' = buf \o mbxIn.data
  /\ sent' = sent + 1
  /\ StartSend(Foe("ack", mbxIn.num))
  /\ pc' = IF Len(mbxIn.data) = M THEN "request" ELSE "last"
  /\ UNCHANGED <<call, toggle, serverVars>>

(* What is left of the file to send, and whether an empty packet has to    *)
(* say that the packet before was the last; a mutation never sends it.     *)
Left == NParts[call.obj] - sent * M
FinalZero_Never == FALSE
FinalZero == sent > 0 /\ Left = 0

(* An acknowledge of a write has the number of the packet sent last.       *)
FoeAck ==
  /\ call.kind = "FOEwrite" /\ Answered("response")
  /\ mbxIn.op = "foe" /\ mbxIn.type = "ack" /\ mbxIn.num = sent
  /\ IF Left > 0 \/ FinalZero
     THEN /\ sent' = sent + 1
          /\ Post([op |-> "foe", type |-> "data", num |-> sent + 1,
                   data |-> Chunk(Content(call.obj, call.val), sent)], "request")
     ELSE /\ Return(wkc) /\ Quiet
          /\ UNCHANGED <<call, buf, sent, toggle>>

(* The server is busy: the packet is counted as not sent, and the call     *)
(* returns what it received.                                               *)
FoeBusy ==
  /\ call.kind = "FOEwrite" /\ Answered("response")
  /\ mbxIn.op = "foe" /\ mbxIn.type = "busy"
  /\ sent' = IF sent > 0 THEN sent - 1 ELSE 0
  /\ Return(wkc) /\ Quiet
  /\ UNCHANGED <<call, buf, toggle>>

(* Anything else ends the call with an error code. *)
FoeError(m) ==
  IF m.op # "foe" THEN PACKET_ERROR
  ELSE CASE m.type = "error" -> FOE_ERROR
         [] m.type = "data" /\ call.kind = "FOEread" -> FOE_BUF2SMALL
         [] m.type = "ack" /\ call.kind = "FOEwrite" -> FOE_PACKETNUMBER
         [] OTHER -> PACKET_ERROR

FoeRefused ==
  /\ IsFoe /\ Answered("response")
  /\ LET m == mbxIn IN
       ~ /\ m.op = "foe"
         /\ IF call.kind = "FOEread" THEN m.type = "data" /\ InTurn(m)
            ELSE m.type = "busy" \/ (m.type = "ack" /\ m.num = sent)
  /\ Return(FoeError(mbxIn)) /\ Quiet
  /\ UNCHANGED <<call, buf, sent, toggle>>

FoeStep ==
  FoeRequest \/ FoeEnds \/ FoePacket \/ FoeAck \/ FoeBusy \/ FoeRefused

-----------------------------------------------------------------------------
(* The file server. *)
IsFoeJob(type) == job.op = "foe" /\ job.type = type

SendPacket(f, n) ==
  /\ Respond([op |-> "foe", type |-> "data", num |-> n + 1,
              data |-> Chunk(stored[f], n)])
  /\ xfer' = [kind |-> "FOEread", obj |-> f, num |-> n + 1]
  /\ stored' = stored

ServeFile ==
  \/ IsFoeJob("read") /\ SendPacket(job.obj, 0)
  \/ /\ IsFoeJob("write")
     /\ Respond(Foe("ack", 0))
     /\ xfer' = [kind |-> "FOEwrite", obj |-> job.obj, num |-> 0, data |-> <<>>]
     /\ stored' = stored

(* An acknowledge is answered with the next packet, unless the last was    *)
(* not full.                                                               *)
Acknowledged == IsFoeJob("ack") /\ xfer.kind = "FOEread" /\ job.num = xfer.num
ServeAck ==
  /\ Acknowledged
  /\ IF Len(Chunk(stored[xfer.obj], xfer.num - 1)) = M
     THEN SendPacket(xfer.obj, xfer.num)
     ELSE Absorb /\ xfer' = NoXfer /\ stored' = stored

(* A packet is stored when it is the next one, the file with the last. *)
NextPacket ==
  IsFoeJob("data") /\ xfer.kind = "FOEwrite" /\ job.num = xfer.num + 1
ServePacket ==
  /\ NextPacket
  /\ Respond(Foe("ack", job.num))
  /\ LET data == xfer.data \o job.data IN
     IF Len(job.data) = M
     THEN xfer' = [xfer EXCEPT !.num = @ + 1, !.data = data] /\ stored' = stored
     ELSE xfer' = NoXfer /\ stored' = [stored EXCEPT ![xfer.obj] = data]

(* It is busy, and drops what it was sent. *)
ServeBusy ==
  /\ (NextPacket \/ IsFoeJob("write"))
  /\ Spoil(Foe("busy", 0))
  /\ UNCHANGED serverVars

(* It does not know the file, or cannot store it. *)
ServeFoeError ==
  /\ job.op = "foe"
  /\ Spoil(Foe("error", 0))
  /\ xfer' = NoXfer /\ stored' = stored

ServeFoe ==
  \/ ServeFile \/ ServeAck \/ ServePacket \/ ServeBusy \/ ServeFoeError
=============================================================================
