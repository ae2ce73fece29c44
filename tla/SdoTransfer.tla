----------------------------- MODULE SdoTransfer -----------------------------
(***************************************************************************)
(* SDO transfers over the mailbox: ecx_SDOread and ecx_SDOwrite of         *)
(* soem/ethercatcoe.c, expedited and in segments, called one after the     *)
(* other, and the SDO server of the slave.                                 *)
(*                                                                         *)
(* An object is an index and a subindex.  Its value is cut into the parts  *)
(* that fit a mailbox: one part travels expedited, more in segments.       *)
(***************************************************************************)
EXTENDS MbxCall

-----------------------------------------------------------------------------
CallRead(o, room) == Enter([kind |-> "read", obj |-> o, room |-> room])
CallWrite(o, v)   == Enter([kind |-> "write", obj |-> o, val |-> v])

IsSdo == call.kind \in {"read", "write"}

(* Whether parts are left to send. *)
MoreParts == sent < NParts[call.obj]

NextPart  == [obj |-> call.obj, val |-> call.val, num |-> sent + 1]

(* The initial request of an upload or a download. *)
Initiate ==
  /\ IsSdo /\ At("drain")
  /\ IF call.kind = "read"
     THEN /\ Post([op |-> "upload", obj |-> call.obj], "request")
          /\ sent' = sent
     ELSE /\ Post([op |-> "download", obj |-> call.obj, part |-> NextPart,
                   last |-> NParts[call.obj] = 1], "request")
          /\ sent' = 1

-----------------------------------------------------------------------------
Response == {"uploaded", "uploadBegins", "downloaded"}

(* Whether the first response is taken for the answer: ecx_SDOread looks   *)
(* at the index, ecx_SDOwrite also at the subindex, neither at the counter.*)
Accepted(m) ==
  /\ m.op \in Response
  /\ IF call.kind = "read" THEN Index[m.obj] = Index[call.obj]
                           ELSE m.obj = call.obj

SdoNoResponse ==
  /\ IsSdo /\ At("response") /\ wkc <= 0
  /\ Return(wkc) /\ Quiet
  /\ UNCHANGED <<call, buf, sent, toggle>>

(* An abort, or an answer to something else. *)
ErrorOf(m) == IF m.op = "abort" THEN "abort" ELSE "packet"

Unexpected ==
  /\ IsSdo /\ Answered("response") /\ ~Accepted(mbxIn)
  /\ Return(0) /\ Report(ErrorOf(mbxIn))
  /\ UNCHANGED <<call, buf, sent, toggle>>

(* The parameter buffer is too small. *)
TooSmall == Return(0) /\ Report("packet") /\ buf' = buf

(* An upload in one response; the answer to a download has no data, and is *)
(* taken for an upload of length 0.                                        *)
Uploaded ==
  /\ Answered("response")
  /\ call.kind = "read" /\ Accepted(mbxIn) /\ mbxIn.op # "uploadBegins"
  /\ IF mbxIn.op = "downloaded"  THEN buf' = <<>> /\ Return(wkc) /\ Quiet
     ELSE IF call.room >= 1 THEN buf' = <<mbxIn.part>> /\ Return(wkc) /\ Quiet
     ELSE TooSmall
  /\ UNCHANGED <<call, sent, toggle>>

(* The first response of an upload in segments tells the size; a mutation  *)
(* does not compare it with the room in the buffer.                        *)
Fits_Any(m) == TRUE
Fits(m) == m.size <= call.room

UploadBegins ==
  /\ Answered("response")
  /\ call.kind = "read" /\ Accepted(mbxIn) /\ mbxIn.op = "uploadBegins"
  /\ IF Fits(mbxIn) THEN buf' = <<mbxIn.part>> /\ GoTo("segment") /\ Quiet
                    ELSE TooSmall
  /\ UNCHANGED <<call, sent, toggle>>

Downloaded ==
  /\ Answered("response") /\ call.kind = "write" /\ Accepted(mbxIn)
  /\ IF MoreParts THEN GoTo("segment") ELSE Return(wkc)
  /\ Quiet
  /\ UNCHANGED <<call, buf, sent, toggle>>

-----------------------------------------------------------------------------
(* The loops over the segments.  The toggle bit changes after every turn,  *)
(* also after one in which nothing was sent or nothing came back.          *)
Segment ==
  /\ pc = "segment"
  /\ IF call.kind = "read"
     THEN /\ Post([op |-> "uploadSegment", toggle |-> toggle], "segmentSent")
          /\ sent' = sent
     ELSE /\ Post([op |-> "downloadSegment", toggle |-> toggle, part |-> NextPart,
                   last |-> sent + 1 = NParts[call.obj]], "segmentSent")
          /\ sent' = sent + 1

SegmentPlaced ==
  /\ Answered("segmentSent")
  /\ pc' = "segmentResponse"
  /\ StartReceive("running")
  /\ UNCHANGED <<call, buf, sent, toggle, serverVars>>

(* toggle ^= 0x10; a mutation leaves the bit alone. *)
Toggled_Not(t) == t
Toggled(t) == ~t

(* Whether the loop goes on after a turn that failed: of a read always, of *)
(* a write while there are parts left.                                     *)
GoesOn == call.kind = "read" \/ MoreParts

(* The request of a segment was not placed, or no response came. *)
SegmentFails ==
  /\ At("segmentSent") \/ At("segmentResponse")
  /\ wkc <= 0
  /\ toggle' = Toggled(toggle)
  /\ IF GoesOn THEN GoTo("segment") ELSE Return(wkc)
  /\ Quiet
  /\ UNCHANGED <<call, buf, sent>>

(* The response to a segment is known by its command alone. *)
SegmentOp(kind) ==
  IF kind = "read" THEN "segmentUploaded" ELSE "segmentDownloaded"

(* Anything else ends the transfer. *)
SegmentUnexpected ==
  /\ Answered("segmentResponse") /\ mbxIn.op # SegmentOp(call.kind)
  /\ Return(0) /\ Report(ErrorOf(mbxIn))
  /\ UNCHANGED <<call, buf, sent, toggle>>

(* A segment goes behind the ones before; a mutation forgets to advance.   *)
Copied_SamePlace(m) == [buf EXCEPT ![Len(buf)] = m.part]
Copied(m) == Append(buf, m.part)

SegmentUploaded ==
  /\ Answered("segmentResponse")
  /\ call.kind = "read" /\ mbxIn.op = SegmentOp("read")
  /\ buf' = Copied(mbxIn)
  /\ toggle' = Toggled(toggle)
  /\ IF mbxIn.last THEN Return(wkc) ELSE GoTo("segment")
  /\ Quiet
  /\ UNCHANGED <<call, sent>>

SegmentDownloaded ==
  /\ Answered("segmentResponse")
  /\ call.kind = "write" /\ mbxIn.op = SegmentOp("write")
  /\ toggle' = Toggled(toggle)
  /\ IF MoreParts THEN GoTo("segment") ELSE Return(wkc)
  /\ Quiet
  /\ UNCHANGED <<call, buf, sent>>

SdoStep ==
  \/ Initiate \/ SdoNoResponse \/ Unexpected
  \/ Uploaded \/ UploadBegins \/ Downloaded
  \/ Segment \/ SegmentPlaced \/ SegmentFails \/ SegmentUnexpected
  \/ SegmentUploaded \/ SegmentDownloaded

-----------------------------------------------------------------------------
(* The SDO server: a request answered, the objects and the transfer after. *)
Abort == [op |-> "abort"]

ServeUpload ==
  /\ job.op = "upload"
  /\ stored' = stored
  /\ LET value == stored[job.obj] IN
     IF Len(value) = 1
     THEN /\ Respond([op |-> "uploaded", obj |-> job.obj, part |-> value[1]])
          /\ xfer' = NoXfer
     ELSE /\ Respond([op |-> "uploadBegins", obj |-> job.obj, part |-> value[1],
                      size |-> Len(value)])
          /\ xfer' = [kind |-> "upload", left |-> Tail(value), toggle |-> FALSE]

ServeDownload ==
  /\ job.op = "download"
  /\ Respond([op |-> "downloaded", obj |-> job.obj])
  /\ IF job.last
     THEN stored' = [stored EXCEPT ![job.obj] = <<job.part>>] /\ xfer' = NoXfer
     ELSE /\ stored' = stored
          /\ xfer' = [kind |-> "download", obj |-> job.obj,
                      parts |-> <<job.part>>, toggle |-> FALSE]

(* A segment with the expected toggle bit, of a transfer of its kind. *)
Expected(kind) == xfer.kind = kind /\ xfer.toggle = job.toggle

ServeUploadSegment ==
  /\ job.op = "uploadSegment" /\ Expected("upload")
  /\ Respond([op |-> "segmentUploaded", part |-> Head(xfer.left),
              last |-> Len(xfer.left) = 1])
  /\ xfer' = IF Len(xfer.left) = 1 THEN NoXfer
             ELSE [xfer EXCEPT !.left = Tail(@), !.toggle = ~@]
  /\ stored' = stored

ServeDownloadSegment ==
  /\ job.op = "downloadSegment" /\ Expected("download")
  /\ Respond([op |-> "segmentDownloaded"])
  /\ LET parts == Append(xfer.parts, job.part) IN
     IF job.last
     THEN stored' = [stored EXCEPT ![xfer.obj] = parts] /\ xfer' = NoXfer
     ELSE /\ stored' = stored
          /\ xfer' = [xfer EXCEPT !.parts = parts, !.toggle = ~@]

Refuse ==
  /\ \/ job.op = "uploadSegment" /\ ~Expected("upload")
     \/ job.op = "downloadSegment" /\ ~Expected("download")
  /\ Respond(Abort)
  /\ xfer' = NoXfer /\ stored' = stored

ServeSdo ==
  \/ ServeUpload \/ ServeDownload \/ ServeUploadSegment
  \/ ServeDownloadSegment \/ Refuse
===============================================================================
