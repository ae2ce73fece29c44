----------------------------- MODULE EoeTransfer -----------------------------
(***************************************************************************)
(* Ethernet over the mailbox: the functions of soem/ethercateoe.c and the  *)
(* poll of test/linux/eoe_test.  Frames travel in fragments, both ways and *)
(* without an answer; the slave sends its own unasked.                     *)
(***************************************************************************)
EXTENDS MbxCall

CONSTANTS
  FrameNos,  \* frames are numbered modulo this (16 in the code)
  MaxFrame   \* bound: frames the slave sends

ASSUME EoeConstants ==
  /\ {"ip", "frame"} \subseteq Obj /\ NParts["frame"] > 0
  /\ FrameNos \in Nat \ {0} /\ MaxFrame \in Nat

VARIABLES
  txframeno,  \* number of the last frame the master sent
  frames      \* frames the slave has sent

eoeVars == <<txframeno, frames>>

EoeInit == txframeno = 0 /\ frames = 0

(* ecx_EOEdefinehook *)
EOEdefinehook ==
  /\ pc = "returned" /\ ~hook
  /\ hook' = TRUE
  /\ UNCHANGED <<sm0, sm1, repeatReq, slaveVars, masterVars, mbxOut, mbx_cnt, rx>>
  /\ UNCHANGED <<errVars, faults, clean, callVars, serverVars, eoeVars>>

-----------------------------------------------------------------------------
(* ecx_EOEsetIp and ecx_EOEgetIp: a request and its response. *)
EOEsetIp(v) == Enter([kind |-> "EOEsetIp", obj |-> "ip", val |-> v])
EOEgetIp    == Enter([kind |-> "EOEgetIp", obj |-> "ip", room |-> NParts["ip"]])

(* The mailbox reader looks for a message, and waits for none. *)
EoePoll == Enter([kind |-> "poll"])

IsIp == call.kind \in {"EOEsetIp", "EOEgetIp"}

Eoe(type) == [op |-> "eoe", type |-> type]

IpRequest ==
  /\ IsIp /\ At("drain")
  /\ Post([op |-> "eoe", type |-> call.kind,
           data |-> IF call.kind = "EOEsetIp" THEN Content("ip", call.val) ELSE <<>>],
          "request")
  /\ sent' = sent
  /\ UNCHANGED eoeVars

(* The response has the type of the request and says success. *)
IsIpResponse(m) ==
  m.op = "eoe" /\ m.type = IF call.kind = "EOEsetIp" THEN "ipSet" ELSE "ip"

INVALID_RX_DATA == -11

IpResponse ==
  /\ IsIp /\ At("response")
  /\ IF wkc > 0 /\ IsIpResponse(mbxIn)
     THEN /\ Return(wkc)
          /\ buf' = IF call.kind = "EOEgetIp" THEN mbxIn.data ELSE buf
     ELSE /\ Return(IF wkc > 0 THEN INVALID_RX_DATA ELSE wkc)
          /\ buf' = buf
  /\ Quiet
  /\ UNCHANGED <<call, sent, toggle, eoeVars>>

Polled ==
  /\ call.kind = "poll" /\ At("drain")
  /\ Return(wkc) /\ Quiet
  /\ UNCHANGED <<call, buf, sent, toggle, eoeVars>>

-----------------------------------------------------------------------------
(* The k-th fragment, from 0 on, of frame d with number n. *)
Fragment(d, n, k) ==
  [op |-> "eoe", type |-> "fragment", no |-> k, frameno |-> n,
   offset |-> IF k = 0 THEN Len(d) ELSE k * M,
   last |-> Len(d) <= (k + 1) * M,
   data |-> Chunk(d, k)]

(* ecx_EOEsend does not look into the mailbox from the slave first.        *)
EOEsend(v) ==
  /\ pc = "returned"
  /\ call' = [kind |-> "EOEsend", obj |-> "frame", val |-> v]
  /\ txframeno' = (txframeno + 1) % FrameNos
  /\ buf' = <<>> /\ sent' = 1 /\ toggle' = FALSE
  /\ StartSend(Fragment(Content("frame", v), txframeno', 0))
  /\ pc' = "sending"
  /\ UNCHANGED <<serverVars, frames>>

(* The next fragment, unless one was not placed or it was the last.        *)
EoeSent ==
  /\ call.kind = "EOEsend" /\ At("sending")
  /\ IF wkc > 0 /\ sent * M < NParts["frame"]
     THEN /\ Post(Fragment(Content("frame", call.val), txframeno, sent), "sending")
          /\ sent' = sent + 1
     ELSE /\ Return(wkc) /\ Quiet
          /\ UNCHANGED <<call, buf, sent, toggle>>
  /\ UNCHANGED eoeVars

-----------------------------------------------------------------------------
(* ecx_EOErecv, without a hook *)
EOErecv(room) ==
  /\ pc = "returned"
  /\ call' = [kind |-> "EOErecv", room |-> room, frameno |-> 0]
  /\ buf' = <<>> /\ sent' = 0 /\ toggle' = FALSE
  /\ StartReceive("running")
  /\ pc' = "response"
  /\ UNCHANGED <<serverVars, eoeVars>>

(* Whether a fragment goes on with the frame. *)
GoesOnWith(f) ==
  /\ f.no = sent \/ f.no = 0
  /\ IF sent = 0 THEN f.offset <= call.room
                 ELSE f.frameno = call.frameno /\ f.offset = Len(buf)

EoeFragmentReceived ==
  /\ call.kind = "EOErecv" /\ Answered("response")
  /\ IsFragment(mbxIn) /\ GoesOnWith(mbxIn)
  /\ IF Len(buf) + Len(mbxIn.data) <= call.room
     THEN buf' = buf \o mbxIn.data /\ sent' = sent + 1
     ELSE UNCHANGED <<buf, sent>>
  /\ call' = IF sent = 0 THEN [call EXCEPT !.frameno = mbxIn.frameno] ELSE call
  /\ IF mbxIn.last THEN Return(wkc) /\ Quiet
     ELSE StartReceive("running") /\ UNCHANGED <<pc, serverVars>>
  /\ UNCHANGED <<toggle, eoeVars>>

EoeNotReceived ==
  /\ call.kind = "EOErecv" /\ At("response")
  /\ wkc > 0 => ~(IsFragment(mbxIn) /\ GoesOnWith(mbxIn))
  /\ Return(IF wkc > 0 THEN INVALID_RX_DATA ELSE wkc) /\ Quiet
  /\ UNCHANGED <<call, buf, sent, toggle, eoeVars>>

EoeStep ==
  \/ IpRequest \/ IpResponse \/ Polled
  \/ EoeSent \/ EoeFragmentReceived \/ EoeNotReceived

-----------------------------------------------------------------------------
(* The server keeps the IP parameters, and puts the frames of the master   *)
(* together.                                                               *)
IsEoeJob(type) == job.op = "eoe" /\ job.type = type

ServeIp ==
  \/ /\ IsEoeJob("EOEsetIp")
     /\ Respond(Eoe("ipSet"))
     /\ stored' = [stored EXCEPT !["ip"] = job.data] /\ xfer' = xfer
  \/ /\ IsEoeJob("EOEgetIp")
     /\ Respond([op |-> "eoe", type |-> "ip", data |-> stored["ip"]])
     /\ UNCHANGED serverVars

ServeFrame ==
  /\ IsEoeJob("fragment")
  /\ Absorb
  /\ LET r == ReadFragment(IF xfer.kind = "eoe" THEN xfer.rx ELSE Fresh, job) IN
     IF r.got = <<>>
     THEN xfer' = [kind |-> "eoe", rx |-> r] /\ stored' = stored
     ELSE xfer' = NoXfer /\ stored' = [stored EXCEPT !["frame"] = r.got]

ServeEoe == (ServeIp \/ ServeFrame) /\ UNCHANGED eoeVars

(* It has a frame to send, and puts its first fragment into the mailbox;   *)
(* the values it sends are below 0.                                        *)
FrameOut ==
  /\ frames < MaxFrame /\ outbox = <<>> /\ CanPut
  /\ frames' = frames + 1
  /\ LET d == Content("frame", -frames')
         f == [k \in 1..((Len(d) + M - 1) \div M) |-> Fragment(d, frames' % FrameNos, k - 1)]
     IN sm1' = f[1] /\ lastOut' = f[1] /\ outbox' = Tail(f)
  /\ clean' = (clean /\ ~Overtakes)
  /\ UNCHANGED <<sm0, repeatReq, repeatAck, job, lastCnt, alive>>
  /\ UNCHANGED <<masterVars, mbxOut, mbx_cnt, handled, faults, callVars>>
  /\ UNCHANGED <<serverVars, txframeno>>
=============================================================================
