------------------------------ MODULE PortsProofs ------------------------------
(***************************************************************************)
(* The drivers of two other ports, each in behaviours of its own, for      *)
(* every number of users, buffers and frames lost.                         *)
(*                                                                         *)
(* The driver of VxWorks, with one card or two, however often a send fails *)
(* or a timer beats an answer.  First the packets: every step moves one    *)
(* between the pool, the queues and the callers about to send, or leaves   *)
(* them alone.  Then the calls, of callers who have an index each: what a  *)
(* call takes from a queue came there in its time, and a call that nothing *)
(* disturbs follows its own frame from the cable to the queue to the       *)
(* buffer.                                                                 *)
(*                                                                         *)
(* The driver of ERIKA, whoever else is on the cable: the marks are those  *)
(* of the users, and it does what FrameExchange says.                      *)
(***************************************************************************)
EXTENDS PortsMC, FiniteSetTheorems, SequenceTheorems, TLAPS

PCs == {"idle", "outframe", "clean", "send", "prim", "sec", "again", "decide",
        "confirm"}

(* What is posted: the datagram, and who had the index not yet.            *)
Post == [data : Datagram, old : SUBSET Caller]

TypeOK ==
  /\ open \in BOOLEAN /\ redstate \in {"none", "double"} /\ broken \in BOOLEAN
  /\ rxbufstat \in [Card -> [Idx -> {"EMPTY", "ALLOC", "TX", "COMPLETE"}]]
  /\ rxbuf \in [Card -> [Idx -> Datagram]]
  /\ msgQ \in [Card -> [Idx -> Seq(Post)]]
  /\ lastidx \in Idx /\ free \in Nat /\ wire \subseteq Frame
  /\ pc \in [Caller -> PCs] /\ idx \in [Caller -> Idx]
  /\ sending \in [Caller -> {"request", "dummy", "again"}]
  /\ tries \in [Caller -> 0..MaxTries]
  /\ wkc \in [Caller -> [Card -> {"none", "new", "old"}]]
  /\ txbuf \in [Idx -> Datagram]
  /\ faults \in Nat /\ calm \in [Caller -> BOOLEAN]

(* A port that is not set up has no users and nothing queued.              *)
Shut ==
  ~open => /\ \A t \in Caller : pc[t] = "idle"
           /\ \A c \in Card, i \in Idx : msgQ[c][i] = <<>>

Senders == {t \in Caller : pc[t] = "send"}

(* The packets, wherever they are. *)
Total == free + Cardinality(Queued) + Cardinality(Senders)

PInv == TypeOK /\ Shut /\ Total = Packets

-----------------------------------------------------------------------------
LEMMA Indices == 0 \in Idx /\ IsFiniteSet(Idx) /\ IsFiniteSet(Card)
<1>1. IsFiniteSet(Idx)
  BY FS_Interval, VxConstants DEF Idx
<1>2. IsFiniteSet({"prim"} \cup {"sec"}) /\ Card = {"prim"} \cup {"sec"}
  BY FS_Singleton, FS_Union DEF Card
<1>3. QED
  BY <1>1, <1>2, VxConstants DEF Idx

(* The places a packet may be in are finite in number, now and later.      *)
LEMMA Finite ==
  /\ IsFiniteSet(Queued) /\ IsFiniteSet(Senders)
  /\ Cardinality(Queued) \in Nat /\ Cardinality(Senders) \in Nat
<1>1. IsFiniteSet(Card \X Idx)
  BY Indices, FS_Product
<1>2. Queued \in SUBSET (Card \X Idx) /\ Senders \in SUBSET Caller
  BY DEF Queued, Senders
<1>3. IsFiniteSet(Queued) /\ IsFiniteSet(Senders)
  BY <1>1, <1>2, FS_Subset, VxConstants
<1>4. QED
  BY <1>3, FS_CardinalityType

(* A caller begins to hold a packet, or holds none any more.               *)
LEMMA Begins ==
  ASSUME TypeOK, NEW t \in Caller, pc' = [pc EXCEPT ![t] = "send"], pc[t] # "send"
  PROVE  Cardinality(Senders') = Cardinality(Senders) + 1
<1>1. Senders' = Senders \cup {t} /\ t \notin Senders
  BY DEF TypeOK, Senders
<1>2. QED
  BY <1>1, Finite, FS_AddElement

LEMMA Ends ==
  ASSUME TypeOK, NEW t \in Caller, NEW l, pc' = [pc EXCEPT ![t] = l],
         l # "send", pc[t] = "send"
  PROVE  Cardinality(Senders') = Cardinality(Senders) - 1
<1>1. Senders' = Senders \ {t} /\ t \in Senders
  BY DEF TypeOK, Senders
<1>2. QED
  BY <1>1, Finite, FS_RemoveElement

(* What is queued after one queue has changed.                             *)
LEMMA QueuedAfter ==
  ASSUME TypeOK, NEW c \in Card, NEW i \in Idx, NEW q,
         msgQ' = [msgQ EXCEPT ![c][i] = q]
  PROVE  Queued' = IF q # <<>> THEN Queued \cup {<<c, i>>} ELSE Queued \ {<<c, i>>}
<1>1. \A d \in Card, j \in Idx :
        msgQ'[d][j] = IF d = c /\ j = i THEN q ELSE msgQ[d][j]
  BY DEF TypeOK
<1>2. QED
  BY <1>1 DEF Queued

(* A packet is posted to an empty queue, or to one where it replaces the   *)
(* one that is there; or it is taken.                                      *)
LEMMA Posted ==
  ASSUME TypeOK, NEW c \in Card, NEW i \in Idx, NEW q, q # <<>>,
         msgQ' = [msgQ EXCEPT ![c][i] = q], msgQ[c][i] = <<>>
  PROVE  Cardinality(Queued') = Cardinality(Queued) + 1
<1>1. <<c, i>> \notin Queued
  BY DEF Queued
<1>2. Cardinality(Queued \cup {<<c, i>>}) = Cardinality(Queued) + 1
  BY <1>1, Finite, FS_AddElement
<1>3. QED
  BY <1>2, QueuedAfter

LEMMA Replaced ==
  ASSUME TypeOK, NEW c \in Card, NEW i \in Idx, NEW q, q # <<>>,
         msgQ' = [msgQ EXCEPT ![c][i] = q], msgQ[c][i] # <<>>
  PROVE  Cardinality(Queued') = Cardinality(Queued)
<1>1. <<c, i>> \in Queued
  BY DEF Queued
<1>2. Queued \cup {<<c, i>>} = Queued
  BY <1>1
<1>3. QED
  BY <1>2, QueuedAfter

LEMMA Taken ==
  ASSUME TypeOK, NEW c \in Card, NEW i \in Idx,
         msgQ' = [msgQ EXCEPT ![c][i] = <<>>], msgQ[c][i] # <<>>
  PROVE  Cardinality(Queued') = Cardinality(Queued) - 1
<1>1. <<c, i>> \in Queued
  BY DEF Queued
<1>2. Cardinality(Queued \ {<<c, i>>}) = Cardinality(Queued) - 1
  BY <1>1, Finite, FS_RemoveElement
<1>3. QED
  BY <1>2, QueuedAfter

(* What is queued depends on which queues are empty alone.                 *)
LEMMA SameQueues ==
  ASSUME \A c \in Card, i \in Idx : msgQ'[c][i] = <<>> <=> msgQ[c][i] = <<>>
  PROVE  Queued' = Queued
BY DEF Queued

LEMMA Emptied ==
  ASSUME \A c \in Card, i \in Idx : msgQ[c][i] = <<>>
  PROVE  Cardinality(Queued) = 0
<1>1. Queued = {}
  BY DEF Queued
<1>2. QED
  BY <1>1, FS_EmptySet

LEMMA NoneQueued ==
  [c \in Card |-> [i \in Idx |-> <<>>]] \in [Card -> [Idx -> Seq(Post)]]
BY EmptySeq

-----------------------------------------------------------------------------
LEMMA Initial == Init => PInv
<1> SUFFICES ASSUME Init PROVE PInv
  OBVIOUS
<1> USE DEF Init
<1>1. TypeOK
  <2>1. OldData \in Datagram /\ Packets \in Nat /\ 0 \in 0..MaxTries
    BY VxConstants DEF OldData, Datagram
  <2>2. [c \in Card |-> "none"] \in [Card -> {"none", "new", "old"}]
    OBVIOUS
  <2>3. QED
    BY <2>1, <2>2, Indices, NoneQueued DEF TypeOK, PCs
<1>2. Shut
  BY DEF Shut
<1>3. Cardinality(Queued) = 0
  BY <1>2, Emptied DEF Shut
<1>4. Senders = {} /\ Cardinality({}) = 0
  BY FS_EmptySet DEF Senders
<1>5. QED
  BY <1>1, <1>2, <1>3, <1>4, VxConstants DEF PInv, Total

(* ecx_setupnic finds nothing queued and queues nothing. *)
LEMMA SetupKeeps ==
  ASSUME PInv, NEW red \in {"none", "double"}, Setup(red)
  PROVE  PInv'
<1>. USE DEF PInv, Setup, ring, bufs, caller, NoFault, Fault, Goto
<1>1. TypeOK'
  BY Indices, VxConstants DEF TypeOK, PCs
<1>2. Shut'
  BY DEF TypeOK, Shut
<1>3. Total' = Total
  <2>1. Queued' = Queued
    BY SameQueues DEF TypeOK, Shut
  <2>2. QED
    BY <2>1 DEF Total, Senders
<1>4. QED
  BY <1>1, <1>2, <1>3

(* ecx_closenic takes what is queued back to the pool. *)
LEMMA CloseKeeps ==
  ASSUME PInv, Close
  PROVE  PInv'
<1>. USE DEF PInv, Close, ring, bufs, caller, NoFault, Fault, Goto
<1>1. TypeOK'
  <2>1. free' \in Nat
    BY Finite DEF TypeOK
  <2>2. QED
    BY <2>1, NoneQueued DEF TypeOK
<1>2. Shut'
  BY DEF TypeOK, Shut
<1>3. Total' = Total
  <2>1. Cardinality(Queued') = 0
    <3>1. \A c \in Card, i \in Idx : msgQ'[c][i] = <<>>
      OBVIOUS
    <3>2. Queued' = {}
      BY <3>1 DEF Queued
    <3>3. QED
      BY <3>2, FS_EmptySet
  <2>2. Senders' = Senders
    BY DEF Senders
  <2>3. QED
    BY <2>1, <2>2, Finite DEF Total, TypeOK
<1>4. QED
  BY <1>1, <1>2, <1>3

(* A lost frame is on the wire: its packet was freed when it was sent. *)
LEMMA LoseKeeps ==
  ASSUME PInv, NEW f \in wire, Lose(f)
  PROVE  PInv'
<1>. USE DEF PInv, Lose, ring, bufs, caller, NoFault, Fault, Goto
<1>1. TypeOK'
  BY VxConstants DEF TypeOK, PCs
<1>2. Shut'
  BY DEF TypeOK, Shut
<1>3. Total' = Total
  BY DEF Total, Queued, Senders
<1>4. QED
  BY <1>1, <1>2, <1>3

(* mux_rx_callback fills an empty queue with a packet of the pool, or      *)
(* frees the packet it replaces.                                           *)
LEMMA RxCallbackKeeps ==
  ASSUME PInv, NEW f \in wire, RxCallback(f)
  PROVE  PInv'
<1>. DEFINE c == Arrival(f)
            m == IF f.data = Dummy THEN Dummy
                 ELSE [f.data EXCEPT !.by = @ \cup Through(f.from)]
            q == <<[data |-> m, old |-> {}]>>
<1>. USE DEF PInv, ring, bufs, caller
<1>1. f \in Frame /\ f.idx \in Idx /\ f.from \in Card /\ f.data \in Datagram
  BY DEF TypeOK, Frame
<1>2. c \in Card
  BY <1>1 DEF Arrival, Card
<1>3. q \in Seq(Post) /\ q # <<>>
  <2>1. Through(f.from) \subseteq Group
    BY DEF Through, Group
  <2>2. m \in Datagram
    BY <1>1, <2>1 DEF Datagram, Dummy
  <2>3. [data |-> m, old |-> {}] \in Post
    BY <2>2 DEF Post
  <2>4. QED
    BY <2>3
<1>4. /\ wire' \subseteq Frame /\ faults' = faults /\ calm' \in [Caller -> BOOLEAN]
      /\ UNCHANGED <<ring, rxbufstat, rxbuf, lastidx, caller, txbuf>>
  BY DEF RxCallback, NoFault, TypeOK
<1>5. CASE free > 0 /\ Expected(c, f.idx)
  <2>1. msgQ' = [msgQ EXCEPT ![c][f.idx] = q]
    BY <1>5 DEF RxCallback
  <2>2. free' = IF msgQ[c][f.idx] = <<>> THEN free - 1 ELSE free
    BY <1>5 DEF RxCallback, Overrun
  <2>. HIDE DEF c, q
  <2>3. TypeOK'
    <3>1. msgQ' \in [Card -> [Idx -> Seq(Post)]]
      BY <1>1, <1>2, <1>3, <2>1 DEF TypeOK
    <3>2. free' \in Nat
      BY <1>5, <2>2 DEF TypeOK
    <3>3. QED
      BY <1>4, <3>1, <3>2 DEF TypeOK
  <2>4. Shut'
    BY <1>4, <1>5 DEF Shut, Expected
  <2>5. Total' = Total
    <3>1. Senders' = Senders
      BY <1>4 DEF Senders
    <3>2. CASE msgQ[c][f.idx] = <<>>
      <4>1. Cardinality(Queued') = Cardinality(Queued) + 1
        BY <1>1, <1>2, <1>3, <2>1, <3>2, Posted
      <4>2. QED
        BY <2>2, <3>1, <3>2, <4>1, Finite DEF Total, TypeOK
    <3>3. CASE msgQ[c][f.idx] # <<>>
      <4>1. Cardinality(Queued') = Cardinality(Queued)
        BY <1>1, <1>2, <1>3, <2>1, <3>3, Replaced
      <4>2. QED
        BY <2>2, <3>1, <3>3, <4>1 DEF Total
    <3>4. QED
      BY <3>2, <3>3
  <2>6. QED
    BY <2>3, <2>4, <2>5
<1>6. CASE ~(free > 0 /\ Expected(c, f.idx))
  <2>1. UNCHANGED <<msgQ, free>>
    BY <1>6 DEF RxCallback
  <2>2. QED
    BY <1>4, <2>1 DEF TypeOK, Shut, Total, Queued, Senders
<1>7. QED
  BY <1>5, <1>6

-----------------------------------------------------------------------------
(* A step of a caller in the middle of a call: the port is set up.         *)
LEMMA Calling ==
  ASSUME PInv, NEW t \in Caller, pc[t] # "idle", open' = open
  PROVE  Shut'
BY DEF PInv, Shut, TypeOK

(* A step by which no packet moves. *)
LEMMA Unmoved ==
  ASSUME PInv, NEW t \in Caller, NEW l, pc' = [pc EXCEPT ![t] = l],
         pc[t] # "send", l # "send", UNCHANGED <<msgQ, free>>
  PROVE  Total' = Total
<1>1. Senders' = Senders
  BY DEF PInv, TypeOK, Senders
<1>2. Queued' = Queued
  BY DEF Queued
<1>3. QED
  BY <1>1, <1>2 DEF Total

(* ecx_outframe marks the buffer. *)
LEMMA OutframeKeeps ==
  ASSUME PInv, NEW t \in Caller, Outframe(t)
  PROVE  PInv'
<1>. USE DEF PInv, Outframe, ring, bufs, caller, NoFault, Fault, Goto
<1>1. TypeOK'
  BY DEF TypeOK, PCs, Out, Card
<1>2. Shut'
  BY Calling
<1>3. Total' = Total
  BY Unmoved
<1>4. QED
  BY <1>1, <1>2, <1>3

(* The decisions of ecx_waitinframe_red and the retry of ecx_srconfirm. *)
LEMMA DecideNothingKeeps ==
  ASSUME PInv, NEW t \in Caller, DecideNothing(t)
  PROVE  PInv'
<1>. USE DEF PInv, DecideNothing, ring, bufs, caller, NoFault, Fault, Goto
<1>1. TypeOK'
  BY DEF TypeOK, PCs
<1>2. Shut'
  BY Calling
<1>3. Total' = Total
  BY Unmoved
<1>4. QED
  BY <1>1, <1>2, <1>3

LEMMA DecideCrossedKeeps ==
  ASSUME PInv, NEW t \in Caller, DecideCrossed(t)
  PROVE  PInv'
<1>. USE DEF PInv, DecideCrossed, ring, bufs, caller, NoFault, Fault, Goto
<1>1. TypeOK'
  BY DEF TypeOK, PCs, Card
<1>2. Shut'
  BY Calling
<1>3. Total' = Total
  BY Unmoved
<1>4. QED
  BY <1>1, <1>2, <1>3

LEMMA DecideTurnedKeeps ==
  ASSUME PInv, NEW t \in Caller, DecideTurned(t)
  PROVE  PInv'
<1>. USE DEF PInv, DecideTurned, ring, bufs, caller, NoFault, Fault, Goto
<1>1. TypeOK'
  <2>1. "prim" \in Card
    BY DEF Card
  <2>2. txbuf' \in [Idx -> Datagram]
    BY <2>1 DEF TypeOK
  <2>3. QED
    BY <2>2 DEF TypeOK, PCs
<1>2. Shut'
  BY Calling
<1>3. Total' = Total
  BY Unmoved
<1>4. QED
  BY <1>1, <1>2, <1>3

LEMMA ConfirmKeeps ==
  ASSUME PInv, NEW t \in Caller, Confirm(t)
  PROVE  PInv'
<1>. USE DEF PInv, Confirm, ring, bufs, caller, NoFault, Fault, Goto
<1>1. TypeOK'
  BY VxConstants DEF TypeOK, PCs
<1>2. Shut'
  BY Calling
<1>3. Total' = Total
  BY Unmoved
<1>4. QED
  BY <1>1, <1>2, <1>3

(* What comes after a frame is sent is not a send. *)
LEMMA SentTo ==
  ASSUME TypeOK, NEW t \in Caller, AfterSend(t)
  PROVE  /\ \E l \in PCs \ {"send"} : pc' = [pc EXCEPT ![t] = l]
         /\ pc' \in [Caller -> PCs]
         /\ sending' \in [Caller -> {"request", "dummy", "again"}]
<1>1. CASE sending[t] = "request" /\ redstate = "double"
  BY <1>1 DEF TypeOK, AfterSend, PCs
<1>2. CASE sending[t] = "again"
  BY <1>2 DEF TypeOK, AfterSend, PCs
<1>3. CASE sending[t] # "again" /\ ~(sending[t] = "request" /\ redstate = "double")
  BY <1>3 DEF TypeOK, AfterSend, PCs
<1>4. QED
  BY <1>1, <1>2, <1>3

(* The packet of an abandoned frame is used again. *)
LEMMA CleanKeeps ==
  ASSUME PInv, NEW t \in Caller, Clean(t)
  PROVE  PInv'
<1>. USE DEF PInv, Clean, ring, bufs, caller, NoFault, Fault, Goto
<1>1. TypeOK'
  <2>1. "prim" \in Card /\ <<>> \in Seq(Post)
    BY EmptySeq DEF Card
  <2>2. msgQ' \in [Card -> [Idx -> Seq(Post)]]
    BY <2>1 DEF TypeOK
  <2>3. QED
    BY <2>2 DEF TypeOK, PCs
<1>2. Shut'
  BY Calling
<1>3. Total' = Total
  <2>1. "prim" \in Card /\ idx[t] \in Idx
    BY DEF TypeOK, Card
  <2>2. Cardinality(Queued') = Cardinality(Queued) - 1
    BY <2>1, Taken DEF Abandoned
  <2>3. Cardinality(Senders') = Cardinality(Senders) + 1
    BY Begins
  <2>4. QED
    BY <2>2, <2>3, Finite DEF Total, TypeOK
<1>4. QED
  BY <1>1, <1>2, <1>3

(* Or one is taken from the pool. *)
LEMMA AllocateKeeps ==
  ASSUME PInv, NEW t \in Caller, Allocate(t)
  PROVE  PInv'
<1>. USE DEF PInv, Allocate, ring, bufs, caller, NoFault, Fault, Goto
<1>1. TypeOK'
  BY DEF TypeOK, PCs
<1>2. Shut'
  BY Calling
<1>3. Total' = Total
  <2>1. Queued' = Queued
    BY DEF Queued
  <2>2. Cardinality(Senders') = Cardinality(Senders) + 1
    BY Begins
  <2>3. QED
    BY <2>1, <2>2, Finite DEF Total, TypeOK
<1>4. QED
  BY <1>1, <1>2, <1>3

(* Or there is none. *)
LEMMA NoPacketKeeps ==
  ASSUME PInv, NEW t \in Caller, NoPacket(t)
  PROVE  PInv'
<1>. USE DEF PInv, NoPacket, ring, bufs, caller, NoFault, Fault, Goto
<1>1. TypeOK'
  <2>1. rxbufstat' \in [Card -> [Idx -> {"EMPTY", "ALLOC", "TX", "COMPLETE"}]]
    BY DEF TypeOK, NotSent
  <2>2. QED
    BY <2>1, SentTo DEF TypeOK
<1>2. Shut'
  BY Calling
<1>3. Total' = Total
  BY SentTo, Unmoved
<1>4. QED
  BY <1>1, <1>2, <1>3

(* The card frees a packet, sent or not. *)
LEMMA SendKeeps ==
  ASSUME PInv, NEW t \in Caller, Send(t)
  PROVE  PInv'
<1>. USE DEF PInv, Send, ring, bufs, caller, NoFault, Fault, Goto
<1>1. TypeOK'
  <2>1. /\ tries[t] \in 0..MaxTries /\ idx[t] \in Idx /\ Out(t) \in Card
        /\ txbuf[idx[t]] \in Datagram /\ Dummy \in Datagram
    BY DEF TypeOK, Out, Card, Dummy, Datagram
  <2>2. wire' \subseteq Frame
    BY <2>1 DEF TypeOK, Frame
  <2>3. pc' \in [Caller -> PCs] /\ sending' \in [Caller -> {"request", "dummy", "again"}]
    BY SentTo
  <2>4. QED
    BY <2>2, <2>3 DEF TypeOK
<1>2. Shut'
  BY Calling
<1>3. Total' = Total
  <2>1. Queued' = Queued
    BY DEF Queued
  <2>2. Cardinality(Senders') = Cardinality(Senders) - 1
    BY SentTo, Ends
  <2>3. QED
    BY <2>1, <2>2, Finite DEF Total, TypeOK
<1>4. QED
  BY <1>1, <1>2, <1>3

LEMMA SendFailsKeeps ==
  ASSUME PInv, NEW t \in Caller, SendFails(t)
  PROVE  PInv'
<1>. USE DEF PInv, SendFails, ring, bufs, caller, NoFault, Fault, Goto
<1>1. TypeOK'
  <2>1. rxbufstat' \in [Card -> [Idx -> {"EMPTY", "ALLOC", "TX", "COMPLETE"}]]
    BY DEF TypeOK, NotSent
  <2>2. faults' \in Nat /\ calm' \in [Caller -> BOOLEAN] /\ free' \in Int
    BY DEF TypeOK
  <2>3. QED
    BY <2>1, <2>2, SentTo DEF TypeOK
<1>2. Shut'
  BY Calling
<1>3. Total' = Total
  <2>1. Queued' = Queued
    BY DEF Queued
  <2>2. Cardinality(Senders') = Cardinality(Senders) - 1
    BY SentTo, Ends
  <2>3. QED
    BY <2>1, <2>2, Finite DEF Total, TypeOK
<1>4. QED
  BY <1>1, <1>2, <1>3

-----------------------------------------------------------------------------
(* A caller that waits for a card goes on to something else than a send.   *)
LEMMA Waiting ==
  ASSUME TypeOK, NEW t \in Caller, pc[t] \in DOMAIN Waits
  PROVE  /\ Waits[pc[t]] \in Card /\ pc[t] \in {"prim", "sec", "again"}
         /\ Received(t) \in PCs \ {"send"}
<1>1. DOMAIN Waits = {"prim", "sec", "again"}
  BY DEF Waits
<1>2. Waits[pc[t]] \in Card
  BY <1>1 DEF Waits, Card
<1>3. Received(t) \in PCs \ {"send"}
  BY <1>1 DEF Received, PCs
<1>4. QED
  BY <1>1, <1>2, <1>3

(* ecx_inframe gives the packet it takes from the queue back to the pool.  *)
LEMMA InframeKeeps ==
  ASSUME PInv, NEW t \in Caller, Inframe(t)
  PROVE  PInv'
<1>. DEFINE c == Waits[pc[t]]
            i == idx[t]
            q == msgQ[c][i]
            to == IF pc[t] = "again" THEN Card ELSE {c}
<1>. USE DEF PInv, ring, bufs, caller, Goto
<1>1. /\ c \in Card /\ i \in Idx /\ pc[t] \in {"prim", "sec", "again"}
      /\ Received(t) \in PCs \ {"send"}
  BY Waiting DEF Inframe, TypeOK
<1>2. q \in Seq(Post) /\ q # <<>> /\ q[1].data \in Datagram
  <2>1. q \in Seq(Post) /\ q # <<>>
    BY <1>1 DEF Inframe, TypeOK
  <2>2. q[1] \in Post
    BY <2>1, EmptySeq, ElementOfSeq
  <2>3. QED
    BY <2>1, <2>2 DEF Post
<1>3. /\ msgQ' = [msgQ EXCEPT ![c][i] = <<>>]
      /\ free' = free + 1
      /\ rxbufstat' = [rxbufstat EXCEPT ![c][i] = "COMPLETE"]
      /\ rxbuf' = [d \in Card |-> IF d \in to THEN [rxbuf[d] EXCEPT ![i] = q[1].data]
                                 ELSE rxbuf[d]]
      /\ wkc' = [wkc EXCEPT ![t] = [d \in Card |-> IF d \in to
                   THEN IF t \in q[1].old THEN "old" ELSE "new" ELSE @[d]]]
      /\ pc' = [pc EXCEPT ![t] = Received(t)]
      /\ UNCHANGED <<ring, lastidx, wire, idx, sending, tries, txbuf, faults, calm>>
  BY DEF Inframe, NoFault
<1>. HIDE DEF c, i, q, to
<1>4. TypeOK'
  <2>1. msgQ' \in [Card -> [Idx -> Seq(Post)]]
    BY <1>1, <1>3, EmptySeq DEF TypeOK
  <2>2. rxbuf' \in [Card -> [Idx -> Datagram]]
    BY <1>1, <1>2, <1>3 DEF TypeOK
  <2>3. wkc' \in [Caller -> [Card -> {"none", "new", "old"}]]
    BY <1>3 DEF TypeOK
  <2>4. rxbufstat' \in [Card -> [Idx -> {"EMPTY", "ALLOC", "TX", "COMPLETE"}]]
    BY <1>1, <1>3 DEF TypeOK
  <2>5. QED
    BY <1>1, <1>3, <2>1, <2>2, <2>3, <2>4 DEF TypeOK
<1>5. Shut'
  BY <1>1, <1>3, Calling
<1>6. Total' = Total
  <2>1. Cardinality(Queued') = Cardinality(Queued) - 1
    BY <1>1, <1>2, <1>3, Taken DEF q
  <2>2. Senders' = Senders
    BY <1>1, <1>3 DEF TypeOK, Senders
  <2>3. QED
    BY <1>3, <2>1, <2>2, Finite DEF Total, TypeOK
<1>7. QED
  BY <1>4, <1>5, <1>6

(* A wait that ends without a packet. *)
LEMMA TimesOutKeeps ==
  ASSUME PInv, NEW t \in Caller, TimesOut(t)
  PROVE  PInv'
<1>. USE DEF PInv, ring, bufs, caller, Goto
<1>1. pc[t] \in {"prim", "sec", "again"} /\ Received(t) \in PCs \ {"send"}
  BY Waiting DEF TimesOut
<1>2. /\ pc' = [pc EXCEPT ![t] = Received(t)]
      /\ UNCHANGED <<ring, bufs, lastidx, free, wire, idx, sending, tries, txbuf>>
  BY DEF TimesOut
<1>3. TypeOK'
  <2>1. faults' \in Nat /\ calm' \in [Caller -> BOOLEAN]
    <3>1. Fault \/ NoFault
      BY DEF TimesOut
    <3>2. CASE Fault
      BY <3>2 DEF Fault, TypeOK
    <3>3. CASE NoFault
      BY <3>3 DEF NoFault, TypeOK
    <3>4. QED
      BY <3>1, <3>2, <3>3
  <2>2. wkc' \in [Caller -> [Card -> {"none", "new", "old"}]]
    BY DEF TimesOut, TypeOK, Card
  <2>3. QED
    BY <1>1, <1>2, <2>1, <2>2 DEF TypeOK
<1>4. Shut'
  BY <1>1, <1>2, Calling
<1>5. Total' = Total
  BY <1>1, <1>2, Unmoved
<1>6. QED
  BY <1>3, <1>4, <1>5

-----------------------------------------------------------------------------
(* ecx_getindex notes what is in the queues of the index, and moves nothing. *)
LEMMA GetIndexKeeps ==
  ASSUME PInv, NEW t \in Caller, GetIndex(t)
  PROVE  PInv'
<1>. USE DEF PInv, ring, bufs, caller, Goto
<1>1. PICK i \in Idx :
        /\ idx' = [idx EXCEPT ![t] = i] /\ lastidx' = i
        /\ rxbufstat' = [rxbufstat EXCEPT !["prim"][i] = "ALLOC"]
        /\ txbuf' = [txbuf EXCEPT ![i] = [of |-> t, by |-> {}]]
        /\ msgQ' = [c \in Card |-> [msgQ[c] EXCEPT ![i] = Noted(t, @)]]
        /\ \E b \in BOOLEAN : calm' = [calm EXCEPT ![t] = b]
  BY DEF GetIndex
<1>2. /\ open /\ pc[t] = "idle" /\ pc' = [pc EXCEPT ![t] = "outframe"]
      /\ tries' = [tries EXCEPT ![t] = 1]
      /\ sending' = [sending EXCEPT ![t] = "request"]
      /\ wkc' = [wkc EXCEPT ![t] = [c \in Card |-> "none"]]
      /\ UNCHANGED <<ring, rxbuf, free, wire, faults>>
  BY DEF GetIndex
<1>3. \A c \in Card, j \in Idx :
        /\ msgQ'[c][j] \in Seq(Post)
        /\ msgQ'[c][j] = <<>> <=> msgQ[c][j] = <<>>
  <2> SUFFICES ASSUME NEW c \in Card, NEW j \in Idx
               PROVE  /\ msgQ'[c][j] \in Seq(Post)
                      /\ msgQ'[c][j] = <<>> <=> msgQ[c][j] = <<>>
    OBVIOUS
  <2>1. msgQ[c][j] \in Seq(Post)
    BY DEF TypeOK
  <2>2. CASE j # i \/ msgQ[c][j] = <<>>
    BY <1>1, <2>1, <2>2 DEF TypeOK, Noted
  <2>3. CASE j = i /\ msgQ[c][j] # <<>>
    <3>1. msgQ'[c][j] = Noted(t, msgQ[c][j])
      BY <1>1, <2>3 DEF TypeOK
    <3>2. msgQ[c][j][1] \in Post
      BY <2>1, <2>3, EmptySeq, ElementOfSeq
    <3>3. [msgQ[c][j][1] EXCEPT !.old = @ \cup {t}] \in Post
      BY <3>2 DEF Post
    <3>4. QED
      BY <2>3, <3>1, <3>3 DEF Noted
  <2>4. QED
    BY <2>2, <2>3
<1>4. TypeOK'
  <2>1. msgQ' \in [Card -> [Idx -> Seq(Post)]]
    <3>1. msgQ' = [c \in Card |-> [j \in Idx |-> msgQ'[c][j]]]
      BY <1>1 DEF TypeOK
    <3>2. QED
      BY <1>3, <3>1
  <2>2. txbuf' \in [Idx -> Datagram]
    BY <1>1 DEF TypeOK, Datagram
  <2>3. calm' \in [Caller -> BOOLEAN]
    BY <1>1 DEF TypeOK
  <2>4. wkc' \in [Caller -> [Card -> {"none", "new", "old"}]]
    BY <1>2 DEF TypeOK
  <2>5. rxbufstat' \in [Card -> [Idx -> {"EMPTY", "ALLOC", "TX", "COMPLETE"}]]
    BY <1>1 DEF TypeOK
  <2>6. /\ idx' \in [Caller -> Idx] /\ lastidx' \in Idx
        /\ tries' \in [Caller -> 0..MaxTries] /\ pc' \in [Caller -> PCs]
        /\ sending' \in [Caller -> {"request", "dummy", "again"}]
    <3>1. 1 \in 0..MaxTries
      BY VxConstants
    <3>2. tries' \in [Caller -> 0..MaxTries]
      BY <1>2, <3>1 DEF TypeOK
    <3>3. idx' \in [Caller -> Idx] /\ lastidx' \in Idx
      BY <1>1 DEF TypeOK
    <3>4. pc' \in [Caller -> PCs] /\ sending' \in [Caller -> {"request", "dummy", "again"}]
      BY <1>2 DEF TypeOK, PCs
    <3>5. QED
      BY <3>2, <3>3, <3>4
  <2>7. QED
    BY <1>2, <2>1, <2>2, <2>3, <2>4, <2>5, <2>6 DEF TypeOK
<1>5. Shut'
  BY <1>2 DEF Shut
<1>6. Total' = Total
  <2>1. Queued' = Queued
    BY <1>3, SameQueues
  <2>2. Senders' = Senders
    BY <1>2 DEF TypeOK, Senders
  <2>3. QED
    BY <1>2, <2>1, <2>2 DEF Total
<1>7. QED
  BY <1>4, <1>5, <1>6

(* A datagram that has aged is one, and what is queued ages in its place.  *)
LEMMA AgedData ==
  ASSUME NEW t \in Caller, NEW d \in Datagram
  PROVE  Aged(t, d) \in Datagram
BY DEF Aged, OldData, Datagram

LEMMA AgedQueue ==
  ASSUME NEW t \in Caller, NEW q \in Seq(Post), NEW r,
         r = [k \in DOMAIN q |-> [data |-> Aged(t, q[k].data), old |-> q[k].old \ {t}]]
  PROVE  r \in Seq(Post) /\ (r = <<>> <=> q = <<>>)
<1>1. Len(q) \in Nat /\ DOMAIN q = 1..Len(q)
  BY LenProperties
<1>2. \A k \in 1..Len(q) : r[k] \in Post
  <2> SUFFICES ASSUME NEW k \in 1..Len(q) PROVE r[k] \in Post
    OBVIOUS
  <2>1. q[k] \in Post
    BY ElementOfSeq
  <2>2. Aged(t, q[k].data) \in Datagram
    BY <2>1, AgedData DEF Post
  <2>3. QED
    BY <1>1, <2>1, <2>2 DEF Post
<1>3. r \in [1..Len(q) -> Post]
  BY <1>1, <1>2
<1>4. r \in Seq(Post) /\ Len(r) = Len(q)
  BY <1>1, <1>3, IsASeq, LenProperties
<1>5. QED
  BY <1>4, EmptySeq

(* ecx_setbufstat frees an index.  What is queued for it stays.            *)
LEMMA ReleaseKeeps ==
  ASSUME PInv, NEW t \in Caller, Release(t)
  PROVE  PInv'
<1>. USE DEF PInv, ring, bufs, caller, Goto
<1>1. pc[t] = "confirm" /\ pc' = [pc EXCEPT ![t] = "idle"]
  BY DEF Release
<1>2. UNCHANGED <<ring, lastidx, free, faults>>
  BY DEF Release
<1>3. \A c \in Card, i \in Idx :
        /\ msgQ'[c][i] \in Seq(Post)
        /\ msgQ'[c][i] = <<>> <=> msgQ[c][i] = <<>>
  <2> SUFFICES ASSUME NEW c \in Card, NEW i \in Idx
               PROVE  /\ msgQ'[c][i] \in Seq(Post)
                      /\ msgQ'[c][i] = <<>> <=> msgQ[c][i] = <<>>
    OBVIOUS
  <2>1. msgQ[c][i] \in Seq(Post)
    BY DEF TypeOK
  <2>2. msgQ'[c][i] = [k \in DOMAIN msgQ[c][i] |->
          [data |-> Aged(t, msgQ[c][i][k].data), old |-> msgQ[c][i][k].old \ {t}]]
    BY DEF Release
  <2>3. QED
    BY <2>1, <2>2, AgedQueue
<1>4. TypeOK'
  <2>1. msgQ' \in [Card -> [Idx -> Seq(Post)]]
    <3>1. msgQ' = [c \in Card |-> [i \in Idx |-> msgQ'[c][i]]]
      BY DEF Release
    <3>2. QED
      BY <1>3, <3>1
  <2>2. txbuf' \in [Idx -> Datagram]
    BY AgedData DEF Release, TypeOK
  <2>3. rxbuf' \in [Card -> [Idx -> Datagram]]
    <3>1. OldData \in Datagram
      BY DEF OldData, Datagram
    <3>2. \A c \in Card, i \in Idx : Aged(t, rxbuf[c][i]) \in Datagram
      BY AgedData DEF TypeOK
    <3>3. QED
      BY <3>1, <3>2 DEF Release
  <2>4. wire' \subseteq Frame
    <3>1. \A f \in wire : [f EXCEPT !.data = Aged(t, @),
                                    !.try = IF f.data.of = t THEN 0 ELSE @] \in Frame
      <4> SUFFICES ASSUME NEW f \in wire
                   PROVE  [f EXCEPT !.data = Aged(t, @),
                                    !.try = IF f.data.of = t THEN 0 ELSE @] \in Frame
        OBVIOUS
      <4>1. f \in Frame
        BY DEF TypeOK
      <4>2. Aged(t, f.data) \in Datagram
        BY <4>1, AgedData DEF Frame
      <4>3. 0 \in 0..MaxTries
        BY VxConstants
      <4>4. (IF f.data.of = t THEN 0 ELSE f.try) \in 0..MaxTries
        BY <4>1, <4>3 DEF Frame
      <4>. HIDE DEF PInv
      <4>5. QED
        BY <4>1, <4>2, <4>4 DEF Frame
    <3>2. QED
      BY <3>1 DEF Release
  <2>5. rxbufstat' \in [Card -> [Idx -> {"EMPTY", "ALLOC", "TX", "COMPLETE"}]]
    <3>1. \A c \in Card : rxbufstat'[c] \in [Idx -> {"EMPTY", "ALLOC", "TX", "COMPLETE"}]
      BY DEF Release, TypeOK
    <3>2. rxbufstat' = [c \in Card |-> rxbufstat'[c]]
      BY DEF Release
    <3>3. QED
      BY <3>1, <3>2
  <2>6. wkc' \in [Caller -> [Card -> {"none", "new", "old"}]]
    BY DEF Release, TypeOK
  <2>7. /\ idx' \in [Caller -> Idx] /\ tries' \in [Caller -> 0..MaxTries]
        /\ sending' \in [Caller -> {"request", "dummy", "again"}]
        /\ calm' \in [Caller -> BOOLEAN]
    <3>1. 0 \in 0..MaxTries
      BY VxConstants
    <3>2. idx' \in [Caller -> Idx] /\ tries' \in [Caller -> 0..MaxTries]
      BY <3>1, Indices DEF Release, TypeOK
    <3>3. sending' \in [Caller -> {"request", "dummy", "again"}]
      BY DEF Release, TypeOK
    <3>4. calm' \in [Caller -> BOOLEAN]
      BY DEF Release, TypeOK
    <3>5. QED
      BY <3>2, <3>3, <3>4
  <2>8. pc' \in [Caller -> PCs]
    BY <1>1 DEF TypeOK, PCs
  <2>9. QED
    BY <1>2, <2>1, <2>2, <2>3, <2>4, <2>5, <2>6, <2>7, <2>8 DEF TypeOK
<1>5. Shut'
  BY <1>1, <1>2, Calling
<1>6. Total' = Total
  <2>1. Queued' = Queued
    BY <1>3, SameQueues
  <2>2. Senders' = Senders
    BY <1>1 DEF TypeOK, Senders
  <2>3. QED
    BY <1>2, <2>1, <2>2 DEF Total
<1>7. QED
  BY <1>4, <1>5, <1>6

-----------------------------------------------------------------------------
LEMMA StepKeeps == PInv /\ [Next]_vars => PInv'
<1> SUFFICES ASSUME PInv, [Next]_vars PROVE PInv'
  OBVIOUS
<1>1. CASE \E red \in {"none", "double"} : Setup(red)
  BY <1>1, SetupKeeps
<1>2. CASE Close
  BY <1>2, CloseKeeps
<1>3. CASE \E f \in wire : RxCallback(f) \/ Lose(f)
  BY <1>3, RxCallbackKeeps, LoseKeeps
<1>4. CASE \E t \in Caller : CallerStep(t)
  <2>1. PICK t \in Caller : CallerStep(t)
    BY <1>4
  <2>2. CASE GetIndex(t) \/ Outframe(t) \/ Clean(t) \/ Allocate(t) \/ NoPacket(t)
    BY <2>2, GetIndexKeeps, OutframeKeeps, CleanKeeps, AllocateKeeps, NoPacketKeeps
  <2>3. CASE Send(t) \/ SendFails(t) \/ Inframe(t) \/ TimesOut(t)
    BY <2>3, SendKeeps, SendFailsKeeps, InframeKeeps, TimesOutKeeps
  <2>4. CASE \/ DecideCrossed(t) \/ DecideTurned(t) \/ DecideNothing(t)
             \/ Confirm(t) \/ Release(t)
    BY <2>4, DecideCrossedKeeps, DecideTurnedKeeps, DecideNothingKeeps, ConfirmKeeps,
       ReleaseKeeps
  <2>5. QED
    BY <2>1, <2>2, <2>3, <2>4 DEF CallerStep
<1>5. CASE UNCHANGED vars
  BY <1>5 DEF vars, ring, bufs, caller, PInv, TypeOK, Shut, Total, Queued, Senders
<1>6. QED
  BY <1>1, <1>2, <1>3, <1>4, <1>5 DEF Next

(* Every reachable state of the driver satisfies the invariant of packets. *)
THEOREM VxInductive == Spec => []PInv
BY Initial, StepKeeps, PTL DEF Spec

(* The state of the driver keeps its types: no index, no attempt and no    *)
(* status leaves its range, and a queue holds posts.                       *)
THEOREM VxTypeCorrect == Spec => []TypeOK
<1>1. PInv => TypeOK
  BY DEF PInv
<1>2. QED
  BY <1>1, VxInductive, PTL

(* No packet leaks and none is freed twice by the callback, the clean-up   *)
(* before a send, a send that fails, ecx_inframe or ecx_closenic, and a    *)
(* closed port has given all of them back.                                 *)
THEOREM PacketsAreKept == Spec => []PacketsKept
<1>1. PInv => PacketsKept
  <2> SUFFICES ASSUME PInv PROVE PacketsKept
    OBVIOUS
  <2>1. Total = Packets
    BY DEF PInv
  <2>2. ASSUME ~open PROVE free = Packets
    <3>1. Cardinality(Queued) = 0
      BY <2>2, Emptied DEF PInv, Shut
    <3>2. Senders = {}
      BY <2>2 DEF PInv, Shut, Senders
    <3>3. QED
      BY <2>1, <3>1, <3>2, FS_EmptySet DEF PInv, TypeOK, Total
  <2>3. QED
    BY <2>1, <2>2 DEF PacketsKept, Total, Senders
<1>2. QED
  BY <1>1, VxInductive, PTL

-----------------------------------------------------------------------------
(* The calls. *)
(* The queue of the primary card has been looked at, for this request.     *)
Cleaned(t) ==
  pc[t] # "idle" /\ ~(pc[t] \in {"outframe", "clean"} /\ sending[t] = "request")

(* With one card, nothing is done about the other; and what a caller sends *)
(* follows where it is.                                                    *)
Phases ==
  \A t \in Caller :
    /\ redstate = "none" \/ pc[t] = "idle" =>
         pc[t] \notin {"sec", "decide", "again"} /\ sending[t] = "request"
    /\ pc[t] \in {"prim", "sec", "decide"} => sending[t] # "again"
    /\ pc[t] = "again" => sending[t] = "again"

(* What is in the queue of the primary card once it was looked at is new,  *)
(* and so is what is taken from there.                                     *)
NoneOld(t) ==
  Cleaned(t) => \A k \in DOMAIN msgQ["prim"][idx[t]] :
                   t \notin msgQ["prim"][idx[t]][k].old
TookNew(t) ==
  redstate = "none" \/ pc[t] \in {"idle", "prim", "sec", "decide"}
    \/ (sending[t] # "again" /\ pc[t] \in {"outframe", "clean", "send"})
  => wkc[t]["prim"] # "old"
Fresh == \A t \in Caller : NoneOld(t) /\ TookNew(t)

-----------------------------------------------------------------------------
(* An index that is marked is somebody's.                                  *)
Marked == \A i \in Idx : ~Empty(i) => \E t \in Caller : pc[t] # "idle" /\ idx[t] = i

(* A calm call has its index for itself, and marked.                       *)
Exclusive ==
  \A t \in Caller : calm[t] =>
    /\ pc[t] # "idle" /\ ~Empty(idx[t])
    /\ \A u \in Caller \ {t} : pc[u] = "idle" \/ idx[u] # idx[t]

(* Data of the call itself, or of the frame that carries none.             *)
Own(t, d) == d.of \in {"dummy", t}

OwnQueue(t, c) ==
  \A k \in DOMAIN msgQ[c][idx[t]] : Own(t, msgQ[c][idx[t]][k].data)
Owned(t) ==
  /\ Own(t, txbuf[idx[t]])
  /\ \A f \in wire : f.idx = idx[t] => Own(t, f.data)
  /\ OwnQueue(t, "sec")
  /\ Cleaned(t) => OwnQueue(t, "prim")
  /\ \A c \in Card : wkc[t][c] # "none" => Own(t, rxbuf[c][idx[t]])
OwnOnly == \A t \in Caller : calm[t] => Owned(t)

(* With one card, the only frame of a calm call is on the wire, or has     *)
(* been posted, or taken.                                                  *)
Reached == IF broken THEN {"near"} ELSE Group
OnWire(t) ==
  \E f \in wire :
    /\ f.idx = idx[t] /\ f.from = "prim" /\ f.data = [of |-> t, by |-> {}]
    /\ \A g \in wire : g.idx = idx[t] => g = f
PostedOne(t) ==
  LET q == msgQ["prim"][idx[t]] IN
  q # <<>> /\ \A k \in DOMAIN q : q[k].data = [of |-> t, by |-> Reached]
Unsent(t) ==
  pc[t] \in {"outframe", "clean", "send"} =>
    (\A f \in wire : f.idx # idx[t]) /\ txbuf[idx[t]] = [of |-> t, by |-> {}]
Expecting(t) ==
  /\ pc[t] \in {"clean", "send", "prim"} => rxbufstat["prim"][idx[t]] = "TX"
  /\ pc[t] = "send" => msgQ["prim"][idx[t]] = <<>>
Away(t) ==
  pc[t] = "prim" =>
    \/ OnWire(t) /\ msgQ["prim"][idx[t]] = <<>>
    \/ PostedOne(t) /\ \A f \in wire : f.idx # idx[t]
Back(t) ==
  pc[t] = "confirm" =>
    wkc[t]["prim"] = "new" /\ rxbuf["prim"][idx[t]] = [of |-> t, by |-> Reached]
OnItsWay(t) == Unsent(t) /\ Expecting(t) /\ Away(t) /\ Back(t)
Journey == \A t \in Caller : calm[t] /\ redstate = "none" => OnItsWay(t)

CInv == Phases /\ Fresh /\ Marked /\ Exclusive /\ OwnOnly /\ Journey

-----------------------------------------------------------------------------
(* What heads a queue. *)
LEMMA First ==
  ASSUME TypeOK, NEW c \in Card, NEW i \in Idx, msgQ[c][i] # <<>>
  PROVE  1 \in DOMAIN msgQ[c][i] /\ msgQ[c][i][1] \in Post
BY DEF TypeOK

(* A calm call is on its way as before if nothing of it changes.           *)
LEMMA Bystander ==
  ASSUME NEW u \in Caller, OnItsWay(u), Reached' = Reached,
         pc'[u] = pc[u], idx'[u] = idx[u], wkc'[u]["prim"] = wkc[u]["prim"],
         txbuf'[idx[u]] = txbuf[idx[u]], rxbuf'["prim"][idx[u]] = rxbuf["prim"][idx[u]],
         rxbufstat'["prim"][idx[u]] = rxbufstat["prim"][idx[u]],
         msgQ'["prim"][idx[u]] = msgQ["prim"][idx[u]],
         \A f : f.idx = idx[u] => (f \in wire' <=> f \in wire)
  PROVE  OnItsWay(u)'
<1>1. Unsent(u)' /\ Expecting(u)' /\ Back(u)'
  BY DEF OnItsWay, Unsent, Expecting, Back
<1>2. OnWire(u) => OnWire(u)'
  BY DEF OnWire
<1>3. PostedOne(u) => PostedOne(u)'
  BY DEF PostedOne
<1>4. QED
  BY <1>1, <1>2, <1>3 DEF OnItsWay, Away

(* ecx_outframe expects the answer before it is sent.                      *)
LEMMA OutframeCalls ==
  ASSUME PInv, CInv, NEW t \in Caller, Outframe(t)
  PROVE  CInv'
<1>. USE DEF PInv, TypeOK, CInv, Outframe, ring, bufs, caller, NoFault, Fault,
             Goto, Card, Out
<1>1. Phases'
  BY DEF Phases
<1>2. Fresh'
  BY DEF Fresh, NoneOld, TookNew, Cleaned
<1>3. Marked'
  BY DEF Marked, Empty
<1>4. Exclusive'
  BY DEF Exclusive, Empty
<1>5. OwnOnly'
  BY DEF OwnOnly, Owned, OwnQueue, Own, Cleaned
<1>6. ASSUME NEW u \in Caller, calm'[u], redstate' = "none"
      PROVE  OnItsWay(u)'
  <2>1. /\ calm[u] /\ redstate = "none" /\ broken' = broken /\ idx'[u] = idx[u]
        /\ OnItsWay(u)
    BY <1>6 DEF Journey
  <2>2. Reached' = Reached
    BY <2>1 DEF Reached
  <2>3. CASE u # t
    <3>1. idx[t] # idx[u] /\ idx[u] \in Idx
      BY <2>1, <2>3 DEF Exclusive
    <3>2. \A f : f.idx = idx[u] => (f \in wire' <=> f \in wire)
      BY <3>1
    <3>3. QED
      BY <2>1, <2>2, <2>3, <3>1, <3>2, Bystander
  <2>4. CASE u = t
    BY <2>1, <2>2, <2>4 DEF OnItsWay, Unsent, Expecting, Away, OnWire, PostedOne, Back,
       Phases
  <2>5. QED
    BY <2>3, <2>4
<1>7. QED
  BY <1>1, <1>2, <1>3, <1>4, <1>5, <1>6 DEF Journey

(* What was abandoned in the primary queue goes.                           *)
LEMMA CleanCalls ==
  ASSUME PInv, CInv, NEW t \in Caller, Clean(t)
  PROVE  CInv'
<1>. USE DEF PInv, TypeOK, CInv, Clean, ring, bufs, caller, NoFault, Fault,
             Goto, Card, Abandoned
<1>1. Phases'
  BY DEF Phases
<1>2. Fresh'
  BY DEF Fresh, NoneOld, TookNew, Cleaned
<1>3. Marked'
  BY DEF Marked, Empty
<1>4. Exclusive'
  BY DEF Exclusive, Empty
<1>5. OwnOnly'
  BY DEF OwnOnly, Owned, OwnQueue, Own, Cleaned
<1>6. ASSUME NEW u \in Caller, calm'[u], redstate' = "none"
      PROVE  OnItsWay(u)'
  <2>1. /\ calm[u] /\ redstate = "none" /\ broken' = broken /\ idx'[u] = idx[u]
        /\ OnItsWay(u)
    BY <1>6 DEF Journey
  <2>2. Reached' = Reached
    BY <2>1 DEF Reached
  <2>3. CASE u # t
    <3>1. idx[t] # idx[u] /\ idx[u] \in Idx
      BY <2>1, <2>3 DEF Exclusive
    <3>2. \A f : f.idx = idx[u] => (f \in wire' <=> f \in wire)
      BY <3>1
    <3>3. QED
      BY <2>1, <2>2, <2>3, <3>1, <3>2, Bystander
  <2>4. CASE u = t
    BY <2>1, <2>2, <2>4 DEF OnItsWay, Unsent, Expecting, Away, OnWire, PostedOne, Back,
       Phases
  <2>5. QED
    BY <2>3, <2>4
<1>7. QED
  BY <1>1, <1>2, <1>3, <1>4, <1>5, <1>6 DEF Journey

(* Nothing was abandoned there.                                            *)
LEMMA AllocateCalls ==
  ASSUME PInv, CInv, NEW t \in Caller, Allocate(t)
  PROVE  CInv'
<1>. USE DEF PInv, TypeOK, CInv, Allocate, ring, bufs, caller, NoFault, Fault,
             Goto, Card, Abandoned
<1>1. Phases'
  BY DEF Phases
<1>2. Fresh'
  BY DEF Fresh, NoneOld, TookNew, Cleaned
<1>3. Marked'
  BY DEF Marked, Empty
<1>4. Exclusive'
  BY DEF Exclusive, Empty
<1>5. OwnOnly'
  BY DEF OwnOnly, Owned, OwnQueue, Own, Cleaned
<1>6. ASSUME NEW u \in Caller, calm'[u], redstate' = "none"
      PROVE  OnItsWay(u)'
  <2>1. /\ calm[u] /\ redstate = "none" /\ broken' = broken /\ idx'[u] = idx[u]
        /\ OnItsWay(u)
    BY <1>6 DEF Journey
  <2>2. Reached' = Reached
    BY <2>1 DEF Reached
  <2>3. CASE u # t
    <3>1. idx[t] # idx[u] /\ idx[u] \in Idx
      BY <2>1, <2>3 DEF Exclusive
    <3>2. \A f : f.idx = idx[u] => (f \in wire' <=> f \in wire)
      BY <3>1
    <3>3. QED
      BY <2>1, <2>2, <2>3, <3>1, <3>2, Bystander
  <2>4. CASE u = t
    BY <2>1, <2>2, <2>4 DEF OnItsWay, Unsent, Expecting, Away, OnWire, PostedOne, Back,
       Phases
  <2>5. QED
    BY <2>3, <2>4
<1>7. QED
  BY <1>1, <1>2, <1>3, <1>4, <1>5, <1>6 DEF Journey

(* The frame is not sent: the call is disturbed.                           *)
LEMMA NoPacketCalls ==
  ASSUME PInv, CInv, NEW t \in Caller, NoPacket(t)
  PROVE  CInv'
<1>. USE DEF PInv, TypeOK, CInv, NoPacket, ring, bufs, caller, NoFault, Fault,
             Goto, Card, AfterSend, NotSent, Out, Abandoned
<1>1. Phases'
  BY DEF Phases
<1>2. Fresh'
  BY DEF Fresh, NoneOld, TookNew, Cleaned
<1>3. Marked'
  BY DEF Marked, Empty
<1>4. Exclusive'
  BY DEF Exclusive, Empty
<1>5. OwnOnly'
  BY DEF OwnOnly, Owned, OwnQueue, Own, Cleaned
<1>6. ASSUME NEW u \in Caller, calm'[u], redstate' = "none"
      PROVE  OnItsWay(u)'
  <2>1. /\ calm[u] /\ redstate = "none" /\ broken' = broken /\ idx'[u] = idx[u]
        /\ OnItsWay(u)
    BY <1>6 DEF Journey
  <2>2. Reached' = Reached
    BY <2>1 DEF Reached
  <2>3. CASE u # t
    <3>1. idx[t] # idx[u] /\ idx[u] \in Idx
      BY <2>1, <2>3 DEF Exclusive
    <3>2. \A f : f.idx = idx[u] => (f \in wire' <=> f \in wire)
      BY <3>1
    <3>3. QED
      BY <2>1, <2>2, <2>3, <3>1, <3>2, Bystander
  <2>4. CASE u = t
    BY <1>6, <2>4
  <2>5. QED
    BY <2>3, <2>4
<1>7. QED
  BY <1>1, <1>2, <1>3, <1>4, <1>5, <1>6 DEF Journey

(* A caller's frame goes on the wire, the only one with its index there.   *)
LEMMA SendCalls ==
  ASSUME PInv, CInv, NEW t \in Caller, Send(t)
  PROVE  CInv'
<1>. USE DEF PInv, TypeOK, CInv, Send, ring, bufs, caller, NoFault, Fault,
             Goto, Card, AfterSend, Out
<1>1. Phases'
  BY DEF Phases
<1>2. Fresh'
  BY DEF Fresh, NoneOld, TookNew, Cleaned
<1>3. Marked'
  BY DEF Marked, Empty
<1>4. Exclusive'
  BY DEF Exclusive, Empty
<1>5. OwnOnly'
  <2> SUFFICES ASSUME NEW u \in Caller, calm[u] PROVE Owned(u)'
    BY DEF OwnOnly
  <2>1. Owned(u)
    BY DEF OwnOnly
  <2>2. ASSUME NEW f \in wire', f.idx = idx[u] PROVE Own(u, f.data)
    <3>1. CASE f \in wire
      BY <2>1, <2>2, <3>1 DEF Owned
    <3>2. CASE f \notin wire
      <4>1. f.idx = idx[t] /\ (f.data = Dummy \/ f.data = txbuf[idx[t]])
        BY <3>2
      <4>2. u = t
        BY <2>2, <4>1 DEF Exclusive
      <4>3. QED
        BY <2>1, <4>1, <4>2 DEF Owned, Own, Dummy
    <3>3. QED
      BY <3>1, <3>2
  <2>3. QED
    BY <2>1, <2>2 DEF Owned, OwnQueue, Own, Cleaned
<1>6. ASSUME NEW u \in Caller, calm'[u], redstate' = "none"
      PROVE  OnItsWay(u)'
  <2>1. /\ calm[u] /\ redstate = "none" /\ broken' = broken /\ idx'[u] = idx[u]
        /\ OnItsWay(u)
    BY <1>6 DEF Journey
  <2>2. Reached' = Reached
    BY <2>1 DEF Reached
  <2>3. CASE u # t
    <3>1. idx[t] # idx[u] /\ idx[u] \in Idx
      BY <2>1, <2>3 DEF Exclusive
    <3>2. \A f : f.idx = idx[u] => (f \in wire' <=> f \in wire)
      BY <3>1
    <3>3. QED
      BY <2>1, <2>2, <2>3, <3>1, <3>2, Bystander
  <2>4. CASE u = t
    <3>1. Unsent(u)' /\ Expecting(u)' /\ Back(u)'
      BY <2>1, <2>2, <2>4 DEF OnItsWay, Unsent, Expecting, Back, Phases
    <3>2. Away(u)'
      <4>1. sending[t] = "request" /\ msgQ["prim"][idx[t]] = <<>>
            /\ (\A f \in wire : f.idx # idx[t]) /\ txbuf[idx[t]] = [of |-> t, by |-> {}]
        BY <2>1, <2>4 DEF OnItsWay, Phases, Expecting, Unsent
      <4>2. PICK f : /\ wire' = wire \cup {f} /\ f.idx = idx[t] /\ f.from = "prim"
                     /\ f.data = txbuf[idx[t]]
        <5> DEFINE g == [idx |-> idx[t], from |-> Out(t), try |-> tries[t],
                         data |-> IF sending[t] = "dummy" THEN Dummy ELSE txbuf[idx[t]]]
        <5>1. g.idx = idx[t] /\ g.from = "prim" /\ g.data = txbuf[idx[t]]
          BY <4>1
        <5>2. wire' = wire \cup {g}
          OBVIOUS
        <5> HIDE DEF g
        <5>3. QED
          BY <5>1, <5>2
      <4>3. OnWire(t)'
        BY <4>1, <4>2 DEF OnWire
      <4>4. QED
        BY <2>4, <4>1, <4>3 DEF Away
    <3>3. QED
      BY <3>1, <3>2 DEF OnItsWay
  <2>5. QED
    BY <2>3, <2>4
<1>7. QED
  BY <1>1, <1>2, <1>3, <1>4, <1>5, <1>6 DEF Journey

(* The frame is not sent: every call is disturbed.                         *)
LEMMA SendFailsCalls ==
  ASSUME PInv, CInv, NEW t \in Caller, SendFails(t)
  PROVE  CInv'
<1>. USE DEF PInv, TypeOK, CInv, SendFails, ring, bufs, caller, NoFault, Fault,
             Goto, Card, AfterSend, NotSent, Out
<1>1. Phases'
  BY DEF Phases
<1>2. Fresh'
  BY DEF Fresh, NoneOld, TookNew, Cleaned
<1>3. Marked'
  BY DEF Marked, Empty
<1>4. Exclusive'
  BY DEF Exclusive, Empty
<1>5. OwnOnly'
  BY DEF OwnOnly, Owned, OwnQueue, Own, Cleaned
<1>6. Journey'
  BY DEF Journey
<1>7. QED
  BY <1>1, <1>2, <1>3, <1>4, <1>5, <1>6

(* What is taken from the queue of a calm call is its own, and new.        *)
LEMMA InframeCalls ==
  ASSUME PInv, CInv, NEW t \in Caller, Inframe(t)
  PROVE  CInv'
<1>. USE DEF PInv, TypeOK, CInv, Inframe, ring, bufs, caller, NoFault, Fault,
             Goto, Card, Waits, Received
<1>1. Phases'
  BY DEF Phases
<1>2. Fresh'
  <2> SUFFICES ASSUME NEW u \in Caller PROVE NoneOld(u)' /\ TookNew(u)'
    BY DEF Fresh
  <2>1. NoneOld(u) /\ TookNew(u)
    BY DEF Fresh
  <2>2. NoneOld(u)'
    BY <2>1 DEF NoneOld, Cleaned
  <2>3. TookNew(u)'
    <3>1. CASE u # t
      BY <2>1, <3>1 DEF TookNew
    <3>2. CASE u = t /\ pc[t] = "prim"
      <4>1. t \notin msgQ["prim"][idx[t]][1].old
        BY <2>1, <3>2, First DEF NoneOld, Cleaned
      <4>2. wkc'[t]["prim"] # "old"
        BY <3>2, <4>1
      <4>3. QED
        BY <3>2, <4>2 DEF TookNew
    <3>3. CASE u = t /\ pc[t] = "sec"
      BY <2>1, <3>3 DEF TookNew
    <3>4. CASE u = t /\ pc[t] = "again"
      BY <3>4 DEF TookNew, Phases
    <3>5. QED
      BY <3>1, <3>2, <3>3, <3>4
  <2>4. QED
    BY <2>2, <2>3
<1>3. Marked'
  BY DEF Marked, Empty
<1>4. Exclusive'
  BY DEF Exclusive, Empty
<1>5. OwnOnly'
  <2> SUFFICES ASSUME NEW u \in Caller, calm[u] PROVE Owned(u)'
    BY DEF OwnOnly
  <2>1. Owned(u)
    BY DEF OwnOnly
  <2>2. CASE u = t
    <3>1. PICK c \in Card : c = Waits[pc[t]] /\ (pc[t] = "prim" => c = "prim")
                            /\ (pc[t] # "prim" => c = "sec")
      OBVIOUS
    <3>2. Own(t, msgQ[c][idx[t]][1].data)
      BY <2>1, <2>2, <3>1, First DEF Owned, OwnQueue, Cleaned
    <3>3. \A d \in Card :
            \/ rxbuf'[d][idx[t]] = msgQ[c][idx[t]][1].data
            \/ rxbuf'[d][idx[t]] = rxbuf[d][idx[t]] /\ wkc'[t][d] = wkc[t][d]
      BY <3>1
    <3>4. \A d \in Card : wkc'[t][d] # "none" => Own(t, rxbuf'[d][idx[t]])
      BY <2>1, <2>2, <3>2, <3>3 DEF Owned
    <3>5. \A d \in Card : msgQ'[d][idx[t]] \in {<<>>, msgQ[d][idx[t]]}
      OBVIOUS
    <3>6. Cleaned(t)
      BY DEF Cleaned
    <3>7. OwnQueue(t, "sec")' /\ OwnQueue(t, "prim")'
      BY <2>1, <2>2, <3>5, <3>6 DEF Owned, OwnQueue
    <3>8. QED
      BY <2>1, <2>2, <3>4, <3>7 DEF Owned, Own
  <2>3. CASE u # t
    <3>1. idx[u] # idx[t] /\ idx[u] \in Idx
      BY <2>3 DEF Exclusive
    <3>2. \A d \in Card : rxbuf'[d][idx[u]] = rxbuf[d][idx[u]]
                          /\ msgQ'[d][idx[u]] = msgQ[d][idx[u]]
      BY <3>1
    <3>3. Cleaned(u)' <=> Cleaned(u)
      BY <2>3 DEF Cleaned
    <3>4. QED
      BY <2>1, <2>3, <3>1, <3>2, <3>3 DEF Owned, OwnQueue, Own
  <2>4. QED
    BY <2>2, <2>3
<1>6. ASSUME NEW u \in Caller, calm'[u], redstate' = "none"
      PROVE  OnItsWay(u)'
  <2>1. /\ calm[u] /\ redstate = "none" /\ broken' = broken /\ idx'[u] = idx[u]
        /\ OnItsWay(u)
    BY <1>6 DEF Journey
  <2>2. Reached' = Reached
    BY <2>1 DEF Reached
  <2>3. CASE u # t
    <3>1. idx[t] # idx[u] /\ idx[u] \in Idx
      BY <2>1, <2>3 DEF Exclusive
    <3>2. \A f : f.idx = idx[u] => (f \in wire' <=> f \in wire)
      BY <3>1
    <3>3. QED
      BY <2>1, <2>2, <2>3, <3>1, <3>2, Bystander
  <2>4. CASE u = t
    <3>1. Unsent(u)' /\ Expecting(u)' /\ Away(u)'
      BY <2>1, <2>2, <2>4 DEF OnItsWay, Unsent, Expecting, Away, OnWire, PostedOne, Phases
    <3>2. Back(u)'
      <4>1. /\ msgQ["prim"][idx[t]] # <<>> /\ pc[t] = "prim"
            /\ 1 \in DOMAIN msgQ["prim"][idx[t]]
        BY <2>1, <2>4, First DEF Phases
      <4>2. msgQ["prim"][idx[t]][1].data = [of |-> t, by |-> Reached]
        BY <2>1, <2>4, <4>1 DEF OnItsWay, Away, PostedOne
      <4>3. t \notin msgQ["prim"][idx[t]][1].old
        BY <4>1 DEF Fresh, NoneOld, Cleaned
      <4>4. QED
        BY <2>1, <2>2, <2>4, <4>1, <4>2, <4>3 DEF OnItsWay, Back
    <3>3. QED
      BY <3>1, <3>2 DEF OnItsWay
  <2>5. QED
    BY <2>3, <2>4
<1>7. QED
  BY <1>1, <1>2, <1>3, <1>4, <1>5, <1>6 DEF Journey

(* A calm call has an answer before the timer expires.                     *)
LEMMA TimesOutCalls ==
  ASSUME PInv, CInv, NEW t \in Caller, TimesOut(t)
  PROVE  CInv'
<1>. USE DEF PInv, TypeOK, CInv, TimesOut, ring, bufs, caller, NoFault, Fault,
             Goto, Card, Waits, Received
<1>1. Phases'
  BY DEF Phases
<1>2. Fresh'
  BY DEF Fresh, NoneOld, TookNew, Cleaned
<1>3. Marked'
  BY DEF Marked, Empty
<1>4. Exclusive'
  BY DEF Exclusive, Empty
<1>5. OwnOnly'
  BY DEF OwnOnly, Owned, OwnQueue, Own, Cleaned
<1>6. ASSUME NEW u \in Caller, calm'[u], redstate' = "none"
      PROVE  OnItsWay(u)'
  <2>1. /\ calm[u] /\ redstate = "none" /\ broken' = broken /\ idx'[u] = idx[u]
        /\ OnItsWay(u)
    BY <1>6 DEF Journey
  <2>2. Reached' = Reached
    BY <2>1 DEF Reached
  <2>3. CASE u # t
    <3>1. idx[t] # idx[u] /\ idx[u] \in Idx
      BY <2>1, <2>3 DEF Exclusive
    <3>2. \A f : f.idx = idx[u] => (f \in wire' <=> f \in wire)
      BY <3>1
    <3>3. QED
      BY <2>1, <2>2, <2>3, <3>1, <3>2, Bystander
  <2>4. CASE u = t
    <3>1. Unsent(u)' /\ Expecting(u)' /\ Away(u)'
      BY <2>1, <2>2, <2>4 DEF OnItsWay, Unsent, Expecting, Away, OnWire, PostedOne, Phases
    <3>2. Back(u)'
      <4>1. pc[t] = "prim" /\ msgQ["prim"][idx[t]] = <<>>
        BY <2>1, <2>4 DEF Phases
      <4>2. PICK f \in wire : f.idx = idx[t] /\ f.from = "prim"
        BY <2>1, <2>4, <4>1 DEF OnItsWay, Away, OnWire, PostedOne
      <4>3. Arrival(f) = "prim"
        BY <2>1, <4>2 DEF Arrival
      <4>4. calm'[t] = FALSE
        BY <4>1, <4>2, <4>3
      <4>5. QED
        BY <1>6, <2>4, <4>4
    <3>3. QED
      BY <3>1, <3>2 DEF OnItsWay
  <2>5. QED
    BY <2>3, <2>4
<1>7. QED
  BY <1>1, <1>2, <1>3, <1>4, <1>5, <1>6 DEF Journey

(* The two buffers are the caller's.                                       *)
LEMMA DecideCrossedCalls ==
  ASSUME PInv, CInv, NEW t \in Caller, DecideCrossed(t)
  PROVE  CInv'
<1>. USE DEF PInv, TypeOK, CInv, DecideCrossed, ring, bufs, caller, NoFault,
             Fault, Goto, Card, Crossed, Rx
<1>1. Phases'
  BY DEF Phases
<1>2. Fresh'
  <2> SUFFICES ASSUME NEW u \in Caller PROVE NoneOld(u)' /\ TookNew(u)'
    BY DEF Fresh
  <2>1. NoneOld(u) /\ TookNew(u)
    BY DEF Fresh
  <2>2. NoneOld(u)'
    BY <2>1 DEF NoneOld, Cleaned
  <2>3. TookNew(u)'
    <3>1. CASE u = t
      BY <3>1 DEF TookNew, Phases
    <3>2. CASE u # t
      BY <2>1, <3>2 DEF TookNew
    <3>3. QED
      BY <3>1, <3>2
  <2>4. QED
    BY <2>2, <2>3
<1>3. Marked'
  BY DEF Marked, Empty
<1>4. Exclusive'
  BY DEF Exclusive, Empty
<1>5. OwnOnly'
  <2> SUFFICES ASSUME NEW u \in Caller, calm[u] PROVE Owned(u)'
    BY DEF OwnOnly
  <2>1. Owned(u)
    BY DEF OwnOnly
  <2>2. CASE u = t
    <3>1. wkc[t]["sec"] # "none"
      OBVIOUS
    <3>2. Own(t, rxbuf["sec"][idx[t]])
      BY <2>1, <2>2, <3>1 DEF Owned
    <3>3. \A c \in Card : rxbuf'[c][idx[t]] \in {rxbuf[c][idx[t]], rxbuf["sec"][idx[t]]}
      OBVIOUS
    <3>4. \A c \in Card : wkc'[t][c] # "none" => Own(t, rxbuf'[c][idx[t]])
      BY <2>1, <2>2, <3>2, <3>3 DEF Owned
    <3>5. QED
      BY <2>1, <2>2, <3>4 DEF Owned, OwnQueue, Own, Cleaned
  <2>3. CASE u # t
    <3>1. idx[u] # idx[t]
      BY <2>3 DEF Exclusive
    <3>2. QED
      BY <2>1, <2>3, <3>1 DEF Owned, OwnQueue, Own, Cleaned
  <2>4. QED
    BY <2>2, <2>3
<1>6. ASSUME NEW u \in Caller, calm'[u], redstate' = "none"
      PROVE  OnItsWay(u)'
  <2>1. /\ calm[u] /\ redstate = "none" /\ broken' = broken /\ idx'[u] = idx[u]
        /\ OnItsWay(u)
    BY <1>6 DEF Journey
  <2>2. Reached' = Reached
    BY <2>1 DEF Reached
  <2>3. CASE u # t
    <3>1. idx[t] # idx[u] /\ idx[u] \in Idx
      BY <2>1, <2>3 DEF Exclusive
    <3>2. \A f : f.idx = idx[u] => (f \in wire' <=> f \in wire)
      BY <3>1
    <3>3. QED
      BY <2>1, <2>2, <2>3, <3>1, <3>2, Bystander
  <2>4. CASE u = t
    BY <2>1, <2>2, <2>4 DEF OnItsWay, Unsent, Expecting, Away, OnWire, PostedOne, Back,
       Phases
  <2>5. QED
    BY <2>3, <2>4
<1>7. QED
  BY <1>1, <1>2, <1>3, <1>4, <1>5, <1>6 DEF Journey

(* What is sent again came from there.                                     *)
LEMMA DecideTurnedCalls ==
  ASSUME PInv, CInv, NEW t \in Caller, DecideTurned(t)
  PROVE  CInv'
<1>. USE DEF PInv, TypeOK, CInv, DecideTurned, ring, bufs, caller, NoFault,
             Fault, Goto, Card, Turned, Rx
<1>1. Phases'
  BY DEF Phases
<1>2. Fresh'
  BY DEF Fresh, NoneOld, TookNew, Cleaned
<1>3. Marked'
  BY DEF Marked, Empty
<1>4. Exclusive'
  BY DEF Exclusive, Empty
<1>5. OwnOnly'
  <2> SUFFICES ASSUME NEW u \in Caller, calm[u] PROVE Owned(u)'
    BY DEF OwnOnly
  <2>1. Owned(u)
    BY DEF OwnOnly
  <2>2. Own(u, txbuf'[idx[u]])
    <3>1. CASE u = t
      BY <2>1, <3>1 DEF Owned
    <3>2. CASE u # t
      <4>1. idx[u] # idx[t]
        BY <3>2 DEF Exclusive
      <4>2. QED
        BY <2>1, <4>1 DEF Owned
    <3>3. QED
      BY <3>1, <3>2
  <2>3. QED
    BY <2>1, <2>2 DEF Owned, OwnQueue, Own, Cleaned
<1>6. ASSUME NEW u \in Caller, calm'[u], redstate' = "none"
      PROVE  OnItsWay(u)'
  <2>1. /\ calm[u] /\ redstate = "none" /\ broken' = broken /\ idx'[u] = idx[u]
        /\ OnItsWay(u)
    BY <1>6 DEF Journey
  <2>2. Reached' = Reached
    BY <2>1 DEF Reached
  <2>3. CASE u # t
    <3>1. idx[t] # idx[u] /\ idx[u] \in Idx
      BY <2>1, <2>3 DEF Exclusive
    <3>2. \A f : f.idx = idx[u] => (f \in wire' <=> f \in wire)
      BY <3>1
    <3>3. QED
      BY <2>1, <2>2, <2>3, <3>1, <3>2, Bystander
  <2>4. CASE u = t
    BY <2>1, <2>2, <2>4 DEF OnItsWay, Unsent, Expecting, Away, OnWire, PostedOne, Back,
       Phases
  <2>5. QED
    BY <2>3, <2>4
<1>7. QED
  BY <1>1, <1>2, <1>3, <1>4, <1>5, <1>6 DEF Journey

(* The call ends.                                                          *)
LEMMA DecideNothingCalls ==
  ASSUME PInv, CInv, NEW t \in Caller, DecideNothing(t)
  PROVE  CInv'
<1>. USE DEF PInv, TypeOK, CInv, DecideNothing, ring, bufs, caller, NoFault,
             Fault, Goto, Card
<1>1. Phases'
  BY DEF Phases
<1>2. Fresh'
  BY DEF Fresh, NoneOld, TookNew, Cleaned
<1>3. Marked'
  BY DEF Marked, Empty
<1>4. Exclusive'
  BY DEF Exclusive, Empty
<1>5. OwnOnly'
  BY DEF OwnOnly, Owned, OwnQueue, Own, Cleaned
<1>6. ASSUME NEW u \in Caller, calm'[u], redstate' = "none"
      PROVE  OnItsWay(u)'
  <2>1. /\ calm[u] /\ redstate = "none" /\ broken' = broken /\ idx'[u] = idx[u]
        /\ OnItsWay(u)
    BY <1>6 DEF Journey
  <2>2. Reached' = Reached
    BY <2>1 DEF Reached
  <2>3. CASE u # t
    <3>1. idx[t] # idx[u] /\ idx[u] \in Idx
      BY <2>1, <2>3 DEF Exclusive
    <3>2. \A f : f.idx = idx[u] => (f \in wire' <=> f \in wire)
      BY <3>1
    <3>3. QED
      BY <2>1, <2>2, <2>3, <3>1, <3>2, Bystander
  <2>4. CASE u = t
    BY <2>1, <2>2, <2>4 DEF OnItsWay, Unsent, Expecting, Away, OnWire, PostedOne, Back,
       Phases
  <2>5. QED
    BY <2>3, <2>4
<1>7. QED
  BY <1>1, <1>2, <1>3, <1>4, <1>5, <1>6 DEF Journey

(* A calm call on one card needs no second attempt.                        *)
LEMMA ConfirmCalls ==
  ASSUME PInv, CInv, NEW t \in Caller, Confirm(t)
  PROVE  CInv'
<1>. USE DEF PInv, TypeOK, CInv, Confirm, ring, bufs, caller, NoFault, Fault,
             Goto, Card
<1>1. Phases'
  BY DEF Phases
<1>2. Fresh'
  BY DEF Fresh, NoneOld, TookNew, Cleaned
<1>3. Marked'
  BY DEF Marked, Empty
<1>4. Exclusive'
  BY DEF Exclusive, Empty
<1>5. OwnOnly'
  BY DEF OwnOnly, Owned, OwnQueue, Own, Cleaned
<1>6. ASSUME NEW u \in Caller, calm'[u], redstate' = "none"
      PROVE  OnItsWay(u)'
  <2>1. /\ calm[u] /\ redstate = "none" /\ broken' = broken /\ idx'[u] = idx[u]
        /\ OnItsWay(u)
    BY <1>6 DEF Journey
  <2>2. Reached' = Reached
    BY <2>1 DEF Reached
  <2>3. CASE u # t
    <3>1. idx[t] # idx[u] /\ idx[u] \in Idx
      BY <2>1, <2>3 DEF Exclusive
    <3>2. \A f : f.idx = idx[u] => (f \in wire' <=> f \in wire)
      BY <3>1
    <3>3. QED
      BY <2>1, <2>2, <2>3, <3>1, <3>2, Bystander
  <2>4. CASE u = t
    <3>1. Expecting(u)' /\ Away(u)' /\ Back(u)'
      BY <2>1, <2>2, <2>4 DEF OnItsWay, Expecting, Away, OnWire, PostedOne, Back, Phases
    <3>2. Unsent(u)'
      <4>1. pc[t] = "confirm" /\ wkc[t]["prim"] # "new"
        OBVIOUS
      <4>2. QED
        BY <2>1, <2>4, <4>1 DEF OnItsWay, Back
    <3>3. QED
      BY <3>1, <3>2 DEF OnItsWay
  <2>5. QED
    BY <2>3, <2>4
<1>7. QED
  BY <1>1, <1>2, <1>3, <1>4, <1>5, <1>6 DEF Journey

(* A lost frame disturbs every call.                                       *)
LEMMA LoseCalls ==
  ASSUME PInv, CInv, NEW f \in wire, Lose(f)
  PROVE  CInv'
<1>. USE DEF PInv, TypeOK, CInv, Lose, ring, bufs, caller, NoFault, Fault,
             Goto, Card
<1>1. Phases'
  BY DEF Phases
<1>2. Fresh'
  BY DEF Fresh, NoneOld, TookNew, Cleaned
<1>3. Marked'
  BY DEF Marked, Empty
<1>4. Exclusive'
  BY DEF Exclusive, Empty
<1>5. OwnOnly'
  BY DEF OwnOnly, Owned, OwnQueue, Own, Cleaned
<1>6. Journey'
  BY DEF Journey, OnItsWay, Unsent, Expecting, Away, OnWire, PostedOne, Back, Reached
<1>7. QED
  BY <1>1, <1>2, <1>3, <1>4, <1>5, <1>6

(* Nobody uses a port that is closed,                                      *)
LEMMA CloseCalls ==
  ASSUME PInv, CInv, Close
  PROVE  CInv'
<1>. USE DEF PInv, TypeOK, CInv, Close, ring, bufs, caller, NoFault, Fault,
             Goto, Card
<1>1. Phases'
  BY DEF Phases
<1>2. Fresh'
  BY DEF Fresh, NoneOld, TookNew, Cleaned
<1>3. Marked'
  BY DEF Marked, Empty
<1>4. Exclusive'
  BY DEF Exclusive, Empty
<1>5. OwnOnly'
  BY DEF OwnOnly, Owned, OwnQueue, Own, Cleaned
<1>6. Journey'
  BY DEF Journey, OnItsWay, Unsent, Expecting, Away, OnWire, PostedOne, Back, Reached
<1>7. QED
  BY <1>1, <1>2, <1>3, <1>4, <1>5, <1>6

(* or one that is set up.                                                  *)
LEMMA SetupCalls ==
  ASSUME PInv, CInv, NEW red \in {"none", "double"}, Setup(red)
  PROVE  CInv'
<1>. USE DEF PInv, TypeOK, CInv, Setup, ring, bufs, caller, NoFault, Fault,
             Goto, Card
<1>0. /\ \A t \in Caller : pc[t] = "idle" /\ ~calm[t] /\ pc'[t] = "idle" /\ ~calm'[t]
      /\ \A t \in Caller : wkc'[t] = wkc[t] /\ sending'[t] = sending[t]
  BY DEF Shut, Exclusive
<1>1. Phases'
  BY <1>0 DEF Phases
<1>2. Fresh'
  BY <1>0 DEF Phases, Fresh, NoneOld, TookNew, Cleaned
<1>3. Marked'
  BY DEF Marked, Empty
<1>4. Exclusive'
  BY <1>0 DEF Exclusive
<1>5. OwnOnly'
  BY <1>0 DEF OwnOnly
<1>6. Journey'
  BY <1>0 DEF Journey
<1>7. QED
  BY <1>1, <1>2, <1>3, <1>4, <1>5, <1>6

(* While a caller is idle there is an index that is not marked: there are  *)
(* fewer users than indices.                                               *)
LEMMA Room ==
  ASSUME TypeOK, Marked, Cardinality(Caller) <= NBuf, NEW t \in Caller, pc[t] = "idle"
  PROVE  \E i \in Idx : Empty(i)
<1> SUFFICES ASSUME \A i \in Idx : ~Empty(i) PROVE FALSE
  OBVIOUS
<1>1. \A i \in Idx : \E u \in Caller \ {t} : idx[u] = i
  BY DEF Marked
<1> DEFINE user == [i \in Idx |-> CHOOSE u \in Caller \ {t} : idx[u] = i]
<1>2. \A i \in Idx : user[i] \in Caller \ {t} /\ idx[user[i]] = i
  BY <1>1
<1>3. user \in [Idx -> Caller \ {t}]
  BY <1>2
<1> HIDE DEF user
<1>4. \A i, j \in Idx : user[i] = user[j] => i = j
  BY <1>2
<1>5. user \in Injection(Idx, Caller \ {t})
  BY <1>3, <1>4 DEF Injection, IsInjective
<1>6. /\ IsFiniteSet(Caller \ {t})
      /\ Cardinality(Caller \ {t}) = Cardinality(Caller) - 1 /\ Cardinality(Caller) \in Nat
  BY FS_RemoveElement, FS_CardinalityType, VxConstants
<1>7. Cardinality(Idx) = NBuf
  <2>1. NBuf - 1 \in Int /\ NBuf - 1 >= 0 /\ (NBuf - 1) - 0 + 1 = NBuf
    BY VxConstants
  <2>2. QED
    BY <2>1, FS_Interval DEF Idx
<1>8. Cardinality(Idx) <= Cardinality(Caller \ {t})
  BY <1>5, <1>6, FS_Injection
<1>9. QED
  BY <1>6, <1>7, <1>8, VxConstants

(* So that ecx_getindex finds one. *)
LEMMA Found ==
  ASSUME TypeOK, Marked, Cardinality(Caller) <= NBuf, NEW t \in Caller, pc[t] = "idle",
         NEW i \in Idx, NextIndex(i)
  PROVE  Empty(i)
BY Room DEF NextIndex

(* What a caller's index brings with it: the posts are as they were, but   *)
(* for whom they are old.                                                  *)
LEMMA NotedIs ==
  ASSUME NEW t \in Caller, NEW q \in Seq(Post), NEW k \in DOMAIN Noted(t, q)
  PROVE  /\ k \in DOMAIN q /\ Noted(t, q)[k].data = q[k].data
         /\ Noted(t, q)[k].old = q[k].old \cup {t}
<1>1. q # <<>> /\ k = 1 /\ Noted(t, q) = <<[q[1] EXCEPT !.old = @ \cup {t}]>>
  <2>1. CASE q = <<>>
    <3>1. Noted(t, q) = <<>>
      BY <2>1 DEF Noted
    <3>2. QED
      BY <3>1
  <2>2. CASE q # <<>>
    <3>1. Noted(t, q) = <<[q[1] EXCEPT !.old = @ \cup {t}]>>
      BY <2>2 DEF Noted
    <3> DEFINE e == [q[1] EXCEPT !.old = @ \cup {t}]
    <3>2. k \in DOMAIN <<e>>
      BY <3>1
    <3> HIDE DEF e
    <3>3. k = 1
      BY <3>2
    <3>4. QED
      BY <2>2, <3>1, <3>3 DEF e
  <2>3. QED
    BY <2>1, <2>2
<1>2. 1 \in DOMAIN q /\ q[1] \in Post
  BY <1>1
<1>3. QED
  BY <1>1, <1>2 DEF Post

LEMMA GetIndexCalls ==
  ASSUME PInv, CInv, Cardinality(Caller) <= NBuf, NEW t \in Caller, GetIndex(t)
  PROVE  CInv'
<1>. USE DEF PInv, CInv
<1>1. PICK i \in Idx :
        /\ NextIndex(i) /\ idx' = [idx EXCEPT ![t] = i]
        /\ rxbufstat' = [rxbufstat EXCEPT !["prim"][i] = "ALLOC"]
        /\ txbuf' = [txbuf EXCEPT ![i] = [of |-> t, by |-> {}]]
        /\ msgQ' = [c \in Card |-> [msgQ[c] EXCEPT ![i] = Noted(t, @)]]
        /\ calm' = [calm EXCEPT ![t] =
                      /\ (\A f \in wire : f.idx # i) /\ msgQ["sec"][i] = <<>>
                      /\ \A u \in Caller : pc[u] # "idle" /\ idx[u] = i => calm[u]]
  BY DEF GetIndex
<1>2. /\ pc[t] = "idle" /\ pc' = [pc EXCEPT ![t] = "outframe"]
      /\ sending' = [sending EXCEPT ![t] = "request"]
      /\ wkc' = [wkc EXCEPT ![t] = [c \in Card |-> "none"]]
      /\ UNCHANGED <<open, redstate, broken, rxbuf, wire>>
  BY DEF GetIndex, Goto, ring
<1>3. Empty(i)
  BY <1>1, <1>2, Found
<1>4. \A u \in Caller : calm[u] => u # t /\ idx[u] # i /\ pc[u] # "idle"
  BY <1>2, <1>3 DEF Exclusive
<1>5. \A u \in Caller \ {t} :
        /\ pc'[u] = pc[u] /\ idx'[u] = idx[u] /\ sending'[u] = sending[u]
        /\ wkc'[u] = wkc[u] /\ calm'[u] = calm[u]
  BY <1>1, <1>2 DEF TypeOK
<1>6. /\ pc'[t] = "outframe" /\ idx'[t] = i /\ sending'[t] = "request"
      /\ \A c \in Card : wkc'[t][c] = "none"
      /\ calm'[t] => /\ \A f \in wire : f.idx # i
                     /\ msgQ["sec"][i] = <<>>
                     /\ \A u \in Caller \ {t} : pc[u] = "idle" \/ idx[u] # i
  BY <1>1, <1>2, <1>4 DEF TypeOK
<1>7. \A c \in Card, j \in Idx :
        /\ msgQ'[c][j] = IF j = i THEN Noted(t, msgQ[c][j]) ELSE msgQ[c][j]
        /\ msgQ[c][j] \in Seq(Post)
  BY <1>1 DEF TypeOK
<1>8. /\ txbuf'[i] = [of |-> t, by |-> {}]
      /\ \A j \in Idx \ {i} : txbuf'[j] = txbuf[j]
      /\ \A c \in Card, j \in Idx :
           rxbufstat'[c][j] = IF c = "prim" /\ j = i THEN "ALLOC" ELSE rxbufstat[c][j]
  BY <1>1 DEF TypeOK
<1>9. \A u \in Caller : idx[u] \in Idx /\ idx'[u] \in Idx
  BY <1>1 DEF TypeOK
<1>10. "prim" \in Card /\ "sec" \in Card
  BY DEF Card
<1>11. Phases'
  BY <1>2, <1>5, <1>6 DEF Phases
<1>12. Fresh'
  <2> SUFFICES ASSUME NEW u \in Caller PROVE NoneOld(u)' /\ TookNew(u)'
    BY DEF Fresh
  <2>1. CASE u = t
    BY <1>6, <1>10, <2>1 DEF NoneOld, TookNew, Cleaned
  <2>2. CASE u # t
    <3>1. TookNew(u)'
      BY <1>2, <1>5, <2>2 DEF Fresh, TookNew
    <3>2. ASSUME Cleaned(u)', NEW k \in DOMAIN msgQ'["prim"][idx[u]]
          PROVE  u \notin msgQ'["prim"][idx[u]][k].old
      <4>1. \A l \in DOMAIN msgQ["prim"][idx[u]] : u \notin msgQ["prim"][idx[u]][l].old
        BY <1>5, <2>2, <3>2 DEF Fresh, NoneOld, Cleaned
      <4>2. CASE idx[u] = i
        <5>1. msgQ'["prim"][i] = Noted(t, msgQ["prim"][i]) /\ msgQ["prim"][i] \in Seq(Post)
          BY <1>7, <1>10
        <5>2. k \in DOMAIN msgQ["prim"][i]
              /\ msgQ'["prim"][i][k].old = msgQ["prim"][i][k].old \cup {t}
          BY <3>2, <4>2, <5>1, NotedIs
        <5>3. QED
          BY <2>2, <4>1, <4>2, <5>2
      <4>3. CASE idx[u] # i
        BY <1>7, <1>9, <1>10, <3>2, <4>1, <4>3
      <4>4. QED
        BY <4>2, <4>3
    <3>3. QED
      BY <1>5, <2>2, <3>1, <3>2 DEF NoneOld
  <2>3. QED
    BY <2>1, <2>2
<1>13. Marked'
  BY <1>2, <1>5, <1>6, <1>8, <1>10 DEF Marked, Empty
<1>14. Exclusive'
  <2> SUFFICES ASSUME NEW u \in Caller, calm'[u]
               PROVE  /\ pc'[u] # "idle" /\ ~Empty(idx[u])'
                      /\ \A v \in Caller \ {u} : pc'[v] = "idle" \/ idx'[v] # idx'[u]
    BY DEF Exclusive
  <2>1. CASE u = t
    BY <1>5, <1>6, <1>8, <1>10, <2>1 DEF Empty
  <2>2. CASE u # t
    BY <1>4, <1>5, <1>6, <1>8, <1>9, <1>10, <2>2 DEF Exclusive, Empty
  <2>3. QED
    BY <2>1, <2>2
<1>15. OwnOnly'
  <2> SUFFICES ASSUME NEW u \in Caller, calm'[u] PROVE Owned(u)'
    BY DEF OwnOnly
  <2>1. CASE u = t
    <3>1. msgQ'["sec"][i] = <<>>
      BY <1>6, <1>7, <1>10, <2>1 DEF Noted
    <3>2. QED
      BY <1>2, <1>6, <1>8, <2>1, <3>1 DEF Owned, OwnQueue, Own, Cleaned
  <2>2. CASE u # t
    <3>1. Owned(u) /\ idx[u] \in Idx \ {i}
      BY <1>4, <1>5, <1>9, <2>2 DEF OwnOnly
    <3>2. QED
      BY <1>2, <1>5, <1>7, <1>8, <1>10, <2>2, <3>1 DEF Owned, OwnQueue, Own, Cleaned
  <2>3. QED
    BY <2>1, <2>2
<1>16. Journey'
  <2> SUFFICES ASSUME NEW u \in Caller, calm'[u], redstate' = "none"
               PROVE  OnItsWay(u)'
    BY DEF Journey
  <2>1. CASE u = t
    BY <1>2, <1>6, <1>8, <2>1 DEF OnItsWay, Unsent, Expecting, Away, Back
  <2>2. CASE u # t
    <3>1. OnItsWay(u) /\ idx[u] \in Idx \ {i} /\ Reached' = Reached
      BY <1>2, <1>4, <1>5, <1>9, <2>2 DEF Journey, Reached
    <3>2. msgQ'["prim"][idx[u]] = msgQ["prim"][idx[u]]
      BY <1>7, <1>10, <3>1
    <3>3. QED
      BY <1>2, <1>5, <1>8, <1>10, <2>2, <3>1, <3>2, Bystander
  <2>3. QED
    BY <2>1, <2>2
<1>17. QED
  BY <1>11, <1>12, <1>13, <1>14, <1>15, <1>16

(* ecx_setbufstat ages what is left of the caller's own request only.      *)
LEMMA AgedOthers ==
  ASSUME NEW t \in Caller, NEW u \in Caller, u # t, NEW d, Own(u, d)
  PROVE  Aged(t, d) = d
BY VxConstants DEF Aged, Own

LEMMA ReleaseCalls ==
  ASSUME PInv, CInv, NEW t \in Caller, Release(t)
  PROVE  CInv'
<1>. USE DEF PInv, CInv
<1>1. /\ pc[t] = "confirm" /\ pc' = [pc EXCEPT ![t] = "idle"]
      /\ idx' = [idx EXCEPT ![t] = 0] /\ sending' = [sending EXCEPT ![t] = "request"]
      /\ wkc' = [wkc EXCEPT ![t] = [c \in Card |-> "none"]]
      /\ calm' = [calm EXCEPT ![t] = FALSE]
      /\ txbuf' = [i \in Idx |-> Aged(t, txbuf[i])]
      /\ UNCHANGED <<open, redstate, broken>>
  BY DEF Release, Goto, ring
<1>2. /\ pc'[t] = "idle" /\ sending'[t] = "request" /\ ~calm'[t]
      /\ \A c \in Card : wkc'[t][c] = "none"
  BY <1>1 DEF TypeOK
<1>3. \A u \in Caller \ {t} :
        /\ pc'[u] = pc[u] /\ idx'[u] = idx[u] /\ sending'[u] = sending[u]
        /\ wkc'[u] = wkc[u] /\ calm'[u] = calm[u]
  BY <1>1 DEF TypeOK
<1>4. \A c \in Card, j \in Idx :
        /\ DOMAIN msgQ'[c][j] = DOMAIN msgQ[c][j]
        /\ msgQ'[c][j] = <<>> <=> msgQ[c][j] = <<>>
        /\ \A k \in DOMAIN msgQ[c][j] :
             /\ msgQ'[c][j][k].data = Aged(t, msgQ[c][j][k].data)
             /\ msgQ'[c][j][k].old = msgQ[c][j][k].old \ {t}
  <2> SUFFICES ASSUME NEW c \in Card, NEW j \in Idx
               PROVE  /\ DOMAIN msgQ'[c][j] = DOMAIN msgQ[c][j]
                      /\ msgQ'[c][j] = <<>> <=> msgQ[c][j] = <<>>
                      /\ \A k \in DOMAIN msgQ[c][j] :
                           /\ msgQ'[c][j][k].data = Aged(t, msgQ[c][j][k].data)
                           /\ msgQ'[c][j][k].old = msgQ[c][j][k].old \ {t}
    OBVIOUS
  <2>1. msgQ[c][j] \in Seq(Post)
    BY DEF TypeOK
  <2> DEFINE q == msgQ[c][j]
  <2>2. msgQ'[c][j] = [k \in DOMAIN q |-> [data |-> Aged(t, q[k].data),
                                          old |-> q[k].old \ {t}]]
    BY DEF Release
  <2> HIDE DEF q
  <2>3. msgQ'[c][j] = <<>> <=> q = <<>>
    BY <2>1, <2>2, AgedQueue DEF q
  <2>4. QED
    BY <2>2, <2>3 DEF q
<1>5. \A u \in Caller : calm'[u] => u # t /\ calm[u] /\ idx'[u] = idx[u] /\ pc'[u] = pc[u]
                                   /\ idx[u] # idx[t] /\ idx[u] \in Idx
  BY <1>1, <1>2, <1>3 DEF Exclusive, TypeOK
<1>6. \A c \in Card, j \in Idx :
        /\ rxbufstat'[c][j] \in {rxbufstat[c][j], "EMPTY"}
        /\ j # idx[t] => rxbufstat'[c][j] = rxbufstat[c][j]
                         /\ rxbuf'[c][j] = Aged(t, rxbuf[c][j])
        /\ txbuf'[j] = Aged(t, txbuf[j])
  BY DEF Release, TypeOK
<1>7. wire' = {[f EXCEPT !.data = Aged(t, @), !.try = IF f.data.of = t THEN 0 ELSE @] :
                 f \in wire}
  BY DEF Release
<1>8. ASSUME NEW u \in Caller, calm'[u]
      PROVE  \A f : f \in wire' /\ f.idx = idx[u] <=> f \in wire /\ f.idx = idx[u]
  <2>1. u # t /\ \A f \in wire : f.idx = idx[u] => Own(u, f.data)
    BY <1>5, <1>8 DEF OwnOnly, Owned
  <2>2. ASSUME NEW f \in wire
        PROVE  LET g == [f EXCEPT !.data = Aged(t, @),
                                  !.try = IF f.data.of = t THEN 0 ELSE @] IN
               g.idx = f.idx /\ (f.idx = idx[u] => g = f)
    <3>1. f \in Frame
      BY DEF TypeOK
    <3>2. CASE f.idx = idx[u]
      <4>1. Aged(t, f.data) = f.data /\ f.data.of # t
        BY <2>1, <3>2, AgedOthers, VxConstants DEF Own
      <4>2. QED
        BY <3>1, <4>1 DEF Frame
    <3>3. CASE f.idx # idx[u]
      BY <3>1, <3>3 DEF Frame
    <3>4. QED
      BY <3>2, <3>3
  <2>3. ASSUME NEW f \in wire', f.idx = idx[u] PROVE f \in wire
    <3>1. PICK h \in wire : f = [h EXCEPT !.data = Aged(t, @),
                                          !.try = IF h.data.of = t THEN 0 ELSE @]
      BY <1>7, <2>3
    <3>2. QED
      BY <2>2, <2>3, <3>1
  <2>4. ASSUME NEW f \in wire, f.idx = idx[u] PROVE f \in wire'
    BY <1>7, <2>2, <2>4
  <2>5. QED
    BY <2>3, <2>4
<1>9. "prim" \in Card /\ "sec" \in Card
  BY DEF Card
<1>10. Phases'
  BY <1>1, <1>2, <1>3 DEF Phases
<1>11. Fresh'
  <2> SUFFICES ASSUME NEW u \in Caller PROVE NoneOld(u)' /\ TookNew(u)'
    BY DEF Fresh
  <2>1. CASE u = t
    BY <1>2, <1>9, <2>1 DEF NoneOld, TookNew, Cleaned
  <2>2. CASE u # t
    <3>1. idx[u] \in Idx /\ NoneOld(u) /\ TookNew(u)
      BY DEF Fresh, TypeOK
    <3>2. QED
      BY <1>1, <1>3, <1>4, <1>9, <2>2, <3>1 DEF NoneOld, TookNew, Cleaned
  <2>3. QED
    BY <2>1, <2>2
<1>12. Marked'
  <2> SUFFICES ASSUME NEW i \in Idx, ~Empty(i)'
               PROVE  \E u \in Caller : pc'[u] # "idle" /\ idx'[u] = i
    BY DEF Marked
  <2>1. rxbufstat'["prim"][idx[t]] = "EMPTY"
    BY <1>9 DEF Release, TypeOK
  <2>2. i # idx[t] /\ ~Empty(i)
    BY <1>6, <1>9, <2>1 DEF Empty
  <2>3. PICK u \in Caller : pc[u] # "idle" /\ idx[u] = i
    BY <2>2 DEF Marked
  <2>4. QED
    BY <1>3, <2>2, <2>3
<1>13. Exclusive'
  <2> SUFFICES ASSUME NEW u \in Caller, calm'[u]
               PROVE  /\ pc'[u] # "idle" /\ ~Empty(idx[u])'
                      /\ \A v \in Caller \ {u} : pc'[v] = "idle" \/ idx'[v] # idx'[u]
    BY DEF Exclusive
  <2>1. /\ pc[u] # "idle" /\ ~Empty(idx[u])
        /\ \A v \in Caller \ {u} : pc[v] = "idle" \/ idx[v] # idx[u]
    BY <1>5 DEF Exclusive
  <2>2. ~Empty(idx[u])'
    BY <1>5, <1>6, <1>9, <2>1 DEF Empty
  <2>3. \A v \in Caller \ {u} : pc'[v] = "idle" \/ idx'[v] # idx'[u]
    BY <1>2, <1>3, <1>5, <2>1
  <2>4. QED
    BY <1>5, <2>1, <2>2, <2>3
<1>14. OwnOnly'
  <2> SUFFICES ASSUME NEW u \in Caller, calm'[u] PROVE Owned(u)'
    BY DEF OwnOnly
  <2>1. Owned(u) /\ u # t /\ idx[u] \in Idx /\ idx'[u] = idx[u] /\ idx[u] # idx[t]
    BY <1>5 DEF OwnOnly
  <2>2. Own(u, txbuf'[idx[u]])
    BY <1>6, <1>9, <2>1, AgedOthers DEF Owned
  <2>3. \A f \in wire' : f.idx = idx[u] => Own(u, f.data)
    BY <1>8, <2>1 DEF Owned
  <2>4. ASSUME NEW c \in Card, OwnQueue(u, c) PROVE OwnQueue(u, c)'
    <3>1. \A k \in DOMAIN msgQ'[c][idx[u]] :
            /\ k \in DOMAIN msgQ[c][idx[u]]
            /\ msgQ'[c][idx[u]][k].data = Aged(t, msgQ[c][idx[u]][k].data)
      BY <1>4, <2>1
    <3>2. \A k \in DOMAIN msgQ'[c][idx[u]] : Own(u, msgQ'[c][idx[u]][k].data)
      BY <2>1, <2>4, <3>1, AgedOthers DEF OwnQueue
    <3>3. QED
      BY <2>1, <3>2 DEF OwnQueue
  <2>5. Cleaned(u)' <=> Cleaned(u)
    BY <1>3, <2>1 DEF Cleaned
  <2>6. \A c \in Card : wkc'[u][c] # "none" => Own(u, rxbuf'[c][idx[u]])
    BY <1>3, <1>6, <2>1, AgedOthers DEF Owned
  <2>7. QED
    BY <1>9, <2>1, <2>2, <2>3, <2>4, <2>5, <2>6 DEF Owned, Own
<1>15. Journey'
  <2> SUFFICES ASSUME NEW u \in Caller, calm'[u], redstate' = "none"
               PROVE  OnItsWay(u)'
    BY DEF Journey
  <2>1. /\ Unsent(u) /\ Expecting(u) /\ Away(u) /\ Back(u)
        /\ u # t /\ idx[u] \in Idx /\ idx'[u] = idx[u] /\ idx[u] # idx[t]
        /\ pc'[u] = pc[u] /\ wkc'[u] = wkc[u] /\ Reached' = Reached /\ Owned(u)
    BY <1>1, <1>3, <1>5 DEF Journey, OnItsWay, Reached, OwnOnly
  <2>2. \A f : f \in wire' /\ f.idx = idx[u] <=> f \in wire /\ f.idx = idx[u]
    BY <1>8
  <2>3. txbuf'[idx[u]] = txbuf[idx[u]]
    BY <1>6, <1>9, <2>1, AgedOthers DEF Owned
  <2>4. Unsent(u)'
    BY <2>1, <2>2, <2>3 DEF Unsent
  <2>5. Expecting(u)'
    BY <1>4, <1>6, <1>9, <2>1 DEF Expecting
  <2>6. Away(u)'
    <3>1. OnWire(u) => OnWire(u)'
      BY <2>1, <2>2 DEF OnWire
    <3>2. PostedOne(u) => PostedOne(u)'
      <4> SUFFICES ASSUME PostedOne(u) PROVE PostedOne(u)'
        OBVIOUS
      <4>1. \A k \in DOMAIN msgQ'["prim"][idx[u]] :
              msgQ'["prim"][idx[u]][k].data = [of |-> u, by |-> Reached]
        <5> SUFFICES ASSUME NEW k \in DOMAIN msgQ'["prim"][idx[u]]
                     PROVE  msgQ'["prim"][idx[u]][k].data = [of |-> u, by |-> Reached]
          OBVIOUS
        <5>1. /\ k \in DOMAIN msgQ["prim"][idx[u]]
              /\ msgQ'["prim"][idx[u]][k].data = Aged(t, msgQ["prim"][idx[u]][k].data)
          BY <1>4, <1>9, <2>1
        <5>2. msgQ["prim"][idx[u]][k].data = [of |-> u, by |-> Reached]
          BY <5>1 DEF PostedOne
        <5>3. QED
          BY <2>1, <5>1, <5>2, AgedOthers DEF Own
      <4>2. msgQ'["prim"][idx[u]] # <<>>
        BY <1>4, <1>9, <2>1 DEF PostedOne
      <4>3. QED
        BY <2>1, <4>1, <4>2 DEF PostedOne
    <3>3. QED
      BY <1>4, <1>9, <2>1, <2>2, <3>1, <3>2 DEF Away
  <2>7. Back(u)'
    <3>1. pc[u] = "confirm" => Own(u, rxbuf["prim"][idx[u]])
      BY <2>1 DEF Back, Own
    <3>2. QED
      BY <1>6, <1>9, <2>1, <3>1, AgedOthers DEF Back
  <2>8. QED
    BY <2>4, <2>5, <2>6, <2>7 DEF OnItsWay
<1>16. QED
  BY <1>10, <1>11, <1>12, <1>13, <1>14, <1>15

-----------------------------------------------------------------------------
(* mux_rx_callback. *)
LEMMA RxCallbackCalls ==
  ASSUME PInv, CInv, NEW f \in wire, RxCallback(f)
  PROVE  CInv'
<1>. USE DEF PInv, CInv
<1> DEFINE c == Arrival(f)
           i == f.idx
           m == IF f.data = Dummy THEN Dummy
                ELSE [f.data EXCEPT !.by = @ \cup Through(f.from)]
<1>1. /\ wire' = wire \ {f}
      /\ IF free > 0 /\ Expected(c, i)
         THEN msgQ' = [msgQ EXCEPT ![c][i] = <<[data |-> m, old |-> {}]>>]
         ELSE msgQ' = msgQ
      /\ IF free = 0 THEN calm' = [t \in Caller |-> FALSE] ELSE calm' = calm
      /\ UNCHANGED <<open, redstate, broken, rxbufstat, rxbuf, txbuf, pc, idx, sending,
                     wkc>>
  BY DEF RxCallback, NoFault, ring, caller
<1>2. f \in Frame /\ c \in Card /\ i \in Idx
  BY DEF TypeOK, Frame, Arrival, Card
<1>3. m.of = f.data.of
  <2>1. f.data \in Datagram
    BY <1>2 DEF Frame
  <2>2. CASE f.data = Dummy
    BY <2>2
  <2>3. CASE f.data # Dummy
    BY <2>1, <2>3 DEF Datagram
  <2>4. QED
    BY <2>2, <2>3
<1>4. \A d \in Card, j \in Idx :
        \/ msgQ'[d][j] = msgQ[d][j]
        \/ /\ d = c /\ j = i /\ free > 0 /\ Expected(c, i)
           /\ msgQ'[d][j] = <<[data |-> m, old |-> {}]>>
  <2> HIDE DEF c, i, m
  <2>1. CASE msgQ' = msgQ
    BY <2>1
  <2>2. CASE /\ free > 0 /\ Expected(c, i)
             /\ msgQ' = [msgQ EXCEPT ![c][i] = <<[data |-> m, old |-> {}]>>]
    BY <1>2, <2>2 DEF TypeOK
  <2>3. QED
    BY <1>1, <2>1, <2>2
<1> HIDE DEF m
<1>5. \A d \in Card, j \in Idx :
        \A k \in DOMAIN msgQ'[d][j] :
          \/ k \in DOMAIN msgQ[d][j] /\ msgQ'[d][j][k] = msgQ[d][j][k]
          \/ j = i /\ msgQ'[d][j][k].data = m /\ msgQ'[d][j][k].old = {}
  <2> SUFFICES ASSUME NEW d \in Card, NEW j \in Idx, NEW k \in DOMAIN msgQ'[d][j],
                      msgQ'[d][j] # msgQ[d][j]
               PROVE  j = i /\ msgQ'[d][j][k].data = m /\ msgQ'[d][j][k].old = {}
    OBVIOUS
  <2>1. j = i /\ msgQ'[d][j] = <<[data |-> m, old |-> {}]>>
    BY <1>4
  <2>2. k = 1
    BY <2>1
  <2>3. QED
    BY <2>1, <2>2
<1>6. \A u \in Caller : calm'[u] => calm[u] /\ free # 0
  BY <1>1
<1>7. \A u \in Caller : idx[u] \in Idx
  BY DEF TypeOK
<1>8. "prim" \in Card /\ "sec" \in Card
  BY DEF Card
<1>9. Phases'
  BY <1>1 DEF Phases
<1>10. Fresh'
  <2> SUFFICES ASSUME NEW u \in Caller PROVE NoneOld(u)' /\ TookNew(u)'
    BY DEF Fresh
  <2>1. NoneOld(u)'
    BY <1>1, <1>5, <1>7, <1>8 DEF Fresh, NoneOld, Cleaned
  <2>2. TookNew(u)'
    BY <1>1 DEF Fresh, TookNew
  <2>3. QED
    BY <2>1, <2>2
<1>11. Marked' /\ Exclusive'
  BY <1>1, <1>6 DEF Marked, Exclusive, Empty
<1>12. OwnOnly'
  <2> SUFFICES ASSUME NEW u \in Caller, calm'[u] PROVE Owned(u)'
    BY DEF OwnOnly
  <2>1. Owned(u)
    BY <1>6 DEF OwnOnly
  <2>2. i = idx[u] => Own(u, m)
    BY <1>3, <2>1 DEF Owned, Own
  <2>3. ASSUME NEW d \in Card, OwnQueue(u, d) PROVE OwnQueue(u, d)'
    <3>1. \A k \in DOMAIN msgQ'[d][idx[u]] : Own(u, msgQ'[d][idx[u]][k].data)
      BY <1>5, <1>7, <2>2, <2>3 DEF OwnQueue
    <3>2. QED
      BY <1>1, <3>1 DEF OwnQueue
  <2>4. Cleaned(u)' <=> Cleaned(u)
    BY <1>1 DEF Cleaned
  <2>5. QED
    BY <1>1, <1>8, <2>1, <2>3, <2>4 DEF Owned, Own
<1>13. Journey'
  <2> SUFFICES ASSUME NEW u \in Caller, calm'[u], redstate' = "none"
               PROVE  OnItsWay(u)'
    BY DEF Journey
  <2>1. OnItsWay(u) /\ redstate = "none" /\ calm[u] /\ Reached' = Reached
    BY <1>1, <1>6 DEF Journey, Reached
  <2>2. Unsent(u)' /\ Back(u)'
    BY <1>1, <2>1 DEF OnItsWay, Unsent, Back
  <2>3. CASE idx[u] # i
    <3>1. msgQ'["prim"][idx[u]] = msgQ["prim"][idx[u]]
      BY <1>4, <1>7, <1>8, <2>3
    <3>2. \A g : g.idx = idx[u] => (g \in wire' <=> g \in wire)
      BY <1>1, <2>3
    <3>3. QED
      BY <1>1, <2>1, <3>1, <3>2, Bystander
  <2>4. CASE idx[u] = i
    <3>1. pc[u] \notin {"outframe", "clean", "send"}
      BY <2>1, <2>4 DEF OnItsWay, Unsent
    <3>2. Expecting(u)'
      BY <1>1, <2>1, <3>1 DEF OnItsWay, Expecting
    <3>3. ASSUME pc[u] = "prim" PROVE PostedOne(u)' /\ \A g \in wire' : g.idx # idx[u]
      <4>1. /\ f.from = "prim" /\ f.data = [of |-> u, by |-> {}]
            /\ \A g \in wire : g.idx = idx[u] => g = f
        BY <2>1, <2>4, <3>3 DEF OnItsWay, Away, OnWire
      <4>2. c = "prim" /\ Expected(c, i) /\ free # 0
        BY <1>6, <2>1, <2>4, <3>3, <4>1 DEF OnItsWay, Arrival, Expected, Expecting, Shut
      <4>3. free > 0
        BY <4>2 DEF TypeOK
      <4>4. m = [of |-> u, by |-> Reached]
        <5>1. f.data # Dummy
          BY <4>1, VxConstants DEF Dummy
        <5>2. QED
          BY <4>1, <5>1 DEF m, Through, Reached
      <4>5. msgQ'["prim"][idx[u]] = <<[data |-> m, old |-> {}]>>
        BY <1>1, <1>2, <2>4, <4>2, <4>3 DEF TypeOK
      <4>6. msgQ'["prim"][idx[u]] # <<>>
        BY <4>5
      <4>7. \A k \in DOMAIN msgQ'["prim"][idx[u]] :
              msgQ'["prim"][idx[u]][k].data = [of |-> u, by |-> Reached]
        BY <4>4, <4>5
      <4>8. QED
        BY <1>1, <2>1, <4>1, <4>6, <4>7 DEF PostedOne
    <3>4. Away(u)'
      BY <1>1, <3>3 DEF Away
    <3>5. QED
      BY <2>2, <3>2, <3>4 DEF OnItsWay
  <2>5. QED
    BY <2>3, <2>4
<1>14. QED
  BY <1>9, <1>10, <1>11, <1>12, <1>13

-----------------------------------------------------------------------------
LEMMA InitialCalls == Init => CInv
BY DEF Init, CInv, Phases, Fresh, NoneOld, TookNew, Cleaned, Marked, Empty, Exclusive,
       OwnOnly, Journey, Card

LEMMA UnmovedCalls == CInv /\ UNCHANGED vars => CInv'
BY DEF CInv, vars, ring, bufs, caller, Phases, Fresh, NoneOld, TookNew, Cleaned, Marked,
       Empty, Exclusive, OwnOnly, Owned, OwnQueue, Own, Journey, OnItsWay, Unsent, Expecting, Away,
       OnWire, PostedOne, Back, Reached

LEMMA StepCalls ==
  ASSUME Cardinality(Caller) <= NBuf, PInv, CInv, [Next]_vars
  PROVE  CInv'
<1>1. CASE \E red \in {"none", "double"} : Setup(red)
  BY <1>1, SetupCalls
<1>2. CASE Close
  BY <1>2, CloseCalls
<1>3. CASE \E f \in wire : RxCallback(f) \/ Lose(f)
  BY <1>3, RxCallbackCalls, LoseCalls
<1>4. CASE \E t \in Caller : CallerStep(t)
  <2>1. PICK t \in Caller : CallerStep(t)
    BY <1>4
  <2>2. CASE GetIndex(t) \/ Outframe(t) \/ Clean(t) \/ Allocate(t) \/ NoPacket(t)
    BY <2>2, GetIndexCalls, OutframeCalls, CleanCalls, AllocateCalls, NoPacketCalls
  <2>3. CASE Send(t) \/ SendFails(t) \/ Inframe(t) \/ TimesOut(t)
    BY <2>3, SendCalls, SendFailsCalls, InframeCalls, TimesOutCalls
  <2>4. CASE \/ DecideCrossed(t) \/ DecideTurned(t) \/ DecideNothing(t)
             \/ Confirm(t) \/ Release(t)
    BY <2>4, DecideCrossedCalls, DecideTurnedCalls, DecideNothingCalls, ConfirmCalls,
       ReleaseCalls
  <2>5. QED
    BY <2>1, <2>2, <2>3, <2>4 DEF CallerStep
<1>5. CASE UNCHANGED vars
  BY <1>5, UnmovedCalls
<1>6. QED
  BY <1>1, <1>2, <1>3, <1>4, <1>5 DEF Next

(* Calls of callers who have an index each; EC_MAXBUF is 16.               *)
THEOREM InductiveCalls == Cardinality(Caller) <= NBuf => (Spec => []CInv)
<1> SUFFICES ASSUME Cardinality(Caller) <= NBuf PROVE Spec => []CInv
  OBVIOUS
<1>1. Init => CInv
  BY InitialCalls
<1>2. PInv /\ CInv /\ [Next]_vars => CInv'
  BY StepCalls
<1>3. QED
  BY <1>1, <1>2, VxInductive, PTL DEF Spec

(* Every caller has an index of its own, and what it has taken from the    *)
(* queue of the primary card was not left there by somebody else: the      *)
(* clean-up before the send, which looks at the primary queue alone, is    *)
(* enough for that queue.                                                  *)
THEOREM CleanUpSuffices == Cardinality(Caller) <= NBuf => (Spec => []NoneAbandoned)
<1>1. CInv => NoneAbandoned
  BY DEF CInv, Fresh, TookNew, NoneAbandoned
<1>2. QED
  BY <1>1, InductiveCalls, PTL

(* A call that nothing disturbs brings back its own request, executed by   *)
(* every slave in reach; with two cards never that of another call.        *)
THEOREM CallsBringOwn == Cardinality(Caller) <= NBuf => (Spec => []OwnData)
<1>1. PInv /\ CInv => OwnData
  <2> SUFFICES ASSUME PInv, CInv, NEW t \in Caller, pc[t] = "confirm", calm[t]
               PROVE  LET f == rxbuf["prim"][idx[t]] IN
                      IF redstate = "none"
                      THEN /\ wkc[t]["prim"] = "new" /\ f.of = t
                           /\ f.by = IF broken THEN {"near"} ELSE Group
                      ELSE wkc[t]["prim"] # "none" => f.of \in {"dummy", t}
    BY DEF OwnData
  <2>1. CASE redstate = "none"
    <3>1. wkc[t]["prim"] = "new" /\ rxbuf["prim"][idx[t]] = [of |-> t, by |-> Reached]
      BY <2>1 DEF CInv, Journey, OnItsWay, Back
    <3>2. QED
      BY <2>1, <3>1 DEF Reached
  <2>2. CASE redstate # "none"
    BY <2>2 DEF CInv, OwnOnly, Owned, Own, Card
  <2>3. QED
    BY <2>1, <2>2
<1>2. QED
  BY <1>1, VxInductive, InductiveCalls, PTL

-----------------------------------------------------------------------------
(* The driver of the ERIKA port. *)

(* No index is not an index, and a foreign frame is not one of ours.       *)
LEMMA IdxFacts == E!NoIdx \notin E!Idx /\ 0 \in E!Idx /\ E!Foreign \notin E!Frame
BY ErikaConstants DEF E!Idx, E!NoIdx, E!Foreign, E!Frame

(* With an index for every user, one that holds none finds one unused.     *)
LEMMA UnusedIndex ==
  ASSUME NEW h \in [User -> E!Idx \cup {E!NoIdx}], NEW v \in User, h[v] = E!NoIdx
  PROVE  \E i \in E!Idx : \A u \in User : h[u] # i
<1>1. IsFiniteSet(E!Idx) /\ Cardinality(E!Idx) = MaxBuf
  <2>1. MaxBuf - 1 \in Int /\ MaxBuf >= 1
    BY ErikaConstants
  <2>2. QED
    BY <2>1, FS_Interval, ErikaConstants DEF E!Idx
<1>2. IsFiniteSet(User \ {v}) /\ Cardinality(User \ {v}) < Cardinality(E!Idx)
  <2>1. Cardinality(User \ {v}) = Cardinality(User) - 1 /\ IsFiniteSet(User \ {v})
    BY UserAssumption, FS_RemoveElement
  <2>2. Cardinality(User) \in Nat
    BY UserAssumption, FS_CardinalityType
  <2>3. QED
    BY <2>1, <2>2, <1>1, UserAssumption, ErikaConstants
<1>3. SUFFICES ASSUME \A i \in E!Idx : \E u \in User : h[u] = i
               PROVE  FALSE
  OBVIOUS
<1>4. DEFINE f == [i \in E!Idx |-> CHOOSE u \in User : h[u] = i]
<1>5. \A i \in E!Idx : f[i] \in User /\ h[f[i]] = i
  BY <1>3
<1>6. f \in [E!Idx -> User \ {v}]
  BY <1>5, IdxFacts
<1>7. \E x, y \in E!Idx : x # y /\ f[x] = f[y]
  <2>. HIDE DEF f
  <2>1. QED
    BY <1>1, <1>2, <1>6, FS_PigeonHole
<1>8. QED
  BY <1>5, <1>7

(* Stepping one index on brings every other index one closer. *)
LEMMA RingStep ==
  ASSUME NEW i \in E!Idx, NEW j \in E!Idx
  PROVE  /\ E!NextIdx(i) \in E!Idx
         /\ E!Ahead(i, j) \in 0..(MaxBuf - 1)
         /\ i # j => E!Ahead(E!NextIdx(i), j) = E!Ahead(i, j) - 1
BY ErikaConstants DEF E!Idx, E!NextIdx, E!Ahead

(* The search never ends on a busy entry. *)
LEMMA TakesUnused ==
  ASSUME E!IInv, NEW u \in User, E!ScanTake(u)
  PROVE  e_rxbufstat[e_scan.idx] = "EMPTY" /\ e_scan.idx \in E!Idx
<1>1. e_scan.idx \in E!Idx /\ e_scan.cnt \in 0..MaxBuf
  BY DEF E!IInv, E!TypeOK
<1>2. PICK j \in E!Idx : E!Ahead(e_scan.idx, j) + e_scan.cnt < MaxBuf
  BY DEF E!IInv, E!ScanFinds, E!ScanTake
<1>3. E!Ahead(e_scan.idx, j) \in 0..(MaxBuf - 1)
  BY <1>1, RingStep
<1>4. e_scan.cnt < MaxBuf
  BY <1>1, <1>2, <1>3, ErikaConstants
<1>5. QED
  BY <1>1, <1>4 DEF E!ScanTake, E!Busy

(* A frame that somebody awaits is that of one user, and the only one. *)
LEMMA AwaitedBy ==
  ASSUME E!IInv, NEW f \in E!InFlight
  PROVE  /\ f \in E!Frame /\ f.idx \in E!Idx /\ f.req \in E!Req
         /\ e_rxbufstat[f.idx] = "TX"
         /\ \E u \in User : e_idx[u] = f.idx /\ E!ReqOf(u) = f.req /\ e_pc[u] \in E!Waiting
         /\ \A u \in User : e_idx[u] = f.idx => E!ReqOf(u) = f.req /\ e_pc[u] \in E!Waiting
<1>1. f \in E!Frame
  BY DEF E!IInv, E!TypeOK, E!InFlight
<1>2. f.idx \in E!Idx /\ f.req \in E!Req
  BY <1>1 DEF E!Frame
<1>3. /\ e_rxbufstat[f.idx] = "TX"
      /\ \E u \in User : e_idx[u] = f.idx /\ E!ReqOf(u) = f.req /\ e_pc[u] \in E!Waiting
  BY DEF E!IInv, E!FlightAwaited
<1>4. QED
  BY <1>1, <1>2, <1>3, IdxFacts DEF E!IInv, E!Exclusive

LEMMA InitIInv == E!Init => E!IInv
<1>. SUFFICES ASSUME E!Init PROVE E!IInv
  OBVIOUS
<1>. USE DEF E!Init
<1>1. E!TypeOK
  BY ErikaConstants, UserAssumption DEF E!TypeOK, E!Idx, E!NOFRAME
<1>2. E!InFlight = {}
  BY DEF E!InFlight
<1>3. E!Exclusive /\ E!MarksAreUsers /\ E!OneLock /\ E!ScanFinds /\ E!MarkFollows /\ E!BuffersOwn
  BY UserAssumption DEF E!Exclusive, E!MarksAreUsers, E!OneLock, E!ScanFinds, E!MarkFollows,
     E!BuffersOwn, E!Using, E!Waiting, E!NoIdx, E!NOFRAME
<1>4. E!FlightAwaited
  BY <1>2 DEF E!FlightAwaited
<1>5. QED
  BY <1>1, <1>3, <1>4 DEF E!IInv

-----------------------------------------------------------------------------
(* Every step keeps the invariant of the ERIKA driver. *)

LEMMA LockIndexIInv ==
  ASSUME E!IInv, NEW u \in User, E!LockIndex(u)
  PROVE  E!IInv'
<1>. USE DEF E!IInv, E!LockIndex, E!Goto, E!Mark, E!bufVars, E!lockVars, E!netVars, E!userVars
<1>1. E!TypeOK'
  BY RingStep, IdxFacts, UserAssumption, ErikaConstants DEF E!TypeOK, E!Foreign,
     E!Frame
<1>2. E!Exclusive'
  BY DEF E!TypeOK, E!Exclusive, E!Using, E!Waiting
<1>3. E!MarksAreUsers'
  BY DEF E!TypeOK, E!Exclusive, E!MarksAreUsers, E!Using, E!Waiting
<1>4. E!OneLock'
  BY UserAssumption DEF E!TypeOK, E!OneLock
<1>5. E!ScanFinds'
  <2>1. PICK j \in E!Idx : \A v \in User : e_idx[v] # j
    <3>1. e_idx[u] = E!NoIdx /\ e_idx \in [User -> E!Idx \cup {E!NoIdx}]
      BY DEF E!TypeOK, E!Exclusive, E!Using, E!Waiting
    <3>2. QED
      BY <3>1, UnusedIndex
  <2>2. e_rxbufstat[j] = "EMPTY"
    BY <2>1 DEF E!MarksAreUsers
  <2>3. E!Ahead(E!NextIdx(e_lastidx), j) + 0 < MaxBuf
    BY RingStep, ErikaConstants DEF E!TypeOK
  <2>4. QED
    BY <2>2, <2>3, UserAssumption DEF E!TypeOK, E!OneLock, E!ScanFinds
<1>6. E!MarkFollows'
  BY DEF E!TypeOK, E!Exclusive, E!MarkFollows, E!Using, E!Waiting, E!NOFRAME,
     E!OTHERFRAME, E!WKC
<1>7. E!BuffersOwn'
  BY DEF E!TypeOK, E!Exclusive, E!MarkFollows, E!BuffersOwn, E!Using, E!Waiting, E!ReqOf
<1>8. E!FlightAwaited'
  BY DEF E!TypeOK, E!Exclusive, E!FlightAwaited, E!Using, E!Waiting, E!ReqOf, E!InFlight
<1>9. QED
  BY <1>1, <1>2, <1>3, <1>4, <1>5, <1>6, <1>7, <1>8

LEMMA ScanNextIInv ==
  ASSUME E!IInv, NEW u \in User, E!ScanNext(u)
  PROVE  E!IInv'
<1>. USE DEF E!IInv, E!ScanNext, E!Busy, E!Goto, E!Mark, E!bufVars, E!lockVars, E!netVars,
        E!userVars
<1>1. E!TypeOK'
  BY RingStep, IdxFacts, UserAssumption, ErikaConstants DEF E!TypeOK, E!Foreign,
     E!Frame
<1>2. E!Exclusive'
  BY DEF E!TypeOK, E!Exclusive, E!Using, E!Waiting
<1>3. E!MarksAreUsers'
  BY DEF E!TypeOK, E!Exclusive, E!MarksAreUsers, E!Using, E!Waiting
<1>4. E!OneLock'
  BY UserAssumption DEF E!TypeOK, E!OneLock
<1>5. E!ScanFinds'
  BY RingStep, ErikaConstants DEF E!TypeOK, E!OneLock, E!ScanFinds
<1>6. E!MarkFollows'
  BY DEF E!TypeOK, E!Exclusive, E!MarkFollows, E!Using, E!Waiting, E!NOFRAME,
     E!OTHERFRAME, E!WKC
<1>7. E!BuffersOwn'
  BY DEF E!TypeOK, E!Exclusive, E!MarkFollows, E!BuffersOwn, E!Using, E!Waiting, E!ReqOf
<1>8. E!FlightAwaited'
  BY DEF E!TypeOK, E!Exclusive, E!FlightAwaited, E!Using, E!Waiting, E!ReqOf, E!InFlight
<1>9. QED
  BY <1>1, <1>2, <1>3, <1>4, <1>5, <1>6, <1>7, <1>8

LEMMA ScanTakeIInv ==
  ASSUME E!IInv, NEW u \in User, E!ScanTake(u)
  PROVE  E!IInv'
<1>. USE DEF E!IInv, E!ScanTake, E!Busy, E!Unlock, E!Goto, E!Mark, E!bufVars, E!lockVars,
        E!netVars, E!userVars
<1>0. e_rxbufstat[e_scan.idx] = "EMPTY" /\ e_scan.idx \in E!Idx
  BY TakesUnused
<1>1. E!TypeOK'
  BY <1>0, IdxFacts, UserAssumption, ErikaConstants DEF E!TypeOK, E!Foreign,
     E!Frame
<1>2. E!Exclusive'
  BY <1>0, IdxFacts DEF E!TypeOK, E!Exclusive, E!Using, E!Waiting, E!MarksAreUsers
<1>3. E!MarksAreUsers'
  BY <1>0, IdxFacts DEF E!TypeOK, E!Exclusive, E!MarksAreUsers, E!Using, E!Waiting
<1>4. E!OneLock'
  BY <1>0, UserAssumption DEF E!TypeOK, E!OneLock
<1>5. E!ScanFinds'
  BY <1>4, UserAssumption DEF E!OneLock, E!ScanFinds
<1>6. E!MarkFollows'
  BY <1>0, IdxFacts DEF E!TypeOK, E!Exclusive, E!MarkFollows, E!Using, E!Waiting,
     E!NOFRAME, E!OTHERFRAME, E!WKC, E!MarksAreUsers
<1>7. E!BuffersOwn'
  BY <1>0, IdxFacts DEF E!TypeOK, E!Exclusive, E!MarkFollows, E!BuffersOwn, E!Using,
     E!Waiting, E!ReqOf, E!MarksAreUsers
<1>8. E!FlightAwaited'
  BY <1>0, IdxFacts DEF E!TypeOK, E!Exclusive, E!FlightAwaited, E!Using, E!Waiting,
     E!ReqOf, E!InFlight, E!MarksAreUsers
<1>9. QED
  BY <1>1, <1>2, <1>3, <1>4, <1>5, <1>6, <1>7, <1>8

LEMMA SetupIInv ==
  ASSUME E!IInv, NEW u \in User, E!Setup(u)
  PROVE  E!IInv'
<1>. USE DEF E!IInv, E!Setup, E!Goto, E!Mark, E!bufVars, E!lockVars, E!netVars, E!userVars
<1>1. E!TypeOK'
  BY IdxFacts DEF E!TypeOK, E!Req, E!ReqOf, E!Exclusive, E!Using
<1>2. E!Exclusive'
  BY DEF E!TypeOK, E!Exclusive, E!Using, E!Waiting
<1>3. E!MarksAreUsers'
  BY DEF E!TypeOK, E!Exclusive, E!MarksAreUsers, E!Using, E!Waiting
<1>4. E!OneLock'
  BY UserAssumption DEF E!TypeOK, E!OneLock
<1>5. E!ScanFinds'
  BY DEF E!TypeOK, E!OneLock, E!ScanFinds
<1>6. E!MarkFollows'
  BY DEF E!TypeOK, E!Exclusive, E!MarkFollows, E!Using, E!Waiting, E!NOFRAME,
     E!OTHERFRAME, E!WKC
<1>7. E!BuffersOwn'
  BY DEF E!TypeOK, E!Exclusive, E!MarkFollows, E!BuffersOwn, E!Using, E!Waiting, E!ReqOf
<1>8. E!FlightAwaited'
  BY DEF E!TypeOK, E!Exclusive, E!FlightAwaited, E!Using, E!Waiting, E!ReqOf, E!InFlight
<1>9. QED
  BY <1>1, <1>2, <1>3, <1>4, <1>5, <1>6, <1>7, <1>8

LEMMA OutframeIInv ==
  ASSUME E!IInv, NEW u \in User, E!Outframe(u)
  PROVE  E!IInv'
<1>. USE DEF E!IInv, E!Outframe, E!Goto, E!Mark, E!bufVars, E!lockVars, E!netVars, E!userVars
<1>a. /\ e_idx[u] \in E!Idx
      /\ e_txbuf[e_idx[u]] = E!ReqOf(u)
      /\ e_rxbufstat[e_idx[u]] # "EMPTY"
      /\ \A f \in E!InFlight : f.idx # e_idx[u]
  BY DEF E!TypeOK, E!Exclusive, E!BuffersOwn, E!MarkFollows, E!FlightAwaited, E!Using, E!Waiting
<1>b. \/ e_wire' = e_wire
      \/ e_wire' = e_wire \cup {[idx |-> e_idx[u], req |-> E!ReqOf(u)]}
  BY <1>a
<1>c. e_wire' \subseteq E!Frame
  BY <1>a, <1>b DEF E!TypeOK, E!Frame, E!Req, E!ReqOf
<1>d. e_card \subseteq E!InFlight \cup {E!Foreign} /\ e_idx[u] # E!NoIdx
  BY <1>a, IdxFacts DEF E!InFlight
<1>1. E!TypeOK'
  BY <1>a, <1>c DEF E!TypeOK
<1>2. E!Exclusive'
  BY DEF E!TypeOK, E!Exclusive, E!Using, E!Waiting
<1>3. E!MarksAreUsers'
  BY DEF E!TypeOK, E!Exclusive, E!MarksAreUsers, E!Using, E!Waiting
<1>4. E!OneLock'
  BY UserAssumption DEF E!TypeOK, E!OneLock
<1>5. E!ScanFinds'
  BY <1>a DEF E!TypeOK, E!OneLock, E!ScanFinds
<1>6. E!MarkFollows'
  BY DEF E!TypeOK, E!Exclusive, E!MarkFollows, E!Using, E!Waiting, E!NOFRAME,
     E!OTHERFRAME, E!WKC
<1>7. E!BuffersOwn'
  BY DEF E!TypeOK, E!Exclusive, E!MarkFollows, E!BuffersOwn, E!Using, E!Waiting, E!ReqOf
<1>8. E!FlightAwaited'
  BY <1>a, <1>b, <1>c, <1>d DEF E!TypeOK, E!Exclusive, E!FlightAwaited, E!Using,
     E!Waiting, E!ReqOf, E!InFlight, E!Foreign
<1>9. QED
  BY <1>1, <1>2, <1>3, <1>4, <1>5, <1>6, <1>7, <1>8

LEMMA TakeFiledIInv ==
  ASSUME E!IInv, NEW u \in User, E!TakeFiled(u)
  PROVE  E!IInv'
<1>. USE DEF E!IInv, E!TakeFiled, E!Complete, E!Goto, E!Mark, E!bufVars, E!lockVars,
        E!netVars, E!userVars
<1>a. PICK w \in E!WKC : e_wkc' = [e_wkc EXCEPT ![u] = w]
  OBVIOUS
<1>1. E!TypeOK'
  BY <1>a DEF E!TypeOK
<1>2. E!Exclusive'
  BY DEF E!TypeOK, E!Exclusive, E!Using, E!Waiting
<1>3. E!MarksAreUsers'
  BY DEF E!TypeOK, E!Exclusive, E!MarksAreUsers, E!Using, E!Waiting
<1>4. E!OneLock'
  BY UserAssumption DEF E!TypeOK, E!OneLock
<1>5. E!ScanFinds'
  BY DEF E!TypeOK, E!OneLock, E!ScanFinds
<1>6. E!MarkFollows'
  BY DEF E!TypeOK, E!Exclusive, E!MarkFollows, E!Using, E!Waiting, E!NOFRAME,
     E!OTHERFRAME, E!WKC
<1>7. E!BuffersOwn'
  BY DEF E!TypeOK, E!Exclusive, E!MarkFollows, E!BuffersOwn, E!Using, E!Waiting, E!ReqOf
<1>8. E!FlightAwaited'
  BY DEF E!TypeOK, E!Exclusive, E!FlightAwaited, E!Using, E!Waiting, E!ReqOf, E!InFlight
<1>9. QED
  BY <1>1, <1>2, <1>3, <1>4, <1>5, <1>6, <1>7, <1>8

LEMMA NotFiledIInv ==
  ASSUME E!IInv, NEW u \in User, E!NotFiled(u)
  PROVE  E!IInv'
<1>. USE DEF E!IInv, E!NotFiled, E!Goto, E!Mark, E!bufVars, E!lockVars, E!netVars, E!userVars
<1>1. E!TypeOK'
  BY IdxFacts, UserAssumption, ErikaConstants DEF E!TypeOK, E!Foreign, E!Frame
<1>2. E!Exclusive'
  BY DEF E!TypeOK, E!Exclusive, E!Using, E!Waiting
<1>3. E!MarksAreUsers'
  BY DEF E!TypeOK, E!Exclusive, E!MarksAreUsers, E!Using, E!Waiting
<1>4. E!OneLock'
  BY UserAssumption DEF E!TypeOK, E!OneLock
<1>5. E!ScanFinds'
  BY DEF E!TypeOK, E!OneLock, E!ScanFinds
<1>6. E!MarkFollows'
  BY DEF E!TypeOK, E!Exclusive, E!MarkFollows, E!Using, E!Waiting, E!NOFRAME,
     E!OTHERFRAME, E!WKC
<1>7. E!BuffersOwn'
  BY DEF E!TypeOK, E!Exclusive, E!MarkFollows, E!BuffersOwn, E!Using, E!Waiting, E!ReqOf
<1>8. E!FlightAwaited'
  BY DEF E!TypeOK, E!Exclusive, E!FlightAwaited, E!Using, E!Waiting, E!ReqOf, E!InFlight
<1>9. QED
  BY <1>1, <1>2, <1>3, <1>4, <1>5, <1>6, <1>7, <1>8

LEMMA LockPortIInv ==
  ASSUME E!IInv, NEW u \in User, E!LockPort(u)
  PROVE  E!IInv'
<1>. USE DEF E!IInv, E!LockPort, E!Goto, E!Mark, E!bufVars, E!lockVars, E!netVars, E!userVars
<1>1. E!TypeOK'
  BY IdxFacts, UserAssumption, ErikaConstants DEF E!TypeOK, E!Foreign, E!Frame
<1>2. E!Exclusive'
  BY DEF E!TypeOK, E!Exclusive, E!Using, E!Waiting
<1>3. E!MarksAreUsers'
  BY DEF E!TypeOK, E!Exclusive, E!MarksAreUsers, E!Using, E!Waiting
<1>4. E!OneLock'
  BY UserAssumption DEF E!TypeOK, E!OneLock
<1>5. E!ScanFinds'
  BY DEF E!TypeOK, E!OneLock, E!ScanFinds
<1>6. E!MarkFollows'
  BY DEF E!TypeOK, E!Exclusive, E!MarkFollows, E!Using, E!Waiting, E!NOFRAME,
     E!OTHERFRAME, E!WKC
<1>7. E!BuffersOwn'
  BY DEF E!TypeOK, E!Exclusive, E!MarkFollows, E!BuffersOwn, E!Using, E!Waiting, E!ReqOf
<1>8. E!FlightAwaited'
  BY DEF E!TypeOK, E!Exclusive, E!FlightAwaited, E!Using, E!Waiting, E!ReqOf, E!InFlight
<1>9. QED
  BY <1>1, <1>2, <1>3, <1>4, <1>5, <1>6, <1>7, <1>8

LEMMA ReadNothingIInv ==
  ASSUME E!IInv, NEW u \in User, E!ReadNothing(u)
  PROVE  E!IInv'
<1>. USE DEF E!IInv, E!ReadNothing, E!Unlock, E!Goto, E!Mark, E!bufVars, E!lockVars,
        E!netVars, E!userVars
<1>1. E!TypeOK'
  BY IdxFacts, UserAssumption, ErikaConstants DEF E!TypeOK, E!Foreign, E!Frame
<1>2. E!Exclusive'
  BY DEF E!TypeOK, E!Exclusive, E!Using, E!Waiting
<1>3. E!MarksAreUsers'
  BY DEF E!TypeOK, E!Exclusive, E!MarksAreUsers, E!Using, E!Waiting
<1>4. E!OneLock'
  BY UserAssumption DEF E!TypeOK, E!OneLock
<1>5. E!ScanFinds'
  BY DEF E!TypeOK, E!OneLock, E!ScanFinds
<1>6. E!MarkFollows'
  BY DEF E!TypeOK, E!Exclusive, E!MarkFollows, E!Using, E!Waiting, E!NOFRAME,
     E!OTHERFRAME, E!WKC
<1>7. E!BuffersOwn'
  BY DEF E!TypeOK, E!Exclusive, E!MarkFollows, E!BuffersOwn, E!Using, E!Waiting, E!ReqOf
<1>8. E!FlightAwaited'
  BY DEF E!TypeOK, E!Exclusive, E!FlightAwaited, E!Using, E!Waiting, E!ReqOf, E!InFlight
<1>9. QED
  BY <1>1, <1>2, <1>3, <1>4, <1>5, <1>6, <1>7, <1>8

LEMMA ReadOwnIInv ==
  ASSUME E!IInv, NEW u \in User, E!ReadOwn(u)
  PROVE  E!IInv'
<1>. USE DEF E!IInv, E!ReadOwn, E!Complete, E!Unlock, E!IsRequested, E!Goto, E!Mark,
        E!bufVars, E!lockVars, E!netVars, E!userVars
<1>0. PICK f \in e_card :
        /\ f.idx = e_idx[u]
        /\ e_card' = e_card \ {f}
        /\ e_rxbuf' = [e_rxbuf EXCEPT ![e_idx[u]] = f.req]
  OBVIOUS
<1>a. e_idx[u] \in E!Idx
  BY DEF E!TypeOK, E!Exclusive, E!Using, E!Waiting
<1>b. f \in E!InFlight
  BY <1>0, <1>a, IdxFacts DEF E!InFlight, E!Foreign
<1>c. f.req = E!ReqOf(u) /\ f.req \in E!Req /\ f.idx \in E!Idx
  BY <1>b, <1>0, AwaitedBy
<1>1. E!TypeOK'
  BY <1>0, <1>c, IdxFacts, UserAssumption, ErikaConstants DEF E!TypeOK,
     E!Foreign, E!Frame
<1>2. E!Exclusive'
  BY DEF E!TypeOK, E!Exclusive, E!Using, E!Waiting
<1>3. E!MarksAreUsers'
  BY DEF E!TypeOK, E!Exclusive, E!MarksAreUsers, E!Using, E!Waiting
<1>4. E!OneLock'
  BY UserAssumption DEF E!TypeOK, E!OneLock
<1>5. E!ScanFinds'
  BY <1>0, <1>c, AwaitedBy DEF E!TypeOK, E!OneLock, E!ScanFinds
<1>6. E!MarkFollows'
  BY <1>0, <1>c, IdxFacts DEF E!TypeOK, E!Exclusive, E!MarkFollows, E!Using,
     E!Waiting, E!NOFRAME, E!OTHERFRAME, E!WKC
<1>7. E!BuffersOwn'
  BY <1>0, <1>c, IdxFacts DEF E!TypeOK, E!Exclusive, E!MarkFollows, E!BuffersOwn,
     E!Using, E!Waiting, E!ReqOf
<1>8. E!FlightAwaited'
  BY <1>0, <1>b, <1>c, IdxFacts DEF E!TypeOK, E!Exclusive, E!FlightAwaited, E!Using,
     E!Waiting, E!ReqOf, E!InFlight
<1>9. QED
  BY <1>1, <1>2, <1>3, <1>4, <1>5, <1>6, <1>7, <1>8

LEMMA ReadOtherIInv ==
  ASSUME E!IInv, NEW u \in User, E!ReadOther(u)
  PROVE  E!IInv'
<1>. USE DEF E!IInv, E!ReadOther, E!IsRequested, E!IsAwaited, E!Goto, E!Mark, E!bufVars,
        E!lockVars, E!netVars, E!userVars
<1>0. PICK f \in e_card :
        f # E!Foreign /\ e_card' = e_card \ {f} /\ e_tempinbuf' = {f}
  OBVIOUS
<1>a. e_tempinbuf = {} /\ f \in E!Frame /\ E!InFlight' = E!InFlight
  <2>1. e_tempinbuf = {}
    BY DEF E!OneLock, E!TypeOK
  <2>2. QED
    BY <1>0, <2>1 DEF E!InFlight, E!TypeOK
<1>1. E!TypeOK'
  BY <1>0, <1>a DEF E!TypeOK
<1>2. E!Exclusive'
  BY DEF E!TypeOK, E!Exclusive, E!Using, E!Waiting
<1>3. E!MarksAreUsers'
  BY DEF E!TypeOK, E!Exclusive, E!MarksAreUsers, E!Using, E!Waiting
<1>4. E!OneLock'
  BY <1>0 DEF E!TypeOK, E!OneLock
<1>5. E!ScanFinds'
  BY DEF E!TypeOK, E!OneLock, E!ScanFinds
<1>6. E!MarkFollows'
  BY DEF E!TypeOK, E!Exclusive, E!MarkFollows, E!Using, E!Waiting, E!NOFRAME,
     E!OTHERFRAME, E!WKC
<1>7. E!BuffersOwn'
  BY DEF E!TypeOK, E!Exclusive, E!MarkFollows, E!BuffersOwn, E!Using, E!Waiting, E!ReqOf
<1>8. E!FlightAwaited'
  BY <1>0, <1>a DEF E!TypeOK, E!FlightAwaited, E!Waiting, E!ReqOf
<1>9. QED
  BY <1>1, <1>2, <1>3, <1>4, <1>5, <1>6, <1>7, <1>8

LEMMA ReadStrangeIInv ==
  ASSUME E!IInv, NEW u \in User, E!ReadStrange(u)
  PROVE  E!IInv'
<1>. USE DEF E!IInv, E!ReadStrange, E!IsRequested, E!IsAwaited, E!Goto, E!Mark, E!bufVars,
        E!lockVars, E!netVars, E!userVars
<1>0. PICK f \in e_card : ~E!IsAwaited(f) /\ e_card' = e_card \ {f}
  OBVIOUS
<1>a. f = E!Foreign
  BY <1>0 DEF E!FlightAwaited, E!InFlight
<1>1. E!TypeOK'
  BY IdxFacts, UserAssumption, ErikaConstants DEF E!TypeOK, E!Foreign, E!Frame
<1>2. E!Exclusive'
  BY DEF E!TypeOK, E!Exclusive, E!Using, E!Waiting
<1>3. E!MarksAreUsers'
  BY DEF E!TypeOK, E!Exclusive, E!MarksAreUsers, E!Using, E!Waiting
<1>4. E!OneLock'
  BY UserAssumption DEF E!TypeOK, E!OneLock
<1>5. E!ScanFinds'
  BY DEF E!TypeOK, E!OneLock, E!ScanFinds
<1>6. E!MarkFollows'
  BY DEF E!TypeOK, E!Exclusive, E!MarkFollows, E!Using, E!Waiting, E!NOFRAME,
     E!OTHERFRAME, E!WKC
<1>7. E!BuffersOwn'
  BY DEF E!TypeOK, E!Exclusive, E!MarkFollows, E!BuffersOwn, E!Using, E!Waiting, E!ReqOf
<1>8. E!FlightAwaited'
  BY DEF E!TypeOK, E!Exclusive, E!FlightAwaited, E!Using, E!Waiting, E!ReqOf, E!InFlight
<1>9. QED
  BY <1>1, <1>2, <1>3, <1>4, <1>5, <1>6, <1>7, <1>8

LEMMA FileIInv ==
  ASSUME E!IInv, NEW u \in User, E!File(u)
  PROVE  E!IInv'
<1>. USE DEF E!IInv, E!File, E!Unlock, E!Goto, E!Mark, E!bufVars, E!lockVars, E!netVars,
        E!userVars
<1>0. PICK f \in e_tempinbuf :
        /\ e_rxbuf' = [e_rxbuf EXCEPT ![f.idx] = f.req]
        /\ e_rxbufstat' = [e_rxbufstat EXCEPT ![f.idx] = "RCVD"]
  OBVIOUS
<1>a. f \in E!InFlight
  BY <1>0 DEF E!InFlight
<1>b. f.idx \in E!Idx /\ f.req \in E!Req /\ e_rxbufstat[f.idx] = "TX"
  BY <1>a, AwaitedBy
<1>c. \A v \in User : e_idx[v] = f.idx => E!ReqOf(v) = f.req /\ e_pc[v] \in E!Waiting
  BY <1>a, AwaitedBy
<1>d. \A v \in User : e_pc[v] = "file" => v = u
  BY UserAssumption DEF E!OneLock, E!TypeOK
<1>1. E!TypeOK'
  BY <1>0, <1>b, IdxFacts, UserAssumption, ErikaConstants DEF E!TypeOK,
     E!Foreign, E!Frame
<1>2. E!Exclusive'
  BY DEF E!TypeOK, E!Exclusive, E!Using, E!Waiting
<1>3. E!MarksAreUsers'
  BY <1>0, <1>b DEF E!TypeOK, E!MarksAreUsers
<1>4. E!OneLock'
  BY <1>d, UserAssumption DEF E!TypeOK, E!OneLock
<1>5. E!ScanFinds'
  BY <1>0, <1>b DEF E!TypeOK, E!OneLock, E!ScanFinds
<1>6. E!MarkFollows'
  BY <1>0, <1>b, <1>c, IdxFacts DEF E!TypeOK, E!Exclusive, E!MarkFollows, E!Using,
     E!Waiting, E!NOFRAME, E!OTHERFRAME, E!WKC
<1>7. E!BuffersOwn'
  BY <1>0, <1>b, <1>c, IdxFacts DEF E!TypeOK, E!Exclusive, E!MarkFollows,
     E!BuffersOwn, E!Using, E!Waiting, E!ReqOf
<1>8. E!FlightAwaited'
  BY <1>0, <1>b, IdxFacts DEF E!TypeOK, E!OneLock, E!FlightAwaited, E!Waiting,
     E!ReqOf, E!InFlight
<1>9. QED
  BY <1>1, <1>2, <1>3, <1>4, <1>5, <1>6, <1>7, <1>8

LEMMA WaitOnIInv ==
  ASSUME E!IInv, NEW u \in User, E!WaitOn(u)
  PROVE  E!IInv'
<1>. USE DEF E!IInv, E!WaitOn, E!Goto, E!Mark, E!bufVars, E!lockVars, E!netVars, E!userVars
<1>1. E!TypeOK'
  BY IdxFacts, UserAssumption, ErikaConstants DEF E!TypeOK, E!Foreign, E!Frame
<1>2. E!Exclusive'
  BY DEF E!TypeOK, E!Exclusive, E!Using, E!Waiting
<1>3. E!MarksAreUsers'
  BY DEF E!TypeOK, E!Exclusive, E!MarksAreUsers, E!Using, E!Waiting
<1>4. E!OneLock'
  BY UserAssumption DEF E!TypeOK, E!OneLock
<1>5. E!ScanFinds'
  BY DEF E!TypeOK, E!OneLock, E!ScanFinds
<1>6. E!MarkFollows'
  BY DEF E!TypeOK, E!Exclusive, E!MarkFollows, E!Using, E!Waiting, E!NOFRAME,
     E!OTHERFRAME, E!WKC
<1>7. E!BuffersOwn'
  BY DEF E!TypeOK, E!Exclusive, E!MarkFollows, E!BuffersOwn, E!Using, E!Waiting, E!ReqOf
<1>8. E!FlightAwaited'
  BY DEF E!TypeOK, E!Exclusive, E!FlightAwaited, E!Using, E!Waiting, E!ReqOf, E!InFlight
<1>9. QED
  BY <1>1, <1>2, <1>3, <1>4, <1>5, <1>6, <1>7, <1>8

LEMMA RetryIInv ==
  ASSUME E!IInv, NEW u \in User, E!Retry(u)
  PROVE  E!IInv'
<1>. USE DEF E!IInv, E!Retry, E!MayExpire, E!Goto, E!Mark, E!bufVars, E!lockVars, E!netVars,
        E!userVars
<1>1. E!TypeOK'
  BY IdxFacts, UserAssumption, ErikaConstants DEF E!TypeOK, E!Foreign, E!Frame
<1>2. E!Exclusive'
  BY DEF E!TypeOK, E!Exclusive, E!Using, E!Waiting
<1>3. E!MarksAreUsers'
  BY DEF E!TypeOK, E!Exclusive, E!MarksAreUsers, E!Using, E!Waiting
<1>4. E!OneLock'
  BY UserAssumption DEF E!TypeOK, E!OneLock
<1>5. E!ScanFinds'
  BY DEF E!TypeOK, E!OneLock, E!ScanFinds
<1>6. E!MarkFollows'
  BY DEF E!TypeOK, E!Exclusive, E!MarkFollows, E!Using, E!Waiting, E!NOFRAME,
     E!OTHERFRAME, E!WKC
<1>7. E!BuffersOwn'
  BY DEF E!TypeOK, E!Exclusive, E!MarkFollows, E!BuffersOwn, E!Using, E!Waiting, E!ReqOf
<1>8. E!FlightAwaited'
  BY DEF E!TypeOK, E!Exclusive, E!FlightAwaited, E!Using, E!Waiting, E!ReqOf, E!InFlight
<1>9. QED
  BY <1>1, <1>2, <1>3, <1>4, <1>5, <1>6, <1>7, <1>8

LEMMA GiveUpIInv ==
  ASSUME E!IInv, NEW u \in User, E!GiveUp(u)
  PROVE  E!IInv'
<1>. USE DEF E!IInv, E!GiveUp, E!MayExpire, E!Goto, E!Mark, E!bufVars, E!lockVars, E!netVars,
        E!userVars
<1>a. ~(e_wkc[u] > E!NOFRAME)
  BY DEF E!MarkFollows, E!TypeOK, E!NOFRAME, E!OTHERFRAME, E!WKC
<1>1. E!TypeOK'
  BY IdxFacts, UserAssumption, ErikaConstants DEF E!TypeOK, E!Foreign, E!Frame
<1>2. E!Exclusive'
  BY DEF E!TypeOK, E!Exclusive, E!Using, E!Waiting
<1>3. E!MarksAreUsers'
  BY DEF E!TypeOK, E!Exclusive, E!MarksAreUsers, E!Using, E!Waiting
<1>4. E!OneLock'
  BY UserAssumption DEF E!TypeOK, E!OneLock
<1>5. E!ScanFinds'
  BY DEF E!TypeOK, E!OneLock, E!ScanFinds
<1>6. E!MarkFollows'
  BY <1>a DEF E!TypeOK, E!Exclusive, E!MarkFollows, E!Using, E!Waiting, E!NOFRAME,
     E!OTHERFRAME, E!WKC
<1>7. E!BuffersOwn'
  BY <1>a DEF E!TypeOK, E!Exclusive, E!MarkFollows, E!BuffersOwn, E!Using, E!Waiting,
     E!ReqOf
<1>8. E!FlightAwaited'
  BY DEF E!TypeOK, E!Exclusive, E!FlightAwaited, E!Using, E!Waiting, E!ReqOf, E!InFlight
<1>9. QED
  BY <1>1, <1>2, <1>3, <1>4, <1>5, <1>6, <1>7, <1>8

LEMMA ReleaseIInv ==
  ASSUME E!IInv, NEW u \in User, E!Release(u)
  PROVE  E!IInv'
<1>. USE DEF E!IInv, E!Release, E!Free, E!Goto, E!Mark, E!bufVars, E!lockVars, E!netVars,
        E!userVars
<1>1. E!TypeOK'
  <2>1. e_gen' \in [User -> 0..(NGen - 1)]
    BY ErikaConstants DEF E!TypeOK
  <2>2. QED
    BY <2>1 DEF E!TypeOK
<1>2. E!Exclusive'
  BY DEF E!TypeOK, E!Exclusive, E!Using, E!Waiting
<1>3. E!MarksAreUsers'
  BY DEF E!TypeOK, E!Exclusive, E!MarksAreUsers, E!Using, E!Waiting
<1>4. E!OneLock'
  BY UserAssumption DEF E!TypeOK, E!OneLock
<1>5. E!ScanFinds'
  BY DEF E!TypeOK, E!OneLock, E!ScanFinds
<1>6. E!MarkFollows'
  BY IdxFacts DEF E!TypeOK, E!Exclusive, E!MarkFollows, E!Using, E!Waiting, E!NOFRAME,
     E!OTHERFRAME, E!WKC
<1>7. E!BuffersOwn'
  BY DEF E!TypeOK, E!Exclusive, E!MarkFollows, E!BuffersOwn, E!Using, E!Waiting, E!ReqOf
<1>8. E!FlightAwaited'
  BY DEF E!TypeOK, E!Exclusive, E!FlightAwaited, E!Using, E!Waiting, E!ReqOf, E!InFlight
<1>9. QED
  BY <1>1, <1>2, <1>3, <1>4, <1>5, <1>6, <1>7, <1>8

LEMMA DeliverIInv ==
  ASSUME E!IInv, NEW f \in e_wire, E!Deliver(f)
  PROVE  E!IInv'
<1>. USE DEF E!IInv, E!Deliver, E!bufVars, E!lockVars, E!userVars
<1>1. f \in E!Frame /\ E!InFlight' = E!InFlight
  BY IdxFacts DEF E!TypeOK, E!InFlight
<1>2. E!TypeOK'
  BY <1>1 DEF E!TypeOK
<1>3. /\ E!Exclusive' /\ E!MarksAreUsers' /\ E!OneLock' /\ E!ScanFinds' /\ E!MarkFollows'
      /\ E!BuffersOwn'
  BY DEF E!Exclusive, E!MarksAreUsers, E!OneLock, E!ScanFinds, E!MarkFollows, E!BuffersOwn, E!ReqOf
<1>4. E!FlightAwaited'
  BY <1>1 DEF E!FlightAwaited, E!ReqOf
<1>5. QED
  BY <1>2, <1>3, <1>4

(* A foreign frame is no answer. *)
LEMMA IntrudeIInv ==
  ASSUME E!IInv, E!Intrude
  PROVE  E!IInv'
<1>. USE DEF E!IInv, E!Intrude, E!bufVars, E!lockVars, E!userVars
<1>1. E!InFlight' = E!InFlight
  BY DEF E!InFlight
<1>2. E!TypeOK'
  BY DEF E!TypeOK
<1>3. /\ E!Exclusive' /\ E!MarksAreUsers' /\ E!OneLock' /\ E!ScanFinds' /\ E!MarkFollows'
      /\ E!BuffersOwn'
  BY DEF E!Exclusive, E!MarksAreUsers, E!OneLock, E!ScanFinds, E!MarkFollows, E!BuffersOwn, E!ReqOf
<1>4. E!FlightAwaited'
  BY <1>1, IdxFacts DEF E!FlightAwaited, E!ReqOf, E!TypeOK
<1>5. QED
  BY <1>2, <1>3, <1>4

LEMMA NextIInv ==
  ASSUME E!IInv, [E!Next]_(E!vars)
  PROVE  E!IInv'
<1>1. CASE UNCHANGED E!vars
  BY <1>1 DEF E!vars, E!bufVars, E!lockVars, E!netVars, E!userVars, E!IInv, E!TypeOK, E!Exclusive,
     E!MarksAreUsers, E!OneLock, E!ScanFinds, E!MarkFollows, E!BuffersOwn, E!FlightAwaited,
     E!ReqOf, E!InFlight
<1>2. ASSUME NEW f \in e_wire, E!Deliver(f) PROVE E!IInv'
  BY <1>2, DeliverIInv
<1>3. CASE E!Intrude
  BY <1>3, IntrudeIInv
<1>4. ASSUME NEW u \in User, E!UserStep(u) PROVE E!IInv'
  BY <1>4, LockIndexIInv, ScanNextIInv, ScanTakeIInv, SetupIInv, OutframeIInv,
     TakeFiledIInv, NotFiledIInv, LockPortIInv, ReadNothingIInv, ReadOwnIInv,
     ReadOtherIInv, ReadStrangeIInv, FileIInv, WaitOnIInv, RetryIInv, GiveUpIInv,
     ReleaseIInv DEF E!UserStep, E!Inframe
<1>5. QED
  BY <1>1, <1>2, <1>3, <1>4 DEF E!Next

(* The inductive invariant holds throughout. *)
THEOREM ErikaInductive == E!Spec => []E!IInv
<1>1. E!Init => E!IInv
  BY InitIInv
<1>2. E!IInv /\ [E!Next]_(E!vars) => E!IInv'
  BY NextIInv
<1>3. QED
  BY <1>1, <1>2, PTL DEF E!Spec

-----------------------------------------------------------------------------
(* The driver implements FrameExchange.  An index is taken when the search *)
(* ends, an answer given when it is found filed or read from the card, and *)
(* all is over with the release; everything else is invisible.             *)
LEMMA StepSimulated ==
  ASSUME E!IInv, E!IInv', [E!Next]_(E!vars)
  PROVE  [E!Exchange!Next]_(E!Exchange!vars)
<1>. DEFINE got == [u \in User |-> IF e_pc[u] = "copy" /\ e_wkc[u] > E!NOFRAME
                                   THEN e_rxbuf[e_idx[u]] ELSE E!NoReq]
<1>. USE DEF E!IInv, E!Goto, E!Mark, E!bufVars, E!lockVars, E!netVars, E!userVars
<1>1. CASE UNCHANGED E!vars
  BY <1>1 DEF E!vars, E!Exchange!vars
<1>2. ASSUME NEW u \in User, E!ScanTake(u) PROVE E!Exchange!Begin(u)
  <2>1. got' = got
    BY <1>2 DEF E!ScanTake, E!TypeOK
  <2>2. e_idx[u] = E!NoIdx
    BY <1>2 DEF E!ScanTake, E!Exclusive, E!Using, E!Waiting
  <2>3. e_scan.idx \in E!Idx /\ \A v \in User : e_idx[v] # e_scan.idx
    <3>1. e_rxbufstat[e_scan.idx] = "EMPTY" /\ e_scan.idx \in E!Idx
      BY <1>2, TakesUnused
    <3>2. QED
      BY <3>1, IdxFacts DEF E!MarksAreUsers
  <2>4. QED
    BY <1>2, <2>1, <2>2, <2>3 DEF E!ScanTake, E!Exchange!Begin
<1>3. ASSUME NEW u \in User, E!TakeFiled(u) \/ E!ReadOwn(u)
      PROVE  E!Exchange!Obtain(u)
  <2>1. e_idx[u] # E!NoIdx /\ e_pc[u] # "copy" /\ got[u] = E!NoReq
    BY <1>3 DEF E!TakeFiled, E!ReadOwn, E!Exclusive, E!Using, E!Waiting
  <2>2. e_pc'[u] = "copy" /\ e_wkc'[u] > E!NOFRAME
    BY <1>3 DEF E!TakeFiled, E!ReadOwn, E!Complete, E!TypeOK, E!WKC, E!NOFRAME
  <2>3. got'[u] = <<u, e_gen[u]>>
    BY <1>3, <2>2 DEF E!BuffersOwn, E!ReqOf, E!TakeFiled, E!ReadOwn
  <2>4. ASSUME NEW v \in User \ {u} PROVE got'[v] = got[v]
    <3>1. CASE e_pc[v] = "copy"
      <4>1. e_idx[v] \in E!Idx /\ e_idx[v] # e_idx[u]
        BY <2>1, <3>1, IdxFacts DEF E!TypeOK, E!Exclusive, E!Using
      <4>2. e_rxbuf'[e_idx[v]] = e_rxbuf[e_idx[v]]
        BY <1>3, <4>1 DEF E!TakeFiled, E!ReadOwn, E!TypeOK
      <4>3. QED
        BY <1>3, <3>1, <4>2 DEF E!TakeFiled, E!ReadOwn, E!Complete, E!TypeOK
    <3>2. CASE e_pc[v] # "copy"
      BY <1>3, <3>2 DEF E!TakeFiled, E!ReadOwn, E!Complete, E!TypeOK
    <3>3. QED
      BY <3>1, <3>2
  <2>5. got' = [got EXCEPT ![u] = <<u, e_gen[u]>>]
    BY <2>3, <2>4
  <2>6. UNCHANGED <<e_idx, e_gen>>
    BY <1>3 DEF E!TakeFiled, E!ReadOwn
  <2>7. QED
    BY <2>1, <2>5, <2>6 DEF E!Exchange!Obtain
<1>4. ASSUME NEW u \in User, E!Release(u) PROVE E!Exchange!End(u)
  <2>1. e_idx[u] # E!NoIdx
    BY <1>4 DEF E!Release, E!Exclusive, E!Using
  <2>2. got' = [got EXCEPT ![u] = E!NoReq]
    BY <1>4 DEF E!Release, E!TypeOK
  <2>3. QED
    BY <1>4, <2>1, <2>2 DEF E!Release, E!Exchange!End
<1>5. ASSUME NEW u \in User,
             \/ E!LockIndex(u) \/ E!ScanNext(u) \/ E!Setup(u) \/ E!Outframe(u)
             \/ E!NotFiled(u) \/ E!LockPort(u) \/ E!ReadNothing(u) \/ E!ReadOther(u)
             \/ E!ReadStrange(u) \/ E!WaitOn(u) \/ E!Retry(u) \/ E!GiveUp(u)
      PROVE  UNCHANGED E!Exchange!vars
  <2>1. UNCHANGED <<e_idx, e_gen, e_rxbuf>>
    BY <1>5 DEF E!LockIndex, E!ScanNext, E!Setup, E!Outframe, E!NotFiled, E!LockPort,
       E!ReadNothing, E!ReadOther, E!ReadStrange, E!WaitOn, E!Retry, E!GiveUp
  <2>2. \A v \in User : (e_pc[v] = "copy" /\ e_wkc[v] > E!NOFRAME)
                        <=> (e_pc'[v] = "copy" /\ e_wkc'[v] > E!NOFRAME)
    BY <1>5 DEF E!LockIndex, E!ScanNext, E!Setup, E!Outframe, E!NotFiled, E!LockPort,
       E!ReadNothing, E!ReadOther, E!ReadStrange, E!WaitOn, E!Retry, E!GiveUp, E!TypeOK,
       E!MarkFollows, E!NOFRAME, E!OTHERFRAME, E!WKC
  <2>3. QED
    BY <2>1, <2>2 DEF E!Exchange!vars
<1>6. ASSUME NEW u \in User, E!File(u) PROVE UNCHANGED E!Exchange!vars
  <2>1. PICK f \in e_tempinbuf : e_rxbuf' = [e_rxbuf EXCEPT ![f.idx] = f.req]
    BY <1>6 DEF E!File
  <2>2. e_rxbufstat[f.idx] = "TX"
    BY <2>1 DEF E!FlightAwaited, E!InFlight
  <2>3. UNCHANGED <<e_idx, e_gen, e_wkc>> /\ e_pc' = [e_pc EXCEPT ![u] = "timer"]
    BY <1>6 DEF E!File
  <2>4. got' = got
    <3>1. ASSUME NEW v \in User PROVE got'[v] = got[v]
      BY <1>6, <2>1, <2>2, <2>3 DEF E!File, E!TypeOK, E!MarkFollows
    <3>2. QED
      BY <3>1
  <2>5. QED
    BY <2>3, <2>4 DEF E!Exchange!vars
<1>7. ASSUME (\E f \in e_wire : E!Deliver(f)) \/ E!Intrude PROVE UNCHANGED E!Exchange!vars
  BY <1>7 DEF E!Deliver, E!Intrude, E!Exchange!vars
<1>8. QED
  BY <1>1, <1>2, <1>3, <1>4, <1>5, <1>6, <1>7
  DEF E!Next, E!UserStep, E!Inframe, E!Exchange!Next

(* Whoever uses the driver sees exclusive indices, its own answers, and    *)
(* nothing else.                                                           *)
THEOREM ErikaImplements == E!Spec => E!ExchangeSpec
<1>1. E!Init => E!Exchange!Init
  BY DEF E!Init, E!Exchange!Init
<1>2. E!IInv /\ E!IInv' /\ [E!Next]_(E!vars) => [E!Exchange!Next]_(E!Exchange!vars)
  BY StepSimulated
<1>3. QED
  BY <1>1, <1>2, ErikaInductive, PTL DEF E!Spec, E!ExchangeSpec, E!Exchange!Spec

-----------------------------------------------------------------------------
(* A behaviour of the two drivers is one of either.                        *)
LEMMA PortsAreErika == PortsSpec => E!Spec
<1>1. PortsInit => E!Init
  BY DEF PortsInit
<1>2. [PortsNext]_<<port, vars, evars>> => [E!Next]_(E!vars)
  BY DEF PortsNext, evars, E!vars, E!bufVars, E!lockVars, E!netVars, E!userVars
<1> QED
  BY <1>1, <1>2, PTL DEF PortsSpec, E!Spec

(* MarksAreUsers: no index of the ERIKA driver stays marked that nobody    *)
(* uses, and none is marked unused under its user, though ecx_setbufstat   *)
(* and ecx_outframe take no lock and no send is checked.                   *)
THEOREM MarksStay == PortsSpec => []MarksAreUsers
<1>1. E!IInv => MarksAreUsers
  BY DEF MarksAreUsers, E!IInv
<1> QED
  BY <1>1, PortsAreErika, ErikaInductive, PTL

(* ExchangeSpec: whoever uses the ERIKA driver sees exclusive indices, its *)
(* own answers, and nothing else.                                          *)
THEOREM ErikaExchanges == PortsSpec => ExchangeSpec
BY PortsAreErika, ErikaImplements, PTL DEF ExchangeSpec
==============================================================================
