------------------------------- MODULE VxNicDrv -------------------------------
(***************************************************************************)
(* The driver of the VxWorks port, oshw/vxworks/nicdrv.c, with one network *)
(* card or two.  It has no receive mutex: the network task of the system   *)
(* calls mux_rx_callback for every frame, which posts the packet to a      *)
(* message queue of one place for the index in the frame, and the caller   *)
(* blocks on the queue of its index.  Packets are taken from a pool and    *)
(* have to go back there.                                                  *)
(*                                                                         *)
(* Callers make blocking calls (ecx_getindex, ecx_srconfirm,               *)
(* ecx_setbufstat).  The network task runs at a higher priority than they  *)
(* do, so that the callback is one step; theirs are one for each access to *)
(* the queues, the card or the status of a buffer.  The ring is two groups *)
(* of slaves, those near the primary card and those far from it; it may be *)
(* broken between them.                                                    *)
(***************************************************************************)
EXTENDS Naturals, Sequences, FiniteSets

CONSTANTS
  Caller,    \* threads
  NBuf,      \* EC_MAXBUF (16)
  Packets,   \* packets in the pools of the cards, counted together
  MaxTries,  \* bound: attempts of a call
  RedCalls,  \* bound: calls at a time with two cards
  MaxFault   \* bound: frames lost, sends that fail, timers that are too early

ASSUME VxConstants ==
  /\ IsFiniteSet(Caller) /\ {"dummy", "old"} \cap Caller = {}
  /\ NBuf \in Nat \ {0} /\ Packets \in Nat \ {0} /\ MaxTries \in Nat \ {0}
  /\ RedCalls \in Nat \ {0} /\ MaxFault \in Nat

Card  == {"prim", "sec"}
Idx   == 0..NBuf - 1
Group == {"near", "far"}

VARIABLES
  open,       \* the port is set up
  redstate,   \* "none" or "double"
  broken,     \* the ring is broken between the groups
  rxbufstat,  \* rxbufstat[c][i]
  rxbuf,      \* rxbuf[c][i]: the frame in the buffer
  msgQ,       \* msgQ[c][i]: the queue of index i
  lastidx,
  free,       \* packets in the pool
  wire,       \* frames on their way
  pc, idx,    \* for each caller: where it is, and its index
  sending,    \* what it is about to send: the "request", a "dummy" through
              \* the secondary card, or "again" through that one
  tries,
  wkc,        \* wkc[t][c]: "none", or "new" or "old" when it got a frame, by
              \* whether that was in the queue before it had its index
  txbuf,      \* txbuf[i]: the datagram to send
  faults,
  calm        \* history: calm[t]: nothing disturbed its call, nor that of
              \* another caller that goes on with the index after a failed
              \* send, and nothing was left of earlier calls with the index on
              \* the wire or in the queue of the secondary card

ring   == <<open, redstate, broken>>
bufs   == <<rxbufstat, rxbuf, msgQ>>
caller == <<pc, idx, sending, tries, wkc>>
vars == <<ring, bufs, lastidx, free, wire, caller, txbuf, faults, calm>>

(* A datagram: the caller whose request it is ("old" when the call is      *)
(* over, "dummy" for the one ecx_outframe_red sends through the secondary  *)
(* card), and the groups that executed it.                                 *)
Datagram == [of : Caller \cup {"dummy", "old"}, by : SUBSET Group]
OldData  == [of |-> "old", by |-> {}]
Dummy    == [of |-> "dummy", by |-> {}]
Frame    == [idx : Idx, from : Card, data : Datagram, try : 0..MaxTries]

(* Before ecx_setupnic. *)
Init ==
  /\ open = FALSE /\ redstate = "none" /\ broken = FALSE
  /\ rxbufstat = [c \in Card |-> [i \in Idx |-> "EMPTY"]]
  /\ rxbuf = [c \in Card |-> [i \in Idx |-> OldData]]
  /\ msgQ = [c \in Card |-> [i \in Idx |-> <<>>]]
  /\ lastidx = 0 /\ free = Packets /\ wire = {}
  /\ pc = [t \in Caller |-> "idle"] /\ idx = [t \in Caller |-> 0]
  /\ sending = [t \in Caller |-> "request"] /\ tries = [t \in Caller |-> 0]
  /\ wkc = [t \in Caller |-> [c \in Card |-> "none"]]
  /\ txbuf = [i \in Idx |-> OldData]
  /\ faults = 0
  /\ calm = [t \in Caller |-> FALSE]

(* Something goes wrong, for every call under way. *)
Fault ==
  /\ faults < MaxFault /\ faults' = faults + 1
  /\ calm' = [t \in Caller |-> FALSE]
NoFault == UNCHANGED <<faults, calm>>

-----------------------------------------------------------------------------
(* ecx_setupnic, for one card or for both. *)
Setup(red) ==
  /\ ~open /\ wire = {}
  /\ open' = TRUE /\ redstate' = red /\ broken' \in BOOLEAN
  /\ lastidx' = 0
  /\ rxbufstat' = [c \in Card |-> [i \in Idx |-> "EMPTY"]]
  /\ msgQ' = [c \in Card |-> [i \in Idx |-> <<>>]]
  /\ UNCHANGED <<rxbuf, free, wire, caller, txbuf>> /\ NoFault

Queued == {q \in Card \X Idx : msgQ[q[1]][q[2]] # <<>>}

(* ecx_closenic: the packets in the queues go back to the pool.            *)
Close ==
  /\ open /\ \A t \in Caller : pc[t] = "idle"
  /\ open' = FALSE
  /\ free' = free + Cardinality(Queued)
  /\ msgQ' = [c \in Card |-> [i \in Idx |-> <<>>]]
  /\ UNCHANGED <<redstate, broken, rxbufstat, rxbuf, lastidx, wire, caller, txbuf>>
  /\ NoFault

-----------------------------------------------------------------------------
(* The ring: the groups a frame from card c goes through, and the card at  *)
(* which it arrives.                                                       *)
Through(c) ==
  IF c = "prim" THEN IF broken THEN {"near"} ELSE Group
  ELSE IF broken THEN {"far"} ELSE {}

Arrival(f) ==
  IF redstate = "none" \/ broken THEN f.from
  ELSE IF f.from = "prim" THEN "sec" ELSE "prim"

Lose(f) ==
  /\ Fault
  /\ wire' = wire \ {f}
  /\ UNCHANGED <<ring, bufs, lastidx, free, caller, txbuf>>

(* mux_rx_callback: a frame somebody expects is posted; if there is one in *)
(* the queue already, the later one replaces it.  The packet it came in is *)
(* freed by the caller otherwise; without a packet it is not received.     *)
Expected(c, i) == open /\ rxbufstat[c][i] = "TX"

Overrun_Leaks(n) == n - 1   \* mutation: the packet replaced is not freed
Overrun(n) == n

RxCallback(f) ==
  LET c == Arrival(f)
      i == f.idx
      m == IF f.data = Dummy THEN Dummy
           ELSE [f.data EXCEPT !.by = @ \cup Through(f.from)] IN
  /\ wire' = wire \ {f}
  /\ IF free > 0 /\ Expected(c, i)
     THEN /\ msgQ' = [msgQ EXCEPT ![c][i] = <<[data |-> m, old |-> {}]>>]
          /\ free' = IF msgQ[c][i] = <<>> THEN free - 1 ELSE Overrun(free)
     ELSE UNCHANGED <<msgQ, free>>
  /\ IF free = 0 THEN faults' = faults /\ calm' = [t \in Caller |-> FALSE]
     ELSE NoFault
  /\ UNCHANGED <<ring, rxbufstat, rxbuf, lastidx, caller, txbuf>>

-----------------------------------------------------------------------------
Goto(t, l) == pc' = [pc EXCEPT ![t] = l]

(* ecx_getindex, under its semaphore: the first index from the last one on *)
(* that is empty; after a full turn the one it began with, empty or not.   *)
Turn(k)  == (lastidx + 1 + k) % NBuf
Empty(i) == rxbufstat["prim"][i] = "EMPTY"
NextIndex_Any(i) == i = Turn(0)   \* mutation: whether it is empty or not
NextIndex(i) ==
  \/ \E k \in 0..NBuf - 1 :
       i = Turn(k) /\ Empty(i) /\ \A j \in 0..k - 1 : ~Empty(Turn(j))
  \/ i = Turn(0) /\ \A j \in Idx : ~Empty(j)

(* What lies in a queue of the index is old for the caller that gets it.   *)
Noted(t, q) == IF q = <<>> THEN q ELSE <<[q[1] EXCEPT !.old = @ \cup {t}]>>

GetIndex(t) ==
  /\ open /\ pc[t] = "idle"
  /\ redstate = "double" => Cardinality({u \in Caller : pc[u] # "idle"}) < RedCalls
  /\ \E i \in Idx :
     /\ NextIndex(i)
     /\ idx' = [idx EXCEPT ![t] = i] /\ lastidx' = i
     /\ rxbufstat' = [rxbufstat EXCEPT !["prim"][i] = "ALLOC"]
     /\ txbuf' = [txbuf EXCEPT ![i] = [of |-> t, by |-> {}]]
     /\ msgQ' = [c \in Card |-> [msgQ[c] EXCEPT ![i] = Noted(t, @)]]
     /\ calm' = [calm EXCEPT ![t] =
                   /\ (\A f \in wire : f.idx # i) /\ msgQ["sec"][i] = <<>>
                   /\ \A u \in Caller : pc[u] # "idle" /\ idx[u] = i => calm[u]]
  /\ tries' = [tries EXCEPT ![t] = 1] /\ Goto(t, "outframe")
  /\ sending' = [sending EXCEPT ![t] = "request"]
  /\ wkc' = [wkc EXCEPT ![t] = [c \in Card |-> "none"]]
  /\ UNCHANGED <<ring, rxbuf, free, wire, faults>>

(* The card what is to be sent goes out on. *)
Out(t) == IF sending[t] = "request" THEN "prim" ELSE "sec"

(* ecx_outframe, and the second half of ecx_outframe_red. *)
Outframe(t) ==
  /\ pc[t] = "outframe" /\ Goto(t, "clean")
  /\ rxbufstat' = [rxbufstat EXCEPT ![Out(t)][idx[t]] = "TX"]
  /\ UNCHANGED <<ring, rxbuf, msgQ, lastidx, free, wire, idx, sending, tries, wkc,
                 txbuf>> /\ NoFault

(* What comes after a frame is sent, or could not be. *)
AfterSend(t) ==
  /\ pc' = [pc EXCEPT ![t] =
       CASE sending[t] = "request" /\ redstate = "double" -> "outframe"
         [] sending[t] = "again" -> "again"
         [] OTHER -> "prim"]
  /\ sending' = [sending EXCEPT ![t] =
                   IF @ = "request" /\ redstate = "double" THEN "dummy" ELSE @]

NotSent(t) == rxbufstat' = [rxbufstat EXCEPT ![Out(t)][idx[t]] = "EMPTY"]

(* ec_outfram_send takes the packet of an abandoned frame, which it looks  *)
(* for in the queue of the primary card whichever card it sends on, or one *)
(* from the pool.  A mutation does not look.                               *)
Abandoned_Never(i) == FALSE
Abandoned(i) == msgQ["prim"][i] # <<>>

Clean(t) ==
  /\ pc[t] = "clean" /\ Abandoned(idx[t])
  /\ msgQ' = [msgQ EXCEPT !["prim"][idx[t]] = <<>>]
  /\ Goto(t, "send")
  /\ UNCHANGED <<ring, rxbufstat, rxbuf, lastidx, free, wire, idx, sending, tries,
                 wkc, txbuf>> /\ NoFault

Allocate(t) ==
  /\ pc[t] = "clean" /\ ~Abandoned(idx[t]) /\ free > 0
  /\ free' = free - 1
  /\ Goto(t, "send")
  /\ UNCHANGED <<ring, bufs, lastidx, wire, idx, sending, tries, wkc, txbuf>>
  /\ NoFault

NoPacket(t) ==
  /\ pc[t] = "clean" /\ ~Abandoned(idx[t]) /\ free = 0
  /\ NotSent(t) /\ AfterSend(t)
  /\ calm' = [calm EXCEPT ![t] = FALSE]
  /\ UNCHANGED <<ring, rxbuf, msgQ, lastidx, free, wire, idx, tries, wkc,
                 txbuf, faults>>

(* muxSend: the card frees the packet when it has sent it.                 *)
Send(t) ==
  /\ pc[t] = "send"
  /\ free' = free + 1
  /\ wire' = wire \cup
       {[idx |-> idx[t], from |-> Out(t), try |-> tries[t],
         data |-> IF sending[t] = "dummy" THEN Dummy ELSE txbuf[idx[t]]]}
  /\ AfterSend(t)
  /\ UNCHANGED <<ring, bufs, lastidx, idx, tries, wkc, txbuf>> /\ NoFault

SendFails(t) ==
  /\ pc[t] = "send" /\ Fault
  /\ free' = free + 1
  /\ NotSent(t) /\ AfterSend(t)
  /\ UNCHANGED <<ring, rxbuf, msgQ, lastidx, wire, idx, tries, wkc, txbuf>>

-----------------------------------------------------------------------------
(* ecx_waitinframe_red: first the primary, then the secondary card is      *)
(* waited for.  ecx_recvpkt blocks for the whole timeout of the call, so   *)
(* that the timer of the loop is over when it gets nothing, and the loop   *)
(* is left.                                                                *)
Waits == [prim |-> "prim", sec |-> "sec", again |-> "sec"]

Received(t) ==
  CASE pc[t] = "prim" /\ redstate = "double" -> "sec"
    [] pc[t] = "sec" -> "decide"
    [] OTHER -> "confirm"

(* ecx_inframe with a frame in the queue.  The frame sent again is the     *)
(* result of the call.                                                     *)
Inframe(t) ==
  /\ pc[t] \in DOMAIN Waits
  /\ LET c == Waits[pc[t]]
         i == idx[t]
         q == msgQ[c][i]
         to == IF pc[t] = "again" THEN Card ELSE {c} IN
     /\ q # <<>>
     /\ msgQ' = [msgQ EXCEPT ![c][i] = <<>>]
     /\ free' = free + 1
     /\ rxbufstat' = [rxbufstat EXCEPT ![c][i] = "COMPLETE"]
     /\ rxbuf' = [d \in Card |-> IF d \in to THEN [rxbuf[d] EXCEPT ![i] = q[1].data]
                                ELSE rxbuf[d]]
     /\ wkc' = [wkc EXCEPT ![t] = [d \in Card |-> IF d \in to
                  THEN IF t \in q[1].old THEN "old" ELSE "new" ELSE @[d]]]
  /\ Goto(t, Received(t))
  /\ UNCHANGED <<ring, lastidx, wire, idx, sending, tries, txbuf>> /\ NoFault

(* It gets nothing: nothing will come, or it comes too late. *)
TimesOut(t) ==
  /\ pc[t] \in DOMAIN Waits
  /\ LET c == Waits[pc[t]] IN
     /\ msgQ[c][idx[t]] = <<>>
     /\ IF \E f \in wire : f.idx = idx[t] /\ Arrival(f) = c THEN Fault ELSE NoFault
     /\ wkc' = IF pc[t] = "again" THEN [wkc EXCEPT ![t]["sec"] = "none"] ELSE wkc
  /\ Goto(t, Received(t))
  /\ UNCHANGED <<ring, bufs, lastidx, free, wire, idx, sending, tries, txbuf>>

(* rxsa: whose address is in the frame; the dummy is the one frame with    *)
(* that of the secondary card.                                             *)
Rx(t, c) ==
  IF wkc[t][c] = "none" THEN "none"
  ELSE IF rxbuf[c][idx[t]] = Dummy THEN "sec" ELSE "prim"
Crossed(t) == Rx(t, "prim") = "sec" /\ Rx(t, "sec") = "prim"
Turned(t)  == Rx(t, "prim") \in {"none", "prim"} /\ Rx(t, "sec") = "sec"

(* The request went through the whole ring: it is in the secondary buffer. *)
DecideCrossed(t) ==
  /\ pc[t] = "decide" /\ Crossed(t)
  /\ rxbuf' = [rxbuf EXCEPT !["prim"][idx[t]] = rxbuf["sec"][idx[t]]]
  /\ wkc' = [wkc EXCEPT ![t]["prim"] = wkc[t]["sec"]]
  /\ Goto(t, "confirm")
  /\ UNCHANGED <<ring, rxbufstat, msgQ, lastidx, free, wire, idx, sending, tries,
                  txbuf>> /\ NoFault

(* Sent again through the secondary card: what came back on the primary,   *)
(* or the request as it was if nothing did.                                *)
DecideTurned(t) ==
  /\ pc[t] = "decide" /\ Turned(t)
  /\ txbuf' = IF Rx(t, "prim") = "prim"
              THEN [txbuf EXCEPT ![idx[t]] = rxbuf["prim"][idx[t]]] ELSE txbuf
  /\ sending' = [sending EXCEPT ![t] = "again"]
  /\ Goto(t, "outframe")
  /\ UNCHANGED <<ring, bufs, lastidx, free, wire, idx, tries, wkc>> /\ NoFault

DecideNothing(t) ==
  /\ pc[t] = "decide" /\ ~Crossed(t) /\ ~Turned(t)
  /\ Goto(t, "confirm")
  /\ UNCHANGED <<ring, bufs, lastidx, free, wire, idx, sending, tries, wkc,
                 txbuf>> /\ NoFault

(* ecx_srconfirm tries again if time is left, which is so only when the    *)
(* rounding to ticks made the wait shorter than the timeout.               *)
Confirm(t) ==
  /\ pc[t] = "confirm" /\ wkc[t]["prim"] = "none" /\ tries[t] < MaxTries
  /\ Goto(t, "outframe")
  /\ tries' = [tries EXCEPT ![t] = @ + 1]
  /\ sending' = [sending EXCEPT ![t] = "request"]
  /\ wkc' = [wkc EXCEPT ![t] = [c \in Card |-> "none"]]
  /\ UNCHANGED <<ring, bufs, lastidx, free, wire, idx, txbuf>> /\ NoFault

(* ecx_setbufstat, after the call; what is left of its request is old, and *)
(* what is in the receive buffers when nobody shares the index will be     *)
(* overwritten before it is read.                                          *)
Alone(t) == \A u \in Caller \ {t} : pc[u] = "idle" \/ idx[u] # idx[t]

Aged(t, d) == IF d.of = t THEN OldData ELSE d

Release(t) ==
  /\ pc[t] = "confirm" /\ Goto(t, "idle")
  /\ rxbufstat' = [c \in Card |-> IF c = "sec" /\ redstate = "none" THEN rxbufstat[c]
                                ELSE [rxbufstat[c] EXCEPT ![idx[t]] = "EMPTY"]]
  /\ idx' = [idx EXCEPT ![t] = 0] /\ tries' = [tries EXCEPT ![t] = 0]
  /\ sending' = [sending EXCEPT ![t] = "request"]
  /\ wkc' = [wkc EXCEPT ![t] = [c \in Card |-> "none"]]
  /\ calm' = [calm EXCEPT ![t] = FALSE]
  /\ txbuf' = [i \in Idx |-> Aged(t, txbuf[i])]
  /\ rxbuf' = [c \in Card |-> [i \in Idx |->
                 IF i = idx[t] /\ Alone(t) THEN OldData ELSE Aged(t, rxbuf[c][i])]]
  /\ wire' = {[f EXCEPT !.data = Aged(t, @), !.try = IF f.data.of = t THEN 0 ELSE @] :
                 f \in wire}
  /\ msgQ' = [c \in Card |-> [i \in Idx |->
                [k \in DOMAIN msgQ[c][i] |->
                   [data |-> Aged(t, msgQ[c][i][k].data), old |-> msgQ[c][i][k].old \ {t}]]]]
  /\ UNCHANGED <<ring, lastidx, free, faults>>

CallerStep(t) ==
  \/ GetIndex(t) \/ Outframe(t) \/ Clean(t) \/ Allocate(t) \/ NoPacket(t)
  \/ Send(t) \/ SendFails(t) \/ Inframe(t) \/ TimesOut(t)
  \/ DecideCrossed(t) \/ DecideTurned(t) \/ DecideNothing(t)
  \/ Confirm(t) \/ Release(t)

Next ==
  \/ \E red \in {"none", "double"} : Setup(red)
  \/ Close
  \/ \E f \in wire : RxCallback(f) \/ Lose(f)
  \/ \E t \in Caller : CallerStep(t)

Spec == Init /\ [][Next]_vars

-----------------------------------------------------------------------------
(* No packet leaks and none is freed twice: each is in the pool, in a      *)
(* queue or in the hands of a caller about to send it, whatever frames are *)
(* abandoned, replaced or refused; and closing the port leaves none        *)
(* behind.                                                                 *)
PacketsKept ==
  /\ free + Cardinality(Queued) + Cardinality({t \in Caller : pc[t] = "send"}) = Packets
  /\ ~open => free = Packets

(* "Clean up any abandoned frames" (ec_outfram_send): a caller is not given *)
(* a frame that lay in the queue of the primary card before it had the     *)
(* index.  (The queues of the secondary card are never cleaned, and from   *)
(* there an old frame may get into the result.)                            *)
NoneAbandoned ==
  \A t \in Caller :
    redstate = "none" \/ pc[t] \in {"sec", "decide"} => wkc[t]["prim"] # "old"

(* A call that nothing disturbs brings back its own request, executed by   *)
(* every slave a frame can reach from the only card; with two cards, where *)
(* the request may be back before it is expected, at least never that of   *)
(* another call.                                                           *)
OwnData ==
  \A t \in Caller :
    pc[t] = "confirm" /\ calm[t] =>
      LET f == rxbuf["prim"][idx[t]] IN
      IF redstate = "none"
      THEN /\ wkc[t]["prim"] = "new" /\ f.of = t
           /\ f.by = IF broken THEN {"near"} ELSE Group
      ELSE wkc[t]["prim"] # "none" => f.of \in {"dummy", t}
===============================================================================
