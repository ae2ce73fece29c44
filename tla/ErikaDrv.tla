-------------------------------- MODULE ErikaDrv --------------------------------
(***************************************************************************)
(* The driver of the ERIKA port, oshw/erika/nicdrv.c: NicDrv's buffers and *)
(* indices with one lock, ee_port_lock, for the search of an index and for *)
(* the reading of the card.  Whoever has the lock to read goes on reading  *)
(* until the card is empty or a frame was of use, and drops foreign frames *)
(* on the way.  Sends are not checked: a frame that could not be sent is   *)
(* one that is lost.  There is no second card: ecx_setupnic never sets     *)
(* redstate.                                                               *)
(*                                                                         *)
(* A User is a thread in a blocking call, or a segment of the process data *)
(* from ecx_send_processdata to ecx_receive_processdata.  No timer expires *)
(* while an answer is on its way; what happens then is the same as in      *)
(* NicDrv.                                                                 *)
(***************************************************************************)
EXTENDS PortUsers

Idx   == 0..(MaxBuf - 1)
NoIdx == -1

NOFRAME    == -1   \* EC_NOFRAME
OTHERFRAME == -2   \* EC_OTHERFRAME
WKC        == {0, 1}  \* no slave answered, slaves answered

Req     == User \X (0..(NGen - 1))
NoReq   == <<NoOne, 0>>
Frame   == [idx : Idx, req : Req]
Foreign == [idx |-> NoIdx, req |-> NoReq]  \* no EtherCAT frame, or no such index

VARIABLES
  rxbufstat,  \* port->rxbufstat
  lastidx,    \* port->lastidx
  txbuf,      \* port->txbuf: the request each transmit buffer holds
  rxbuf,      \* port->rxbuf: the answer each receive buffer holds
  tempinbuf,  \* port->tempinbuf while a frame is being filed
  lock,       \* ee_port_lock: its holder
  scan,       \* the locals idx and cnt of the ecx_getindex that runs
  wire,       \* frames on the cable
  card,       \* frames the card has received
  pc,         \* where each user is
  idx,        \* the index it uses
  gen,        \* the generation of its request
  wkc         \* its working counter

bufVars  == <<rxbufstat, txbuf, rxbuf, tempinbuf>>
lockVars == <<lastidx, lock, scan>>
netVars  == <<wire, card>>
userVars == <<pc, idx, gen, wkc>>
vars     == <<bufVars, lockVars, netVars, userVars>>

ReqOf(u)   == <<u, gen[u]>>
NextIdx(i) == IF i + 1 >= MaxBuf THEN 0 ELSE i + 1
InFlight   == wire \cup (card \ {Foreign}) \cup tempinbuf

Mark(i, stat) == rxbufstat' = [rxbufstat EXCEPT ![i] = stat]
Goto(u, l)    == pc' = [pc EXCEPT ![u] = l]
Unlock        == lock' = NoOne

(* ecx_setupnic, for one card whatever `secondary' says. *)
Init ==
  /\ rxbufstat = [i \in Idx |-> "EMPTY"] /\ lastidx = 0
  /\ txbuf = [i \in Idx |-> NoReq] /\ rxbuf = [i \in Idx |-> NoReq]
  /\ tempinbuf = {} /\ lock = NoOne /\ scan = [idx |-> 0, cnt |-> 0]
  /\ wire = {} /\ card = {}
  /\ pc = [u \in User |-> "idle"] /\ idx = [u \in User |-> NoIdx]
  /\ gen = [u \in User |-> 0] /\ wkc = [u \in User |-> NOFRAME]

-----------------------------------------------------------------------------
(* ecx_getindex.  Other users mark and free entries while it searches.     *)
LockIndex(u) ==
  /\ pc[u] = "idle" /\ lock = NoOne
  /\ lock' = u
  /\ scan' = [idx |-> NextIdx(lastidx), cnt |-> 0]
  /\ Goto(u, "scan")
  /\ UNCHANGED <<bufVars, lastidx, netVars, idx, gen, wkc>>

(* A mutation takes the next entry for free once it has an answer.         *)
Busy_OnlyTX == rxbufstat[scan.idx] = "TX" /\ scan.cnt < MaxBuf
Busy        == rxbufstat[scan.idx] # "EMPTY" /\ scan.cnt < MaxBuf

ScanNext(u) ==
  /\ pc[u] = "scan" /\ Busy
  /\ scan' = [idx |-> NextIdx(scan.idx), cnt |-> scan.cnt + 1]
  /\ UNCHANGED <<bufVars, lastidx, lock, netVars, userVars>>

ScanTake(u) ==
  /\ pc[u] = "scan" /\ ~Busy
  /\ Mark(scan.idx, "ALLOC")
  /\ lastidx' = scan.idx /\ Unlock
  /\ scan' = [idx |-> 0, cnt |-> 0]
  /\ idx' = [idx EXCEPT ![u] = scan.idx]
  /\ Goto(u, "setup")
  /\ UNCHANGED <<txbuf, rxbuf, tempinbuf, netVars, gen, wkc>>

(* ecx_setupdatagram *)
Setup(u) ==
  /\ pc[u] = "setup"
  /\ txbuf' = [txbuf EXCEPT ![idx[u]] = ReqOf(u)]
  /\ Goto(u, "send")
  /\ UNCHANGED <<rxbufstat, rxbuf, tempinbuf, lockVars, netVars, idx, gen, wkc>>

(* ecx_outframe_red and ecx_outframe: the mark first, then the frame, which *)
(* goes round or is lost, or was never sent.                               *)
Outframe(u) ==
  /\ pc[u] = "send"
  /\ Mark(idx[u], "TX")
  /\ \/ wire' = wire
     \/ wire' = wire \cup {[idx |-> idx[u], req |-> txbuf[idx[u]]]}
  /\ Goto(u, "check")
  /\ UNCHANGED <<txbuf, rxbuf, tempinbuf, lockVars, card, idx, gen, wkc>>

-----------------------------------------------------------------------------
(* ecx_inframe: whether the answer has been filed is looked at without the *)
(* lock.                                                                   *)
Complete(u) ==
  /\ Mark(idx[u], "COMPLETE")
  /\ \E w \in WKC : wkc' = [wkc EXCEPT ![u] = w]
  /\ Goto(u, "copy")

TakeFiled(u) ==
  /\ pc[u] = "check" /\ rxbufstat[idx[u]] = "RCVD"
  /\ Complete(u)
  /\ UNCHANGED <<txbuf, rxbuf, tempinbuf, lockVars, netVars, idx, gen>>

NotFiled(u) ==
  /\ pc[u] = "check" /\ rxbufstat[idx[u]] # "RCVD"
  /\ Goto(u, "lock")
  /\ UNCHANGED <<bufVars, lockVars, netVars, idx, gen, wkc>>

LockPort(u) ==
  /\ pc[u] = "lock" /\ lock = NoOne
  /\ lock' = u
  /\ wkc' = [wkc EXCEPT ![u] = NOFRAME]
  /\ Goto(u, "read")
  /\ UNCHANGED <<bufVars, lastidx, scan, netVars, idx, gen>>

(* ecx_recvpkt finds the card empty: the loop is left.                     *)
ReadNothing(u) ==
  /\ pc[u] = "read" /\ card = {}
  /\ Unlock /\ Goto(u, "timer")
  /\ UNCHANGED <<bufVars, lastidx, scan, netVars, idx, gen, wkc>>

(* The frame carries the requested index; a mutation does not look.        *)
IsRequested_Any(u, f) == f # Foreign
IsRequested(u, f) == f.idx = idx[u]

ReadOwn(u) ==
  /\ pc[u] = "read"
  /\ \E f \in card :
       /\ IsRequested(u, f)
       /\ card' = card \ {f}
       /\ rxbuf' = [rxbuf EXCEPT ![idx[u]] = f.req]
  /\ Complete(u) /\ Unlock
  /\ UNCHANGED <<txbuf, tempinbuf, lastidx, scan, wire, idx, gen>>

IsAwaited(f) == f # Foreign /\ rxbufstat[f.idx] = "TX"

(* A frame somebody else waits for will be filed.                          *)
ReadOther(u) ==
  /\ pc[u] = "read"
  /\ \E f \in card :
       /\ ~IsRequested(u, f) /\ IsAwaited(f)
       /\ card' = card \ {f} /\ tempinbuf' = {f}
  /\ wkc' = [wkc EXCEPT ![u] = OTHERFRAME]
  /\ Goto(u, "file")
  /\ UNCHANGED <<rxbufstat, txbuf, rxbuf, lockVars, wire, idx, gen>>

(* "strange things happened": the next frame is read, under the same lock. *)
ReadStrange(u) ==
  /\ pc[u] = "read"
  /\ \E f \in card : ~IsRequested(u, f) /\ ~IsAwaited(f) /\ card' = card \ {f}
  /\ wkc' = [wkc EXCEPT ![u] = OTHERFRAME]
  /\ UNCHANGED <<bufVars, lockVars, wire, pc, idx, gen>>

(* The buffer of its user is filled and marked, and the loop is left.      *)
File(u) ==
  /\ pc[u] = "file"
  /\ \E f \in tempinbuf :
       /\ rxbuf' = [rxbuf EXCEPT ![f.idx] = f.req]
       /\ Mark(f.idx, "RCVD")
  /\ tempinbuf' = {}
  /\ Unlock /\ Goto(u, "timer")
  /\ UNCHANGED <<txbuf, lastidx, scan, netVars, idx, gen, wkc>>

-----------------------------------------------------------------------------
(* ecx_waitinframe_red without redundancy. *)
WaitOn(u) ==
  /\ pc[u] = "timer"
  /\ Goto(u, "check")
  /\ UNCHANGED <<bufVars, lockVars, netVars, idx, gen, wkc>>

MayExpire(u) ==
  rxbufstat[idx[u]] # "RCVD" /\ \A f \in InFlight : f.idx # idx[u]

(* The timer of the attempt, or that of ecx_srconfirm as well. *)
Retry(u) ==
  /\ pc[u] = "timer" /\ MayExpire(u)
  /\ Goto(u, "send")
  /\ UNCHANGED <<bufVars, lockVars, netVars, idx, gen, wkc>>

GiveUp(u) ==
  /\ pc[u] = "timer" /\ MayExpire(u)
  /\ Goto(u, "copy")
  /\ UNCHANGED <<bufVars, lockVars, netVars, idx, gen, wkc>>

(* ecx_setbufstat; a mutation frees the buffer only after an answer.       *)
Free_IfAnswered(u) ==
  IF wkc[u] > NOFRAME THEN Mark(idx[u], "EMPTY") ELSE rxbufstat' = rxbufstat
Free(u) == Mark(idx[u], "EMPTY")

Release(u) ==
  /\ pc[u] = "copy"
  /\ Free(u)
  /\ idx' = [idx EXCEPT ![u] = NoIdx]
  /\ gen' = [gen EXCEPT ![u] = IF gen[u] + 1 = NGen THEN 0 ELSE gen[u] + 1]
  /\ wkc' = [wkc EXCEPT ![u] = NOFRAME]
  /\ Goto(u, "idle")
  /\ UNCHANGED <<txbuf, rxbuf, tempinbuf, lockVars, netVars>>

-----------------------------------------------------------------------------
(* The frame is back.  Frames may overtake each other. *)
Deliver(f) ==
  /\ wire' = wire \ {f} /\ card' = card \cup {f}
  /\ UNCHANGED <<bufVars, lockVars, userVars>>

(* Something else talks on the cable.                                      *)
Intrude ==
  /\ card' = card \cup {Foreign}
  /\ UNCHANGED <<bufVars, lockVars, wire, userVars>>

Inframe(u) ==
  \/ TakeFiled(u) \/ NotFiled(u) \/ LockPort(u) \/ ReadNothing(u)
  \/ ReadOwn(u) \/ ReadOther(u) \/ ReadStrange(u) \/ File(u)

UserStep(u) ==
  \/ LockIndex(u) \/ ScanNext(u) \/ ScanTake(u) \/ Setup(u) \/ Outframe(u)
  \/ Inframe(u) \/ WaitOn(u) \/ Retry(u) \/ GiveUp(u) \/ Release(u)

Next ==
  \/ \E u \in User : UserStep(u)
  \/ \E f \in wire : Deliver(f)
  \/ Intrude

Spec == Init /\ [][Next]_vars

-----------------------------------------------------------------------------
TypeOK ==
  /\ rxbufstat \in [Idx -> {"EMPTY", "ALLOC", "TX", "RCVD", "COMPLETE"}]
  /\ lastidx \in Idx
  /\ txbuf \in [Idx -> Req \cup {NoReq}] /\ rxbuf \in [Idx -> Req \cup {NoReq}]
  /\ tempinbuf \subseteq Frame
  /\ lock \in User \cup {NoOne}
  /\ scan \in [idx : Idx, cnt : 0..MaxBuf]
  /\ wire \subseteq Frame /\ card \subseteq Frame \cup {Foreign}
  /\ pc \in [User -> {"idle", "scan", "setup", "send", "check", "lock", "read",
                      "file", "timer", "copy"}]
  /\ idx \in [User -> Idx \cup {NoIdx}]
  /\ gen \in [User -> 0..(NGen - 1)]
  /\ wkc \in [User -> {NOFRAME, OTHERFRAME} \cup WKC]

(* The marks are those of the users: no index stays marked that nobody     *)
(* uses, none is marked unused under its user, whatever sends fail, frames *)
(* are lost and strangers are on the cable (ecx_getindex and               *)
(* ecx_setbufstat, of which only the first takes the lock).                *)
MarksAreUsers ==
  /\ \A i \in Idx : rxbufstat[i] # "EMPTY" => \E u \in User : idx[u] = i
  /\ \A u \in User : idx[u] # NoIdx => rxbufstat[idx[u]] # "EMPTY"

(* What makes it inductive, and the answers right. *)
Waiting == {"check", "lock", "read", "file", "timer"}
Using   == {"setup", "send", "copy"} \cup Waiting

(* How far index j is ahead of index i in the ring. *)
Ahead(i, j) == IF j >= i THEN j - i ELSE j - i + MaxBuf

Exclusive ==
  /\ \A u \in User : idx[u] # NoIdx <=> pc[u] \in Using
  /\ \A u, v \in User : u # v /\ idx[u] # NoIdx => idx[u] # idx[v]

OneLock ==
  /\ \A u \in User : pc[u] \in {"scan", "read", "file"} <=> lock = u
  /\ (\A u \in User : pc[u] # "file") => tempinbuf = {}
  /\ \A f, g \in tempinbuf : f = g

(* The search has an unused index still ahead of it. *)
ScanFinds ==
  \A u \in User : pc[u] = "scan" =>
     \E j \in Idx : rxbufstat[j] = "EMPTY" /\ Ahead(scan.idx, j) + scan.cnt < MaxBuf

(* The mark and the buffers of an index follow where its user is. *)
MarkFollows ==
  \A u \in User :
    /\ pc[u] = "setup" => rxbufstat[idx[u]] = "ALLOC"
    /\ pc[u] = "send" => rxbufstat[idx[u]] \in {"ALLOC", "TX"}
    /\ pc[u] \in Waiting => rxbufstat[idx[u]] \in {"TX", "RCVD"}
    /\ pc[u] = "copy" => rxbufstat[idx[u]] \in {"TX", "COMPLETE"}
    /\ pc[u] = "copy" /\ wkc[u] > NOFRAME => rxbufstat[idx[u]] = "COMPLETE"
    /\ pc[u] # "copy" => wkc[u] <= NOFRAME

BuffersOwn ==
  \A u \in User :
    /\ pc[u] \in Using \ {"setup"} => txbuf[idx[u]] = ReqOf(u)
    /\ pc[u] \in Waiting /\ rxbufstat[idx[u]] = "RCVD" => rxbuf[idx[u]] = ReqOf(u)
    /\ pc[u] = "copy" /\ wkc[u] > NOFRAME => rxbuf[idx[u]] = ReqOf(u)

(* Every answer on its way is awaited, and is the only one. *)
FlightAwaited ==
  /\ \A f \in InFlight :
       /\ rxbufstat[f.idx] = "TX"
       /\ \E u \in User : idx[u] = f.idx /\ ReqOf(u) = f.req /\ pc[u] \in Waiting
  /\ \A f, g \in InFlight : f.idx = g.idx => f = g
  /\ wire \cap card = {} /\ (wire \cup card) \cap tempinbuf = {}

IInv ==
  TypeOK /\ Exclusive /\ MarksAreUsers /\ OneLock /\ ScanFinds /\ MarkFollows
  /\ BuffersOwn /\ FlightAwaited

(* This driver, too, does what FrameExchange says: exclusive indices, and  *)
(* answers to the request that was made or none.                           *)
Exchange == INSTANCE FrameExchange WITH
  Slot <- User,
  held <- idx,
  num  <- gen,
  got  <- [u \in User |-> IF pc[u] = "copy" /\ wkc[u] > NOFRAME
                          THEN rxbuf[idx[u]] ELSE NoReq]
ExchangeSpec == Exchange!Spec
===============================================================================
