-------------------------------- MODULE NicDrv --------------------------------
(***************************************************************************)
(* The frame driver of SOEM (oshw/linux/nicdrv.c) with one network card,   *)
(* as the threads of an application share it.                              *)
(*                                                                         *)
(* A Caller is a thread making blocking primitives (ecx_FPRD, ecx_BWR ...):*)
(* get an index, build the datagram, ecx_srconfirm, release the index.     *)
(* The segments 1..NSeg belong to the one cyclic thread, which sends every *)
(* segment of the process data (ecx_send_processdata) and afterwards waits *)
(* for each of them in the order they were pushed                          *)
(* (ecx_receive_processdata).  All of them run ecx_inframe, so any of them *)
(* may read the answer another one waits for and file it in its buffer.    *)
(*                                                                         *)
(* A slot is one use of a frame index at a time: a caller, or a segment.   *)
(* The payload is reduced to the request it belongs to: the slot and a     *)
(* generation that tells consecutive requests of a slot apart.             *)
(***************************************************************************)
EXTENDS Integers, FiniteSets

CONSTANTS
  Caller,    \* threads making blocking calls
  NSeg,      \* process-data segments of the cyclic thread
  MaxBuf,    \* EC_MAXBUF, the number of frame buffers
  NGen,      \* bound: consecutive requests of a slot that are told apart
  MaxCopy,   \* bound: copies of one request on the cable at a time
  SendFail,  \* TRUE: send() may fail
  Late,      \* TRUE: a timer may expire while the answer is still on its way
  NoOne      \* a mutex nobody holds

Seg  == 1..NSeg
Slot == Caller \cup Seg
Idx  == 0..(MaxBuf - 1)
NoIdx == -1

(* EC_MAXBUF is 16; the application has three threads and sends a handful  *)
(* of segments, so that there is an index for every slot.                  *)
ASSUME CallerAssumption == IsFiniteSet(Caller) /\ Caller \cap Seg = {}
ASSUME NSegAssumption == NSeg \in Nat
ASSUME MaxBufAssumption == MaxBuf \in Nat \ {0} /\ Cardinality(Slot) <= MaxBuf
ASSUME BoundAssumption == NGen \in Nat \ {0} /\ MaxCopy \in Nat \ {0}
ASSUME SwitchAssumption == SendFail \in BOOLEAN /\ Late \in BOOLEAN
ASSUME NoOneAssumption == NoOne \notin Slot

NOFRAME    == -1   \* EC_NOFRAME
OTHERFRAME == -2   \* EC_OTHERFRAME
WKC        == {0, 1}  \* no slave answered, slaves answered

BufStat == {"EMPTY", "ALLOC", "TX", "RCVD", "COMPLETE"}

Gen    == 0..(NGen - 1)
Req    == Slot \X Gen
NoReq  == <<NoOne, 0>>
Frame  == [idx : Idx, req : Req, copy : 1..MaxCopy]

VARIABLES
  rxbufstat,  \* port->rxbufstat
  lastidx,    \* port->lastidx
  txbuf,      \* port->txbuf: the request each transmit buffer holds
  rxbuf,      \* port->rxbuf: the answer each receive buffer holds
  tempbuf,    \* port->tempinbuf while a frame is being filed: {} or {frame}
  idxmutex,   \* port->getindex_mutex: its holder
  rxmutex,    \* port->rx_mutex: its holder
  scan,       \* the locals idx and cnt of the ecx_getindex that runs
  wire,       \* frames on the cable or in the slaves
  sock,       \* answers queued in the raw socket
  pc,         \* where each slot is
  idx,        \* the index each slot uses
  gen,        \* the generation of the request of each slot
  wkc,        \* the local wkc of the receive functions
  rt          \* the cyclic thread: phase and segment

bufVars   == <<rxbufstat, txbuf, rxbuf, tempbuf>>
indexVars == <<lastidx, idxmutex, scan>>
portVars  == <<bufVars, lastidx, idxmutex, rxmutex>>
netVars  == <<wire, sock>>
slotVars == <<pc, idx, gen, wkc, rt>>
vars     == <<portVars, scan, netVars, slotVars>>

PCs == {"idle", "getidx", "scan", "setup", "send", "check", "lock", "file",
        "timer", "copy"}

ReqOf(s) == <<s, gen[s]>>

(* The successor of an index in the ring of buffers.                       *)
NextIdx(i) == IF i + 1 >= MaxBuf THEN 0 ELSE i + 1

InFlight == wire \cup sock \cup tempbuf

(* An answer to index i may still come in, or lies in its buffer unread. *)
AnswerOnTheWay(i) == rxbufstat[i] = "RCVD" \/ \E f \in InFlight : f.idx = i

Mark(i, stat) == rxbufstat' = [rxbufstat EXCEPT ![i] = stat]
Goto(s, l) == pc' = [pc EXCEPT ![s] = l]

Init ==
  /\ rxbufstat = [i \in Idx |-> "EMPTY"]
  /\ lastidx = 0
  /\ txbuf = [i \in Idx |-> NoReq]
  /\ rxbuf = [i \in Idx |-> NoReq]
  /\ tempbuf = {}
  /\ idxmutex = NoOne
  /\ rxmutex = NoOne
  /\ scan = [idx |-> 0, cnt |-> 0]
  /\ wire = {}
  /\ sock = {}
  /\ pc = [s \in Slot |-> "idle"]
  /\ idx = [s \in Slot |-> NoIdx]
  /\ gen = [s \in Slot |-> 0]
  /\ wkc = [s \in Slot |-> NOFRAME]
  /\ rt = [phase |-> "send", seg |-> 1]

-----------------------------------------------------------------------------
(* A caller enters a primitive at any time; the cyclic thread enters the   *)
(* next segment of its send loop.                                          *)
Start(s) ==
  /\ pc[s] = "idle"
  /\ s \in Seg => rt = [phase |-> "send", seg |-> s]
  /\ Goto(s, "getidx")
  /\ UNCHANGED <<portVars, scan, netVars, idx, gen, wkc, rt>>

(* ecx_getindex; a mutation counts only frames on their way as busy.       *)
ScanStart == NextIdx(lastidx)

ScanGoesOn_OnlyTX == rxbufstat[scan.idx] = "TX" /\ scan.cnt < MaxBuf
ScanGoesOn == rxbufstat[scan.idx] # "EMPTY" /\ scan.cnt < MaxBuf

LockIndex(s) ==
  /\ pc[s] = "getidx"
  /\ idxmutex = NoOne
  /\ idxmutex' = s
  /\ scan' = [idx |-> ScanStart, cnt |-> 0]
  /\ Goto(s, "scan")
  /\ UNCHANGED <<lastidx, bufVars, rxmutex, netVars, idx, gen, wkc, rt>>

ScanNext(s) ==
  /\ pc[s] = "scan"
  /\ ScanGoesOn
  /\ scan' = [idx |-> NextIdx(scan.idx), cnt |-> scan.cnt + 1]
  /\ UNCHANGED <<portVars, netVars, slotVars>>

(* After MaxBuf busy entries the loop ends and takes the entry it is at,   *)
(* whatever its state.                                                     *)
ScanTake(s) ==
  /\ pc[s] = "scan"
  /\ ~ScanGoesOn
  /\ Mark(scan.idx, "ALLOC")
  /\ lastidx' = scan.idx
  /\ idxmutex' = NoOne
  /\ idx' = [idx EXCEPT ![s] = scan.idx]
  /\ scan' = [idx |-> 0, cnt |-> 0]
  /\ Goto(s, "setup")
  /\ UNCHANGED <<txbuf, rxbuf, tempbuf, rxmutex, netVars, gen, wkc, rt>>

(* ecx_setupdatagram *)
Setup(s) ==
  /\ pc[s] = "setup"
  /\ txbuf' = [txbuf EXCEPT ![idx[s]] = ReqOf(s)]
  /\ Goto(s, "send")
  /\ UNCHANGED <<rxbufstat, rxbuf, tempbuf, indexVars, rxmutex, netVars, idx,
                 gen, wkc, rt>>

(* What follows ecx_outframe: a caller goes on to wait; the cyclic thread  *)
(* pushes the index and goes to its next segment, or after the last one to *)
(* the receive loop.                                                       *)
AfterSend(s) ==
  /\ Goto(s, "check")
  /\ rt' = IF s \notin Seg THEN rt
           ELSE IF s < NSeg THEN [phase |-> "send", seg |-> s + 1]
           ELSE [phase |-> "receive", seg |-> 1]

IsNewCopy(i, r, c) ==
  ~ \E f \in InFlight : f.idx = i /\ f.req = r /\ f.copy = c

(* ecx_outframe, send() succeeds.  The frame goes round, or is lost.       *)
Outframe(s) ==
  /\ pc[s] = "send"
  /\ Mark(idx[s], "TX")
  /\ \/ wire' = wire
     \/ \E c \in 1..MaxCopy :
          /\ IsNewCopy(idx[s], txbuf[idx[s]], c)
          /\ \A d \in 1..(c - 1) : ~IsNewCopy(idx[s], txbuf[idx[s]], d)
          /\ wire' = wire \cup
               {[idx |-> idx[s], req |-> txbuf[idx[s]], copy |-> c]}
  /\ AfterSend(s)
  /\ UNCHANGED <<txbuf, rxbuf, tempbuf, indexVars, rxmutex, sock, idx, gen,
                 wkc>>

(* ecx_outframe, send() returns -1.  Neither ecx_srconfirm nor             *)
(* ecx_main_send_processdata looks at the result.                          *)
OutframeFails(s) ==
  /\ SendFail
  /\ pc[s] = "send"
  /\ Mark(idx[s], "EMPTY")
  /\ AfterSend(s)
  /\ UNCHANGED <<txbuf, rxbuf, tempbuf, indexVars, rxmutex, netVars, idx, gen,
                 wkc>>

-----------------------------------------------------------------------------
(* ecx_inframe.  The cyclic thread waits for one segment at a time.        *)
MayWait(s) == s \in Seg => rt = [phase |-> "receive", seg |-> s]

(* Another thread has filed the answer; a mutation believes any buffer     *)
(* that is not empty.                                                      *)
IsFiled_NotEmpty(i) == rxbufstat[i] # "EMPTY"
IsFiled(i) == rxbufstat[i] = "RCVD"

(* The receive ends with a working counter and the buffer marked as read.  *)
Complete(s) ==
  /\ Mark(idx[s], "COMPLETE")
  /\ \E w \in WKC : wkc' = [wkc EXCEPT ![s] = w]
  /\ Goto(s, "copy")

TakeFiled(s) ==
  /\ pc[s] = "check"
  /\ MayWait(s)
  /\ IsFiled(idx[s])
  /\ Complete(s)
  /\ UNCHANGED <<txbuf, rxbuf, tempbuf, indexVars, rxmutex, netVars, idx, gen,
                 rt>>

NotFiled(s) ==
  /\ pc[s] = "check"
  /\ MayWait(s)
  /\ ~IsFiled(idx[s])
  /\ Goto(s, "lock")
  /\ UNCHANGED <<portVars, scan, netVars, idx, gen, wkc, rt>>

(* The read ends without the wanted frame: back to the timer with r. *)
Missed(s, r) == wkc' = [wkc EXCEPT ![s] = r] /\ Goto(s, "timer")

(* ecx_recvpkt finds no frame in the socket. *)
ReceiveNothing(s) ==
  /\ pc[s] = "lock"
  /\ rxmutex = NoOne
  /\ sock = {}
  /\ Missed(s, NOFRAME)
  /\ UNCHANGED <<portVars, scan, netVars, idx, gen, rt>>

(* The frame carries the requested index; a mutation does not look.        *)
IsRequested_Any(s, f) == f \in sock
IsRequested(s, f) == f.idx = idx[s]

ReceiveOwn(s) ==
  /\ pc[s] = "lock"
  /\ rxmutex = NoOne
  /\ \E f \in sock :
       /\ IsRequested(s, f)
       /\ sock' = sock \ {f}
       /\ rxbuf' = [rxbuf EXCEPT ![idx[s]] = f.req]
  /\ Complete(s)
  /\ UNCHANGED <<txbuf, tempbuf, indexVars, rxmutex, wire, idx, gen, rt>>

(* A frame somebody else waits for: found in state TX, it will be filed.   *)
ReceiveOther(s) ==
  /\ pc[s] = "lock"
  /\ rxmutex = NoOne
  /\ \E f \in sock :
       /\ ~IsRequested(s, f)
       /\ rxbufstat[f.idx] = "TX"
       /\ sock' = sock \ {f}
       /\ tempbuf' = {f}
  /\ rxmutex' = s
  /\ Goto(s, "file")
  /\ UNCHANGED <<rxbufstat, txbuf, rxbuf, indexVars, wire, idx, gen, wkc, rt>>

(* "strange things happened": a frame nobody waits for is dropped.         *)
ReceiveStrange(s) ==
  /\ pc[s] = "lock"
  /\ rxmutex = NoOne
  /\ \E f \in sock :
       /\ ~IsRequested(s, f)
       /\ rxbufstat[f.idx] # "TX"
       /\ sock' = sock \ {f}
  /\ Missed(s, OTHERFRAME)
  /\ UNCHANGED <<portVars, scan, wire, idx, gen, rt>>

(* The copy into the other buffer and its RCVD mark, after the test of TX. *)
(* The owner does not take rx_mutex to release or reuse the index.         *)
(* A mutation keeps rx_mutex.                                              *)
FileMark(f) == Mark(f.idx, "RCVD")

UnlockRx_Not(s) == rxmutex' = rxmutex
UnlockRx(s) == rxmutex' = NoOne

File(s) ==
  /\ pc[s] = "file"
  /\ \E f \in tempbuf :
       /\ rxbuf' = [rxbuf EXCEPT ![f.idx] = f.req]
       /\ FileMark(f)
  /\ tempbuf' = {}
  /\ UnlockRx(s)
  /\ Missed(s, OTHERFRAME)
  /\ UNCHANGED <<txbuf, indexVars, netVars, idx, gen, rt>>

-----------------------------------------------------------------------------
(* The loop of ecx_waitinframe_red without redundancy. *)
WaitOn(s) ==
  /\ pc[s] = "timer"
  /\ Goto(s, "check")
  /\ UNCHANGED <<portVars, scan, netVars, idx, gen, wkc, rt>>

MayExpire(s) == Late \/ ~AnswerOnTheWay(idx[s])

(* timer2 has expired, timer1 of ecx_srconfirm has not: send again. *)
Retry(s) ==
  /\ pc[s] = "timer"
  /\ s \in Caller
  /\ MayExpire(s)
  /\ Goto(s, "send")
  /\ UNCHANGED <<portVars, scan, netVars, idx, gen, wkc, rt>>

(* timer1 of ecx_srconfirm, or the timer of ecx_waitinframe, has expired.  *)
GiveUp(s) ==
  /\ pc[s] = "timer"
  /\ MayExpire(s)
  /\ Goto(s, "copy")
  /\ UNCHANGED <<portVars, scan, netVars, idx, gen, wkc, rt>>

(* ecx_pullindex; after its last segment the cyclic thread starts the next *)
(* cycle.  A mutation stops at the first segment without an answer.        *)
NextSegment_IfAnswered(s) ==
  rt' = IF s \notin Seg \/ wkc[s] <= NOFRAME THEN rt
        ELSE IF s < NSeg THEN [phase |-> "receive", seg |-> s + 1]
        ELSE [phase |-> "send", seg |-> 1]
NextSegment(s) ==
  rt' = IF s \notin Seg THEN rt
        ELSE IF s < NSeg THEN [phase |-> "receive", seg |-> s + 1]
        ELSE [phase |-> "send", seg |-> 1]

(* ecx_setbufstat; a mutation frees the buffer only after an answer.       *)
Free_IfAnswered(s) ==
  IF wkc[s] > NOFRAME THEN Mark(idx[s], "EMPTY") ELSE rxbufstat' = rxbufstat
Free(s) == Mark(idx[s], "EMPTY")

(* The caller copies the answer out and releases the index. *)
Release(s) ==
  /\ pc[s] = "copy"
  /\ Free(s)
  /\ idx' = [idx EXCEPT ![s] = NoIdx]
  /\ gen' = [gen EXCEPT ![s] = IF gen[s] + 1 = NGen THEN 0 ELSE gen[s] + 1]
  /\ wkc' = [wkc EXCEPT ![s] = NOFRAME]
  /\ Goto(s, "idle")
  /\ NextSegment(s)
  /\ UNCHANGED <<txbuf, rxbuf, tempbuf, indexVars, rxmutex, netVars>>

-----------------------------------------------------------------------------
(* The frame has passed the slaves, which count it or not, and is queued   *)
(* in the socket.  Frames may overtake each other.                         *)
Deliver(f) ==
  /\ wire' = wire \ {f}
  /\ sock' = sock \cup {f}
  /\ UNCHANGED <<portVars, scan, slotVars>>

Inframe(s) ==
  \/ TakeFiled(s) \/ NotFiled(s) \/ ReceiveNothing(s) \/ ReceiveOwn(s)
  \/ ReceiveOther(s) \/ ReceiveStrange(s) \/ File(s)

SlotStep(s) ==
  \/ Start(s)
  \/ LockIndex(s) \/ ScanNext(s) \/ ScanTake(s)
  \/ Setup(s) \/ Outframe(s) \/ OutframeFails(s)
  \/ Inframe(s)
  \/ WaitOn(s) \/ Retry(s) \/ GiveUp(s)
  \/ Release(s)

Next ==
  \/ \E s \in Slot : SlotStep(s)
  \/ \E f \in wire : Deliver(f)

Spec == Init /\ [][Next]_vars

(* Threads run; a mutex is handed to a thread that keeps asking for it;    *)
(* frames on the cable come back; the socket is a queue, so that a frame   *)
(* in it is read by somebody in the end; and a timer that is tested again  *)
(* and again is found expired.  A caller need not make another call.       *)
Fairness ==
  /\ \A s \in Slot : WF_vars(SlotStep(s) /\ (s \in Caller => pc[s] # "idle"))
  /\ \A s \in Slot : SF_vars(LockIndex(s)) /\ SF_vars(ReceiveOwn(s))
                     /\ SF_vars(ReceiveNothing(s) \/ ReceiveOther(s)
                                \/ ReceiveStrange(s))
                     /\ SF_vars(GiveUp(s))
  /\ \A i \in Idx : WF_vars(\E f \in wire : f.idx = i /\ Deliver(f))

FairSpec == Spec /\ Fairness

-----------------------------------------------------------------------------
TypeOK ==
  /\ rxbufstat \in [Idx -> BufStat]
  /\ lastidx \in Idx
  /\ txbuf \in [Idx -> Req \cup {NoReq}]
  /\ rxbuf \in [Idx -> Req \cup {NoReq}]
  /\ tempbuf \subseteq Frame
  /\ idxmutex \in Slot \cup {NoOne}
  /\ rxmutex \in Slot \cup {NoOne}
  /\ scan \in [idx : Idx, cnt : 0..MaxBuf]
  /\ wire \subseteq Frame
  /\ sock \subseteq Frame
  /\ pc \in [Slot -> PCs]
  /\ idx \in [Slot -> Idx \cup {NoIdx}]
  /\ gen \in [Slot -> Gen]
  /\ wkc \in [Slot -> {NOFRAME, OTHERFRAME} \cup WKC]
  /\ rt \in [phase : {"send", "receive"}, seg : 1..(NSeg + 1)]

(* An index is used by one request at a time: ecx_getindex hands out only  *)
(* an unused one, and nothing frees it under its user.                     *)
IndexExclusive ==
  \A s, t \in Slot : s # t /\ idx[s] # NoIdx => idx[s] # idx[t]

(* The release at the end of every primitive frees the index for good: no  *)
(* answer filed meanwhile marks an index as used that nobody uses.         *)
NoLeak ==
  \A i \in Idx : rxbufstat[i] # "EMPTY" => \E s \in Slot : idx[s] = i

(* An index stays marked as used until its user releases it. *)
UsedIsMarked ==
  \A s \in Slot : idx[s] # NoIdx => rxbufstat[idx[s]] # "EMPTY"

(* A receive that reports a working counter has in its buffer the answer   *)
(* to the request this thread sent, no matter which thread took the frame  *)
(* from the socket.                                                        *)
OwnAnswer ==
  \A s \in Slot : pc[s] = "copy" /\ wkc[s] > NOFRAME =>
     rxbuf[idx[s]] = ReqOf(s)

(* Whatever comes back finds the request it answers still waiting for it,  *)
(* so that no answer is dropped or overwrites another one.                 *)
AnswerExpected ==
  \A f \in InFlight :
     /\ rxbufstat[f.idx] = "TX"
     /\ \E s \in Slot : idx[s] = f.idx /\ ReqOf(s) = f.req

(* What makes the above inductive when send() succeeds and no timer beats  *)
(* an answer.                                                              *)
Waiting == {"check", "lock", "file", "timer"}
Using   == {"setup", "send", "copy"} \cup Waiting

(* How far index j is ahead of index i in the ring. *)
Ahead(i, j) == IF j >= i THEN j - i ELSE j - i + MaxBuf

IndexInUse == \A s \in Slot : idx[s] # NoIdx <=> pc[s] \in Using

Mutexes ==
  /\ \A s \in Slot : pc[s] = "scan" <=> idxmutex = s
  /\ \A s \in Slot : pc[s] = "file" <=> rxmutex = s
  /\ rxmutex = NoOne => tempbuf = {}
  /\ \A f, g \in tempbuf : f = g

(* The scan has an unused index still ahead of it. *)
ScanFinds ==
  \A s \in Slot : pc[s] = "scan" =>
     \E j \in Idx : /\ rxbufstat[j] = "EMPTY"
                    /\ Ahead(scan.idx, j) + scan.cnt < MaxBuf

(* The mark of an index follows where its user is. *)
StatFollowsPc ==
  \A s \in Slot :
    /\ pc[s] = "setup" => rxbufstat[idx[s]] = "ALLOC"
    /\ pc[s] = "send" => rxbufstat[idx[s]] \in {"ALLOC", "TX"}
    /\ pc[s] \in Waiting => rxbufstat[idx[s]] \in {"TX", "RCVD"}
    /\ pc[s] = "copy" => rxbufstat[idx[s]] \in {"TX", "COMPLETE"}
    /\ pc[s] = "copy" /\ wkc[s] > NOFRAME => rxbufstat[idx[s]] = "COMPLETE"
    /\ pc[s] # "copy" => wkc[s] <= NOFRAME

BuffersOwn ==
  \A s \in Slot :
    /\ pc[s] \in Using \ {"setup"} => txbuf[idx[s]] = ReqOf(s)
    /\ pc[s] \in Waiting /\ rxbufstat[idx[s]] = "RCVD" =>
         rxbuf[idx[s]] = ReqOf(s)

FlightHasWaiter ==
  \A f \in InFlight :
    /\ rxbufstat[f.idx] = "TX"
    /\ \E s \in Slot : /\ idx[s] = f.idx
                       /\ ReqOf(s) = f.req
                       /\ pc[s] \in Waiting

OneAnswer ==
  /\ \A f, g \in InFlight : f.idx = g.idx => f = g
  /\ wire \cap sock = {}
  /\ (wire \cup sock) \cap tempbuf = {}

IInv ==
  /\ TypeOK /\ IndexInUse /\ IndexExclusive /\ NoLeak /\ UsedIsMarked
  /\ Mutexes /\ ScanFinds /\ StatFollowsPc /\ BuffersOwn
  /\ FlightHasWaiter /\ OneAnswer /\ OwnAnswer

(* With SendFail = Late = FALSE the driver does what FrameExchange says:   *)
(* an answer counts as given when the receive loop ends with it.           *)
Exchange == INSTANCE FrameExchange WITH
  held <- idx,
  num  <- gen,
  got  <- [s \in Slot |-> IF pc[s] = "copy" /\ wkc[s] > NOFRAME
                          THEN rxbuf[idx[s]] ELSE NoReq]
ExchangeSpec == Exchange!Spec

-----------------------------------------------------------------------------
(* A failed send has unmarked the index of s and another thread got it.    *)
Robbed(s) == idx[s] # NoIdx /\ \E t \in Slot \ {s} : idx[t] = idx[s]

(* Every blocking call comes back, whatever frames the cable loses, sends  *)
(* fail and however long another thread keeps the receive lock, as long as *)
(* its index is its own: ecx_srconfirm and ecx_waitinframe loop under      *)
(* timers that other threads' frames restart.                              *)
CallsReturn == \A s \in Caller : []<>(pc[s] = "idle" \/ Robbed(s))

(* The cyclic thread never hangs in a receive: it goes on sending and      *)
(* receiving for ever, beside callers that take its frames off the socket. *)
CyclesGoOn ==
  NSeg > 0 => \A p \in {"send", "receive"} :
                []<>(rt.phase = p \/ \E s \in Seg : Robbed(s))
===============================================================================
