-------------------------------- MODULE RedDrv --------------------------------
(***************************************************************************)
(* The redundant mode of oshw/linux/nicdrv.c: a line of slaves between two *)
(* network cards.  ecx_outframe_red sends the frame on the primary card    *)
(* and a dummy on the secondary one; ecx_waitinframe_red waits for both    *)
(* and tells from where they came back which slaves have been reached;     *)
(* ecx_srconfirm sends again when nothing came back.                       *)
(*                                                                         *)
(* One thread, whose calls take one frame index after the other.  What     *)
(* several threads do to each other in the driver is in NicDrv.            *)
(***************************************************************************)
EXTENDS Integers, Sequences, SequencesExt, FiniteSets

CONSTANTS
  NSlave,    \* slaves in the line
  NIdx,      \* indices the calls go through (EC_MAXBUF, 16: a frame of the
             \* call before the last one may be in a socket, and not be taken
             \* for one of this call)
  MaxTries,  \* attempts of a call (EC_TIMEOUTRET3 allows three)
  MaxCut,    \* bound: how often the cable is cut or mended
  MaxLoss    \* bound: frames lost

ASSUME RedConstants ==
  /\ NSlave \in Nat \ {0} /\ NIdx \in Nat \ 0..2 /\ MaxTries \in Nat \ {0}
  /\ MaxCut \in Nat /\ MaxLoss \in Nat

Slave == 1..NSlave
Card  == {"prim", "sec"}

NOFRAME == -1     \* EC_NOFRAME

(* Cable k joins slave k to slave k + 1; cables 0 and NSlave lead to the   *)
(* cards.  At most one of them is cut.                                     *)
Cable == 0..NSlave
Whole == -1

VARIABLES
  cut,      \* the cable that is cut, or Whole
  wire,     \* frames sent and not yet back
  sock,     \* sock[c]: frames queued in the socket of card c
  pc,       \* where the call is
  idx,      \* its index
  try,      \* its attempts so far
  txbuf,    \* the frame to send: the slaves it has been through
  rxbuf,    \* rxbuf[c]: the frame received by card c
  rxsa,     \* rxsa[c]: the source address in it, "none" before
  wkc,      \* wkc[c]: the working counter in it; wkc["prim"] is returned
  cuts, losses,  \* how often the cable changed, and how many frames were lost
  done,     \* history: how often each slave has executed the request
  steady    \* history: the cable has not changed since the call began, and
            \* no frame of it was lost

netVars  == <<wire, sock>>
callVars == <<idx, txbuf>>
recvVars == <<rxbuf, rxsa, wkc>>
histVars == <<cuts, losses, done, steady>>
vars == <<cut, netVars, pc, try, callVars, recvVars, histVars>>

(* A frame knows the card and the source address it was sent with, and the *)
(* slaves it has been processed by; each of them raises its counter.       *)
NoFrame == [idx |-> 0, from |-> "prim", sa |-> "prim", dummy |-> TRUE, by |-> <<>>]

Wkc(f) == Len(f.by)

Init ==
  /\ cut = Whole
  /\ wire = {} /\ sock = [c \in Card |-> <<>>]
  /\ pc = "idle" /\ idx = 0 /\ try = 0
  /\ txbuf = <<>>
  /\ rxbuf = [c \in Card |-> NoFrame]
  /\ rxsa = [c \in Card |-> "none"]
  /\ wkc = [c \in Card |-> NOFRAME]
  /\ cuts = 0 /\ losses = 0
  /\ done = [s \in Slave |-> 0] /\ steady = FALSE

-----------------------------------------------------------------------------
(* The slaves.  A frame from the primary card is processed on its way out, *)
(* up to the cut, where it turns back; from the secondary card it travels  *)
(* to the cut unprocessed, and is processed on its way back from there.    *)
Path(f) ==
  IF f.from = "prim"
  THEN [i \in 1..(IF cut = Whole THEN NSlave ELSE cut) |-> i]
  ELSE IF cut = Whole THEN <<>> ELSE [i \in 1..(NSlave - cut) |-> cut + i]

Other(c) == IF c = "prim" THEN "sec" ELSE "prim"
CableOf(c) == IF c = "prim" THEN 0 ELSE NSlave

(* The card at which it arrives; it goes nowhere if the cable of its card  *)
(* is cut.                                                                 *)
Arrival(f) ==
  IF cut = Whole THEN {Other(f.from)}
  ELSE IF cut = CableOf(f.from) THEN {} ELSE {f.from}

Executed(f, p) ==
  done' = IF f.dummy \/ f.idx # idx THEN done
          ELSE [s \in Slave |-> done[s] + Cardinality({i \in DOMAIN p : p[i] = s})]

Travel(f) ==
  /\ wire' = wire \ {f}
  /\ sock' = [c \in Card |->
                IF c \in Arrival(f) THEN Append(sock[c], [f EXCEPT !.by = @ \o Path(f)])
                ELSE sock[c]]
  /\ Executed(f, Path(f))
  /\ UNCHANGED <<cut, pc, try, callVars, recvVars, cuts, losses, steady>>

(* A frame is lost after it went through some of the slaves on its path.   *)
Lose(f) ==
  /\ losses < MaxLoss /\ losses' = losses + 1
  /\ steady' = FALSE
  /\ wire' = wire \ {f}
  /\ \E n \in 0..Len(Path(f)) : Executed(f, SubSeq(Path(f), 1, n))
  /\ UNCHANGED <<cut, sock, pc, try, callVars, recvVars, cuts>>

CableChanges ==
  /\ cuts < MaxCut /\ cuts' = cuts + 1
  /\ cut' \in (IF cut = Whole THEN Cable ELSE {Whole})
  /\ steady' = FALSE
  /\ UNCHANGED <<netVars, pc, try, callVars, recvVars, losses, done>>

-----------------------------------------------------------------------------
(* A call begins; the frames of the calls before the last one are back by  *)
(* then: a frame is on its way for microseconds.                           *)
Call ==
  /\ pc = "idle" /\ \A f \in wire : f.idx = idx
  /\ pc' = "send" /\ try' = 0
  /\ idx' = (idx + 1) % NIdx /\ txbuf' = <<>>
  /\ done' = [s \in Slave |-> 0] /\ steady' = TRUE
  /\ UNCHANGED <<cut, netVars, recvVars, cuts, losses>>

NothingReceived ==
  /\ rxsa' = [c \in Card |-> "none"]
  /\ wkc' = [c \in Card |-> NOFRAME]

(* ecx_outframe_red: the frame on the primary, a dummy on the secondary.   *)
OutframeRed ==
  /\ pc = "send"
  /\ pc' = "wait" /\ try' = try + 1
  /\ wire' = wire \cup
       {[idx |-> idx, from |-> "prim", sa |-> "prim", dummy |-> FALSE, by |-> txbuf],
        [idx |-> idx, from |-> "sec", sa |-> "sec", dummy |-> TRUE, by |-> <<>>]}
  /\ NothingReceived
  /\ UNCHANGED <<cut, sock, callVars, rxbuf, histVars>>

(* ecx_inframe on one of the cards: a frame with another index is dropped, *)
(* for nobody waits for it (EC_OTHERFRAME, less than EC_NOFRAME, is not    *)
(* told from it here).                                                     *)
Inframe(c) ==
  /\ sock[c] # <<>>
  /\ sock' = [sock EXCEPT ![c] = Tail(@)]
  /\ LET f == Head(sock[c]) IN
     IF f.idx = idx
     THEN /\ rxbuf' = [rxbuf EXCEPT ![c] = f]
          /\ rxsa'  = [rxsa  EXCEPT ![c] = f.sa]
          /\ wkc'   = [wkc   EXCEPT ![c] = Wkc(f)]
     ELSE UNCHANGED recvVars
  /\ UNCHANGED <<cut, wire, try, callVars, histVars>>

WaitBoth(c) ==
  /\ pc = "wait" /\ wkc[c] <= NOFRAME
  /\ Inframe(c)
  /\ pc' = pc

(* The timer runs out when nothing is left to arrive. *)
Expired(cards) == wire = {} /\ \A c \in cards : sock[c] = <<>>

WaitOver ==
  /\ pc = "wait"
  /\ Expired({c \in Card : wkc[c] <= NOFRAME}) \/ \A c \in Card : wkc[c] > NOFRAME
  /\ pc' = "decide"
  /\ UNCHANGED <<cut, netVars, try, callVars, recvVars, histVars>>

(* From where the frames came back. *)
Crossed == rxsa["prim"] = "sec" /\ rxsa["sec"] = "prim"
Turned  == rxsa["prim"] \in {"none", "prim"} /\ rxsa["sec"] = "sec"

(* Neither path needs more: the frame that went through all slaves is on   *)
(* the secondary side.                                                     *)
DecideCrossed_NoCopy ==   \* mutation: the counter without the frame
  /\ pc = "decide" /\ Crossed
  /\ wkc' = [wkc EXCEPT !["prim"] = wkc["sec"]]
  /\ pc' = "confirm"
  /\ UNCHANGED <<cut, netVars, try, callVars, rxbuf, rxsa, histVars>>

DecideCrossed ==
  /\ pc = "decide" /\ Crossed
  /\ rxbuf' = [rxbuf EXCEPT !["prim"] = rxbuf["sec"]]
  /\ wkc' = [wkc EXCEPT !["prim"] = wkc["sec"]]
  /\ pc' = "confirm"
  /\ UNCHANGED <<cut, netVars, try, callVars, rxsa, histVars>>

(* What is sent through the secondary card: what came back on the primary, *)
(* if anything did; a mutation sends the request as it was.                *)
Resent_Request == txbuf
Resent == IF rxsa["prim"] = "prim" THEN rxbuf["prim"].by ELSE txbuf

(* The address is that of the primary card, as in any frame of txbuf.      *)
DecideTurned ==
  /\ pc = "decide" /\ Turned
  /\ txbuf' = Resent
  /\ wire' = wire \cup {[idx |-> idx, from |-> "sec", sa |-> "prim", dummy |-> FALSE,
                         by |-> txbuf']}
  /\ wkc' = [wkc EXCEPT !["sec"] = NOFRAME]
  /\ pc' = "resent"
  /\ UNCHANGED <<cut, sock, try, idx, rxbuf, rxsa, histVars>>

DecideNothing ==
  /\ pc = "decide" /\ ~Crossed /\ ~Turned
  /\ pc' = "confirm"
  /\ UNCHANGED <<cut, netVars, try, callVars, recvVars, histVars>>

WaitResent ==
  /\ pc = "resent" /\ wkc["sec"] <= NOFRAME
  /\ Inframe("sec")
  /\ pc' = pc

ResentOver_NoTimer ==   \* mutation: waits for the answer without a timer
  /\ pc = "resent" /\ wkc["sec"] > NOFRAME
  /\ rxbuf' = [rxbuf EXCEPT !["prim"] = rxbuf["sec"]]
  /\ wkc' = [wkc EXCEPT !["prim"] = wkc["sec"]]
  /\ pc' = "confirm"
  /\ UNCHANGED <<cut, netVars, try, callVars, rxsa, histVars>>

ResentOver ==
  /\ pc = "resent"
  /\ wkc["sec"] > NOFRAME \/ Expired({"sec"})
  /\ IF wkc["sec"] > NOFRAME
     THEN /\ rxbuf' = [rxbuf EXCEPT !["prim"] = rxbuf["sec"]]
          /\ wkc' = [wkc EXCEPT !["prim"] = wkc["sec"]]
     ELSE UNCHANGED <<rxbuf, wkc>>
  /\ pc' = "confirm"
  /\ UNCHANGED <<cut, netVars, try, callVars, rxsa, histVars>>

(* ecx_srconfirm tries again while nothing came back and time is left.     *)
Confirm ==
  /\ pc = "confirm"
  /\ pc' = IF wkc["prim"] <= NOFRAME /\ try < MaxTries THEN "send" ELSE "idle"
  /\ UNCHANGED <<cut, netVars, try, callVars, recvVars, histVars>>

Driver ==
  \/ OutframeRed \/ WaitOver \/ (\E c \in Card : WaitBoth(c))
  \/ DecideCrossed \/ DecideTurned \/ DecideNothing
  \/ WaitResent \/ ResentOver \/ Confirm

Next ==
  \/ Call \/ Driver
  \/ \E f \in wire : Travel(f) \/ Lose(f)
  \/ CableChanges

Spec == Init /\ [][Next]_vars

(* The thread runs, and a frame arrives or is lost. *)
FairSpec ==
  Spec /\ WF_vars(Driver) /\ WF_vars(\E f \in wire : Travel(f))

-----------------------------------------------------------------------------
Result == rxbuf["prim"]
Everyone == [s \in Slave |-> s]

(* "Any one of the connections (also an interconnect) can be removed and   *)
(* the slaves are still serviced with packets" (nicdrv.c): a call during   *)
(* which nothing changes brings back the frame that every slave has        *)
(* processed, in the order of the line, and every slave has executed it    *)
(* once; whatever earlier calls left in the sockets.                       *)
Serviced ==
  pc = "idle" /\ steady =>
    /\ Result.by = Everyone /\ wkc["prim"] = NSlave
    /\ \A s \in Slave : done[s] = 1

(* When the cable is cut or a frame lost in the middle of a call that      *)
(* needs one attempt, its working counter tells: it is full only for the   *)
(* request itself, executed by every slave.  (Not so for a second attempt: *)
(* the dummy of the first, still on its way, is taken for the frame sent   *)
(* again through the secondary card, and its counter can be full.)         *)
FullIsFull ==
  pc = "idle" /\ try = 1 /\ wkc["prim"] = NSlave =>
    ~Result.dummy /\ Result.by = Everyone /\ \A s \in Slave : done[s] >= 1

CallReturns == pc # "idle" ~> pc = "idle"
===============================================================================
