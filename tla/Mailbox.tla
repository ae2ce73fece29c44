------------------------------- MODULE Mailbox -------------------------------
(***************************************************************************)
(* The mailbox link layer of soem/ethercatmain.c: ecx_mbxempty,            *)
(* ecx_mbxsend and ecx_mbxreceive with the repeat protocol, for one caller *)
(* and one slave.  A step of the master is one datagram with the tests     *)
(* that follow its answer; a datagram may be lost on its way out, before   *)
(* the slave sees it, or on its way back.                                  *)
(*                                                                         *)
(* The slave is the mailbox pair of an ESC (sync managers 0 and 1) and a   *)
(* server that takes one message at a time.                                *)
(***************************************************************************)
EXTENDS ErrorList

CONSTANTS
  MaxCnt,         \* mailbox counters are 1..MaxCnt (7 in the code)
  MaxFault,       \* bound: datagrams lost, emergencies sent, messages not
                  \* done, timers that beat an answer, and the loss of the
                  \* slave, together
  WriteBackLost,  \* may the answer to a mailbox write be lost?
  Slow,           \* may a timer beat an answer that is still to come?
  CanDie,         \* may the slave disappear?
  RxRoom          \* size of the buffer of the EoE hook, in blocks

ASSUME MailboxConstants ==
  /\ MaxCnt \in Nat \ {0, 1}
  /\ MaxFault \in Nat
  /\ WriteBackLost \in BOOLEAN /\ Slow \in BOOLEAN /\ CanDie \in BOOLEAN
  /\ RxRoom \in Nat

NoMsg   == [op |-> "none"]
Emcy    == [op |-> "emergency"]
MbxError == [op |-> "mailboxError"]
NOFRAME == -1
TIMEOUT == -5
MaxTries == 3     \* EC_TIMEOUTRET3 allows three attempts of EC_TIMEOUTRET

VARIABLES
  \* the slave
  sm0,         \* message in the mailbox towards the slave
  sm1,         \* message in the mailbox towards the master
  lastOut,     \* what sm1 was last filled with
  repeatReq,   \* repeat request bit of the status register of SM1
  repeatAck,   \* repeat acknowledge bit of the control register of SM1
  job,         \* message the slave's server works on
  outbox,      \* messages the slave has still to send, unasked
  lastCnt,     \* counter of the last message taken; 0 before the first
  alive,       \* FALSE once the slave has gone
  \* the master
  link,        \* where the mailbox functions are
  timer,       \* the timer of the function in progress
  tries,       \* attempts of the mailbox write
  smRep,       \* repeat request bit of the local SMstat
  mbxOut,      \* buffer to send, and the counter in its header
  mbxIn,       \* buffer received
  wkc,         \* what the function returns
  mbx_cnt,     \* ec_slavet.mbx_cnt
  hook,        \* is the hook for EoE fragments set?
  rx,          \* the hook: the frame it puts together
  faults,      \* faults so far
  clean        \* history: no timer was too early, every message was done,
               \* and no loss of a frame was one the code does not make up
               \* for: the answer to a mailbox write, its last attempt, a
               \* message with more behind it, a request to repeat

slaveVars  == <<lastOut, repeatAck, job, outbox, lastCnt, alive>>
masterVars == <<link, timer, tries, smRep, mbxIn, wkc>>
handled    == <<hook, rx, errVars>>
mbxVars == <<sm0, sm1, repeatReq, slaveVars, masterVars, mbxOut, mbx_cnt,
             handled, faults, clean>>

-----------------------------------------------------------------------------
(* The hook of ecx_mbxreceive, ecx_EOEreadfragment of ethercateoe.c: an    *)
(* Ethernet frame is put together again from the fragments a slave sends.  *)
(* Sizes and offsets are in the blocks of 32 octets the header counts in;  *)
(* the header of the first fragment has the size of the frame where the    *)
(* others have their offset.                                               *)
IsFragment(m) == m.op = "eoe" /\ m.type = "fragment"

(* The working variables of the caller, the frame so far, and the frame    *)
(* that was completed last.                                                *)
Fresh == [no |-> 0, size |-> 0, frameno |-> 0, frame |-> <<>>, got |-> <<>>]

Reset(r) == [Fresh EXCEPT !.got = r.got]

(* The first fragment of a frame always starts a new one. *)
Started(r, f) ==
  IF f.no = 0
  THEN [Fresh EXCEPT !.size = f.offset, !.frameno = f.frameno, !.got = r.got]
  ELSE r

(* Whether the fragment is the one expected; a mutation looks only at the  *)
(* number of the frame.                                                    *)
Expects_SameFrame(r, f) == f.frameno = r.frameno
Expects(r, f) ==
  /\ f.no = r.no
  /\ f.no > 0 => f.frameno = r.frameno /\ f.offset = Len(r.frame)

(* A fragment beyond the frame or the buffer is not copied. *)
Joined(r, f) ==
  IF Len(r.frame) + Len(f.data) <= (IF r.size < RxRoom THEN r.size ELSE RxRoom)
  THEN [r EXCEPT !.frame = @ \o f.data, !.no = @ + 1]
  ELSE r

ReadFragment(r, f) ==
  LET in  == Started(r, f)
      out == Joined(in, f)
  IN IF ~Expects(in, f) THEN Reset(r)
     ELSE IF f.last THEN [Fresh EXCEPT !.got = out.frame] ELSE out

-----------------------------------------------------------------------------
MailboxInit ==
  /\ sm0 = NoMsg /\ sm1 = NoMsg /\ lastOut = NoMsg /\ job = NoMsg
  /\ outbox = <<>>
  /\ repeatReq = FALSE /\ repeatAck = FALSE
  /\ lastCnt = 0 /\ alive = TRUE
  /\ link = "done" /\ timer = "expired" /\ tries = 0 /\ smRep = FALSE
  /\ mbxOut = [cnt |-> 0, msg |-> NoMsg] /\ mbxIn = NoMsg
  /\ wkc = 0 /\ mbx_cnt = 0 /\ faults = 0
  /\ ErrInit /\ rx = Fresh
  /\ clean = TRUE

-----------------------------------------------------------------------------
(* A datagram: what becomes of it, whether the slave acts on it, and the   *)
(* working counter it brings back.                                         *)
Outcome == {"back", "lostOut", "lostBack"}

Faulty == faults < MaxFault /\ faults' = faults + 1

Datagram(o) ==
  \/ o = "back" /\ faults' = faults
  \/ o # "back" /\ Faulty

Reaches(o) == alive /\ o # "lostOut"

WkcOf(o, accepted) ==
  IF o # "back" THEN NOFRAME ELSE IF alive /\ accepted THEN 1 ELSE 0

Running == timer = "running"

(* It has messages to send. *)
More == job # NoMsg \/ outbox # <<>>

(* Messages the slave may deal with without an answer: a fragment of a     *)
(* frame, one of a write before the last, an acknowledge, a PDO.           *)
Unanswered(m) ==
  \/ IsFragment(m) \/ m.op = "RxPDO"
  \/ m.op = "soe" /\ m.type = "write" /\ m.incomplete
  \/ m.op = "foe" /\ m.type = "ack"

(* The slave has done all it can do for now. *)
AtRest ==
  /\ sm0 = NoMsg \/ job # NoMsg
  /\ ~More \/ (sm1 # NoMsg /\ ~Unanswered(job))
  /\ repeatReq = repeatAck

(* What the loop waits for will not come: the slave is at rest or gone.    *)
InVain ==
  \/ ~alive
  \/ /\ AtRest
     /\ \/ link = "empty" /\ sm0 # NoMsg
        \/ link = "ack" /\ repeatReq # smRep
        \/ link \in {"avail", "read", "again"} /\ sm1 = NoMsg

(* A timer expires when its loop waits in vain; if Slow, also before.      *)
(* EC_TIMEOUTRXM is 700 ms, and the loss of a frame costs 2.               *)
Expire ==
  /\ link # "done" /\ Running
  /\ \/ InVain /\ UNCHANGED <<faults, clean>>
     \/ ~InVain /\ Slow /\ Faulty /\ clean' = FALSE
  /\ timer' = "expired"
  /\ UNCHANGED <<sm0, sm1, repeatReq, slaveVars, link, tries, smRep, mbxIn,
                 wkc, mbxOut, mbx_cnt, handled>>

-----------------------------------------------------------------------------
(* ec_nextmbxcnt *)
NextCnt(c) == IF c + 1 > MaxCnt THEN 1 ELSE c + 1

(* ecx_mbxsend with message m, its counter fresh *)
StartSend(m) ==
  /\ mbx_cnt' = NextCnt(mbx_cnt)
  /\ mbxOut' = [cnt |-> mbx_cnt', msg |-> m]
  /\ link' = "empty" /\ timer' = "running" /\ tries' = 0 /\ wkc' = 0
  /\ smRep' = FALSE /\ mbxIn' = NoMsg
  /\ UNCHANGED <<sm0, sm1, repeatReq, slaveVars, handled, faults, clean>>

(* ecx_mbxreceive with timeout 0 (its timer expires at once) or more *)
StartReceive(t) ==
  /\ link' = "avail" /\ timer' = t /\ tries' = 0 /\ wkc' = 0
  /\ smRep' = FALSE /\ mbxIn' = NoMsg
  /\ UNCHANGED <<sm0, sm1, repeatReq, slaveVars, mbxOut, mbx_cnt,
                 handled, faults, clean>>

(* A loop goes on while its timer runs; a mutation forgets the timer.      *)
GoOn_ForEver(l) == l
GoOn(l) == IF Running THEN l ELSE "done"

(* ecx_mbxempty on its own: as before a write, with nothing to write. *)
StartEmpty ==
  /\ mbxOut' = [mbxOut EXCEPT !.msg = NoMsg]
  /\ link' = "empty" /\ timer' = "running"
  /\ UNCHANGED <<sm0, sm1, repeatReq, slaveVars, tries, smRep, mbxIn, wkc,
                 mbx_cnt, handled, faults, clean>>

(* The loop of ecx_mbxempty: until the mailbox towards the slave is empty. *)
MbxEmpty ==
  /\ link = "empty"
  /\ \E o \in Outcome :
       LET empty == WkcOf(o, TRUE) > 0 /\ sm0 = NoMsg
           alone == mbxOut.msg = NoMsg
       IN /\ Datagram(o)
          /\ link' = IF ~empty THEN GoOn("empty")
                     ELSE IF alone THEN "done" ELSE "write"
          /\ wkc' = IF ~empty THEN 0 ELSE IF alone THEN 1 ELSE wkc
  /\ UNCHANGED <<sm0, sm1, repeatReq, slaveVars, timer, tries, smRep, mbxIn,
                 mbxOut, mbx_cnt, handled, clean>>

(* ecx_FPWR of the mailbox: written again after a lost frame; the slave    *)
(* refuses it while the mailbox is full.                                   *)
MbxWrite ==
  /\ link = "write"
  /\ \E o \in Outcome :
       LET r == WkcOf(o, sm0 = NoMsg) IN
       /\ o = "lostBack" => WriteBackLost
       /\ Datagram(o)
       /\ clean' = (clean /\ (o = "back" \/ (o = "lostOut" /\ tries + 1 < MaxTries)))
       /\ sm0' = IF Reaches(o) /\ sm0 = NoMsg THEN mbxOut ELSE sm0
       /\ IF r = NOFRAME /\ tries + 1 < MaxTries
          THEN tries' = tries + 1 /\ UNCHANGED <<link, wkc>>
          ELSE tries' = 0 /\ link' = "done" /\ wkc' = r
  /\ UNCHANGED <<sm1, repeatReq, slaveVars, timer, smRep, mbxIn,
                 mbxOut, mbx_cnt, handled>>

-----------------------------------------------------------------------------
(* The first loop of ecx_mbxreceive: until a message is available.         *)
MbxAvail ==
  /\ link = "avail"
  /\ \E o \in Outcome :
       LET r == WkcOf(o, TRUE)
           available == r > 0 /\ sm1 # NoMsg IN
       /\ Datagram(o)
       /\ smRep' = IF r > 0 THEN repeatReq ELSE FALSE
       /\ link' = IF available THEN "read" ELSE GoOn("avail")
       /\ wkc' = IF available THEN wkc ELSE IF r > 0 THEN TIMEOUT ELSE r
  /\ UNCHANGED <<sm0, sm1, repeatReq, slaveVars, timer, tries, mbxIn,
                 mbxOut, mbx_cnt, handled, clean>>

(* What the mailbox layer handles itself, so that it does not cascade up:  *)
(* emergencies and mailbox errors, which go on the error list, and, with   *)
(* the hook set, fragments of EoE frames.                                  *)
IsError(m)   == m \in {Emcy, MbxError}
IsHandled(m) == IsError(m) \/ (hook /\ IsFragment(m))

Handle(m) ==
  /\ IF IsError(m) THEN Push(m.op) ELSE UNCHANGED errVars
  /\ rx' = IF hook /\ IsFragment(m) THEN ReadFragment(rx, m) ELSE rx
  /\ hook' = hook

(* Read the mailbox.  After a message it has handled it reads again at     *)
(* once, whether there is one or not; a failed read goes on with the       *)
(* repeat protocol.                                                        *)
MbxRead ==
  /\ link = "read"
  /\ \E o \in Outcome :
       LET r == WkcOf(o, sm1 # NoMsg) IN
       /\ Datagram(o)
       /\ sm1' = IF Reaches(o) THEN NoMsg ELSE sm1
       /\ mbxIn' = IF r > 0 THEN sm1 ELSE mbxIn
       /\ wkc' = IF r > 0 /\ IsHandled(sm1) THEN 0 ELSE r
       /\ IF r > 0 THEN Handle(sm1) ELSE UNCHANGED handled
       /\ link' = IF r <= 0 THEN "repeat"
                  ELSE IF IsHandled(sm1) /\ Running THEN "read" ELSE "done"
       /\ clean' = (clean /\ ~(o = "lostBack" /\ More))
  /\ UNCHANGED <<sm0, repeatReq, slaveVars, timer, tries, smRep, mbxOut,
                 mbx_cnt>>

(* Toggle the repeat request; the result of the write is not looked at.    *)
MbxRepeat ==
  /\ link = "repeat"
  /\ smRep' = ~smRep
  /\ \E o \in Outcome :
       /\ Datagram(o)
       /\ repeatReq' = IF Reaches(o) THEN smRep' ELSE repeatReq
       /\ clean' = (clean /\ o # "lostOut")
  /\ link' = "ack"
  /\ UNCHANGED <<sm0, sm1, slaveVars, timer, tries, mbxIn, wkc,
                 mbxOut, mbx_cnt, handled>>

(* Wait for the acknowledge of the toggle. *)
MbxAck ==
  /\ link = "ack"
  /\ \E o \in Outcome :
       /\ Datagram(o)
       /\ link' = IF (WkcOf(o, TRUE) <= 0 \/ repeatAck # smRep) /\ Running
                  THEN "ack" ELSE "again"
  /\ UNCHANGED <<sm0, sm1, repeatReq, slaveVars, timer, tries, smRep, mbxIn,
                 wkc, mbxOut, mbx_cnt, handled, clean>>

(* Wait for the repeated message, then read it unless the time is over.    *)
MbxAgain ==
  /\ link = "again"
  /\ \E o \in Outcome :
       LET r == WkcOf(o, TRUE) IN
       /\ Datagram(o)
       /\ smRep' = IF r > 0 THEN repeatReq ELSE smRep
       /\ link' = IF ~Running THEN "done"
                  ELSE IF r > 0 /\ sm1 # NoMsg THEN "read" ELSE "again"
  /\ UNCHANGED <<sm0, sm1, repeatReq, slaveVars, timer, tries, mbxIn, wkc,
                 mbxOut, mbx_cnt, handled, clean>>

LinkStep ==
  \/ MbxEmpty \/ MbxWrite
  \/ MbxAvail \/ MbxRead \/ MbxRepeat \/ MbxAck \/ MbxAgain

-----------------------------------------------------------------------------
(* The slave takes a message; one with the counter of the message before   *)
(* is a duplicate and dropped.                                             *)
Take ==
  /\ alive /\ sm0 # NoMsg /\ job = NoMsg
  /\ sm0' = NoMsg
  /\ job' = IF sm0.cnt = lastCnt THEN NoMsg ELSE sm0.msg
  /\ lastCnt' = sm0.cnt
  /\ UNCHANGED <<sm1, repeatReq, lastOut, repeatAck, outbox, alive, masterVars,
                 mbxOut, mbx_cnt, handled, faults, clean>>

(* It can put a message into the mailbox: that is empty, and a request to  *)
(* repeat the one before has been seen to.                                 *)
CanPut == alive /\ sm1 = NoMsg /\ repeatReq = repeatAck

(* It puts an answer to the job into the mailbox; what is left to do is    *)
(* the job j.                                                              *)
RespondAndGoOn(m, j) ==
  /\ job # NoMsg /\ CanPut
  /\ sm1' = m /\ lastOut' = m
  /\ job' = j
  /\ UNCHANGED <<sm0, repeatReq, repeatAck, outbox, lastCnt, alive, masterVars,
                 mbxOut, mbx_cnt, handled, faults, clean>>

Respond(m) == RespondAndGoOn(m, NoMsg)

(* Its last message may be lost before the master has asked to repeat it.  *)
Overtakes == link = "repeat" /\ wkc = NOFRAME

(* It sends, unasked, what it has to. *)
SendOut ==
  /\ outbox # <<>> /\ CanPut
  /\ sm1' = Head(outbox) /\ lastOut' = Head(outbox)
  /\ outbox' = Tail(outbox)
  /\ clean' = (clean /\ ~Overtakes)
  /\ UNCHANGED <<sm0, repeatReq, repeatAck, job, lastCnt, alive, masterVars,
                 mbxOut, mbx_cnt, handled, faults>>

(* It repeats its last message when asked to, and acknowledges. *)
Repeat ==
  /\ alive /\ repeatReq # repeatAck
  /\ repeatAck' = repeatReq
  /\ sm1' = lastOut
  /\ UNCHANGED <<sm0, repeatReq, lastOut, job, outbox, lastCnt, alive,
                 masterVars, mbxOut, mbx_cnt, handled, faults, clean>>

(* It reports an emergency. *)
Emergency ==
  /\ CanPut /\ Faulty
  /\ sm1' = Emcy /\ lastOut' = Emcy
  /\ clean' = (clean /\ ~Overtakes)
  /\ UNCHANGED <<sm0, repeatReq, repeatAck, job, outbox, lastCnt, alive, masterVars,
                 mbxOut, mbx_cnt, handled>>

(* It answers that it does not do what it was asked to: with a mailbox     *)
(* error, if nothing else.                                                 *)
Spoil(m) ==
  /\ job # NoMsg /\ CanPut /\ Faulty
  /\ sm1' = m /\ lastOut' = m
  /\ job' = NoMsg
  /\ clean' = FALSE
  /\ UNCHANGED <<sm0, repeatReq, repeatAck, outbox, lastCnt, alive, masterVars,
                 mbxOut, mbx_cnt, handled>>
Reject == Spoil(MbxError)

(* It is unplugged. *)
Die ==
  /\ CanDie /\ alive /\ Faulty
  /\ alive' = FALSE
  /\ UNCHANGED <<sm0, sm1, repeatReq, lastOut, repeatAck, job, outbox, lastCnt,
                 masterVars, mbxOut, mbx_cnt, handled, clean>>
===============================================================================
