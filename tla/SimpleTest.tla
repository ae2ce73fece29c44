------------------------------ MODULE SimpleTest ------------------------------
(***************************************************************************)
(* The application, test/linux/simple_test/simple_test.c: simpletest (the  *)
(* main thread) starts RTthread, asks for the operational state, sets      *)
(* dorun and prints; RTthread exchanges the process data of one servo      *)
(* drive, decodes its status word and works out a control word.  Both      *)
(* threads write the control word, neither takes a lock.                   *)
(*                                                                         *)
(* There are two process images: opPDO, which the application fills, and   *)
(* the IOmap, which ecx_send_processdata sends.  RTthread points           *)
(* ec_slave[0].outputs to opPDO, but what is sent is grouplist[].outputs.  *)
(* The lost and repaired slaves of ecatcheck are in SlaveMonitor.          *)
(***************************************************************************)
EXTENDS Integers, FiniteSets

CONSTANTS
  Byte,      \* values of a byte (256)
  MaxRun,    \* bound: dorun is counted up to it (the code: for ever, in an int)
  MaxLoss,   \* bound: frames lost
  MaxFault   \* bound: faults and warnings of the drive

ASSUME SimpleTestConstants ==
  /\ Byte \in Nat /\ Byte >= 16 /\ MaxRun \in Nat \ {0}
  /\ MaxLoss \in Nat /\ MaxFault \in Nat

VARIABLES
  mpc, rpc,       \* where the main thread and RTthread are
  dorun, inOP,    \* shared flags
  ioCtl,          \* IOmap[0]: low byte of the control word that is sent
  inputs,         \* the status word in the IOmap: a set of bit numbers
  uiDriveStatus, uiErrorFlag,  \* what updateStatus made of it
  uiCtlWd, mainCtl,  \* control word, and the value main read of it
  opCtl,          \* the control word in opPDO
  frame,          \* the process data frame: [at, ctl, status]
  blockLRW,       \* the group is exchanged with LRD and LWR
  requested, al,  \* the slave: operational state requested, its state
  drive, warning, \* its drive
  losses, faults  \* bounds

mainVars  == <<inOP, requested>>
cmdVars   == <<uiCtlWd, mainCtl, opCtl>>
statVars  == <<uiDriveStatus, uiErrorFlag>>
imageVars == <<ioCtl, inputs>>
slaveVars == <<al, drive, warning>>
bounds    == <<losses, faults>>
vars == <<mpc, rpc, dorun, mainVars, cmdVars, statVars, imageVars, frame,
          blockLRW, slaveVars, bounds>>

DriveState ==
  {"not ready", "switch on disabled", "ready", "switched on",
   "operation enabled", "quick stop", "fault reaction", "fault"}

(* Control words the application works out: shut down, switch on, enable,  *)
(* and bit 7 for the reset of a fault.                                     *)
RESET == 128
Word  == {0, 6, 7, 15}
CtlWd == Word \cup {w + RESET : w \in Word}

NoFrame(at) == [at |-> at, ctl |-> 0, status |-> {}]

Init ==
  /\ mpc = "create" /\ rpc = "none"
  /\ dorun = 0 /\ inOP = FALSE
  /\ ioCtl = 0 /\ inputs = {}
  /\ uiDriveStatus = "unknown" /\ uiErrorFlag = FALSE
  /\ uiCtlWd = 0 /\ mainCtl = 0 /\ opCtl = 0
  /\ frame = NoFrame("none")
  /\ blockLRW \in BOOLEAN
  /\ requested = FALSE /\ al = "safe op"
  /\ drive = "switch on disabled" /\ warning = FALSE
  /\ losses = 0 /\ faults = 0

-----------------------------------------------------------------------------
(* The main thread.                                                        *)
Create ==
  /\ mpc = "create"
  /\ mpc' = "request" /\ rpc' = "start"
  /\ UNCHANGED <<dorun, mainVars, cmdVars, statVars, imageVars, frame,
                 blockLRW, slaveVars, bounds>>

Request ==
  /\ mpc = "request"
  /\ mpc' = "activate" /\ requested' = TRUE
  /\ UNCHANGED <<rpc, dorun, inOP, cmdVars, statVars, imageVars, frame,
                 blockLRW, slaveVars, bounds>>

Activate ==
  /\ mpc = "activate"
  /\ mpc' = "check" /\ dorun' = 1
  /\ UNCHANGED <<rpc, mainVars, cmdVars, statVars, imageVars, frame,
                 blockLRW, slaveVars, bounds>>

Operational ==
  /\ mpc = "check" /\ al = "op"
  /\ mpc' = "print" /\ inOP' = TRUE
  /\ UNCHANGED <<rpc, dorun, requested, cmdVars, statVars, imageVars, frame,
                 blockLRW, slaveVars, bounds>>

(* RTthread has begun and exchanges process data, or soon will.            *)
Active_OffByOne == dorun > 1
Active == dorun > 0
Exchanging == rpc \notin {"none", "start"} /\ Active

(* 41 times 50 ms without the operational state: a slave that gets its     *)
(* process data does not take so long.  The program ends.                  *)
GiveUp ==
  /\ mpc = "check" /\ al # "op"
  /\ rpc # "start" /\ ~Exchanging
  /\ mpc' = "end" /\ rpc' = "none" /\ requested' = FALSE
  /\ UNCHANGED <<dorun, inOP, cmdVars, statVars, imageVars, frame, blockLRW,
                 slaveVars, bounds>>

(* The program has ended; the drive may go on.                             *)
Ended == mpc = "end" /\ UNCHANGED vars

(* printStatus: bit 7 of the status word, a warning, is answered with the  *)
(* reset of a fault.  The control word is read and written without a lock. *)
PrintReads ==
  /\ mpc = "print" /\ uiErrorFlag
  /\ mpc' = "reset" /\ mainCtl' = uiCtlWd
  /\ UNCHANGED <<rpc, dorun, mainVars, uiCtlWd, opCtl, statVars, imageVars,
                 frame, blockLRW, slaveVars, bounds>>

WithReset(w) == IF w \in Word THEN w + RESET ELSE w

PrintResets ==
  /\ mpc = "reset"
  /\ mpc' = "copy" /\ uiCtlWd' = WithReset(mainCtl) /\ mainCtl' = 0
  /\ UNCHANGED <<rpc, dorun, mainVars, opCtl, statVars, imageVars,
                 frame, blockLRW, slaveVars, bounds>>

PrintCopies ==
  /\ mpc = "copy"
  /\ mpc' = "print" /\ opCtl' = uiCtlWd
  /\ UNCHANGED <<rpc, dorun, mainVars, uiCtlWd, mainCtl, statVars, imageVars,
                 frame, blockLRW, slaveVars, bounds>>

-----------------------------------------------------------------------------
(* RTthread.  What is sent is the IOmap, not what ec_slave[0].outputs      *)
(* points to.                                                              *)
SentCtl == ioCtl
Sent == [at |-> "cable", ctl |-> SentCtl, status |-> {}]

Prologue ==
  /\ rpc = "start"
  /\ rpc' = "loop" /\ dorun' = 0 /\ frame' = Sent
  /\ UNCHANGED <<mpc, mainVars, cmdVars, statVars, imageVars, blockLRW,
                 slaveVars, bounds>>

NextByte(b) == (b + 1) % Byte

Cycle ==
  /\ rpc = "loop" /\ Active
  /\ rpc' = "receive"
  /\ ioCtl' = NextByte(ioCtl)
  /\ dorun' = IF dorun < MaxRun THEN dorun + 1 ELSE dorun
  /\ UNCHANGED <<mpc, mainVars, cmdVars, statVars, inputs, frame,
                 blockLRW, slaveVars, bounds>>

NoCycle ==
  /\ rpc = "loop" /\ ~Active
  /\ rpc' = "enable"
  /\ UNCHANGED <<mpc, dorun, mainVars, cmdVars, statVars, imageVars, frame,
                 blockLRW, slaveVars, bounds>>

(* The answer of an LRW datagram covers the outputs too, as they were sent.*)
CopiedBack_Inputs == ioCtl
CopiedBack == IF blockLRW THEN ioCtl ELSE frame.ctl

Receive ==
  /\ rpc = "receive" /\ frame.at = "back"
  /\ rpc' = "send"
  /\ ioCtl' = CopiedBack /\ inputs' = frame.status
  /\ frame' = NoFrame("none")
  /\ UNCHANGED <<mpc, dorun, mainVars, cmdVars, statVars, blockLRW, slaveVars,
                 bounds>>

ReceiveNothing ==
  /\ rpc = "receive" /\ frame.at \in {"none", "lost"}
  /\ rpc' = "send"
  /\ UNCHANGED <<mpc, dorun, mainVars, cmdVars, statVars, imageVars, frame,
                 blockLRW, slaveVars, bounds>>

(* updateStatus: the bits looked at, and the value they must have.         *)
Mask_SOD_AllBits == {0, 1, 2, 3, 5, 6}
MaskSOD == {0, 1, 2, 3, 6}
Matches(status, state) ==
  CASE state = "not ready"          -> status \cap {0, 1, 2, 3, 6} = {}
    [] state = "switch on disabled" -> status \cap MaskSOD = {6}
    [] state = "ready"              -> status \cap {0, 1, 2, 3, 5, 6} = {0, 5}
    [] state = "switched on"        -> status \cap {0, 1, 2, 3, 5, 6} = {0, 1, 5}
    [] state = "operation enabled"  ->
         status \cap {0, 1, 2, 3, 5, 6} = {0, 1, 2, 5}
    [] state = "quick stop"         -> status \cap {0, 1, 2, 3, 5, 6} = {0, 1, 2}
    [] state = "fault reaction"     ->
         status \cap {0, 1, 2, 3, 5, 6} = {0, 1, 2, 3}
    [] state = "fault"              -> status \cap {0, 1, 2, 3, 6} = {3}

Decoded(status) ==
  IF \E s \in DriveState : Matches(status, s)
  THEN CHOOSE s \in DriveState : Matches(status, s) ELSE "unknown"

(* The frame of the next cycle is sent, then the inputs are looked at.     *)
SendAndUpdate ==
  /\ rpc = "send"
  /\ rpc' = "enable"
  /\ frame' = Sent
  /\ uiDriveStatus' = Decoded(inputs) /\ uiErrorFlag' = (7 \in inputs)
  /\ UNCHANGED <<mpc, dorun, mainVars, cmdVars, imageVars, blockLRW, slaveVars,
                 bounds>>

(* DriveEnable: the control word for a drive status, w before.             *)
Command(status, w) ==
  CASE status = "switch on disabled" -> 6
    [] status \in {"ready", "unknown", "fault reaction"} -> 7
    [] status = "switched on" -> 15
    [] status = "fault" -> WithReset(w)
    [] status \in {"operation enabled", "quick stop", "not ready"} -> w

Enable ==
  /\ rpc = "enable" /\ inOP
  /\ rpc' = "copy" /\ uiCtlWd' = Command(uiDriveStatus, uiCtlWd)
  /\ UNCHANGED <<mpc, dorun, mainVars, mainCtl, opCtl, statVars, imageVars,
                 frame, blockLRW, slaveVars, bounds>>

NoEnable ==
  /\ rpc = "enable" /\ ~inOP
  /\ rpc' = "loop"
  /\ UNCHANGED <<mpc, dorun, mainVars, cmdVars, statVars, imageVars, frame,
                 blockLRW, slaveVars, bounds>>

Copy ==
  /\ rpc = "copy"
  /\ rpc' = "loop" /\ opCtl' = uiCtlWd
  /\ UNCHANGED <<mpc, dorun, mainVars, uiCtlWd, mainCtl, statVars, imageVars,
                 frame, blockLRW, slaveVars, bounds>>

-----------------------------------------------------------------------------
(* The drive: a servo drive after CiA 402.  Bit n of its control word.     *)
Bit(w, n) == (w \div 2 ^ n) % 2 = 1

Obeys(state, w) ==
  CASE state = "fault" -> IF Bit(w, 7) THEN "switch on disabled" ELSE state
    [] state \in {"not ready", "fault reaction"} -> state
    [] state = "switch on disabled" ->
         IF Bit(w, 1) /\ Bit(w, 2) /\ ~Bit(w, 0) THEN "ready" ELSE state
    [] ~Bit(w, 1) -> "switch on disabled"
    [] ~Bit(w, 2) -> IF state = "operation enabled" THEN "quick stop"
                     ELSE IF state = "quick stop" THEN state
                     ELSE "switch on disabled"
    [] ~Bit(w, 0) -> IF state = "quick stop" THEN state ELSE "ready"
    [] state = "ready" -> "switched on"
    [] state = "switched on" -> IF Bit(w, 3) THEN "operation enabled" ELSE state
    [] state = "operation enabled" -> IF Bit(w, 3) THEN state ELSE "switched on"
    [] state = "quick stop" -> state

(* Bit 5 is free where the profile does not give it a value.               *)
StatusBits ==
  CASE drive = "not ready"          -> {}
    [] drive = "switch on disabled" -> {6}
    [] drive = "ready"              -> {0, 5}
    [] drive = "switched on"        -> {0, 1, 5}
    [] drive = "operation enabled"  -> {0, 1, 2, 5}
    [] drive = "quick stop"         -> {0, 1, 2}
    [] drive = "fault reaction"     -> {0, 1, 2, 3}
    [] drive = "fault"              -> {3}

StatusWords ==
  {StatusBits \cup (IF warning THEN {7} ELSE {}) \cup free :
     free \in IF drive \in {"not ready", "switch on disabled", "fault reaction",
                            "fault"} THEN {{}, {5}} ELSE {{}}}

(* The frame passes the slave, which takes the outputs when operational.   *)
Pass ==
  /\ frame.at = "cable"
  /\ \E status \in StatusWords :
       frame' = [frame EXCEPT !.at = "back", !.status = status]
  /\ drive' = IF al = "op" THEN Obeys(drive, frame.ctl) ELSE drive
  /\ UNCHANGED <<mpc, rpc, dorun, mainVars, cmdVars, statVars, imageVars,
                 blockLRW, al, warning, bounds>>

Lose ==
  /\ frame.at \in {"cable", "back"} /\ losses < MaxLoss
  /\ frame' = NoFrame("lost") /\ losses' = losses + 1
  /\ UNCHANGED <<mpc, rpc, dorun, mainVars, cmdVars, statVars, imageVars,
                 blockLRW, slaveVars, faults>>

SlaveStarts ==
  /\ requested /\ al = "safe op"
  /\ al' = "op"
  /\ UNCHANGED <<mpc, rpc, dorun, mainVars, cmdVars, statVars, imageVars,
                 frame, blockLRW, drive, warning, bounds>>

(* The watchdog of the slave: 100 ms without process data.                 *)
Watchdog ==
  /\ al = "op" /\ ~Exchanging
  /\ al' = "safe op"
  /\ UNCHANGED <<mpc, rpc, dorun, mainVars, cmdVars, statVars, imageVars,
                 frame, blockLRW, drive, warning, bounds>>

Drive ==
  /\ \/ /\ drive # "fault" /\ drive # "fault reaction" /\ faults < MaxFault
        /\ drive' = "fault reaction" /\ faults' = faults + 1
        /\ UNCHANGED warning
     \/ /\ drive = "fault reaction" /\ drive' = "fault"
        /\ UNCHANGED <<warning, faults>>
     \/ /\ ~warning /\ faults < MaxFault
        /\ warning' = TRUE /\ faults' = faults + 1
        /\ UNCHANGED drive
  /\ UNCHANGED <<mpc, rpc, dorun, mainVars, cmdVars, statVars, imageVars,
                 frame, blockLRW, al, losses>>

-----------------------------------------------------------------------------
Main == Create \/ Request \/ Activate \/ Operational \/ GiveUp
        \/ PrintReads \/ PrintResets \/ PrintCopies

RTthread ==
  \/ Prologue \/ Cycle \/ NoCycle \/ Receive \/ ReceiveNothing
  \/ SendAndUpdate \/ Enable \/ NoEnable \/ Copy

Next ==
  \/ Main \/ RTthread \/ Pass \/ Lose \/ SlaveStarts \/ Watchdog \/ Drive
  \/ Ended

Spec == Init /\ [][Next]_vars

(* Both threads run, the frame arrives or is lost, and the slave follows.  *)
FairSpec ==
  /\ Spec /\ WF_vars(Main) /\ WF_vars(RTthread) /\ WF_vars(Pass)
  /\ WF_vars(SlaveStarts) /\ WF_vars(Watchdog)

-----------------------------------------------------------------------------
TypeOK ==
  /\ mpc \in {"create", "request", "activate", "check", "print", "reset",
              "copy", "end"}
  /\ rpc \in {"none", "start", "loop", "receive", "send", "enable", "copy"}
  /\ dorun \in 0..MaxRun /\ {inOP, uiErrorFlag, blockLRW, requested,
                             warning} \subseteq BOOLEAN
  /\ ioCtl \in 0..(Byte - 1) /\ inputs \subseteq 0..7
  /\ uiDriveStatus \in DriveState \cup {"unknown"} /\ drive \in DriveState
  /\ {uiCtlWd, mainCtl, opCtl} \subseteq CtlWd
  /\ frame \in [at : {"none", "cable", "back", "lost"}, ctl : 0..(Byte - 1),
                status : SUBSET (0..7)]
  /\ al \in {"safe op", "op"}
  /\ losses \in 0..MaxLoss /\ faults \in 0..MaxFault

(* With LRW the control word that goes to the drive is not a command: it   *)
(* is the number of process data frames lost so far.  RTthread adds one to *)
(* it in every cycle, and the answer takes it back.  Six of them begin to  *)
(* enable the drive, whatever the application commands.                    *)
CtlCountsLosses ==
  ~blockLRW /\ rpc # "receive" /\ frame.at # "lost" =>
    SentCtl = losses % Byte

(* Two patterns of updateStatus never match the same status word, and the  *)
(* command for what was decoded is the one for the state the drive was in. *)
CommandIsForState ==
  \A w \in Word :
    /\ frame.at = "back" /\ frame.status \in StatusWords =>
         Command(Decoded(frame.status), w) = Command(drive, w)
    /\ Cardinality({s \in DriveState : Matches(inputs, s)}) <= 1

(* If RTthread has begun when dorun is set, the slave becomes operational, *)
(* the application notices, and both stay so, whatever frames are lost.    *)
OperationHolds ==
  mpc = "check" /\ rpc # "start" /\ dorun > 0 ~> [](inOP /\ al = "op")

(* "activate cyclic process data": once dorun is set, they are exchanged.  *)
Activated == mpc = "check" ~> rpc = "receive"
===============================================================================
