----------------------------- MODULE SlaveMonitor -----------------------------
(***************************************************************************)
(* How an application brings lost slaves back: the thread ecatcheck, which *)
(* is the same in simple_test.c and in Reference/main.cpp, with            *)
(* ecx_readstate, ecx_statecheck, ecx_recover_slave and ecx_reconfig_slave,*)
(* beside the real-time thread that counts the slaves taking part in the   *)
(* process data, and a segment whose slaves are unplugged, plugged in      *)
(* again, power-cycled, or fail by themselves.                             *)
(*                                                                         *)
(* A step of the monitor is one datagram, since the segment may change     *)
(* between two of them.  The slaves' side is the EtherCAT state machine as *)
(* the code uses it: station address, AL status, whether the sync managers *)
(* and FMMUs are programmed.  Slave s is configured with station address s.*)
(***************************************************************************)
EXTENDS Integers, FiniteSets

CONSTANTS
  N,          \* ec_slavecount
  Scenario    \* what is looked at: the identities of the slaves (vendor,
              \* product, revision, alias), and bounds: times slaves are
              \* unplugged, power-cycled, or fail by themselves, and
              \* datagrams that are lost or whose answer is

Slave == 1..N

ASSUME NAssumption == N \in Nat \ {0}
ASSUME ScenarioAssumption ==
  Scenario \subseteq
    [type : [Slave -> Nat], cut : Nat, power : Nat, fall : Nat, loss : Nat]

NoAddr == 0        \* a slave after power-up
TEMP   == N + 1    \* EC_TEMPNODE

NONE   == 0        \* EC_STATE_NONE: what a master reads when nobody answers
INIT   == 1
PREOP  == 2
SAFEOP == 4
OP     == 8
ERROR  == 16       \* EC_STATE_ERROR when read, EC_STATE_ACK when written

Masked(x)   == x % 16
HasError(x) == x >= ERROR

VARIABLES
  up,     \* the slaves a frame reaches, in the order of their numbers
  adr,    \* register ECT_REG_STADR of each slave
  alstat,     \* register ECT_REG_ALSTAT of each slave
  sm,     \* the sync managers of the slave are programmed
  fmmu,   \* the FMMUs of the slave are programmed
  state,  \* ec_slave[].state
  islost, \* ec_slave[].islost
  docheckstate, \* ec_group[].docheckstate
  wkclow, \* wkc < expectedWKC
  pc,     \* the next datagram or branch of ecatcheck
  cur,    \* its loop variable slave
  type,   \* the identity of each slave
  left    \* what is left of the bounds

segment == <<up, adr, alstat, sm, fmmu>>
master  == <<state, islost, docheckstate>>
faultVars == <<type, left>>
monitorVars == <<segment, master, wkclow, pc, cur, faultVars>>

(* simpletest sets inOP once every slave is operational.  Until the first  *)
(* poll, ec_slave[].state still is what the configuration read last.       *)
MonitorInit ==
  /\ up = Slave
  /\ adr = [s \in Slave |-> s]
  /\ alstat = [s \in Slave |-> OP]
  /\ sm = [s \in Slave |-> TRUE] /\ fmmu = [s \in Slave |-> TRUE]
  /\ state = [s \in Slave |-> PREOP]
  /\ islost = [s \in Slave |-> FALSE]
  /\ docheckstate = FALSE /\ wkclow = FALSE
  /\ pc = "poll" /\ cur = 1
  /\ \E z \in Scenario :
       /\ type = z.type
       /\ left = [cut |-> z.cut, power |-> z.power, fall |-> z.fall, loss |-> z.loss]

-----------------------------------------------------------------------------
(* The segment.                                                            *)
Uses(fault) ==
  /\ left[fault] > 0 /\ left' = [left EXCEPT ![fault] = @ - 1]
  /\ type' = type

Unplug ==
  /\ Uses("cut")
  /\ \E S \in SUBSET up \ {{}} : up' = up \ S
  /\ UNCHANGED <<adr, alstat, sm, fmmu, master, wkclow, pc, cur>>

PlugIn ==
  /\ \E S \in SUBSET (Slave \ up) \ {{}} : up' = up \cup S
  /\ UNCHANGED <<adr, alstat, sm, fmmu, master, wkclow, pc, cur, faultVars>>

PowerCycle(s) ==
  /\ Uses("power")
  /\ s \notin up
  /\ adr' = [adr EXCEPT ![s] = NoAddr]
  /\ alstat' = [alstat EXCEPT ![s] = INIT]
  /\ sm' = [sm EXCEPT ![s] = FALSE] /\ fmmu' = [fmmu EXCEPT ![s] = FALSE]
  /\ UNCHANGED <<up, master, wkclow, pc, cur>>

(* The watchdog of an operational slave that gets no outputs.              *)
SmWatchdog(s) ==
  /\ alstat[s] = OP /\ (s \notin up \/ ~fmmu[s])
  /\ alstat' = [alstat EXCEPT ![s] = SAFEOP + ERROR]
  /\ UNCHANGED <<up, adr, sm, fmmu, master, wkclow, pc, cur, faultVars>>

(* An error local to the slave.                                            *)
LocalError(s) ==
  /\ Uses("fall")
  /\ alstat[s] = OP
  /\ alstat' = [alstat EXCEPT ![s] = SAFEOP + ERROR]
  /\ UNCHANGED <<up, adr, sm, fmmu, master, wkclow, pc, cur>>

Segment ==
  \/ Unplug \/ PlugIn
  \/ \E s \in Slave : PowerCycle(s) \/ SmWatchdog(s) \/ LocalError(s)

(* The slaves a datagram reaches: by station address, by position.         *)
Reach(a) == {s \in up : adr[s] = a}
Place(s) == Cardinality({t \in up : t <= s})
AtPosition(p) == {s \in up : Place(s) = p}

(* The AL status after a request; req may carry ACK.                       *)
AlControl(s, req) ==
  IF req = INIT \/ Masked(req) < Masked(alstat[s]) THEN Masked(req)
  ELSE IF HasError(alstat[s])
    THEN IF HasError(req) /\ Masked(req) = Masked(alstat[s]) THEN Masked(req)
         ELSE alstat[s]
  ELSE IF Masked(req) = 2 * alstat[s]
    THEN IF req = SAFEOP /\ ~sm[s] THEN PREOP + ERROR ELSE Masked(req)
  ELSE alstat[s]

(* What a read of the AL status returns: the last slave in line wins.      *)
Answer(a) ==
  IF Reach(a) = {} THEN NONE
  ELSE alstat[CHOOSE s \in Reach(a) : \A t \in Reach(a) : t <= s]

(* A datagram is done, or carried out but its answer lost, or lost.        *)
Outcome == {"done", "unanswered", "lost"}
Datagram(o) ==
  IF o = "done" THEN UNCHANGED faultVars ELSE Uses("loss")

SetAl(o, a, req) ==
  alstat' = [s \in Slave |->
           IF o # "lost" /\ s \in Reach(a) THEN AlControl(s, req) ELSE alstat[s]]
SetAdr(o, S, a) ==
  adr' = [s \in Slave |-> IF o # "lost" /\ s \in S THEN a ELSE adr[s]]
SetSm(o, a) ==
  sm' = [s \in Slave |-> sm[s] \/ (o # "lost" /\ s \in Reach(a))]
SetFmmu(o, a) ==
  fmmu' = [s \in Slave |-> fmmu[s] \/ (o # "lost" /\ s \in Reach(a))]

-----------------------------------------------------------------------------
(* RTthread: one exchange of process data.  A slave counts while its sync  *)
(* managers are served.                                                    *)
TakesPart(s) == s \in up /\ fmmu[s] /\ alstat[s] \in {SAFEOP, OP}

ReceiveProcessdata ==
  /\ \/ wkclow' = (\E s \in Slave : ~TakesPart(s)) /\ UNCHANGED faultVars
     \/ wkclow' = TRUE /\ Datagram("lost")
  /\ UNCHANGED <<segment, master, pc, cur>>

-----------------------------------------------------------------------------
(* ecatcheck                                                               *)
Goto(l) == pc' = l

Poll ==
  /\ pc = "poll" /\ (wkclow \/ docheckstate)
  /\ docheckstate' = FALSE
  /\ cur' = 1 /\ Goto("brd")
  /\ UNCHANGED <<segment, state, islost, wkclow, faultVars>>

(* ecx_readstate: one broadcast suffices if all slaves are present, in the *)
(* same state, and none has the error flag.                                *)
SameState ==
  up = Slave /\ \E x \in {INIT, PREOP, SAFEOP, OP} : \A s \in up : alstat[s] = x

ReadStateAll ==
  /\ pc = "brd"
  /\ \E o \in {"done", "lost"} :
       /\ Datagram(o)
       /\ IF o = "done" /\ SameState
            THEN state' = [s \in Slave |-> Masked(alstat[s])] /\ Goto("visit")
            ELSE UNCHANGED state /\ Goto("multi")
  /\ UNCHANGED <<segment, islost, docheckstate, wkclow, cur>>

ReadStateEach ==
  /\ pc = "multi" /\ Goto("visit")
  /\ \E o \in {"done", "lost"} :
       /\ Datagram(o)
       /\ state' = [s \in Slave |-> IF o = "done" THEN Answer(s) ELSE NONE]
  /\ UNCHANGED <<segment, islost, docheckstate, wkclow, cur>>

(* Mutant: a slave that is not operational is not checked again.           *)
NotOperational_Forgets == docheckstate' = docheckstate

(* What the loop does about the slave, by the state that was read.         *)
NotOperational == docheckstate' = (docheckstate \/ state[cur] # OP)

IsOperational ==
  /\ pc = "visit" /\ state[cur] = OP /\ NotOperational /\ Goto("lost")
  /\ UNCHANGED <<segment, state, islost, wkclow, cur, faultVars>>

(* The two requests: acknowledge the error, or go operational.             *)
RequestState ==
  /\ pc = "visit" /\ Masked(state[cur]) = SAFEOP /\ NotOperational /\ Goto("lost")
  /\ LET req == IF HasError(state[cur]) THEN SAFEOP + ERROR ELSE OP IN
       /\ state' = [state EXCEPT ![cur] = req]
       /\ \E o \in Outcome : Datagram(o) /\ SetAl(o, cur, req)
  /\ UNCHANGED <<up, adr, sm, fmmu, islost, wkclow, cur>>

Dispatch ==
  /\ pc = "visit" /\ Masked(state[cur]) < SAFEOP /\ NotOperational
  /\ Goto(IF state[cur] > NONE THEN "init"
          ELSE IF islost[cur] THEN "lost" ELSE "recheck")
  /\ UNCHANGED <<segment, state, islost, wkclow, cur, faultVars>>

Recheck ==
  /\ pc = "recheck" /\ Goto("lost")
  /\ \E o \in {"done", "lost"} :
       /\ Datagram(o)
       /\ state' = [state EXCEPT ![cur] = IF o = "done" THEN Answer(cur) ELSE NONE]
  /\ islost' = [islost EXCEPT ![cur] = state'[cur] = NONE]
  /\ UNCHANGED <<segment, docheckstate, wkclow, cur>>

IfLost ==
  /\ pc = "lost"
  /\ Goto(IF islost[cur] /\ state[cur] = NONE THEN "pos" ELSE "next")
  /\ islost' = [islost EXCEPT ![cur] = @ /\ state[cur] = NONE]
  /\ UNCHANGED <<segment, state, docheckstate, wkclow, cur, faultVars>>

NextSlave ==
  /\ pc = "next"
  /\ IF cur < N THEN cur' = cur + 1 /\ Goto("visit") ELSE cur' = 1 /\ Goto("poll")
  /\ UNCHANGED <<segment, master, wkclow, faultVars>>

-----------------------------------------------------------------------------
(* ecx_reconfig_slave                                                      *)

(* A result that is not 0 clears islost.                                   *)
Reconfigured(result) == islost' = [islost EXCEPT ![cur] = @ /\ result = 0]

ReconfigInit ==
  /\ pc = "init"
  /\ \E o \in Outcome :
       /\ Datagram(o) /\ SetAl(o, cur, INIT)
       /\ Goto(IF o = "done" /\ Reach(cur) # {} THEN "isinit" ELSE "lost")
  /\ UNCHANGED <<up, adr, sm, fmmu, master, wkclow, cur>>

(* ecx_statecheck with its timer of two seconds outlives a lost frame.     *)
StateCheck(req, l) ==
  /\ state' = [state EXCEPT ![cur] = Answer(cur)]
  /\ IF Masked(Answer(cur)) = req THEN Goto(l) /\ UNCHANGED islost
     ELSE Goto("lost") /\ Reconfigured(Masked(Answer(cur)))
  /\ UNCHANGED <<segment, docheckstate, wkclow, cur, faultVars>>

ReconfigIsInit  == pc = "isinit" /\ StateCheck(INIT, "sms")
ReconfigIsPreop == pc = "ispreop" /\ StateCheck(PREOP, "safeop")

ReconfigSM ==
  /\ pc = "sms" /\ Goto("preop")
  /\ \E o \in Outcome : Datagram(o) /\ SetSm(o, cur)
  /\ UNCHANGED <<up, adr, alstat, fmmu, master, wkclow, cur>>

ReconfigRequest ==
  /\ pc \in {"preop", "safeop"}
  /\ Goto(IF pc = "preop" THEN "ispreop" ELSE "issafeop")
  /\ \E o \in Outcome :
       Datagram(o) /\ SetAl(o, cur, IF pc = "preop" THEN PREOP ELSE SAFEOP)
  /\ UNCHANGED <<up, adr, sm, fmmu, master, wkclow, cur>>

(* Whatever the last check finds, the FMMUs are programmed; no result of   *)
(* theirs is looked at.                                                    *)
ReconfigIsSafeop ==
  /\ pc = "issafeop" /\ Goto("fmmus")
  /\ state' = [state EXCEPT ![cur] = Answer(cur)]
  /\ UNCHANGED <<segment, islost, docheckstate, wkclow, cur, faultVars>>

ReconfigFMMU ==
  /\ pc = "fmmus" /\ Goto("lost")
  /\ \E o \in Outcome : Datagram(o) /\ SetFmmu(o, cur)
  /\ Reconfigured(Masked(state[cur]))
  /\ UNCHANGED <<up, adr, alstat, sm, state, docheckstate, wkclow, cur>>

-----------------------------------------------------------------------------
(* ecx_recover_slave, for the slave that should be at position cur         *)
Recovered(b) == islost' = [islost EXCEPT ![cur] = @ /\ ~b]

(* "only try if no config address"; mutant: whatever address was found.    *)
MayReaddress_Any(found) == found # {} /\ found # {cur}
MayReaddress(found) == found = {NoAddr}

RecoverRead ==
  /\ pc = "pos"
  /\ \E o \in {"done", "lost"} :
       LET found == IF o = "done" THEN {adr[s] : s \in AtPosition(cur)} ELSE {} IN
         /\ Datagram(o)
         /\ Recovered(found = {cur})
         /\ Goto(IF MayReaddress(found) THEN "clear" ELSE "next")
  /\ UNCHANGED <<segment, state, docheckstate, wkclow, cur>>

(* Mutant: nothing is cleaned up after a recovery that failed.             *)
ClearTemp_NotAfter ==
  /\ pc \in {"clear", "unset"}
  /\ Goto(IF pc = "clear" THEN "temp" ELSE "next")
  /\ \E o \in Outcome :
       /\ Datagram(o)
       /\ SetAdr(IF pc = "clear" THEN o ELSE "lost", Reach(TEMP), NoAddr)
  /\ UNCHANGED <<up, alstat, sm, fmmu, master, wkclow, cur>>

(* "clear possible slaves at EC_TEMPNODE", and the two clean-ups           *)
ClearTemp ==
  /\ pc \in {"clear", "unset"}
  /\ Goto(IF pc = "clear" THEN "temp" ELSE "next")
  /\ \E o \in Outcome : Datagram(o) /\ SetAdr(o, Reach(TEMP), NoAddr)
  /\ UNCHANGED <<up, alstat, sm, fmmu, master, wkclow, cur>>

SetTemp ==
  /\ pc = "temp"
  /\ \E o \in Outcome :
       /\ Datagram(o) /\ SetAdr(o, AtPosition(cur), TEMP)
       /\ Goto(IF o = "done" /\ AtPosition(cur) # {} THEN "ident" ELSE "unset")
  /\ UNCHANGED <<up, alstat, sm, fmmu, master, wkclow, cur>>

(* The alias register and three words of the EEPROM are compared with what *)
(* the slave had when it was configured.                                   *)
(* Mutant: any slave will do.                                              *)
SameIdentity_Any(s) == s \in Slave
SameIdentity(s) == type[s] = type[cur]

Identify ==
  /\ pc = "ident"
  /\ \/ /\ \E s \in Reach(TEMP) : SameIdentity(s)
        /\ Goto("own") /\ UNCHANGED faultVars
     \/ /\ \/ Reach(TEMP) = {} /\ UNCHANGED faultVars
           \/ (\E s \in Reach(TEMP) : ~SameIdentity(s)) /\ UNCHANGED faultVars
           \/ Datagram("lost")
        /\ Goto("unset")
  /\ UNCHANGED <<segment, master, wkclow, cur>>

(* EC_NOFRAME, which is -1, counts as success like any non-zero result.    *)
SetOwn ==
  /\ pc = "own" /\ Goto("next")
  /\ \E o \in Outcome :
       /\ Datagram(o) /\ SetAdr(o, Reach(TEMP), cur)
       /\ Recovered(o # "done" \/ Reach(TEMP) # {})
  /\ UNCHANGED <<up, alstat, sm, fmmu, state, docheckstate, wkclow, cur>>

-----------------------------------------------------------------------------
Reconfig == ReconfigInit \/ ReconfigIsInit \/ ReconfigSM \/ ReconfigRequest
            \/ ReconfigIsPreop \/ ReconfigIsSafeop \/ ReconfigFMMU
Recover  == RecoverRead \/ ClearTemp \/ SetTemp \/ Identify \/ SetOwn
Ecatcheck == Poll \/ ReadStateAll \/ ReadStateEach \/ IsOperational \/ RequestState
             \/ Dispatch \/ Recheck \/ IfLost \/ NextSlave \/ Reconfig \/ Recover

MonitorNext == Segment \/ ReceiveProcessdata \/ Ecatcheck
MonitorSpec == MonitorInit /\ [][MonitorNext]_monitorVars

(* Both threads go on running, and what was unplugged is plugged in again. *)
(* The bounds say that the segment comes to rest.                          *)
FairMonitor ==
  /\ MonitorSpec
  /\ WF_monitorVars(ReceiveProcessdata) /\ WF_monitorVars(Ecatcheck)
  /\ WF_monitorVars(PlugIn)

-----------------------------------------------------------------------------
(* No slave carries a station address that belongs to another one:         *)
(* ecx_recover_slave gives an address by position in the line, and only    *)
(* its checks keep it from readdressing the wrong slave.                   *)
(*                                                                         *)
(* With losses of power, they do so for slaves that differ, are unplugged  *)
(* in one outage, and lose no datagram.  In a second outage a slave may    *)
(* disappear with EC_TEMPNODE, come back while another one is being        *)
(* identified at that address, and be given that one's address with it.    *)
RightAddress == \A s \in Slave : adr[s] \in {NoAddr, TEMP, s}

(* While every slave still has its address, the recovery readdresses none  *)
(* of them, however many datagrams are lost while it runs and whoever is   *)
(* unplugged: it only looks for them.  (After a power-up it may: a slave   *)
(* plugged in between two of its datagrams moves the others on.)           *)
AddressKept ==
  [][(\A s \in Slave : adr[s] = s) => \A s \in up : adr'[s] = s]_monitorVars

(* EC_TEMPNODE is an address for the time of a recovery: no slave in reach *)
(* keeps it once its recovery is over, within the same bounds.             *)
TempIsTemporary == pc = "poll" => Reach(TEMP) = {}

(* Once the segment rests, every slave becomes operational with its own    *)
(* address and its process data mapped, and the working counter says so:   *)
(* "Added recovery and reconfiguration of slaves after connection loss"    *)
(* (doc/soem.dox).                                                         *)
Healthy == ~wkclow /\ \A s \in Slave : adr[s] = s /\ TakesPart(s) /\ alstat[s] = OP
Resumes == <>[]Healthy
=============================================================================
