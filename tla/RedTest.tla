-------------------------------- MODULE RedTest --------------------------------
(***************************************************************************)
(* The application in Reference/main.cpp: redtest in the main thread, and  *)
(* ecatthread, which exchanges the process data in every cycle while dorun *)
(* is set.  For each of its three commands to the drive redtest exchanges  *)
(* the process data, too, beside ecatthread and without a lock: both push  *)
(* and pull indices on the one idxstack of ec_send_processdata and         *)
(* ec_receive_processdata, and copy to and from the one IOmap.             *)
(*                                                                         *)
(* A thread reads and writes the fields of idxstack one at a time.  Of the *)
(* IOmap only the control word of the drive is kept, of the datagrams only *)
(* the one with the outputs, LRW or LWR.  Its round trip is one step; what *)
(* lies on the cable meanwhile is in NicDrv.  Which of the unused indices  *)
(* ecx_getindex finds is left open.                                        *)
(***************************************************************************)
EXTENDS Integers, Sequences, FiniteSets

CONSTANTS
  NBuf,      \* EC_MAXBUF: frame indices, entries of idxstack
  MaxBeside, \* bound: cycles of ecatthread beside one exchange of redtest
  MaxCycle,  \* bound: cycles that are counted once the commands are given
  MaxLoss    \* bound: frames lost

Idx == 0..(NBuf - 1)
Thread == {"main", "ecatthread"}

(* The control words: shut down, switch on, enable operation.              *)
Command == <<6, 7, 15>>

VARIABLES
  mpc, given,   \* where redtest is, the commands it has given
  rpc,          \* where ecatthread is
  dorun,        \* 1 stands for every number above 0
  requested, al,  \* operational state requested, and reached
  blockLRW,     \* LWR, not LRW
  ctl,          \* the control word in the IOmap
  idxstack,     \* [idx, pushed, pulled]
  buf,          \* buf[i]: [stat, ctl], the mark and the frame of a buffer
  at,           \* at[t]: where thread t is in ec_send_ or ec_receive_processdata
  pos, idx,     \* its locals pos and idx
  valid,        \* what it received: "none", "lost" or "some"
  wkc,          \* the same of the last receive of either thread
  cycles,       \* cycles of ecatthread since the commands are given
  drive, losses

mainVars  == <<mpc, given>>
runVars   == <<dorun, requested, al>>
localVars == <<at, pos, idx, valid>>
vars == <<mainVars, rpc, runVars, blockLRW, ctl, idxstack, buf, localVars,
          wkc, cycles, drive, losses>>

NoIdx == -1
Empty == [stat |-> "empty", ctl |-> 0]

Init ==
  /\ mpc = "config" /\ given = 0 /\ rpc = "start"
  /\ dorun = 0 /\ requested = FALSE /\ al = "safe op"
  /\ blockLRW \in BOOLEAN /\ ctl = 0
  /\ idxstack = [idx |-> [n \in Idx |-> NoIdx], pushed |-> 0, pulled |-> 0]
  /\ buf = [i \in Idx |-> Empty]
  /\ at = [t \in Thread |-> "out"] /\ pos = [t \in Thread |-> 0]
  /\ idx = [t \in Thread |-> NoIdx] /\ valid = [t \in Thread |-> "none"]
  /\ wkc = "none" /\ cycles = 0 /\ drive = "switch on disabled" /\ losses = 0

Goto(t, l) == at' = [at EXCEPT ![t] = l]

-----------------------------------------------------------------------------
(* ec_send_processdata: an LRW datagram, or an LWR.                        *)

(* ecx_getindex gives an unused index, or when there is none one in use.   *)
(* The datagram is set up with what the IOmap holds.                       *)
Free == {i \in Idx : buf[i].stat = "empty"}

SetUp(t) ==
  /\ at[t] = "setup"
  /\ \E i \in IF Free # {} THEN Free ELSE Idx :
       /\ idx' = [idx EXCEPT ![t] = i]
       /\ buf' = [buf EXCEPT ![i] = [stat |-> "alloc", ctl |-> ctl]]
  /\ Goto(t, "outframe")
  /\ UNCHANGED <<mainVars, rpc, runVars, blockLRW, ctl, idxstack, pos, valid,
                 wkc, cycles, drive, losses>>

(* The drive: operated by the control words of CiA 402. *)
Obeys(w) ==
  CASE w = 6  -> "ready"
    [] w = 7  -> IF drive \in {"ready", "switched on", "enabled"}
                 THEN "switched on" ELSE drive
    [] w = 15 -> CASE drive = "ready" -> "switched on"
                   [] drive = "switched on" -> "enabled"
                   [] OTHER -> drive
    [] w = 0  -> "switch on disabled"

(* ecx_outframe_red and the first half of ecx_pushindex.  The frame goes   *)
(* round, past the drive, or is lost before or behind it.                  *)
SendAndPush(t) ==
  LET f == buf[idx[t]]
      reached == IF al = "op" THEN Obeys(f.ctl) ELSE drive
  IN
  /\ at[t] = "outframe"
  /\ \/ /\ buf' = [buf EXCEPT ![idx[t]].stat = "tx"]
        /\ drive' = reached /\ losses' = losses
     \/ /\ losses < MaxLoss /\ losses' = losses + 1
        /\ buf' = [buf EXCEPT ![idx[t]].stat = "lost"]
        /\ drive' \in {drive, reached}
  /\ IF idxstack.pushed < NBuf
     THEN /\ idxstack' = [idxstack EXCEPT !.idx[idxstack.pushed] = idx[t]]
          /\ pos' = [pos EXCEPT ![t] = idxstack.pushed]
          /\ Goto(t, "pushed")
     ELSE Goto(t, "out") /\ UNCHANGED <<idxstack, pos>>
  /\ UNCHANGED <<mainVars, rpc, runVars, blockLRW, ctl, idx, valid,
                 wkc, cycles>>

CountPushed(t) ==
  /\ at[t] = "pushed"
  /\ idxstack' = [idxstack EXCEPT !.pushed = pos[t] + 1]
  /\ pos' = [pos EXCEPT ![t] = 0] /\ idx' = [idx EXCEPT ![t] = NoIdx]
  /\ Goto(t, "out")
  /\ UNCHANGED <<mainVars, rpc, runVars, blockLRW, ctl, buf,
                 valid, wkc, cycles, drive, losses>>

-----------------------------------------------------------------------------
(* ec_receive_processdata.  ecx_pullindex: compare, then count.            *)
Pull(t) ==
  /\ at[t] = "pull" /\ idxstack.pulled < idxstack.pushed
  /\ pos' = [pos EXCEPT ![t] = idxstack.pulled]
  /\ Goto(t, "pulled")
  /\ UNCHANGED <<mainVars, rpc, runVars, blockLRW, ctl, idxstack, buf, idx,
                 valid, wkc, cycles, drive, losses>>

CountPulled(t) ==
  /\ at[t] = "pulled"
  /\ idxstack' = [idxstack EXCEPT !.pulled = pos[t] + 1]
  /\ Goto(t, "take")
  /\ UNCHANGED <<mainVars, rpc, runVars, blockLRW, ctl, buf, pos, idx,
                 valid, wkc, cycles, drive, losses>>

Take(t) ==
  /\ at[t] = "take"
  /\ idx' = [idx EXCEPT ![t] = idxstack.idx[pos[t]]]
  /\ Goto(t, "wait")
  /\ UNCHANGED <<mainVars, rpc, runVars, blockLRW, ctl, idxstack, buf, pos,
                 valid, wkc, cycles, drive, losses>>

Freed(i) == [buf EXCEPT ![i].stat = "empty"]

(* A mutation copies back an LWR, too. *)
CopiedBack_Always(i) == buf[i].ctl
CopiedBack(i) == IF blockLRW THEN ctl ELSE buf[i].ctl

(* ecx_waitinframe finds the answer; that of an LRW covers the outputs, as *)
(* they were when it was sent.  Or the frame was lost, was taken by the    *)
(* other thread, or is not sent yet.  The buffer is released.              *)
Wait(t) ==
  LET i == idx[t] IN
  /\ at[t] = "wait"
  /\ ctl' = IF buf[i].stat = "tx" THEN CopiedBack(i) ELSE ctl
  /\ valid' = [valid EXCEPT ![t] =
                 IF buf[i].stat = "tx" THEN "some"
                 ELSE IF buf[i].stat = "lost" /\ valid[t] = "none" THEN "lost"
                 ELSE valid[t]]
  /\ buf' = Freed(i)
  /\ idx' = [idx EXCEPT ![t] = NoIdx] /\ pos' = [pos EXCEPT ![t] = 0]
  /\ Goto(t, "pull")
  /\ UNCHANGED <<mainVars, rpc, runVars, blockLRW, idxstack,
                 wkc, cycles, drive, losses>>

Cleared(l) ==
  IF l = "clear" THEN [idxstack EXCEPT !.pushed = 0]
  ELSE [idxstack EXCEPT !.pulled = 0]

Clear(t) ==
  /\ \/ /\ at[t] = "pull" /\ idxstack.pulled >= idxstack.pushed
        /\ Goto(t, "clear") /\ UNCHANGED <<idxstack, wkc, valid>>
     \/ /\ at[t] = "clear"
        /\ idxstack' = Cleared("clear")
        /\ Goto(t, "clear pulled") /\ UNCHANGED <<wkc, valid>>
     \/ /\ at[t] = "clear pulled"
        /\ idxstack' = Cleared("clear pulled") /\ wkc' = valid[t]
        /\ valid' = [valid EXCEPT ![t] = "none"]
        /\ Goto(t, "out")
  /\ UNCHANGED <<mainVars, rpc, runVars, blockLRW, ctl, buf, pos, idx,
                 cycles, drive, losses>>

Exchange(t) ==
  \/ SetUp(t)
  \/ SendAndPush(t) \/ CountPushed(t)
  \/ Pull(t) \/ CountPulled(t) \/ Take(t) \/ Wait(t) \/ Clear(t)

-----------------------------------------------------------------------------
(* redtest. *)
Main(l, m) == mpc = l /\ at["main"] = "out" /\ mpc' = m

(* From ec_init to ec_config_map and the first outputs. *)
Configure ==
  /\ Main("config", "request")
  /\ UNCHANGED <<given, rpc, runVars, blockLRW, ctl, idxstack, buf,
                 localVars, wkc, cycles, drive, losses>>

Request ==
  /\ Main("request", "activate") /\ requested' = TRUE
  /\ UNCHANGED <<given, rpc, dorun, al, blockLRW, ctl, idxstack, buf,
                 localVars, wkc, cycles, drive, losses>>

Activate ==
  /\ Main("activate", "check") /\ dorun' = 1
  /\ UNCHANGED <<given, rpc, requested, al, blockLRW, ctl, idxstack, buf,
                 localVars, wkc, cycles, drive, losses>>

Exchanging == rpc # "start" /\ dorun = 1

(* ec_statecheck finds all operational; or not, in ten seconds.            *)
Operational ==
  /\ Main("check", "command") /\ al = "op"
  /\ UNCHANGED <<given, rpc, runVars, blockLRW, ctl, idxstack, buf,
                 localVars, wkc, cycles, drive, losses>>

NotOperational ==
  /\ Main("check", "end") /\ al # "op" /\ rpc # "start" /\ ~Exchanging
  /\ rpc' = "end"
  /\ UNCHANGED <<given, runVars, blockLRW, ctl, idxstack, buf, localVars,
                 wkc, cycles, drive, losses>>

Give ==
  /\ Main("command", "send") /\ cycles' = 0
  /\ given' = given + 1 /\ ctl' = Command[given + 1]
  /\ Goto("main", "setup")
  /\ UNCHANGED <<rpc, runVars, blockLRW, idxstack, buf, pos, idx, valid,
                 wkc, drive, losses>>

Receive ==
  /\ Main("send", "receive")
  /\ Goto("main", "pull") /\ valid' = [valid EXCEPT !["main"] = "none"]
  /\ UNCHANGED <<given, rpc, runVars, blockLRW, ctl, idxstack, buf, pos, idx,
                 wkc, cycles, drive, losses>>

Received ==
  /\ Main("receive", "sleep") /\ cycles' = 0
  /\ UNCHANGED <<given, rpc, runVars, blockLRW, ctl, idxstack, buf,
                 localVars, wkc, drive, losses>>

(* Five milliseconds, or 100 after the last command: two cycles of         *)
(* ecatthread at least, whose SYNC0 pulses come every two milliseconds.    *)
Slept ==
  /\ Main("sleep", IF given = Len(Command) THEN "loop" ELSE "command")
  /\ cycles >= 2
  /\ UNCHANGED <<given, rpc, runVars, blockLRW, ctl, idxstack, buf,
                 localVars, wkc, cycles, drive, losses>>

(* After 5000 times 20 ms the program requests the safe operational state, *)
(* closes the socket and ends; ecatthread may still be running.            *)
Stop ==
  /\ Main("loop", "stop") /\ cycles = MaxCycle
  /\ dorun' = 0
  /\ UNCHANGED <<given, rpc, requested, al, blockLRW, ctl, idxstack, buf,
                 localVars, wkc, cycles, drive, losses>>

Close ==
  /\ Main("stop", "end") /\ rpc' = "end"
  /\ UNCHANGED <<given, runVars, blockLRW, ctl, idxstack, buf, localVars,
                 wkc, cycles, drive, losses>>

Ended == mpc = "end" /\ UNCHANGED vars

-----------------------------------------------------------------------------
(* ecatthread. *)
Rt(l, m) == rpc = l /\ at["ecatthread"] = "out" /\ rpc' = m

(* It begins before, while or after redtest configures the slaves: until   *)
(* then there is nothing to send.                                          *)
Begin ==
  /\ Rt("start", "sleep") /\ dorun' = 0
  /\ Goto("ecatthread", IF mpc = "config" THEN "out" ELSE "setup")
  /\ UNCHANGED <<mainVars, requested, al, blockLRW, ctl, idxstack, buf, pos,
                 idx, valid, wkc, cycles, drive, losses>>

Wake ==
  /\ Rt("sleep", "receive") /\ dorun = 1
  /\ mpc \in {"send", "receive"} => cycles < MaxBeside
  /\ Goto("ecatthread", "pull") /\ valid' = [valid EXCEPT !["ecatthread"] = "none"]
  /\ UNCHANGED <<mainVars, runVars, blockLRW, ctl, idxstack, buf, pos, idx,
                 wkc, cycles, drive, losses>>

(* dorun is counted up, though it may have been cleared since.             *)
Cycle ==
  /\ Rt("receive", "sleep") /\ dorun' = 1
  /\ Goto("ecatthread", "setup")
  /\ cycles' = IF mpc \in {"send", "receive", "sleep", "loop"} /\ cycles < MaxCycle THEN cycles + 1 ELSE cycles
  /\ UNCHANGED <<mainVars, requested, al, blockLRW, ctl, idxstack, buf, pos,
                 idx, valid, wkc, drive, losses>>

(* The slave becomes operational when it gets process data. *)
SlaveStarts ==
  /\ requested /\ al = "safe op" /\ Exchanging
  /\ al' = "op"
  /\ UNCHANGED <<mainVars, rpc, dorun, requested, blockLRW, ctl, idxstack,
                 buf, localVars, wkc, cycles, drive, losses>>

Redtest ==
  \/ Configure \/ Request \/ Activate \/ Operational \/ NotOperational \/ Give
  \/ Receive \/ Received \/ Slept \/ Stop \/ Close \/ (mpc # "end" /\ Exchange("main"))
Ecatthread ==
  Begin \/ Wake \/ Cycle \/ (rpc # "end" /\ Exchange("ecatthread"))

Next == Redtest \/ Ecatthread \/ SlaveStarts \/ Ended

Spec == Init /\ [][Next]_vars

-----------------------------------------------------------------------------
TypeOK ==
  /\ buf \in [Idx -> [stat : {"empty", "alloc", "tx", "lost", "complete"},
                      ctl : {0, 6, 7, 15}]]
  /\ idxstack \in [idx : [Idx -> Idx \cup {NoIdx}], pushed : 0..NBuf,
                   pulled : 0..NBuf]
  /\ pos \in [Thread -> 0..NBuf] /\ idx \in [Thread -> Idx \cup {NoIdx}]
  /\ valid \in [Thread -> {"none", "lost", "some"}]
  /\ wkc \in {"none", "lost", "some"} /\ dorun \in {0, 1} /\ ctl \in {0, 6, 7, 15}
  /\ cycles \in 0..MaxCycle /\ given \in 0..Len(Command) /\ losses \in 0..MaxLoss



(* With LRD and LWR the drive follows all three commands, though each      *)
(* thread may send an older control word after a newer one.  With LRW it   *)
(* may not: the answer to the older one is copied over the newer one.      *)
Enabled ==
  mpc = "loop" /\ cycles = MaxCycle /\ blockLRW /\ losses = 0 => drive = "enabled"

-----------------------------------------------------------------------------
(* For the view of a run: indices are known by where they stand.  These    *)
(* are the entries of idxstack that can still be read.                     *)
Live(n) ==
  \/ n < idxstack.pushed
  \/ \E t \in Thread : \/ at[t] = "pushed" /\ n <= pos[t]
                       \/ at[t] \in {"pulled", "take"} /\ n = pos[t]
Refs == [n \in 0..(NBuf + 1) |->
          IF n = NBuf THEN idx["main"]
          ELSE IF n = NBuf + 1 THEN idx["ecatthread"]
          ELSE IF Live(n) THEN idxstack.idx[n] ELSE NoIdx]
FirstRef(n) ==
  CHOOSE m \in 0..n : Refs[m] = Refs[n] /\ \A k \in 0..(m - 1) : Refs[k] # Refs[n]
View ==
  <<mainVars, rpc, runVars, blockLRW, ctl, idxstack.pushed, idxstack.pulled,
    [n \in 0..(NBuf + 1) |->
       IF Refs[n] = NoIdx THEN <<>> ELSE <<FirstRef(n), buf[Refs[n]]>>],
    Cardinality(Free), at, pos, valid, wkc, cycles, drive, losses>>
===============================================================================
