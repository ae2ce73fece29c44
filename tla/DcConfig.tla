------------------------------- MODULE DcConfig -------------------------------
(***************************************************************************)
(* Distributed clocks, soem/ethercatdc.c: ecx_configdc has every slave     *)
(* note when a frame arrives at its ports, chains the slaves with clocks   *)
(* and works out how long a frame takes from the first of them to each     *)
(* other; ecx_dcsync0 and ecx_dcsync01 set when a slave gives its first    *)
(* sync pulse.                                                             *)
(*                                                                         *)
(* Frames are not lost here.                                               *)
(***************************************************************************)
EXTENDS ConfigInit

CONSTANTS
  SyncDelay,  \* the earliest the first pulse comes after now
  Cycles, Shifts,  \* CyclTime, CyclShift
  MaxSync     \* bound: calls of ecx_dcsync0 and ecx_dcsync01

ASSUME DcConstants ==
  MaxSync \in Nat /\ SyncDelay \in Nat /\ Cycles \subseteq Nat /\ Shifts \subseteq Int

VARIABLES prevDCslave, parenthold,  \* locals of ecx_configdc
          syncs                     \* history: the pulses set

dcVars == <<prevDCslave, parenthold, syncs>>

DcStart == prevDCslave = 0 /\ parenthold = 0 /\ syncs = {}

(* All slaves latch the time the frame arrives at their ports. *)
Latch ==
  /\ stage = "latch"
  /\ esc' = [s \in DOMAIN esc |->
               [esc[s] EXCEPT !.stamp = [p \in 0..3 |-> Stamp(bus, s, p)]]]
  /\ slavelist' = [slavelist EXCEPT ![0].hasdc = FALSE]
  /\ stage' = IF slavecount > 0 THEN "dc" ELSE "sync"
  /\ slave' = 1
  /\ UNCHANGED <<bus, slavecount, dcVars>>

-----------------------------------------------------------------------------
(* ecx_prevport: the open port the frame came from before port p.  A       *)
(* mutation goes by the number of the port.                                *)
PrevPort_ByNumber(ports, p) ==
  LET q == {x \in ports : x < p} IN IF q = {} THEN Max(ports) ELSE Max(q)
PrevPort(ports, p) ==
  LET back(k) == Order[((Rank(p) - 1 - k) % 4) + 1]
      steps == {k \in 1..3 : back(k) \in ports}
  IN IF steps = {} THEN p ELSE back(Min(steps))

(* ecx_parentport: the first open port nobody hangs on yet, in the order   *)
(* 3, 1, 2, 0.                                                             *)
FreePort(free) ==
  IF free = {} THEN 0
  ELSE <<3, 1, 2, 0>>[Min({i \in 1..4 : <<3, 1, 2, 0>>[i] \in free})]

(* The port of slave s with the lowest time, the first one of those. *)
EntryPort(ports, rt) ==
  LET first(p) == \A q \in ports \ {p} :
                    rt[p] < rt[q] \/ (rt[p] = rt[q] /\ Rank(p) < Rank(q))
  IN CHOOSE p \in ports : first(p)

Half2(t) == IF t >= 0 THEN t \div 2 ELSE -((-t) \div 2)

(* The delay of slave s from its times and those of the slave before it on *)
(* the way that has a clock.  The frame's trip behind the port s hangs on  *)
(* (dt3), less the trip behind s (dt1), is the wire there and back; what   *)
(* the frame passed before (dt2) is added.                                 *)
Delay(sl, par, first) ==
  LET before == PrevPort(par.ports, sl.pport)
      dt3 == Wrap(par.rt[sl.pport] - par.rt[before])
      trip == IF sl.topology > 1
              THEN Wrap(sl.rt[PrevPort(sl.ports, sl.entry)] - sl.rt[sl.entry]) ELSE 0
      dt1 == IF trip > dt3 THEN -trip ELSE trip
      way == IF first THEN 0 ELSE Wrap(par.rt[before] - par.rt[par.entry])
      dt2 == IF way < 0 THEN -way ELSE way
  IN Half2(dt3 - dt1) + dt2 + par.pdelay

(* The first slave with a clock on the way up, or 0, and the slave below   *)
(* it on that way.                                                         *)
Up(s) ==
  LET up[x \in 0..s] ==
        LET p == slavelist[x].parent
        IN IF p = 0 \/ slavelist[p].hasdc THEN [parent |-> p, child |-> x]
           ELSE up[p]
  IN up[s]

(* A slave with clocks. *)
DcSlave ==
  /\ stage = "dc" /\ slavelist[slave].hasdc
  /\ LET rt == esc[slave].stamp
         ports == slavelist[slave].ports
         entry == EntryPort(ports, rt)
         sl == [slavelist[slave] EXCEPT !.rt = rt, !.entry = entry,
                                        !.consumed = ports \ {entry}]
         up == Up(slave)
         par == slavelist[up.parent]
         free == FreePort(par.consumed)
         pport == IF par.topology = 1 THEN par.entry ELSE free
         first == up.child - up.parent <= 1
         pdelay == Delay([sl EXCEPT !.pport = pport], par, first)
         chain == IF slavelist[0].hasdc
                  THEN [slavelist EXCEPT ![prevDCslave].DCnext = slave]
                  ELSE [slavelist EXCEPT ![0].hasdc = TRUE, ![0].DCnext = slave]
         prev == IF slavelist[0].hasdc THEN prevDCslave ELSE 0
         me == [sl EXCEPT !.DCprevious = prev]
     IN IF up.parent = 0
        THEN /\ slavelist' = [chain EXCEPT ![slave] = me]
             /\ UNCHANGED esc
        ELSE /\ slavelist' = [chain EXCEPT
                   ![up.parent].consumed = par.consumed \ {free},
                   ![slave] = [me EXCEPT !.pport = pport, !.pdelay = pdelay]]
             /\ esc' = [esc EXCEPT ![slave].delay = pdelay]
  /\ prevDCslave' = slave /\ parenthold' = 0
  /\ ForEach("dc", "sync")
  /\ UNCHANGED <<bus, slavecount, syncs>>

(* A slave without: a branch of the slave it hangs on that has none at all *)
(* uses up its port.                                                       *)
Held(s) ==
  LET p == slavelist[s].parent
  IN IF p > 0 /\ slavelist[p].topology > 2 THEN p ELSE parenthold

PlainSlave ==
  /\ stage = "dc" /\ ~slavelist[slave].hasdc
  /\ LET held == Held(slave)
         ends == held # 0 /\ slavelist[slave].topology = 1
         me == [slavelist EXCEPT ![slave].consumed = slavelist[slave].ports,
                                 ![slave].rt = [p \in 0..3 |-> 0]]
         free == FreePort(me[held].consumed)
     IN /\ slavelist' = IF ends THEN [me EXCEPT ![held].consumed = @ \ {free}]
                                ELSE me
        /\ parenthold' = IF ends THEN 0 ELSE held
  /\ ForEach("dc", "sync")
  /\ UNCHANGED <<bus, esc, slavecount, prevDCslave, syncs>>

-----------------------------------------------------------------------------
(* ecx_dcsync01's true cycle: SYNC1 comes a multiple of SYNC0 later.  A    *)
(* mutation takes the cycle of SYNC0.                                      *)
TrueCycle_Sync0(c0, c1) == c0
TrueCycle(c0, c1) == ((c1 \div c0) + 1) * c0

StartTime(now, cycle, shift) ==
  IF cycle > 0 THEN ((now + SyncDelay) \div cycle) * cycle + cycle + shift
               ELSE now + SyncDelay + shift

(* The pulses of slave s start, or stop, at a time worked out from what    *)
(* its clock shows now (b.times: when the calls may come).                 *)
Sync(s, act, cycles, cycle) ==
  /\ stage = "sync" /\ Cardinality(syncs) < MaxSync /\ slavelist[s].hasdc
  /\ \E now \in bus.times, shift \in Shifts :
       LET start == StartTime(now, cycle, shift) IN
       /\ syncs' = syncs \cup {[slave |-> s, at |-> now, shift |-> shift,
                                cycles |-> cycles, start |-> start]}
       /\ esc' = [esc EXCEPT ![s].sync = start, ![s].act = act]
  /\ slavelist' =
       [slavelist EXCEPT ![s].DCactive = act, ![s].DCcycle = cycles[1]]
  /\ UNCHANGED <<bus, slavecount, stage, slave, prevDCslave, parenthold>>

Dcsync0 ==
  \E s \in Slaves(bus), act \in BOOLEAN, c \in Cycles : Sync(s, act, <<c>>, c)

(* A cycle of 0 is divided by. *)
Dcsync01 ==
  \E s \in Slaves(bus), act \in BOOLEAN, c0 \in Cycles \ {0}, c1 \in Cycles :
    Sync(s, act, <<c0, c1>>, TrueCycle(c0, c1))

DcStep == Latch \/ DcSlave \/ PlainSlave \/ Dcsync0 \/ Dcsync01
===============================================================================
