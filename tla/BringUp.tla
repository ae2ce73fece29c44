-------------------------------- MODULE BringUp --------------------------------
(***************************************************************************)
(* The bring-up of a segment, as simpletest and the other programs do it:  *)
(* ecx_config_init, the search for the mappings at the head of             *)
(* ecx_config_map with the hook that sets up a drive, ecx_configdc, and    *)
(* the sync pulses.  ConfigInit, DriveSetup, FindMappings and DcConfig are *)
(* its parts; what the master believes at the end is compared with the     *)
(* segment it looked at.                                                   *)
(***************************************************************************)
EXTENDS FindMappings, DriveSetup, DcConfig

bringUpVars == <<configVars, failed, driveVars, dcVars>>

BringUpInit == ConfigStart /\ failed = {} /\ DriveStart /\ DcStart

BringUpNext ==
  \/ ConfigInitStep /\ UNCHANGED <<failed, driveVars, dcVars>>
  \/ RunHook /\ UNCHANGED <<failed, dcVars>>
  \/ FindMappingsStep /\ UNCHANGED <<driveVars, dcVars>>
  \/ DcStep /\ UNCHANGED <<failed, driveVars>>

BringUpSpec == BringUpInit /\ [][BringUpNext]_bringUpVars

-----------------------------------------------------------------------------
(* Properties *)

Known == {s \in 1..slavecount : slavelist[s].eep_pdi = 1}
Done == stage = "sync"

(* The list is the segment: a slave that was configured answers to the     *)
(* address the list has for it and to no other slave's, and has the        *)
(* identity the list has; in the end all are configured (config_init's     *)
(* interleaved EEPROM loops).                                              *)
Listed ==
  /\ Done => Known = Slaves(bus)
  /\ \A s \in Known :
       /\ {t \in 1..slavecount : esc[t].adr = slavelist[s].configadr} = {s}
       /\ slavelist[s].ids = KindOf(s).ids

(* It also hangs on the slave the list has before it (the search for the   *)
(* parent).                                                                *)
ListIsSegment ==
  Listed /\ \A s \in Known : slavelist[s].parent = bus.parent[s]

(* What PRE_OP depends on: the SII of every slave tells where its firmware *)
(* has the mailboxes, or leaves it open where the default of               *)
(* ecx_config_init is right, and slaves with the same identity have the    *)
(* same mailboxes.                                                         *)
Firmware(k, n) ==
  IF n = 0 THEN [start |-> k.wo, len |-> k.l, on |-> TRUE]
           ELSE [start |-> k.ro, len |-> IF k.rl = 0 THEN k.l ELSE k.rl, on |-> TRUE]
WithDefault(m, n) ==
  IF m.start = 0 THEN [start |-> 4096 + 128 * n, len |-> 128, on |-> TRUE] ELSE m

SiiIsTrue ==
  /\ \A k \in DOMAIN Kind : Kind[k].l > 0 => \A n \in 0..1 :
       WithDefault(IF n < Len(Kind[k].sms) THEN Kind[k].sms[n + 1]
                   ELSE Firmware(Kind[k], n), n) = Firmware(Kind[k], n)
  /\ \A j \in DOMAIN Kind, k \in DOMAIN Kind : Kind[j].ids = Kind[k].ids =>
       /\ Kind[j].l = Kind[k].l
       /\ \A n \in 0..1 : Firmware(Kind[j], n) = Firmware(Kind[k], n)

(* Whoever can go to PRE_OP is there once config_init is over: its         *)
(* mailboxes were where its firmware has them, and it had its EEPROM, at   *)
(* the moment it was asked; this also when they were copied from an        *)
(* earlier slave.                                                          *)
ReachesPreop ==
  stage \in {"hook", "coe", "pdo", "soe", "map", "latch", "dc", "sync"} =>
    \A s \in Slaves(bus) : s \notin bus.odd => esc[s].al = "preop"

(* The bits slave s exchanges, by its own description. *)
OwnBits(s, n) ==
  LET k == KindOf(s)
      own == IF n = 2 THEN Sum([d \in 1..Len(k.mdt) |-> IdnBits(k.mdt[d])])
                      ELSE Sum([d \in 1..Len(k.at) |-> IdnBits(k.at[d])])
  IN IF "coe" \in k.proto /\ Len(k.types) > 3 THEN AssignedBits(s, n, {})
     ELSE IF "soe" \in k.proto THEN own
     ELSE IF n = 2 THEN k.siiOut[2] + k.siiOut[3] ELSE k.siiIn[2] + k.siiIn[3]

(* A slave maps nothing by its own description. *)
Empty(s) == OwnBits(s, 2) = 0 /\ OwnBits(s, 3) = 0

(* A drive with its whole set-up, as simpletest sees it. *)
LaidOutForApp ==
  \A s \in whole :
    /\ \A place \in OutputOffsets : LiesAt(Mapped(od[s], "1C12"), place)
    /\ \A place \in InputOffsets \ {<<"torque", 11>>} : LiesAt(Mapped(od[s], "1C13"), place)

(* The master maps what the slave maps: the bits of both directions are    *)
(* those of the slave's own description, and the sync managers it has are  *)
(* programmed for exactly as many bytes, in that direction; for slaves     *)
(* that delivered their objects and do map something, and sync managers    *)
(* that something is mapped to.  This also holds for a drive that got only *)
(* a part of its set-up; one that got all of it has its objects where the  *)
(* application looks for them, but for the torque it does not map          *)
(* (find_mappings, map_coe_soe with its hook, map_sii, map_sm).            *)
MapsWhatSlaveMaps ==
  /\ LaidOutForApp
  /\ Done => \A s \in Slaves(bus) \ (failed \cup bus.odd) :
    ~Empty(s) =>
      /\ slavelist[s].Obits = OwnBits(s, 2)
      /\ slavelist[s].Ibits = OwnBits(s, 3)
      /\ \A n \in 2..3 : esc[s].sm[n].start # 0 =>
           /\ esc[s].sm[n].on = (esc[s].sm[n].len > 0)
           /\ OwnBits(s, n) > 0 => /\ esc[s].sm[n].len = Bytes(OwnBits(s, n))
                                   /\ slavelist[s].SMtype[n] = n + 1

(* Clocks are chained in the order of the bus, none left out               *)
(* (ecx_configdc).                                                         *)
DcBefore(s) == {t \in bus.dc : t < s}
Chained ==
  Done => \A s \in bus.dc :
    /\ slavelist[s].DCprevious = Max({0} \cup DcBefore(s))
    /\ slavelist[slavelist[s].DCprevious].DCnext = s

(* The delays can be measured: no fork without a clock, and no clock that  *)
(* turns over while the times are latched.                                 *)
Measurable ==
  /\ \A s \in Slaves(bus) \ bus.dc : Cardinality(OpenPorts(bus, s)) <= 2
  /\ \A s \in bus.dc : NoTurn(bus, s)

(* And the delay of each clock is the time a frame takes to it from the    *)
(* first one, where that can be measured (ecx_configdc).                   *)
ClocksRight ==
  /\ Chained
  /\ Done /\ Measurable => \A s \in bus.dc :
         slavelist[s].pdelay = Arrival(bus)[s] - Arrival(bus)[Min(bus.dc)]

(* Pulses fall together: the first pulse of a slave comes later than       *)
(* SyncDelay after the time it was worked out at, no later than a cycle    *)
(* after that, and two slaves given the same cycles, at whatever times,    *)
(* are whole repetitions of all their pulses apart, but for their shifts   *)
(* (ecx_dcsync0, ecx_dcsync01).                                            *)
Repeats(cycles) ==
  IF Len(cycles) = 1 THEN cycles[1]
  ELSE cycles[1] * ((cycles[2] \div cycles[1]) + 1)

PulsesTogether ==
  \A a \in syncs, b \in syncs :
    /\ a.cycles[1] > 0 =>
         LET after == a.start - a.shift - a.at - SyncDelay
         IN 0 < after /\ after <= Repeats(a.cycles)
    /\ a.cycles = b.cycles /\ a.cycles[1] > 0 =>
         ((a.start - a.shift) - (b.start - b.shift)) % Repeats(a.cycles) = 0
===============================================================================
