------------------------------ MODULE ConfigInit ------------------------------
(***************************************************************************)
(* ecx_config_init of soem/ethercatconfig.c: the slaves are counted and    *)
(* reset, get their addresses, are asked for the words of their EEPROMs    *)
(* one word of all slaves after the other, are placed in the tree, get     *)
(* their mailboxes and are sent to PRE_OP.                                 *)
(*                                                                         *)
(* A step is what the code does for one slave in one of its loops.  Frames *)
(* are not lost here: a call that needs one has repeated it.               *)
(***************************************************************************)
EXTENDS Segment, Sequences

CONSTANT EC_MAXSLAVE  \* slaves the list holds, the master included

ASSUME ConfigConstants ==
  /\ EC_MAXSLAVE \in Nat
  /\ \A k \in DOMAIN Kind : Kind[k].ids \in [1..3 -> Nat] /\ Kind[k].l \in Nat

VARIABLES
  bus,        \* the segment
  esc,        \* esc[s]: registers of slave s
  slavelist,  \* ec_slavet: what the master knows of slave s
  slavecount,
  stage, slave  \* the loop config is in, the slave it is at

configVars == <<bus, esc, slavelist, slavecount, stage, slave>>

NoSm  == [start |-> 0, len |-> 0, on |-> FALSE]
KindOf(s) == Kind[bus.kind[s]]

(* What power-up or an earlier master may have left in a slave. *)
LeftBehind == [adr |-> 7, al |-> "op", eeprom |-> "pdi", chip |-> 0,
               sm |-> [n \in 0..3 |-> [start |-> 9, len |-> 9, on |-> TRUE]],
               stamp |-> [p \in 0..3 |-> 0], delay |-> 7, sync |-> 7, act |-> TRUE]

(* memset of the list. *)
Cleared == [configadr |-> 0, ids |-> <<0, 0, 0>>, wo |-> 0, l |-> 0, ro |-> 0,
            rl |-> 0, proto |-> {}, hasdc |-> FALSE, ports |-> {},
            topology |-> 0, parent |-> 0, eep_pdi |-> 0, ca |-> FALSE,
            sm |-> [n \in 0..3 |-> NoSm], SMtype |-> [n \in 0..3 |-> 0],
            Obits |-> 0, Ibits |-> 0, rt |-> [p \in 0..3 |-> 0],
            consumed |-> {}, entry |-> 0, pport |-> 0, pdelay |-> 0,
            DCnext |-> 0, DCprevious |-> 0, DCactive |-> FALSE, DCcycle |-> 0]

ConfigStart ==
  /\ bus \in Buses
  /\ esc = [s \in Slaves(bus) |-> LeftBehind]
  /\ slavelist = [s \in 0..bus.n |-> Cleared]
  /\ slavecount = 0
  /\ stage = "detect" /\ slave = 1

-----------------------------------------------------------------------------
(* The next slave of loop "here", or the first one of loop "there". *)
ForEach(here, there) ==
  IF slave < slavecount THEN stage' = here /\ slave' = slave + 1
                        ELSE stage' = there /\ slave' = 1

(* ecx_init_context, ecx_detect_slaves, ecx_set_slaves_to_default: all     *)
(* slaves are addressed at once.                                           *)
Detect ==
  /\ stage = "detect"
  /\ IF bus.n < EC_MAXSLAVE
     THEN /\ slavecount' = bus.n
          /\ esc' = [s \in Slaves(bus) |->
               [esc[s] EXCEPT !.al = "init", !.eeprom = "master",
                              !.sm = [n \in 0..3 |-> NoSm], !.act = FALSE]]
          /\ stage' = "address"
     ELSE /\ stage' = "too many"
          /\ UNCHANGED <<slavecount, esc>>
  /\ slave' = 1
  /\ slavelist' = [s \in DOMAIN slavelist |-> Cleared]
  /\ UNCHANGED bus

(* Addresses are written and read back by position.                        *)
EC_NODEOFFSET == 1000
NewAddress(s) == s + EC_NODEOFFSET

(* The slave is asked for the first word. *)
SetAddress ==
  /\ stage = "address"
  /\ esc' = [esc EXCEPT ![slave].adr = NewAddress(slave),
                        ![slave].chip = KindOf(slave).ids[1]]
  /\ slavelist' = [slavelist EXCEPT ![slave].configadr = NewAddress(slave)]
  /\ ForEach("address", "man")
  /\ UNCHANGED <<bus, slavecount>>

(* The loops over the identity: fetch one word, ask for the next.          *)
WordFor(k, w) ==
  CASE w = "id"    -> k.ids[2]
    [] w = "rev"   -> k.ids[3]
    [] w = "rxmbx" -> <<k.wo, k.l>>
    [] w = "txmbx" -> <<k.ro, k.rl>>
    [] w = "proto" -> k.proto

FetchAndAsk(loop, field, next) ==
  /\ stage = loop
  /\ slavelist' = [slavelist EXCEPT ![slave].ids[field] = esc[slave].chip]
  /\ esc' = [esc EXCEPT ![slave].chip = WordFor(KindOf(slave), next)]
  /\ UNCHANGED <<bus, slavecount>>

FetchMan == FetchAndAsk("man", 1, "id")    /\ ForEach("man", "id")
FetchId  == FetchAndAsk("id", 2, "rev")    /\ ForEach("id", "rev")
FetchRev == FetchAndAsk("rev", 3, "rxmbx") /\ ForEach("rev", "mbx")

(* A slave without a mailbox is not asked for more.                        *)
FetchMbx ==
  /\ stage = "mbx"
  /\ LET m == esc[slave].chip IN
     /\ slavelist' = [slavelist EXCEPT ![slave].wo = m[1], ![slave].l = m[2]]
     /\ esc' = IF m[2] > 0
               THEN [esc EXCEPT ![slave].chip = WordFor(KindOf(slave), "txmbx")] ELSE esc
  /\ ForEach("mbx", "place")
  /\ UNCHANGED <<bus, slavecount>>

-----------------------------------------------------------------------------
(* The search for the slave before s: back over the slaves before it, with *)
(* a count of the open ends (topoc); s hangs on the first one that has a   *)
(* port to spare.  A mutation counts a cross as a split.                   *)
Spare_Split(t) == IF t = 1 THEN -1 ELSE IF t >= 3 THEN 1 ELSE 0
Spare(t) == CASE t = 1 -> -1 [] t = 3 -> 1 [] t = 4 -> 2 [] OTHER -> 0

(* The count once slave v has been looked at. *)
OpenEnds(s, topology) ==
  LET topoc[v \in 1..s] == IF v >= s THEN 0 ELSE topoc[v + 1] + Spare(topology[v])
  IN topoc

ParentOf(s, topology) ==
  LET topoc == OpenEnds(s, topology)
      found == {v \in 1..(s - 1) : (topoc[v] >= 0 /\ topology[v] > 1) \/ v = 1}
  IN IF s = 1 THEN 0 ELSE Max(found)

(* A slave enters the tree: its mailbox towards the master, its clocks,    *)
(* its open ports and the slave before it.                                 *)
PlaceSlave ==
  /\ stage = "place"
  /\ LET k == KindOf(slave)
         m == esc[slave].chip
         mbx == slavelist[slave].l > 0
         ports == OpenPorts(bus, slave)
         topology == [v \in Slaves(bus) |-> slavelist[v].topology]
     IN /\ slavelist' = [slavelist EXCEPT ![slave] =
             [@ EXCEPT !.ro = IF mbx THEN m[1] ELSE 0,
                       !.rl = IF ~mbx THEN 0 ELSE IF m[2] = 0 THEN slavelist[slave].l
                                                          ELSE m[2],
                       !.hasdc = slave \in bus.dc,
                       !.ports = ports, !.topology = Cardinality(ports),
                       !.parent = ParentOf(slave, topology)]]
        /\ esc' = IF mbx THEN [esc EXCEPT ![slave].chip = WordFor(k, "proto")] ELSE esc
  /\ stage' = "sii"
  /\ UNCHANGED <<bus, slavecount, slave>>

(* ecx_lookup_prev_sii: an earlier slave with the same identity. *)
SameBefore(s) ==
  {i \in 1..(s - 1) : slavelist[i].ids = slavelist[s].ids}

(* The mailbox words make the mailboxes; then the sync managers are copied *)
(* from the earlier slave, or taken from the SII, which describes those it *)
(* has.                                                                    *)
MailboxSms(sl) ==
  [n \in 0..3 |-> CASE n = 0 -> [start |-> sl.wo, len |-> sl.l, on |-> TRUE]
                    [] n = 1 -> [start |-> sl.ro, len |-> sl.rl, on |-> TRUE]
                    [] OTHER -> sl.sm[n]]

ReadSii ==
  /\ stage = "sii"
  /\ LET k == KindOf(slave)
         sl == slavelist[slave]
         mbx == sl.l > 0
         default == IF mbx THEN MailboxSms(sl) ELSE sl.sm
         from == SameBefore(slave)
         sms == IF from # {} THEN slavelist[Min(from)].sm
                ELSE [n \in 0..3 |-> IF n < Len(k.sms) THEN k.sms[n + 1] ELSE default[n]]
     IN slavelist' = [slavelist EXCEPT ![slave] =
          [@ EXCEPT !.sm = sms,
                    !.SMtype = IF mbx THEN [n \in 0..3 |-> n + 1] ELSE @,
                    !.proto = IF mbx THEN esc[slave].chip ELSE {},
                    !.ca = IF from # {} THEN slavelist[Min(from)].ca ELSE k.ca]]
  /\ stage' = "preop"
  /\ UNCHANGED <<bus, esc, slavecount, slave>>

(* The slave goes to PRE_OP when its mailboxes are where its firmware has  *)
(* them and it can read its EEPROM; one that is out of order refuses.      *)
Accepts(s, sm, eeprom) ==
  LET k == KindOf(s) IN
  /\ s \notin bus.odd
  /\ eeprom = "pdi"
  /\ k.l > 0 =>
       /\ sm[0] = [start |-> k.wo, len |-> k.l, on |-> TRUE]
       /\ sm[1] = [start |-> k.ro, len |-> IF k.rl = 0 THEN k.l ELSE k.rl, on |-> TRUE]

(* Mailboxes the SII does not place get a default; they are programmed,    *)
(* the EEPROM goes to the slave, and then it is asked for PRE_OP.  A       *)
(* mutation leaves the EEPROM with the master.                             *)
EepromIn_Kept(s) == esc[s].eeprom
EepromIn(s) == "pdi"

RequestPreop ==
  /\ stage = "preop"
  /\ LET sl == slavelist[slave]
         sm == [n \in 0..3 |->
                  IF sl.l > 0 /\ n < 2 /\ sl.sm[n].start = 0
                  THEN [start |-> 4096 + 128 * n, len |-> 128, on |-> TRUE]
                  ELSE sl.sm[n]]
         smIn == [n \in 0..3 |-> IF sl.l > 0 /\ n < 2 THEN sm[n] ELSE esc[slave].sm[n]]
     IN /\ slavelist' = [slavelist EXCEPT ![slave].sm = sm, ![slave].eep_pdi = 1]
        /\ esc' = [esc EXCEPT ![slave].sm = smIn, ![slave].eeprom = EepromIn(slave),
                 ![slave].al =
                   IF Accepts(slave, smIn, EepromIn(slave)) THEN "preop" ELSE "init"]
  /\ ForEach("place", "hook")
  /\ UNCHANGED <<bus, slavecount>>

ConfigInitStep ==
  \/ Detect \/ SetAddress \/ FetchMan \/ FetchId \/ FetchRev \/ FetchMbx
  \/ PlaceSlave \/ ReadSii \/ RequestPreop
===============================================================================
