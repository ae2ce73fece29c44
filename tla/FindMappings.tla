----------------------------- MODULE FindMappings -----------------------------
(***************************************************************************)
(* ecx_config_find_mappings of soem/ethercatconfig.c: how many bits each   *)
(* slave exchanges and in which sync managers, from its object dictionary  *)
(* (ecx_readPDOmap and ecx_readPDOmapCA of soem/ethercatcoe.c), its drive  *)
(* parameters (ecx_readIDNmap of soem/ethercatsoe.c), an earlier slave of  *)
(* its kind, or its SII; then the sync managers are programmed.            *)
(*                                                                         *)
(* A read of an object that fails is not repeated by this code: it leaves  *)
(* its part out.                                                           *)
(***************************************************************************)
EXTENDS ConfigInit, SequencesExt

CONSTANT MaxFail  \* bound: slaves that fail to deliver an object

ASSUME MapConstants == MaxFail \in Nat

VARIABLE failed   \* history: the slaves an object could not be read from

Sum(q) == FoldLeft(LAMBDA a, b : a + b, 0, q)
Bytes(bits) == (bits + 7) \div 8

-----------------------------------------------------------------------------
(* The type of sync manager n: what object 1C00 says, with the repair of a *)
(* firmware that counts the types from 0, told by type 2 for sync manager  *)
(* 2; the reading one by one also repairs a missing type.  A mutation      *)
(* repairs the first one only.                                             *)
TypeOf_First(t, n, shift, single) == IF shift /\ n = 2 THEN t + 1 ELSE t
TypeOf(t, n, shift, single) ==
  LET shifted == IF t > 0 /\ shift THEN t + 1 ELSE t
  IN IF single /\ shifted = 0 THEN n + 1 ELSE shifted

(* The bits assigned to sync manager n of slave s, as far as they can be   *)
(* read: object <<n, 0>> lists the PDOs, <<n, i>> describes the i-th.      *)
(* ecx_readPDOassign and its twin go on without what they cannot read.     *)
AssignedBits(s, n, lost) ==
  IF <<n, 0>> \in lost THEN 0
  ELSE Sum([i \in 1..Len(bus.pdos[s][n]) |->
              IF <<n, i>> \in lost THEN 0 ELSE bus.pdos[s][n][i]])

(* <<1, 0>> stands for the number of types, <<1, n>> for one of them.     *)
Objects(s) == {<<1, n>> : n \in {0, 2, 3}} \cup
              UNION {{n} \X (0..Len(bus.pdos[s][n])) : n \in 2..3}

(* ecx_readPDOmap, one by one or in complete access: the types and sync    *)
(* manager lengths it finds, and the bits of each direction.               *)
PdoMap(s, sl, single, lost) ==
  LET raw == KindOf(s).types
      found == <<1, 0>> \notin lost /\ Len(raw) > 2 /\ esc[s].al = "preop"
      told == {n \in 2..3 : found /\ n < Len(raw) /\ (single => <<1, n>> \notin lost)}
      shift == 2 \in told /\ raw[3] = 2
      type == [n \in 0..3 |-> IF n \in told THEN TypeOf(raw[n + 1], n, shift, single)
                              ELSE sl.SMtype[n]]
      size == [n \in 2..3 |-> IF n \in told /\ type[n] \in {3, 4}
                              THEN AssignedBits(s, n, lost) ELSE 0]
      Bits(t) == Sum([i \in 1..2 |-> IF type[i + 1] = t THEN size[i + 1] ELSE 0])
  IN [sl EXCEPT
        !.SMtype = type,
        !.sm = [n \in 0..3 |->
                  IF n >= 2 /\ size[n] > 0 THEN [sl.sm[n] EXCEPT !.len = Bytes(size[n])]
                  ELSE IF n \in told /\ type[n] = 0 THEN [sl.sm[n] EXCEPT !.on = FALSE]
                  ELSE sl.sm[n]],
        !.Obits = Bits(3), !.Ibits = Bits(4)]

(* ecx_readIDNmap: a drive that maps anything also maps its command and    *)
(* status words; a parameter of length code c has 8 * 2^c bits, a list     *)
(* counts nothing.                                                         *)
IdnBits(attributes) ==
  IF attributes = <<>> THEN 0
  ELSE 16 + Sum([i \in 1..Len(attributes) |->
                   IF attributes[i].list THEN 0 ELSE 8 * 2 ^ attributes[i].length])

SoeMap(s, sl) ==
  LET ok == esc[s].al = "preop"
      out == IF ok THEN Sum([d \in 1..Len(KindOf(s).mdt) |-> IdnBits(KindOf(s).mdt[d])]) ELSE 0
      in  == IF ok THEN Sum([d \in 1..Len(KindOf(s).at) |-> IdnBits(KindOf(s).at[d])]) ELSE 0
  IN [sl EXCEPT !.Obits = out, !.Ibits = in,
                !.sm[2].len = Bytes(out), !.sm[3].len = Bytes(in)]

NothingIn(sl) == sl.Obits = 0 /\ sl.Ibits = 0

(* An attempt to read the objects: at most one of them gets lost, of at    *)
(* most MaxFail slaves.                                                    *)
Attempt(tried, single) ==
  IF ~tried THEN UNCHANGED <<slavelist, failed>>
  ELSE \E lost \in {{}} \cup {{o} : o \in Objects(slave)} :
         /\ lost # {} => Cardinality(failed \cup {slave}) <= MaxFail
         /\ slavelist' = [slavelist EXCEPT ![slave] = PdoMap(slave, @, single, lost)]
         /\ failed' = failed \cup {x \in {slave} : lost # {}}

(* ecx_map_coe_soe: complete access first where the slave has it; what     *)
(* finds nothing is followed by the reading one by one, and that by the    *)
(* parameters of a drive.                                                  *)
HasCoe(sl) == "coe" \in sl.proto

MapCA ==
  /\ stage = "coe"
  /\ Attempt(HasCoe(slavelist[slave]) /\ slavelist[slave].ca, FALSE)
  /\ stage' = "pdo"
  /\ UNCHANGED <<bus, esc, slavecount, slave>>

MapPDOs ==
  /\ stage = "pdo"
  /\ Attempt(HasCoe(slavelist[slave]) /\ NothingIn(slavelist[slave]), TRUE)
  /\ stage' = "soe"
  /\ UNCHANGED <<bus, esc, slavecount, slave>>

MapIDNs ==
  /\ stage = "soe"
  /\ slavelist' = IF "soe" \in slavelist[slave].proto /\ NothingIn(slavelist[slave])
                  THEN [slavelist EXCEPT ![slave] = SoeMap(slave, @)] ELSE slavelist
  /\ ForEach("hook", "map")
  /\ UNCHANGED <<bus, esc, slavecount, failed>>

-----------------------------------------------------------------------------
(* ecx_lookup_mapping: what was found for an earlier slave of the identity *)
CopyMapping(s, sl) ==
  IF SameBefore(s) = {} THEN sl
  ELSE LET i == Min(SameBefore(s)) IN
       [sl EXCEPT !.sm = [n \in 0..3 |-> [sl.sm[n] EXCEPT !.len = slavelist[i].sm[n].len]],
                  !.SMtype = slavelist[i].SMtype,
                  !.Obits = slavelist[i].Obits, !.Ibits = slavelist[i].Ibits]

(* The mapping in the SII: bits of the sync managers 2 and 3, the inputs   *)
(* first.                                                                  *)
OutType == 3

SiiMap(s, sl) ==
  LET k == KindOf(s)
      set(l, bits, t) ==
        [l EXCEPT !.sm = [n \in 0..3 |-> IF n \in 2..3 /\ bits[n] > 0
                           THEN [l.sm[n] EXCEPT !.len = Bytes(bits[n])] ELSE l.sm[n]],
                  !.SMtype = [n \in 0..3 |-> IF n \in 2..3 /\ bits[n] > 0
                               THEN t ELSE l.SMtype[n]]]
      both == set(set(sl, k.siiIn, 4), k.siiOut, OutType)
  IN [both EXCEPT !.Ibits = k.siiIn[2] + k.siiIn[3],
                  !.Obits = k.siiOut[2] + k.siiOut[3]]

(* ecx_map_sii *)
MapSii(s, sl) ==
  LET copied == IF NothingIn(sl) THEN CopyMapping(s, sl) ELSE sl
  IN IF NothingIn(copied) THEN SiiMap(s, copied) ELSE copied

(* ecx_map_sm: a sync manager for process data is on if it has a length.   *)
SwitchSms(sl) ==
  [n \in 0..3 |-> IF n >= 2 /\ sl.sm[n].start # 0
                  THEN [sl.sm[n] EXCEPT !.on = sl.sm[n].len # 0] ELSE sl.sm[n]]

Programs(sl, n) == sl.sm[n].start # 0 /\ (n >= 2 \/ sl.l = 0)

MapSlave ==
  /\ stage = "map"
  /\ LET mapped == MapSii(slave, slavelist[slave])
         sl == [mapped EXCEPT !.sm = SwitchSms(mapped)]
     IN /\ slavelist' = [slavelist EXCEPT ![slave] = sl]
        /\ esc' = [esc EXCEPT ![slave].sm =
             [n \in 0..3 |-> IF Programs(sl, n) THEN sl.sm[n] ELSE esc[slave].sm[n]]]
  /\ ForEach("map", "latch")
  /\ UNCHANGED <<bus, slavecount, failed>>

FindMappingsStep == MapCA \/ MapPDOs \/ MapIDNs \/ MapSlave
===============================================================================
