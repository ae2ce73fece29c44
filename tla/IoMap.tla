-------------------------------- MODULE IoMap --------------------------------
(***************************************************************************)
(* ecx_config_map_group: the process data of the slaves of a group are laid *)
(* out in the logical address space, first all outputs, then all inputs, an *)
(* FMMU of the slave for each piece, and the whole is cut into segments     *)
(* that fit in a datagram.  Logical addresses count from logstartaddr and   *)
(* are offsets in the application's IOmap as well.                          *)
(* ecx_config_overlap_map_group is the other way: the inputs of a slave get *)
(* the logical addresses of its outputs, and follow all outputs only in the *)
(* IOmap.                                                                  *)
(*                                                                         *)
(* The process data of one direction of a slave have a shape: their number *)
(* of bits, and the lengths in bytes of the runs of adjoining sync managers *)
(* that hold them.  A shape of up to seven bits is packed bitwise.          *)
(***************************************************************************)
EXTENDS Integers, Sequences, FiniteSets

CONSTANTS
  NSlave,    \* *(context->slavecount)
  OutShape,  \* shapes of the outputs of a slave
  InShape,   \* shapes of its inputs
  MAXLRW,    \* EC_MAXLRWDATA - EC_FIRSTDCDATAGRAM
  MAXSEG     \* EC_MAXIOSEGMENTS

Slave == 1..NSlave
Shape == [bits : Nat, runs : Seq(Nat \ {0})]

ASSUME NSlaveAssumption == NSlave \in Nat \ {0}
ASSUME ShapeAssumption == OutShape \cup InShape \subseteq Shape
ASSUME SegmentAssumption == MAXLRW \in Nat \ {0} /\ MAXSEG \in Nat \ {0}

(* Obytes or Ibytes of the slave: 0 if it is packed bitwise.               *)
Bytes(sh) == IF sh.bits > 7 THEN (sh.bits + 7) \div 8 ELSE 0

VARIABLES
  shape,      \* the slaves as they were found: [out, in]
  overlap,    \* the group is mapped by ecx_config_overlap_map_group
  step,       \* "out", "in": the direction being mapped, or "both"; "mapped"
  slave,      \* the loop variable
  LogAddr, BitPos,
  IOsegment, currentsegment, segmentsize,
  Obytes, Ibytes, Isegment, Ioffset,  \* of the group
  fmmu        \* the FMMUs: slave, direction, run, first and last logical bit

mapvars == <<shape, overlap, step, slave, LogAddr, BitPos, IOsegment, currentsegment,
             segmentsize, Obytes, Ibytes, Isegment, Ioffset, fmmu>>

MapInit ==
  /\ shape \in [Slave -> [out : OutShape, in : InShape]]
  /\ overlap \in BOOLEAN
  /\ step = (IF overlap THEN "both" ELSE "out") /\ slave = 1
  /\ LogAddr = 0 /\ BitPos = 0
  /\ IOsegment = [k \in 0..(MAXSEG - 1) |-> 0]
  /\ currentsegment = 0 /\ segmentsize = 0
  /\ Obytes = 0 /\ Ibytes = 0 /\ Isegment = 0 /\ Ioffset = 0
  /\ fmmu = {}

-----------------------------------------------------------------------------
(* A bitwise packed slave starts at the next free bit.                     *)
BitFmmu(s, d, sh) ==
  [slave |-> s, dir |-> d, run |-> 1,
   first |-> 8 * LogAddr + BitPos, last |-> 8 * LogAddr + BitPos + sh.bits - 1]

(* A byte oriented one starts at the next byte, with an FMMU for each run  *)
(* of sync managers.  ByteCount is not reset between two of them.          *)
NextByte == IF BitPos > 0 THEN LogAddr + 1 ELSE LogAddr

FMMUdone(sh) ==
  LET ByteCount[k \in 0..Len(sh.runs)] ==
        IF k = 0 THEN 0 ELSE ByteCount[k - 1] + sh.runs[k]
      done[k \in 0..Len(sh.runs)] ==
        IF k = 0 THEN 0
        ELSE IF ByteCount[k] + done[k - 1] > Bytes(sh) THEN Bytes(sh)
        ELSE ByteCount[k] + done[k - 1]
  IN done

ByteFmmus(s, d, sh) ==
  {[slave |-> s, dir |-> d, run |-> k,
    first |-> 8 * (NextByte + FMMUdone(sh)[k - 1]),
    last  |-> 8 * (NextByte + FMMUdone(sh)[k]) - 1] :
     k \in {k \in 1..Len(sh.runs) : FMMUdone(sh)[k - 1] < Bytes(sh)}}

(* Mutant: a byte oriented slave starts within a byte that is in use.      *)
AfterFmmus_InByte(sh) ==
  IF sh.bits = 0 THEN <<LogAddr, BitPos>>
  ELSE IF Bytes(sh) > 0 THEN <<LogAddr + FMMUdone(sh)[Len(sh.runs)], 0>>
  ELSE <<LogAddr + (BitPos + sh.bits) \div 8, (BitPos + sh.bits) % 8>>

(* ecx_config_create_output_mappings, ecx_config_create_input_mappings:    *)
(* the FMMUs of one slave, and the logical address and bit after them.     *)
Fmmus(s, d, sh) ==
  IF sh.bits = 0 THEN {}
  ELSE IF Bytes(sh) > 0 THEN ByteFmmus(s, d, sh) ELSE {BitFmmu(s, d, sh)}

AfterFmmus(sh) ==
  IF sh.bits = 0 THEN <<LogAddr, BitPos>>
  ELSE IF Bytes(sh) > 0 THEN <<NextByte + FMMUdone(sh)[Len(sh.runs)], 0>>
  ELSE <<LogAddr + (BitPos + sh.bits) \div 8, (BitPos + sh.bits) % 8>>

(* The segments when diff more bytes go in: in the current one if they fit, *)
(* else in a new one; there is no room for them after the last.            *)
Packed(diff) ==
  IF segmentsize + diff <= MAXLRW
    THEN [segs |-> IOsegment, cur |-> currentsegment, size |-> segmentsize + diff]
    ELSE LET full == [IOsegment EXCEPT ![currentsegment] = segmentsize] IN
         IF currentsegment < MAXSEG - 1
           THEN [segs |-> full, cur |-> currentsegment + 1, size |-> diff]
           ELSE [segs |-> full, cur |-> currentsegment, size |-> segmentsize]

Unpacked == [segs |-> IOsegment, cur |-> currentsegment, size |-> segmentsize]

Take(p) ==
  /\ IOsegment' = p.segs /\ currentsegment' = p.cur
  /\ segmentsize' = p.size

MapSlave(d) ==
  /\ step = d /\ slave \in Slave
  /\ LET sh == IF d = "out" THEN shape[slave].out ELSE shape[slave].in IN
       /\ fmmu' = fmmu \cup Fmmus(slave, d, sh)
       /\ LogAddr' = AfterFmmus(sh)[1] /\ BitPos' = AfterFmmus(sh)[2]
       /\ Take(IF sh.bits = 0 THEN Unpacked ELSE Packed(LogAddr' - LogAddr))
  /\ slave' = slave + 1
  /\ UNCHANGED <<shape, overlap, step, Obytes, Ibytes, Isegment, Ioffset>>

(* Outputs and inputs end at a byte.                                       *)
FillByte == IF BitPos > 0 THEN Packed(1) ELSE Unpacked
ToByte   == LogAddr' = NextByte /\ BitPos' = 0

EndOutputs ==
  /\ step = "out" /\ slave = NSlave + 1
  /\ ToByte /\ Take(FillByte)
  /\ Obytes' = NextByte /\ Isegment' = FillByte.cur /\ Ioffset' = FillByte.size
  /\ step' = "in" /\ slave' = 1
  /\ UNCHANGED <<shape, overlap, Ibytes, fmmu>>

EndInputs ==
  /\ step = "in" /\ slave = NSlave + 1
  /\ ToByte
  /\ Take([FillByte EXCEPT !.segs[FillByte.cur] = FillByte.size])
  /\ Ibytes' = NextByte - Obytes
  /\ step' = "mapped"
  /\ UNCHANGED <<shape, overlap, slave, Obytes, Isegment, Ioffset, fmmu>>

(* In an overlapping map the outputs and the inputs of a slave start at    *)
(* the same byte.  Obytes and Ibytes are where those of the last slave end, *)
(* or where it begins.                                                     *)
EndByte(sh) == AfterFmmus(sh)[1] + (IF AfterFmmus(sh)[2] > 0 THEN 1 ELSE 0)

EndOverlap(so, si) == IF si > so THEN si ELSE so

MapOverlap ==
  /\ step = "both" /\ slave \in Slave
  /\ LET out == shape[slave].out
         in == shape[slave].in IN
       /\ fmmu' = fmmu \cup Fmmus(slave, "out", out) \cup Fmmus(slave, "in", in)
       /\ Obytes' = EndByte(out) /\ Ibytes' = EndByte(in)
       /\ LogAddr' = EndOverlap(Obytes', Ibytes') /\ BitPos' = 0
       /\ Take(Packed(LogAddr' - LogAddr))
  /\ slave' = slave + 1
  /\ UNCHANGED <<shape, overlap, step, Isegment, Ioffset>>

EndBoth ==
  /\ step = "both" /\ slave = NSlave + 1
  /\ Take([Unpacked EXCEPT !.segs[currentsegment] = segmentsize])
  /\ Isegment' = 0 /\ Ioffset' = 0
  /\ step' = "mapped"
  /\ UNCHANGED <<shape, overlap, slave, LogAddr, BitPos, Obytes, Ibytes, fmmu>>

Map ==
  \/ \E d \in {"out", "in"} : MapSlave(d)
  \/ EndOutputs \/ EndInputs \/ MapOverlap \/ EndBoth

nsegments == currentsegment + 1

(* What the working counter of a full exchange is: each slave counts once  *)
(* for its inputs and once for its outputs, which an LRW counts twice.     *)
Has(s, d) == \E f \in fmmu : f.slave = s /\ f.dir = d
outputsWKC == Cardinality({s \in Slave : Has(s, "out")})
inputsWKC  == Cardinality({s \in Slave : Has(s, "in")})

-----------------------------------------------------------------------------
(* No bit of the logical address space belongs to two FMMUs, but for the   *)
(* outputs and inputs of one slave in an overlapping map, and the outputs  *)
(* lie before the inputs in the other: what two slaves would both write,   *)
(* or both read, is the mistake bitwise packing beside byte oriented slaves *)
(* invites.                                                                *)
MapDisjoint ==
  /\ \A f, g \in fmmu :
       f # g /\ ~(overlap /\ f.slave = g.slave /\ f.dir # g.dir) =>
         f.last < g.first \/ g.last < f.first
  /\ step = "mapped" =>
       \A f \in fmmu :
         CASE f.dir = "out" -> f.last < 8 * Obytes
           [] f.dir = "in" /\ ~overlap ->
                f.first >= 8 * Obytes /\ f.last < 8 * (Obytes + Ibytes)
           [] OTHER -> f.last < 8 * Ibytes
=============================================================================
