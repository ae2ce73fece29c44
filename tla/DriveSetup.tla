------------------------------ MODULE DriveSetup ------------------------------
(***************************************************************************)
(* The hook of simple_test.c, PanasonicSetup, which ecx_map_coe_soe calls  *)
(* for a drive before it reads what the drive maps: it writes the sync     *)
(* mode, the position limits and the two PDO mappings, 37 objects, and     *)
(* looks at none of the results.                                           *)
(*                                                                         *)
(* The hook is one step; the writes it is made of are folded over the      *)
(* objects of the drive, and one of them may get lost.                     *)
(***************************************************************************)
EXTENDS ConfigInit, SequencesExt

VARIABLES
  od,     \* od[s]: the objects of slave s the hook writes to
  whole   \* history: the drives that got every write

driveVars == <<od, whole>>

(* A mapped object and its bits. *)
Entry(name, bits) == [of |-> name, bits |-> bits]
Void == Entry("nothing", 0)

-----------------------------------------------------------------------------
(* The writes, <<index, subindex, value>>, in their order.                 *)
setDCModeSetup ==
  << <<"1C32", 1, 2>>, <<"1C32", 2, 2000000>>, <<"1C33", 1, 2>>, <<"1C33", 3, 0>>,
     <<"6060", 0, 1>> >>

setSoftwarePositionLimit == << <<"607D", 1, 0>>, <<"607D", 2, 0>>, <<"607D", 0, 2>> >>

(* Take the assignment off, empty the PDOs, map the entries to the first,  *)
(* and assign that one.                                                    *)
Remap(assign, pdos, entries) ==
  << <<assign, 0, 0>> >> \o [i \in 1..Len(pdos) |-> <<pdos[i], 0, 0>>]
  \o [i \in 1..Len(entries) |-> <<pdos[1], i, entries[i]>>]
  \o << <<pdos[1], 0, Len(entries)>>, <<assign, 0, 1>>, <<assign, 1, pdos[1]>> >>

setFlexibleOutputPDO ==
  Remap("1C12", <<"1600", "1601", "1602", "1603">>,
        << Entry("control word", 16), Entry("mode", 8), Entry("target torque", 16),
           Entry("max torque", 16), Entry("target position", 32),
           Entry("max motor speed", 32), Entry("target velocity", 32) >>)

(* The last entry is the velocity once more, where the comment has the     *)
(* torque.                                                                 *)
setFlexibleInputPDO ==
  Remap("1C13", <<"1A00", "1A01", "1A02", "1A03">>,
        << Entry("error code", 16), Entry("status word", 16), Entry("mode display", 8),
           Entry("position", 32), Entry("velocity", 32), Entry("velocity", 32) >>)

Writes == setDCModeSetup \o setSoftwarePositionLimit
          \o setFlexibleOutputPDO \o setFlexibleInputPDO

-----------------------------------------------------------------------------
(* The drive.  A PDO can be mapped anew while it is not assigned, and its  *)
(* entries written while it is empty; a count needs that many entries.     *)
(* What it assigns can be written at any time, as the hook expects.        *)
AssignOf(index) == IF index \in {"1600", "1601", "1602", "1603"} THEN "1C12" ELSE "1C13"
Rx == {"1600", "1601", "1602", "1603"}
Tx == {"1A00", "1A01", "1A02", "1A03"}

Takes(d, w) ==
  w[1] \in Rx \cup Tx =>
    /\ d[<<AssignOf(w[1]), 0>>] = 0
    /\ IF w[2] = 0 THEN \A i \in 1..w[3] : d[<<w[1], i>>] # Void
                   ELSE d[<<w[1], 0>>] = 0

Written(d, w) == IF Takes(d, w) THEN [d EXCEPT ![<<w[1], w[2]>>] = w[3]] ELSE d

(* As the drive comes: two entries each way. *)
Fresh ==
  [o \in {<<w[1], w[2]>> : w \in ToSet(Writes)} |->
     IF o[1] \in {"1600", "1A00"}
     THEN CASE o[2] = 0 -> 2
            [] o[2] = 1 -> Entry(IF o[1] = "1600" THEN "control word" ELSE "status word", 16)
            [] o[2] = 2 -> Entry(IF o[1] = "1600" THEN "target position" ELSE "position", 32)
            [] OTHER -> Void
     ELSE CASE o = <<"1C12", 1>> -> "1600"
            [] o = <<"1C13", 1>> -> "1A00"
            [] OTHER -> IF o[1] \in {"1C12", "1C13"} THEN 1 ELSE 0]

(* What a drive maps in a direction, and where an entry begins. *)
Mapped(d, assign) ==
  LET pdo == d[<<assign, 1>>]
  IN IF d[<<assign, 0>>] = 0 THEN <<>>
     ELSE [i \in 1..d[<<pdo, 0>>] |-> d[<<pdo, i>>]]
BitsOf(q) == FoldLeft(LAMBDA sum, e : sum + e.bits, 0, q)
OffsetOf(q, i) == BitsOf(SubSeq(q, 1, i - 1)) \div 8

-----------------------------------------------------------------------------
DriveStart == od = [s \in Slaves(bus) |-> Fresh] /\ whole = {}

(* simpletest registers the hook for the drives it knows. *)
PanasonicIds == <<3, 8>>
HasHook(s) == SubSeq(slavelist[s].ids, 1, 2) = PanasonicIds

(* The writes that come through: the drive has its mailbox in PRE_OP, and  *)
(* at most one write is lost (bound).                                      *)
PanasonicSetup(s) ==
  \E lost \in {{}} \cup {{i} : i \in 1..Len(Writes)} :
    LET all == esc[s].al = "preop" /\ lost = {}
        through == IF esc[s].al = "preop"
                   THEN [i \in 1..Len(Writes) |->
                           IF i \in lost THEN <<>> ELSE <<Writes[i]>>]
                   ELSE <<>>
        d == FoldLeft(Written, od[s], FlattenSeq(through))
        pdos(assign) == IF Mapped(d, assign) = <<>> THEN <<>>
                        ELSE <<BitsOf(Mapped(d, assign))>>
    IN /\ od' = [od EXCEPT ![s] = d]
       /\ whole' = whole \cup {x \in {s} : all}
       /\ bus' = [bus EXCEPT !.pdos[s] = [n \in 2..3 |->
                    pdos(IF n = 2 THEN "1C12" ELSE "1C13")]]

RunHook ==
  /\ stage = "hook"
  /\ IF HasHook(slave) THEN PanasonicSetup(slave) ELSE UNCHANGED <<od, whole, bus>>
  /\ stage' = "coe"
  /\ UNCHANGED <<esc, slavelist, slavecount, slave>>

-----------------------------------------------------------------------------
(* Where simpletest looks for what.                                        *)
OutputOffsets ==
  {<<"control word", 0>>, <<"mode", 2>>, <<"target torque", 3>>, <<"max torque", 5>>,
   <<"target position", 7>>, <<"max motor speed", 11>>}
InputOffsets ==
  {<<"error code", 0>>, <<"status word", 2>>, <<"mode display", 4>>, <<"position", 5>>,
   <<"velocity", 9>>, <<"torque", 11>>}

LiesAt(q, place) ==
  \E i \in 1..Len(q) : q[i].of = place[1] /\ OffsetOf(q, i) = place[2]
===============================================================================
