------------------------------ MODULE ProcessData ------------------------------
(***************************************************************************)
(* The cyclic exchange of the process data laid out by IoMap:              *)
(* ecx_send_processdata_group cuts the map into LRW datagrams, or LRD and  *)
(* LWR datagrams when a slave forbids LRW, and pushes what it sent on the  *)
(* index stack; ecx_receive_processdata_group pulls each, waits for its    *)
(* frame, copies the data back and adds up the working counters.  An       *)
(* overlapping map goes with ecx_send_overlap_processdata_group.           *)
(*                                                                         *)
(* The bytes of the IOmap are not kept: unsent are the output bytes the    *)
(* application wrote after the last send, exchanged the bytes of FMMUs that *)
(* went over in this cycle and came back.                                  *)
(***************************************************************************)
EXTENDS IoMap

CONSTANT MAXBUF  \* EC_MAXBUF: frame indices, entries of the index stack

ASSUME MAXBUFAssumption == MAXBUF \in Nat \ {0}

VARIABLES
  blockLRW, hasdc, \* of the group
  alive,      \* the slaves that answer
  phase,      \* "map", "send", "receive", "done": what the caller does next
  frames,     \* the datagrams of the cycle: [cmd, at, len, dc]
  pushed, pulled,  \* of the index stack
  wkc, valid, \* of ecx_receive_processdata_group
  unsent, exchanged

cycvars == <<blockLRW, hasdc, alive, phase, frames, pushed, pulled, wkc,
             valid, unsent, exchanged>>
vars == <<mapvars, cycvars>>

NOFRAME == -1

Init ==
  /\ MapInit
  /\ blockLRW \in BOOLEAN /\ hasdc \in BOOLEAN
  /\ alive = Slave /\ phase = "map"
  /\ frames = <<>> /\ pushed = 0 /\ pulled = 0
  /\ wkc = 0 /\ valid = FALSE
  /\ unsent = {} /\ exchanged = {}

Configure ==
  /\ phase = "map" /\ Map
  /\ phase' = IF step' = "mapped" THEN "send" ELSE "map"
  /\ UNCHANGED <<blockLRW, hasdc, alive, frames, pushed, pulled, wkc,
                 valid, unsent, exchanged>>

-----------------------------------------------------------------------------
(* The do-while loop over the segments from seg: datagrams of cmd that     *)
(* start at address at, until length bytes are sent or the segments end.   *)
(* Only the first LRD starts within a segment, only the last LWR is cut.   *)
Smaller(a, b) == IF a < b THEN a ELSE b

(* Mutant: the first LRD takes the whole segment the outputs end in.       *)
Sublength_Whole(cmd, k, left) ==
  CASE cmd = "LWR" -> Smaller(IOsegment[k], left)
    [] OTHER -> IOsegment[k]

Sublength(cmd, k, left) ==
  CASE cmd = "LRD" /\ k = Isegment -> IOsegment[k] - Ioffset
    [] cmd = "LWR" -> Smaller(IOsegment[k], left)
    [] OTHER -> IOsegment[k]

SegmentLoop(cmd, seg, at, length) ==
  LET sent[k \in seg..nsegments] ==
        IF k = seg THEN 0
        ELSE sent[k - 1] + Sublength(cmd, k - 1, length - sent[k - 1])
      end == CHOOSE e \in seg + 1..nsegments :
               /\ sent[e] = length \/ e = nsegments
               /\ \A k \in seg + 1..e - 1 : sent[k] # length
  IN [k \in 1..end - seg |->
        [cmd |-> cmd, at |-> at + sent[seg + k - 1],
         len |-> sent[seg + k] - sent[seg + k - 1], dc |-> FALSE]]

(* The first datagram of the cycle is followed by the one for the clocks.  *)
WithClock(s) == IF hasdc /\ s # <<>> THEN [s EXCEPT ![1].dc = TRUE] ELSE s

(* The bytes to go: with an overlapping map the longer of the two.         *)
Length == IF overlap THEN (IF Obytes > Ibytes THEN Obytes ELSE Ibytes)
          ELSE Obytes + Ibytes

Datagrams ==
  IF Length = 0 THEN <<>>
  ELSE IF blockLRW
    THEN (IF Ibytes = 0 THEN <<>>
          ELSE SegmentLoop("LRD", Isegment, Obytes, Ibytes))
         \o (IF Obytes = 0 THEN <<>> ELSE SegmentLoop("LWR", 0, 0, Obytes))
  ELSE SegmentLoop("LRW", 0, 0, Length)

(* ecx_pushindex drops what does not fit on the stack.                     *)
Pushed(n) == Smaller(n, MAXBUF)

Send ==
  /\ phase = "send"
  /\ frames' = WithClock(Datagrams)
  /\ pushed' = Pushed(Len(frames')) /\ pulled' = 0
  /\ wkc' = 0 /\ valid' = FALSE
  /\ unsent' = {} /\ exchanged' = {}
  /\ \E s \in Slave \cup {0} : alive' = Slave \ {s}
  /\ phase' = "receive"
  /\ UNCHANGED <<mapvars, blockLRW, hasdc>>

(* Another thread, or the application itself, writes its outputs.          *)
WriteOutputs ==
  /\ phase \in {"send", "receive"}
  /\ unsent' = 0..Obytes - 1 /\ unsent' # unsent
  /\ UNCHANGED <<mapvars, blockLRW, hasdc, alive, phase, frames, pushed, pulled, wkc, valid, exchanged>>

-----------------------------------------------------------------------------
(* The slaves' side of a datagram: the FMMUs it touches, and how far the   *)
(* working counter is raised.                                              *)
Addresses(f) == f.at..f.at + f.len - 1
BytesOf(g) == g.first \div 8..g.last \div 8
Serves(g, f) ==
  /\ g.slave \in alive
  /\ g.dir = "in" => f.cmd # "LWR"
  /\ g.dir = "out" => f.cmd # "LRD"
  /\ BytesOf(g) \cap Addresses(f) # {}

Touched(f, d) ==
  {s \in Slave : \E g \in fmmu : g.slave = s /\ g.dir = d /\ Serves(g, f)}

FrameWkc(f) ==
  Cardinality(Touched(f, "in"))
  + (IF f.cmd = "LRW" THEN 2 ELSE 1) * Cardinality(Touched(f, "out"))

Moved(f) ==
  UNION {{g} \X (BytesOf(g) \cap Addresses(f)) :
           g \in {g \in fmmu : Serves(g, f)}}

(* A frame that came back.  What it holds is copied to where it came from, *)
(* unless it was an LWR; the outputs of an LRW are those that were sent.   *)
(* With an overlapping map the inputs of an LRW go behind the outputs.  The *)
(* datagram with the clock behind it restarts the sum.  An LWR counts      *)
(* twice.  A mutation copies the inputs over the outputs.                  *)
CopiedTo_Same(f) == IF f.cmd = "LWR" THEN {} ELSE Addresses(f)

CopiedTo(f) ==
  IF f.cmd = "LWR" THEN {}
  ELSE IF overlap /\ f.cmd = "LRW" THEN {Obytes + k : k \in Addresses(f)}
  ELSE Addresses(f)

Factor(f) == IF f.cmd = "LWR" THEN 2 ELSE 1

Counted(f) == (IF f.dc THEN 0 ELSE wkc) + Factor(f) * FrameWkc(f)

Current == frames[pulled + 1]

Receive ==
  /\ phase = "receive" /\ pulled < pushed
  /\ wkc' = Counted(Current) /\ valid' = TRUE
  /\ unsent' = unsent \ CopiedTo(Current)
  /\ exchanged' = exchanged \cup Moved(Current)
  /\ pulled' = pulled + 1
  /\ UNCHANGED <<mapvars, blockLRW, hasdc, alive, phase, frames, pushed>>

(* Mutant: what an earlier frame left in the buffer is counted.            *)
ReceiveNothing_Stale ==
  /\ phase = "receive" /\ pulled < pushed
  /\ wkc' = Counted(Current) /\ valid' = TRUE
  /\ pulled' = pulled + 1
  /\ UNCHANGED <<mapvars, blockLRW, hasdc, alive, phase, frames, pushed,
                 unsent, exchanged>>

(* ecx_waitinframe times out.                                              *)
ReceiveNothing ==
  /\ phase = "receive" /\ pulled < pushed
  /\ pulled' = pulled + 1
  /\ UNCHANGED <<mapvars, blockLRW, hasdc, alive, phase, frames, pushed, wkc,
                 valid, unsent, exchanged>>

(* ecx_clearindex, and the return value.                                   *)
ClearIndex ==
  /\ phase = "receive" /\ pulled = pushed
  /\ pushed' = 0 /\ pulled' = 0
  /\ wkc' = IF valid THEN wkc ELSE NOFRAME
  /\ phase' = "done"
  /\ UNCHANGED <<mapvars, blockLRW, hasdc, alive, frames, valid, unsent,
                 exchanged>>

(* The caller looks at the result and starts the next cycle.               *)
NextCycle ==
  /\ phase = "done" /\ phase' = "send"
  /\ alive' = Slave /\ wkc' = 0 /\ valid' = FALSE
  /\ frames' = <<>> /\ exchanged' = {}
  /\ UNCHANGED <<mapvars, blockLRW, hasdc, pushed, pulled, unsent>>

Next == Configure \/ Send \/ WriteOutputs \/ Receive \/ ReceiveNothing
        \/ ClearIndex \/ NextCycle
Spec == Init /\ [][Next]_vars

-----------------------------------------------------------------------------
Covered(c) ==
  UNION {Addresses(frames[k]) : k \in {k \in DOMAIN frames : frames[k].cmd \in c}}

(* LRD datagrams are sent to addresses behind the outputs, where an         *)
(* overlapping map has nothing: the two do not go together.                *)
Supported == ~(overlap /\ blockLRW)

(* Each cycle reads every input byte and writes every output byte in       *)
(* exactly one datagram, however the layout was cut into segments, and     *)
(* what comes back has its place in the IOmap, of which the mapping        *)
(* function returned the size.  (It has not in an overlapping map whose    *)
(* outputs are longer than its inputs: the whole datagram is copied.)      *)
(* And no two slaves share a bit of it.                                    *)
Tiled ==
  /\ MapDisjoint
  /\ phase = "receive" /\ Supported =>
    /\ Covered({"LRW", "LRD"}) = IF blockLRW THEN Obytes..Obytes + Ibytes - 1
                                 ELSE 0..Length - 1
    /\ Covered({"LRW", "LWR"}) = IF blockLRW THEN 0..Obytes - 1 ELSE 0..Length - 1
    /\ \A j, k \in DOMAIN frames :
         j # k => Addresses(frames[j]) \cap Addresses(frames[k]) = {}
    /\ ~overlap \/ Obytes <= Ibytes =>
         \A k \in DOMAIN frames : CopiedTo(frames[k]) \subseteq 0..Obytes + Ibytes - 1

(* The FMMU lies on both sides of the end of a datagram.                   *)
Split(g) == \E k \in DOMAIN frames :
              /\ BytesOf(g) \cap Addresses(frames[k]) # {}
              /\ ~(BytesOf(g) \subseteq Addresses(frames[k]))
              /\ g.dir = "in" => frames[k].cmd # "LWR"
              /\ g.dir = "out" => frames[k].cmd # "LRD"

(* The application trusts a cycle when wkc >= expectedWKC (simpletest).    *)
expectedWKC == 2 * outputsWKC + inputsWKC

AllExchanged == \A g \in fmmu : {g} \X BytesOf(g) \subseteq exchanged

(* Where no FMMU is split the working counter tells exactly whether all of *)
(* the process data went over, and is never higher than expected.  ("A     *)
(* single ESC can only contribute once", ethercatconfig.c, is wrong where  *)
(* it is split: then a slave counts twice, and covers for a missing one.)  *)
WkcTells ==
  phase = "done" /\ Supported /\ fmmu # {} /\ (\A g \in fmmu : ~Split(g)) =>
    wkc <= expectedWKC /\ (wkc = expectedWKC <=> AllExchanged)

(* With LRD and LWR datagrams, and with an overlapping map, receiving      *)
(* leaves the outputs alone: what the application writes to them while the *)
(* frames are on their way goes out with the next send.  Any other LRW     *)
(* datagram writes back the outputs it sent.                               *)
Keeps == phase = "receive" => unsent \subseteq unsent'
OutputsKept == [][blockLRW \/ overlap => Keeps]_vars
=============================================================================
