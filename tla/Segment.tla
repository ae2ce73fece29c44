------------------------------- MODULE Segment -------------------------------
(***************************************************************************)
(* An EtherCAT segment: slaves wired as a tree, and the way of a frame     *)
(* through it.  A frame enters a slave at port 0 and leaves through its    *)
(* open ports in the order 3, 1, 2; behind each it passes a whole branch   *)
(* before it comes back.  So the slaves are numbered in the order in which *)
(* a frame meets them.  Every slave notes the time at which the frame      *)
(* arrives at each port, on a clock of its own of 32 bits.                 *)
(***************************************************************************)
EXTENDS Integers, FiniteSets, FiniteSetsExt

CONSTANTS
  Buses,  \* the segments there may be
  Kind,   \* Kind[k]: what a slave of kind k is like
  Half    \* clocks count from -Half to Half - 1 (2^31 in the code)

(* A segment b: b.n slaves, b.parent[s] the slave before s (0 the master), *)
(* b.port[s] the port of that slave s hangs on, b.delay[s] the time of the *)
(* wire between them, b.kind[s] its kind, b.off[s] what its clock shows    *)
(* when the frame starts, b.dc the slaves with distributed clocks, b.odd   *)
(* the slaves that refuse PRE_OP, b.pdos[s][n] the bits of each PDO that   *)
(* slave s assigns to sync manager n, b.times the times the application    *)
(* may set sync pulses at.                                                 *)
Slaves(b) == 1..b.n

Order == <<0, 3, 1, 2>>
Rank(p) == CHOOSE i \in 1..4 : Order[i] = p

ChildrenOf(b, s) == {c \in Slaves(b) : b.parent[c] = s}
OpenPorts(b, s) == {0} \cup {b.port[c] : c \in ChildrenOf(b, s)}

Ancestors(b, s) ==
  LET up[x \in 0..b.n] == IF x = 0 THEN {} ELSE {b.parent[x]} \cup up[b.parent[x]]
  IN up[s]
Below(b, s) == {x \in Slaves(b) : s \in Ancestors(b, x)}

(* The wiring is a tree, numbered as a frame passes it: a branch is passed *)
(* before the next one.                                                    *)
IsSegment(b) ==
  /\ DOMAIN b = {"n", "parent", "port", "delay", "kind", "off", "dc", "odd",
                 "pdos", "times"}
  /\ b.n \in Nat \ {0} /\ b.kind \in [Slaves(b) -> DOMAIN Kind]
  /\ b.dc \subseteq Slaves(b) /\ b.times \subseteq Int
  /\ b.parent \in [Slaves(b) -> Nat] /\ b.port \in [Slaves(b) -> {1, 2, 3}]
  /\ \A s \in Slaves(b) : b.parent[s] < s /\ (b.parent[s] = 0 <=> s = 1)
  /\ \A s \in Slaves(b), t \in Slaves(b) : s < t =>
       /\ b.parent[t] <= b.parent[s] \/ b.parent[t] >= s
       /\ b.parent[s] = b.parent[t] => Rank(b.port[s]) < Rank(b.port[t])

ASSUME SegmentConstants ==
  Half \in Nat \ {0} /\ \A b \in Buses : IsSegment(b)

-----------------------------------------------------------------------------
(* When a frame arrives at each slave, and when it comes back from the     *)
(* branch of slave c to the port c hangs on.                               *)
WiresBelow(b, c) == MapThenSumSet(LAMBDA x : b.delay[x], Below(b, c))

Arrival(b) ==
  LET arr[s \in Slaves(b)] ==
        LET before == {c \in ChildrenOf(b, b.parent[s]) : c < s}
            last == Max(before)
        IN b.delay[s] +
           (IF s = 1 THEN 0
            ELSE IF before = {} THEN arr[b.parent[s]]
            ELSE arr[last] + 2 * WiresBelow(b, last) + b.delay[last])
  IN arr

BackFrom(b, c) == Arrival(b)[c] + 2 * WiresBelow(b, c) + b.delay[c]

PortTime(b, s, p) ==
  IF p = 0 THEN Arrival(b)[s]
  ELSE BackFrom(b, CHOOSE c \in ChildrenOf(b, s) : b.port[c] = p)

(* What the clock of slave s shows then; a closed port keeps 0. *)
Wrap(t) == ((t + Half) % (2 * Half)) - Half
Stamp(b, s, p) ==
  IF p \in OpenPorts(b, s) THEN Wrap(PortTime(b, s, p) + b.off[s]) ELSE 0

(* The clock does not turn over while the frame is behind slave s. *)
NoTurn(b, s) ==
  \A p \in OpenPorts(b, s) : Stamp(b, s, p) - Stamp(b, s, 0) =
                             PortTime(b, s, p) - PortTime(b, s, 0)
==============================================================================
