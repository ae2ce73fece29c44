------------------------------ MODULE BringUpMC ------------------------------
EXTENDS BringUp

Sm(start, len) == [start |-> start, len |-> len, on |-> TRUE]
None == [n \in 2..3 |-> 0]
Plain == [ids |-> <<1, 1, 1>>, wo |-> 0, l |-> 0, ro |-> 0, rl |-> 0, proto |-> {},
          ca |-> FALSE, sms |-> <<>>, types |-> <<>>, mdt |-> <<>>, at |-> <<>>,
          siiIn |-> None, siiOut |-> None]
(* A drive with CoE, the same with complete access, one with the shifted   *)
(* types of an old firmware; a drive with SoE; inputs and outputs that     *)
(* only the SII describes; a slave whose SII tells nothing of its sync     *)
(* managers, one whose SII puts its mailbox nowhere, and the drive that    *)
(* has a hook.                                                             *)
Coe == [Plain EXCEPT !.ids = <<1, 2, 1>>, !.wo = 10, !.l = 4, !.ro = 14, !.rl = 4,
          !.proto = {"coe"}, !.types = <<1, 2, 3, 4>>,
          !.sms = <<Sm(10, 4), Sm(14, 4), Sm(20, 1), Sm(30, 1)>>]
Kinds == [
  plain |-> Plain,
  coe   |-> Coe,
  ca    |-> [Coe EXCEPT !.ids = <<1, 3, 1>>, !.ca = TRUE],
  old   |-> [Coe EXCEPT !.ids = <<1, 3, 2>>, !.types = <<0, 1, 2, 3>>, !.rl = 0,
                        !.sms = <<Sm(10, 4), Sm(14, 4), Sm(20, 1), Sm(30, 1)>>],
  soe   |-> [Coe EXCEPT !.ids = <<2, 4, 1>>, !.proto = {"soe"}, !.types = <<>>,
                        !.mdt = <<<<[list |-> FALSE, length |-> 2]>>>>,
                        !.at = <<<<[list |-> FALSE, length |-> 1],
                                   [list |-> TRUE, length |-> 2]>>, <<>>>>],
  both  |-> [Coe EXCEPT !.ids = <<2, 5, 1>>, !.wo = 40, !.ro = 44, !.sms = <<>>,
                        !.proto = {"coe", "soe"}, !.types = <<>>,
                        !.mdt = <<<<[list |-> FALSE, length |-> 1]>>>>],
  bare  |-> [Coe EXCEPT !.ids = <<2, 5, 2>>, !.wo = 4096, !.l = 128, !.ro = 4224, !.rl = 128,
                        !.sms = <<Sm(0, 0), Sm(0, 0), Sm(5000, 1), Sm(5001, 1)>>],
  drive |-> [Coe EXCEPT !.ids = <<3, 8, 1>>],
  io    |-> [Plain EXCEPT !.ids = <<2, 6, 1>>, !.sms = <<Sm(50, 1), Sm(0, 0), Sm(60, 1), Sm(70, 1)>>,
                          !.siiIn = [None EXCEPT ![3] = 9], !.siiOut = [None EXCEPT ![2] = 4]]]

Ordered(parent, port, n) ==
  \A s \in 1..n, t \in 1..n :
    s < t /\ parent[s] = parent[t] => Rank(port[s]) < Rank(port[t])

(* Every wiring of n slaves. *)
Wirings(n) ==
  {w \in [parent : [1..n -> 0..(n - 1)], port : [1..n -> {1, 2, 3}]] :
     /\ \A s \in 1..n : w.parent[s] < s /\ (s > 1 => w.parent[s] > 0)
     /\ w.port[1] = 3 /\ Ordered(w.parent, w.port, n)}

Wired(w, n, dc, off) ==
  [n |-> n, parent |-> w.parent, port |-> w.port, dc |-> dc, odd |-> {},
   delay |-> [s \in 1..n |-> 2 * s - 1], kind |-> [s \in 1..n |-> "plain"],
   off |-> off, pdos |-> [s \in 1..n |-> [m \in 2..3 |-> <<>>]], times |-> {}]

(* All of them, with each set of clocks. *)
Trees(n, dcs, offs) ==
  {b \in {Wired(w, n, dc, [s \in 1..n |-> o]) :
            w \in Wirings(n), dc \in dcs, o \in offs} : IsSegment(b)}

Line == [parent |-> <<0, 1, 2>>, port |-> <<3, 1, 1>>]
Maps == {[m \in 2..3 |-> IF m = 2 THEN out ELSE <<9>>] : out \in {<<>>, <<3, 8>>}}
Lines ==
  {[Wired(Line, 3, {}, <<0, 0, 0>>) EXCEPT !.kind = k, !.odd = odd,
       !.pdos = [s \in 1..3 |-> IF s = 2 THEN m ELSE [i \in 2..3 |-> <<i, 8>>]]] :
     k \in [1..3 -> DOMAIN Kinds \ {"drive"}], odd \in {{}, {2}}, m \in Maps}

(* Drives with a hook: the same twice, so that one may be taken for the    *)
(* other, and one that refuses PRE_OP.                                     *)
Drives ==
  {[Wired(Line, 3, {}, <<0, 0, 0>>) EXCEPT !.kind = k, !.odd = odd,
       !.pdos = [s \in 1..3 |-> [i \in 2..3 |-> <<48>>]]] :
     k \in {<<"coe", "drive", "drive">>, <<"drive", "io", "plain">>}, odd \in {{}, {3}}}

Pulses == {[Wired(Line, 2, {1, 2}, <<0, 0>>) EXCEPT !.times = {0, 2, 5}, !.parent = <<0, 1>>,
                                                     !.port = <<3, 1>>]}

SomeShifts == {-1, 1}
TooMany == Wired([parent |-> <<0, 1, 2, 3, 4, 5>>, port |-> <<3, 1, 1, 1, 1, 1>>],
                 6, {}, [s \in 1..6 |-> 0])
(* Started at 250, clocks turn over on the way of the frame. *)
SomeBuses == Trees(1, SUBSET {1}, {0}) \cup Trees(3, SUBSET (1..3), {0, 250})
             \cup Trees(4, SUBSET (1..4), {0})
             \cup Trees(5, {1..5} \cup {(1..5) \ {s} : s \in 2..5}, {0})
             \cup Lines \cup Drives \cup Pulses \cup {TooMany}

(* The kinds are such that all slaves can go to PRE_OP. *)
ASSUME KindsAreTrue == SiiIsTrue
===============================================================================
