---------------------------- MODULE SlaveMonitorMC ----------------------------
(* Instances of SlaveMonitor for TLC: slaves of one kind that are          *)
(* unplugged while datagrams are lost, and slaves that can be told apart   *)
(* and lose their power.                                                   *)
EXTENDS SlaveMonitor

AllDifferent == [s \in Slave |-> s]
AllAlike     == [s \in Slave |-> 1]

Cuts == [type |-> AllAlike, cut |-> 1, power |-> 0, fall |-> 1, loss |-> 1]
Power == [type |-> AllDifferent, cut |-> 1, power |-> 2, fall |-> 1, loss |-> 0]
CutsAndPower == {Cuts, Power}

PowerUp == {[type |-> AllDifferent, cut |-> 1, power |-> 1, fall |-> 0, loss |-> 0]}
=============================================================================
