-------------------------------- MODULE PortsMC --------------------------------
(* The drivers of two other ports, each in behaviours of its own, with two *)
(* threads that are alike.                                                 *)
EXTENDS VxNicDrv, PortUsers, TLC

CONSTANTS c1, c2
Symmetry == Permutations(Caller)

VARIABLES port, e_rxbufstat, e_lastidx, e_txbuf, e_rxbuf, e_tempinbuf, e_lock,
  e_scan, e_wire, e_card, e_pc, e_idx, e_gen, e_wkc

E == INSTANCE ErikaDrv WITH
  rxbufstat <- e_rxbufstat, lastidx <- e_lastidx, txbuf <- e_txbuf,
  rxbuf <- e_rxbuf, tempinbuf <- e_tempinbuf, lock <- e_lock, scan <- e_scan,
  wire <- e_wire, card <- e_card, pc <- e_pc, idx <- e_idx, gen <- e_gen,
  wkc <- e_wkc
evars ==
  <<e_rxbufstat, e_lastidx, e_txbuf, e_rxbuf, e_tempinbuf, e_lock, e_scan,
    e_wire, e_card, e_pc, e_idx, e_gen, e_wkc>>

PortsInit == Init /\ E!Init /\ port \in {"vxworks", "erika"}
PortsNext ==
  \/ port = "vxworks" /\ Next /\ UNCHANGED <<port, evars>>
  \/ port = "erika" /\ E!Next /\ UNCHANGED <<port, vars>>
PortsSpec == PortsInit /\ [][PortsNext]_<<port, vars, evars>>

MarksAreUsers == E!TypeOK /\ E!MarksAreUsers
ExchangeSpec == E!ExchangeSpec
===============================================================================
