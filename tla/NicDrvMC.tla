------------------------------- MODULE NicDrvMC -------------------------------
EXTENDS NicDrv, TLC

CONSTANTS c1, c2

Symmetry == Permutations({c1, c2})

(* The states of the liveness run up to what no step looks at: a receive   *)
(* buffer that is not filled, and a working counter nobody reads any more. *)
Filled(i) == rxbufstat[i] \in {"RCVD", "COMPLETE"}
Behaviour ==
  <<rxbufstat, lastidx, txbuf, tempbuf, idxmutex, rxmutex, scan, wire, sock,
    pc, idx, gen, rt,
    [i \in Idx |-> IF Filled(i) THEN rxbuf[i] ELSE NoReq],
    [s \in Slot |-> IF pc[s] = "copy" THEN wkc[s] ELSE NOFRAME]>>
===============================================================================
