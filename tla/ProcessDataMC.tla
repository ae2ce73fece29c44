----------------------------- MODULE ProcessDataMC -----------------------------
(* Instances for TLC of the cyclic exchange: by one thread, as ProcessData *)
(* has it, with a few shapes of process data, packed bitwise or in one or  *)
(* more runs of sync managers; or by the two threads of RedTest.           *)
EXTENDS ProcessData, Functions

SumRuns(r) == FoldFunction(LAMBDA a, b : a + b, 0, r)

Nothing  == [bits |-> 0, runs |-> <<>>]
Bits(n)  == [bits |-> n, runs |-> <<1>>]
Words(r) == [bits |-> 8 * SumRuns(r), runs |-> r]

FewOut == {Nothing, Bits(3), Words(<<2>>)}
FewIn  == {Nothing, Bits(6), Words(<<1>>), Words(<<1, 2>>)}

CONSTANTS MaxBeside, MaxCycle, MaxLoss
VARIABLES threads, mpc, given, rpc, dorun, requested, al, lwr, ctl, idxstack,
  buf, at, pos, idx, received, lastWkc, cycles, drive, losses

R == INSTANCE RedTest WITH
  NBuf <- MAXBUF, blockLRW <- lwr, valid <- received, wkc <- lastWkc
redvars ==
  <<mpc, given, rpc, dorun, requested, al, lwr, ctl, idxstack, buf, at, pos, idx,
    received, lastWkc, cycles, drive, losses>>

CycleInit ==
  /\ Init /\ R!Init
  /\ \/ threads = 1 /\ ~lwr
     \/ /\ threads = 2 /\ ~blockLRW /\ ~hasdc /\ ~overlap
        /\ shape = [s \in Slave |-> [out |-> Nothing, in |-> Nothing]]

CycleNext ==
  \/ threads = 1 /\ Next /\ UNCHANGED <<threads, redvars>>
  \/ threads = 2 /\ R!Next /\ UNCHANGED <<threads, vars>>

CycleSpec == CycleInit /\ [][CycleNext]_<<threads, vars, redvars>>

CycleView == IF threads = 1 THEN vars ELSE <<R!View>>

Enabled == R!Enabled
=============================================================================
