------------------------------ MODULE NicDrvProofs ------------------------------
(***************************************************************************)
(* Proofs about the frame driver, for every number of threads, segments    *)
(* and buffers, when send() succeeds and no timer beats an answer.         *)
(***************************************************************************)
EXTENDS NicDrv, FiniteSetTheorems, TLAPS

NoFaults == SendFail = FALSE /\ Late = FALSE

(* With an index for every slot, a slot that holds none finds one unused.  *)
LEMMA UnusedIndex ==
  ASSUME NEW h \in [Slot -> Idx \cup {NoIdx}], NEW t \in Slot, h[t] = NoIdx
  PROVE  \E i \in Idx : \A s \in Slot : h[s] # i
<1>1. IsFiniteSet(Slot)
  <2>1. IsFiniteSet(Seg)
    BY FS_Interval, NSegAssumption DEF Seg
  <2>2. QED
    BY <2>1, CallerAssumption, FS_Union DEF Slot
<1>2. IsFiniteSet(Idx) /\ Cardinality(Idx) = MaxBuf
  <2>1. MaxBuf - 1 \in Int /\ MaxBuf >= 1
    BY MaxBufAssumption
  <2>2. QED
    BY <2>1, FS_Interval, MaxBufAssumption DEF Idx
<1>3. IsFiniteSet(Slot \ {t}) /\ Cardinality(Slot \ {t}) < Cardinality(Idx)
  <2>1. Cardinality(Slot \ {t}) = Cardinality(Slot) - 1 /\ IsFiniteSet(Slot \ {t})
    BY <1>1, FS_RemoveElement
  <2>2. Cardinality(Slot) \in Nat
    BY <1>1, FS_CardinalityType
  <2>3. QED
    BY <2>1, <2>2, <1>2, MaxBufAssumption
<1>4. SUFFICES ASSUME \A i \in Idx : \E s \in Slot : h[s] = i
               PROVE  FALSE
  OBVIOUS
<1>5. DEFINE f == [i \in Idx |-> CHOOSE s \in Slot : h[s] = i]
<1>6. \A i \in Idx : f[i] \in Slot /\ h[f[i]] = i
  BY <1>4
<1>7. f \in [Idx -> Slot \ {t}]
  <2>1. \A i \in Idx : i # NoIdx
    BY DEF Idx, NoIdx
  <2>2. QED
    BY <1>6, <2>1
<1>8. \E x, y \in Idx : x # y /\ f[x] = f[y]
  <2>. HIDE DEF f
  <2>1. QED
    BY <1>2, <1>3, <1>7, FS_PigeonHole
<1>9. QED
  BY <1>6, <1>8

(* Stepping one index on brings every other index one closer. *)
LEMMA RingStep ==
  ASSUME NEW i \in Idx, NEW j \in Idx
  PROVE  /\ NextIdx(i) \in Idx
         /\ Ahead(i, j) \in 0..(MaxBuf - 1)
         /\ i # j => Ahead(NextIdx(i), j) = Ahead(i, j) - 1
BY MaxBufAssumption DEF Idx, NextIdx, Ahead

LEMMA IdxFacts == NoIdx \notin Idx /\ 0 \in Idx
BY MaxBufAssumption DEF Idx, NoIdx

(* The scan never ends on a busy entry. *)
LEMMA TakesUnused ==
  ASSUME IInv, NEW s \in Slot, ScanTake(s)
  PROVE  rxbufstat[scan.idx] = "EMPTY" /\ scan.idx \in Idx
<1>1. scan.idx \in Idx /\ scan.cnt \in 0..MaxBuf
  BY DEF IInv, TypeOK
<1>2. PICK j \in Idx : Ahead(scan.idx, j) + scan.cnt < MaxBuf
  BY DEF IInv, ScanFinds, ScanTake
<1>3. Ahead(scan.idx, j) \in 0..(MaxBuf - 1)
  BY <1>1, RingStep
<1>4. scan.cnt < MaxBuf
  BY <1>1, <1>2, <1>3, MaxBufAssumption
<1>5. QED
  BY <1>1, <1>4 DEF ScanTake, ScanGoesOn

LEMMA InitIInv == Init => IInv
<1>. SUFFICES ASSUME Init PROVE IInv
  OBVIOUS
<1>. USE DEF Init
<1>1. TypeOK
  BY MaxBufAssumption, NSegAssumption, BoundAssumption
  DEF TypeOK, Idx, BufStat, PCs, Gen, NOFRAME, OTHERFRAME
<1>2. NoOne \notin Slot /\ InFlight = {}
  BY NoOneAssumption DEF InFlight
<1>3. /\ IndexInUse /\ IndexExclusive /\ NoLeak /\ UsedIsMarked /\ Mutexes
      /\ ScanFinds /\ StatFollowsPc /\ BuffersOwn /\ OwnAnswer
  BY <1>2 DEF IndexInUse, IndexExclusive, NoLeak, UsedIsMarked, Mutexes,
              ScanFinds, StatFollowsPc, BuffersOwn, OwnAnswer, Using, Waiting,
              NoIdx, NOFRAME
<1>4. FlightHasWaiter /\ OneAnswer
  BY <1>2 DEF FlightHasWaiter, OneAnswer
<1>5. QED
  BY <1>1, <1>3, <1>4 DEF IInv

-----------------------------------------------------------------------------
LEMMA StartIInv ==
  ASSUME IInv, NEW s \in Slot, Start(s)
  PROVE  IInv'
<1>. USE DEF IInv, Start, Goto, bufVars, indexVars, portVars, netVars,
             slotVars, Mark, Missed, Complete, IsFiled, IsRequested, Free,
             FileMark, UnlockRx, ScanStart
<1>1. TypeOK'
  BY IdxFacts, NoOneAssumption, MaxBufAssumption DEF TypeOK, PCs, BufStat
<1>2. IndexInUse'
  BY DEF TypeOK, IndexInUse, Using, Waiting
<1>3. IndexExclusive'
  BY DEF TypeOK, IndexInUse, IndexExclusive, NoLeak, UsedIsMarked, Using,
     Waiting
<1>4. NoLeak' /\ UsedIsMarked'
  BY DEF TypeOK, IndexInUse, IndexExclusive, NoLeak, UsedIsMarked, Using,
     Waiting
<1>5. Mutexes'
  BY NoOneAssumption DEF TypeOK, Mutexes
<1>6. ScanFinds'
  BY DEF TypeOK, Mutexes, ScanFinds
<1>7. StatFollowsPc'
  BY DEF TypeOK, IndexInUse, IndexExclusive, StatFollowsPc, Using, Waiting
<1>8. BuffersOwn' /\ OwnAnswer'
  BY DEF TypeOK, IndexInUse, IndexExclusive, StatFollowsPc, BuffersOwn,
     OwnAnswer, Using, Waiting, ReqOf
<1>9. FlightHasWaiter' /\ OneAnswer'
  BY DEF TypeOK, IndexInUse, IndexExclusive, FlightHasWaiter, OneAnswer, Using,
     Waiting, ReqOf, InFlight
<1>10. QED
  BY <1>1, <1>2, <1>3, <1>4, <1>5, <1>6, <1>7, <1>8, <1>9

LEMMA LockIndexIInv ==
  ASSUME IInv, NEW s \in Slot, LockIndex(s)
  PROVE  IInv'
<1>. USE DEF IInv, LockIndex, Goto, bufVars, indexVars, portVars, netVars,
             slotVars, Mark, Missed, Complete, IsFiled, IsRequested, Free,
             FileMark, UnlockRx, ScanStart
<1>1. TypeOK'
  BY RingStep, MaxBufAssumption DEF TypeOK, PCs
<1>2. IndexInUse'
  BY DEF TypeOK, IndexInUse, Using, Waiting
<1>3. IndexExclusive'
  BY DEF TypeOK, IndexInUse, IndexExclusive, NoLeak, UsedIsMarked, Using,
     Waiting
<1>4. NoLeak' /\ UsedIsMarked'
  BY DEF TypeOK, IndexInUse, IndexExclusive, NoLeak, UsedIsMarked, Using,
     Waiting
<1>5. Mutexes'
  BY NoOneAssumption DEF TypeOK, Mutexes
<1>6. ScanFinds'
  <2>1. PICK j \in Idx : \A t \in Slot : idx[t] # j
    <3>1. idx[s] = NoIdx /\ idx \in [Slot -> Idx \cup {NoIdx}]
      BY DEF TypeOK, IndexInUse, Using, Waiting
    <3>2. QED
      BY <3>1, UnusedIndex
  <2>2. rxbufstat[j] = "EMPTY"
    BY <2>1 DEF NoLeak
  <2>3. Ahead(NextIdx(lastidx), j) + 0 < MaxBuf
    BY RingStep, MaxBufAssumption DEF TypeOK
  <2>4. QED
    BY <2>2, <2>3, NoOneAssumption DEF TypeOK, Mutexes, ScanFinds
<1>7. StatFollowsPc'
  BY DEF TypeOK, IndexInUse, IndexExclusive, StatFollowsPc, Using, Waiting
<1>8. BuffersOwn' /\ OwnAnswer'
  BY DEF TypeOK, IndexInUse, IndexExclusive, StatFollowsPc, BuffersOwn,
     OwnAnswer, Using, Waiting, ReqOf
<1>9. FlightHasWaiter' /\ OneAnswer'
  BY DEF TypeOK, IndexInUse, IndexExclusive, FlightHasWaiter, OneAnswer, Using,
     Waiting, ReqOf, InFlight
<1>10. QED
  BY <1>1, <1>2, <1>3, <1>4, <1>5, <1>6, <1>7, <1>8, <1>9

LEMMA ScanNextIInv ==
  ASSUME IInv, NEW s \in Slot, ScanNext(s)
  PROVE  IInv'
<1>. USE DEF IInv, ScanNext, Goto, bufVars, indexVars, portVars, netVars,
             slotVars, ScanGoesOn, Mark, Missed, Complete, IsFiled,
             IsRequested, Free, FileMark, UnlockRx, ScanStart
<1>1. TypeOK'
  BY RingStep, MaxBufAssumption DEF TypeOK
<1>2. IndexInUse'
  BY DEF TypeOK, IndexInUse, Using, Waiting
<1>3. IndexExclusive'
  BY DEF TypeOK, IndexInUse, IndexExclusive, NoLeak, UsedIsMarked, Using,
     Waiting
<1>4. NoLeak' /\ UsedIsMarked'
  BY DEF TypeOK, IndexInUse, IndexExclusive, NoLeak, UsedIsMarked, Using,
     Waiting
<1>5. Mutexes'
  BY NoOneAssumption DEF TypeOK, Mutexes
<1>6. ScanFinds'
  BY RingStep, MaxBufAssumption DEF TypeOK, Mutexes, ScanFinds
<1>7. StatFollowsPc'
  BY DEF TypeOK, IndexInUse, IndexExclusive, StatFollowsPc, Using, Waiting
<1>8. BuffersOwn' /\ OwnAnswer'
  BY DEF TypeOK, IndexInUse, IndexExclusive, StatFollowsPc, BuffersOwn,
     OwnAnswer, Using, Waiting, ReqOf
<1>9. FlightHasWaiter' /\ OneAnswer'
  BY DEF TypeOK, IndexInUse, IndexExclusive, FlightHasWaiter, OneAnswer, Using,
     Waiting, ReqOf, InFlight
<1>10. QED
  BY <1>1, <1>2, <1>3, <1>4, <1>5, <1>6, <1>7, <1>8, <1>9

LEMMA ScanTakeIInv ==
  ASSUME IInv, NEW s \in Slot, ScanTake(s)
  PROVE  IInv'
<1>. USE DEF IInv, ScanTake, Goto, bufVars, indexVars, portVars, netVars,
             slotVars, ScanGoesOn, Mark, Missed, Complete, IsFiled,
             IsRequested, Free, FileMark, UnlockRx, ScanStart
<1>0. rxbufstat[scan.idx] = "EMPTY" /\ scan.idx \in Idx
  BY TakesUnused
<1>1. TypeOK'
  BY <1>0, NoOneAssumption, IdxFacts, MaxBufAssumption DEF TypeOK, PCs, BufStat
<1>2. IndexInUse'
  BY <1>0, IdxFacts DEF TypeOK, IndexInUse, Using, Waiting
<1>3. IndexExclusive'
  BY <1>0, IdxFacts DEF TypeOK, IndexExclusive, UsedIsMarked
<1>4. NoLeak' /\ UsedIsMarked'
  BY <1>0, IdxFacts DEF TypeOK, IndexInUse, NoLeak, UsedIsMarked, Using, Waiting
<1>5. Mutexes'
  BY NoOneAssumption DEF TypeOK, Mutexes
<1>6. ScanFinds'
  BY <1>5, NoOneAssumption DEF Mutexes, ScanFinds
<1>7. StatFollowsPc'
  BY <1>0, IdxFacts
  DEF TypeOK, IndexInUse, UsedIsMarked, StatFollowsPc, Using, Waiting
<1>8. BuffersOwn' /\ OwnAnswer'
  BY <1>0, IdxFacts DEF TypeOK, IndexInUse, UsedIsMarked, BuffersOwn,
     OwnAnswer, Using, Waiting, ReqOf
<1>9. FlightHasWaiter' /\ OneAnswer'
  BY <1>0, IdxFacts
  DEF TypeOK, FlightHasWaiter, OneAnswer, Waiting, ReqOf, InFlight
<1>10. QED
  BY <1>1, <1>2, <1>3, <1>4, <1>5, <1>6, <1>7, <1>8, <1>9

LEMMA SetupIInv ==
  ASSUME IInv, NEW s \in Slot, Setup(s)
  PROVE  IInv'
<1>. USE DEF IInv, Setup, Goto, bufVars, indexVars, portVars, netVars,
             slotVars, Mark, Missed, Complete, IsFiled, IsRequested, Free,
             FileMark, UnlockRx, ScanStart
<1>1. TypeOK'
  BY IdxFacts DEF TypeOK, PCs, Req, ReqOf, IndexInUse, Using
<1>2. IndexInUse'
  BY DEF TypeOK, IndexInUse, Using, Waiting
<1>3. IndexExclusive'
  BY DEF TypeOK, IndexInUse, IndexExclusive, NoLeak, UsedIsMarked, Using,
     Waiting
<1>4. NoLeak' /\ UsedIsMarked'
  BY DEF TypeOK, IndexInUse, IndexExclusive, NoLeak, UsedIsMarked, Using,
     Waiting
<1>5. Mutexes'
  BY NoOneAssumption DEF TypeOK, Mutexes
<1>6. ScanFinds'
  BY DEF TypeOK, Mutexes, ScanFinds
<1>7. StatFollowsPc'
  BY DEF TypeOK, IndexInUse, IndexExclusive, StatFollowsPc, Using, Waiting
<1>8. BuffersOwn' /\ OwnAnswer'
  BY DEF TypeOK, IndexInUse, IndexExclusive, StatFollowsPc, BuffersOwn,
     OwnAnswer, Using, Waiting, ReqOf
<1>9. FlightHasWaiter' /\ OneAnswer'
  BY DEF TypeOK, IndexInUse, IndexExclusive, FlightHasWaiter, OneAnswer, Using,
     Waiting, ReqOf, InFlight
<1>10. QED
  BY <1>1, <1>2, <1>3, <1>4, <1>5, <1>6, <1>7, <1>8, <1>9

LEMMA OutframeIInv ==
  ASSUME IInv, NEW s \in Slot, Outframe(s)
  PROVE  IInv'
<1>. USE DEF IInv, Outframe, Goto, bufVars, indexVars, portVars, netVars,
             slotVars, AfterSend, IsNewCopy, Mark, Missed, Complete, IsFiled,
             IsRequested, Free, FileMark, UnlockRx, ScanStart
<1>a. /\ idx[s] \in Idx
      /\ txbuf[idx[s]] = ReqOf(s)
      /\ rxbufstat[idx[s]] # "EMPTY"
      /\ \A f \in InFlight : f.idx # idx[s]
  BY DEF TypeOK, IndexInUse, IndexExclusive, BuffersOwn, StatFollowsPc,
         FlightHasWaiter, Using, Waiting
<1>b. \/ wire' = wire
      \/ \E c \in 1..MaxCopy :
           wire' = wire \cup {[idx |-> idx[s], req |-> ReqOf(s), copy |-> c]}
  BY <1>a
<1>c. wire' \subseteq Frame
  BY <1>a, <1>b DEF TypeOK, Frame, Req, ReqOf
<1>1. TypeOK'
  BY <1>a, <1>c, NSegAssumption DEF TypeOK, PCs, BufStat, Seg
<1>2. IndexInUse'
  BY DEF TypeOK, IndexInUse, Using, Waiting
<1>3. IndexExclusive'
  BY DEF TypeOK, IndexInUse, IndexExclusive, NoLeak, UsedIsMarked, Using,
     Waiting
<1>4. NoLeak' /\ UsedIsMarked'
  BY DEF TypeOK, IndexInUse, IndexExclusive, NoLeak, UsedIsMarked, Using,
     Waiting
<1>5. Mutexes'
  BY NoOneAssumption DEF TypeOK, Mutexes
<1>6. ScanFinds'
  BY <1>a DEF TypeOK, Mutexes, ScanFinds
<1>7. StatFollowsPc'
  BY DEF TypeOK, IndexInUse, IndexExclusive, StatFollowsPc, Using, Waiting
<1>8. BuffersOwn' /\ OwnAnswer'
  BY DEF TypeOK, IndexInUse, IndexExclusive, StatFollowsPc, BuffersOwn,
     OwnAnswer, Using, Waiting, ReqOf
<1>9. FlightHasWaiter' /\ OneAnswer'
  BY <1>a, <1>b, <1>c DEF TypeOK, IndexInUse, IndexExclusive, FlightHasWaiter,
     OneAnswer, Using, Waiting, ReqOf, InFlight
<1>10. QED
  BY <1>1, <1>2, <1>3, <1>4, <1>5, <1>6, <1>7, <1>8, <1>9

LEMMA TakeFiledIInv ==
  ASSUME IInv, NEW s \in Slot, TakeFiled(s)
  PROVE  IInv'
<1>. USE DEF IInv, TakeFiled, Goto, bufVars, indexVars, portVars, netVars,
             slotVars, Mark, Missed, Complete, IsFiled, IsRequested, Free,
             FileMark, UnlockRx, ScanStart
<1>1. TypeOK'
  <2>1. wkc' \in [Slot -> {NOFRAME, OTHERFRAME} \cup WKC]
    BY DEF TypeOK
  <2>2. QED
    BY <2>1 DEF TypeOK, PCs, BufStat
<1>2. IndexInUse'
  BY DEF TypeOK, IndexInUse, Using, Waiting
<1>3. IndexExclusive'
  BY DEF TypeOK, IndexInUse, IndexExclusive, NoLeak, UsedIsMarked, Using,
     Waiting
<1>4. NoLeak' /\ UsedIsMarked'
  BY DEF TypeOK, IndexInUse, IndexExclusive, NoLeak, UsedIsMarked, Using,
     Waiting
<1>5. Mutexes'
  BY NoOneAssumption DEF TypeOK, Mutexes
<1>6. ScanFinds'
  BY DEF TypeOK, Mutexes, ScanFinds
<1>7. StatFollowsPc'
  BY DEF TypeOK, IndexInUse, IndexExclusive, StatFollowsPc, Using, Waiting
<1>8. BuffersOwn' /\ OwnAnswer'
  BY DEF TypeOK, IndexInUse, IndexExclusive, StatFollowsPc, BuffersOwn,
     OwnAnswer, Using, Waiting, ReqOf
<1>9. FlightHasWaiter' /\ OneAnswer'
  BY DEF TypeOK, IndexInUse, IndexExclusive, FlightHasWaiter, OneAnswer, Using,
     Waiting, ReqOf, InFlight
<1>10. QED
  BY <1>1, <1>2, <1>3, <1>4, <1>5, <1>6, <1>7, <1>8, <1>9

LEMMA NotFiledIInv ==
  ASSUME IInv, NEW s \in Slot, NotFiled(s)
  PROVE  IInv'
<1>. USE DEF IInv, NotFiled, Goto, bufVars, indexVars, portVars, netVars,
             slotVars, Mark, Missed, Complete, IsFiled, IsRequested, Free,
             FileMark, UnlockRx, ScanStart
<1>1. TypeOK'
  BY IdxFacts, NoOneAssumption, MaxBufAssumption DEF TypeOK, PCs, BufStat
<1>2. IndexInUse'
  BY DEF TypeOK, IndexInUse, Using, Waiting
<1>3. IndexExclusive'
  BY DEF TypeOK, IndexInUse, IndexExclusive, NoLeak, UsedIsMarked, Using,
     Waiting
<1>4. NoLeak' /\ UsedIsMarked'
  BY DEF TypeOK, IndexInUse, IndexExclusive, NoLeak, UsedIsMarked, Using,
     Waiting
<1>5. Mutexes'
  BY NoOneAssumption DEF TypeOK, Mutexes
<1>6. ScanFinds'
  BY DEF TypeOK, Mutexes, ScanFinds
<1>7. StatFollowsPc'
  BY DEF TypeOK, IndexInUse, IndexExclusive, StatFollowsPc, Using, Waiting
<1>8. BuffersOwn' /\ OwnAnswer'
  BY DEF TypeOK, IndexInUse, IndexExclusive, StatFollowsPc, BuffersOwn,
     OwnAnswer, Using, Waiting, ReqOf
<1>9. FlightHasWaiter' /\ OneAnswer'
  BY DEF TypeOK, IndexInUse, IndexExclusive, FlightHasWaiter, OneAnswer, Using,
     Waiting, ReqOf, InFlight
<1>10. QED
  BY <1>1, <1>2, <1>3, <1>4, <1>5, <1>6, <1>7, <1>8, <1>9

LEMMA ReceiveNothingIInv ==
  ASSUME IInv, NEW s \in Slot, ReceiveNothing(s)
  PROVE  IInv'
<1>. USE DEF IInv, ReceiveNothing, Goto, bufVars, indexVars, portVars, netVars,
             slotVars, Mark, Missed, Complete, IsFiled, IsRequested, Free,
             FileMark, UnlockRx, ScanStart
<1>1. TypeOK'
  BY IdxFacts, NoOneAssumption, MaxBufAssumption DEF TypeOK, PCs, BufStat
<1>2. IndexInUse'
  BY DEF TypeOK, IndexInUse, Using, Waiting
<1>3. IndexExclusive'
  BY DEF TypeOK, IndexInUse, IndexExclusive, NoLeak, UsedIsMarked, Using,
     Waiting
<1>4. NoLeak' /\ UsedIsMarked'
  BY DEF TypeOK, IndexInUse, IndexExclusive, NoLeak, UsedIsMarked, Using,
     Waiting
<1>5. Mutexes'
  BY NoOneAssumption DEF TypeOK, Mutexes
<1>6. ScanFinds'
  BY DEF TypeOK, Mutexes, ScanFinds
<1>7. StatFollowsPc'
  BY DEF TypeOK, StatFollowsPc, Waiting, NOFRAME
<1>8. BuffersOwn' /\ OwnAnswer'
  BY DEF TypeOK, IndexInUse, IndexExclusive, StatFollowsPc, BuffersOwn,
     OwnAnswer, Using, Waiting, ReqOf
<1>9. FlightHasWaiter' /\ OneAnswer'
  BY DEF TypeOK, IndexInUse, IndexExclusive, FlightHasWaiter, OneAnswer, Using,
     Waiting, ReqOf, InFlight
<1>10. QED
  BY <1>1, <1>2, <1>3, <1>4, <1>5, <1>6, <1>7, <1>8, <1>9

LEMMA ReceiveOwnIInv ==
  ASSUME IInv, NEW s \in Slot, ReceiveOwn(s)
  PROVE  IInv'
<1>. USE DEF IInv, ReceiveOwn, Goto, bufVars, indexVars, portVars, netVars,
             slotVars, Mark, Missed, Complete, IsFiled, IsRequested, Free,
             FileMark, UnlockRx, ScanStart
<1>0. PICK f \in sock :
        /\ f.idx = idx[s]
        /\ sock' = sock \ {f}
        /\ rxbuf' = [rxbuf EXCEPT ![idx[s]] = f.req]
  OBVIOUS
<1>a. /\ f \in Frame
      /\ rxbufstat[f.idx] = "TX"
      /\ \E t \in Slot : idx[t] = f.idx /\ ReqOf(t) = f.req /\ pc[t] \in Waiting
  BY <1>0 DEF TypeOK, FlightHasWaiter, InFlight
<1>b. f.idx \in Idx /\ f.req = ReqOf(s) /\ f.req \in Req
  BY <1>a, <1>0, IdxFacts DEF Frame, IndexExclusive
<1>1. TypeOK'
  BY <1>0, <1>b, IdxFacts DEF TypeOK, PCs, BufStat, WKC
<1>2. IndexInUse'
  BY DEF TypeOK, IndexInUse, Using, Waiting
<1>3. IndexExclusive'
  BY DEF TypeOK, IndexInUse, IndexExclusive, NoLeak, UsedIsMarked, Using,
     Waiting
<1>4. NoLeak' /\ UsedIsMarked'
  BY DEF TypeOK, IndexInUse, IndexExclusive, NoLeak, UsedIsMarked, Using,
     Waiting
<1>5. Mutexes'
  BY NoOneAssumption DEF TypeOK, Mutexes
<1>6. ScanFinds'
  BY <1>0, <1>a, <1>b DEF TypeOK, Mutexes, ScanFinds
<1>7. StatFollowsPc'
  BY <1>0, <1>b, IdxFacts DEF TypeOK, IndexInUse, IndexExclusive,
     StatFollowsPc, Using, Waiting, WKC, NOFRAME
<1>8. BuffersOwn' /\ OwnAnswer'
  BY <1>0, <1>b, IdxFacts DEF TypeOK, IndexInUse, IndexExclusive,
     StatFollowsPc, BuffersOwn, OwnAnswer, Using, Waiting, ReqOf
<1>9. FlightHasWaiter' /\ OneAnswer'
  BY <1>0, <1>b, IdxFacts DEF TypeOK, IndexInUse, IndexExclusive,
     FlightHasWaiter, OneAnswer, Using, Waiting, ReqOf, InFlight
<1>10. QED
  BY <1>1, <1>2, <1>3, <1>4, <1>5, <1>6, <1>7, <1>8, <1>9

LEMMA ReceiveOtherIInv ==
  ASSUME IInv, NEW s \in Slot, ReceiveOther(s)
  PROVE  IInv'
<1>. USE DEF IInv, ReceiveOther, Goto, bufVars, indexVars, portVars, netVars,
             slotVars, Mark, Missed, Complete, IsFiled, IsRequested, Free,
             FileMark, UnlockRx, ScanStart
<1>1. TypeOK'
  BY IdxFacts, NoOneAssumption, MaxBufAssumption DEF TypeOK, PCs, BufStat
<1>2. IndexInUse'
  BY DEF TypeOK, IndexInUse, Using, Waiting
<1>3. IndexExclusive'
  BY DEF TypeOK, IndexInUse, IndexExclusive, NoLeak, UsedIsMarked, Using,
     Waiting
<1>4. NoLeak' /\ UsedIsMarked'
  BY DEF TypeOK, IndexInUse, IndexExclusive, NoLeak, UsedIsMarked, Using,
     Waiting
<1>5. Mutexes'
  BY NoOneAssumption DEF TypeOK, Mutexes
<1>6. ScanFinds'
  BY DEF TypeOK, Mutexes, ScanFinds
<1>7. StatFollowsPc'
  BY DEF TypeOK, IndexInUse, IndexExclusive, StatFollowsPc, Using, Waiting
<1>8. BuffersOwn' /\ OwnAnswer'
  BY DEF TypeOK, IndexInUse, IndexExclusive, StatFollowsPc, BuffersOwn,
     OwnAnswer, Using, Waiting, ReqOf
<1>9. FlightHasWaiter' /\ OneAnswer'
  BY DEF TypeOK, IndexInUse, IndexExclusive, FlightHasWaiter, OneAnswer, Using,
     Waiting, ReqOf, InFlight
<1>10. QED
  BY <1>1, <1>2, <1>3, <1>4, <1>5, <1>6, <1>7, <1>8, <1>9

LEMMA ReceiveStrangeIInv ==
  ASSUME IInv, NEW s \in Slot, ReceiveStrange(s)
  PROVE  IInv'
<1>. USE DEF IInv, ReceiveStrange, Goto, bufVars, indexVars, portVars, netVars,
             slotVars, Mark, Missed, Complete, IsFiled, IsRequested, Free,
             FileMark, UnlockRx, ScanStart
<1>1. TypeOK'
  BY IdxFacts, NoOneAssumption, MaxBufAssumption DEF TypeOK, PCs, BufStat
<1>2. IndexInUse'
  BY DEF TypeOK, IndexInUse, Using, Waiting
<1>3. IndexExclusive'
  BY DEF TypeOK, IndexInUse, IndexExclusive, NoLeak, UsedIsMarked, Using,
     Waiting
<1>4. NoLeak' /\ UsedIsMarked'
  BY DEF TypeOK, IndexInUse, IndexExclusive, NoLeak, UsedIsMarked, Using,
     Waiting
<1>5. Mutexes'
  BY NoOneAssumption DEF TypeOK, Mutexes
<1>6. ScanFinds'
  BY DEF TypeOK, Mutexes, ScanFinds
<1>7. StatFollowsPc'
  BY DEF TypeOK, StatFollowsPc, Waiting, NOFRAME, OTHERFRAME
<1>8. BuffersOwn' /\ OwnAnswer'
  BY DEF TypeOK, IndexInUse, IndexExclusive, StatFollowsPc, BuffersOwn,
     OwnAnswer, Using, Waiting, ReqOf
<1>9. FlightHasWaiter' /\ OneAnswer'
  BY DEF TypeOK, IndexInUse, IndexExclusive, FlightHasWaiter, OneAnswer, Using,
     Waiting, ReqOf, InFlight
<1>10. QED
  BY <1>1, <1>2, <1>3, <1>4, <1>5, <1>6, <1>7, <1>8, <1>9

LEMMA FileIInv ==
  ASSUME IInv, NEW s \in Slot, File(s)
  PROVE  IInv'
<1>. USE DEF IInv, File, Goto, bufVars, indexVars, portVars, netVars, slotVars,
             Mark, Missed, Complete, IsFiled, IsRequested, Free, FileMark,
             UnlockRx, ScanStart
<1>0. PICK f \in tempbuf :
        /\ rxbuf' = [rxbuf EXCEPT ![f.idx] = f.req]
        /\ rxbufstat' = [rxbufstat EXCEPT ![f.idx] = "RCVD"]
  OBVIOUS
<1>a. /\ f \in Frame
      /\ rxbufstat[f.idx] = "TX"
      /\ \E t \in Slot : idx[t] = f.idx /\ ReqOf(t) = f.req /\ pc[t] \in Waiting
  BY <1>0 DEF TypeOK, FlightHasWaiter, InFlight
<1>b. f.idx \in Idx /\ f.req \in Req
  BY <1>a DEF Frame
<1>1. TypeOK'
  BY <1>0, <1>b, NoOneAssumption DEF TypeOK, PCs, BufStat
<1>2. IndexInUse'
  BY DEF TypeOK, IndexInUse, Using, Waiting
<1>3. IndexExclusive'
  BY DEF TypeOK, IndexInUse, IndexExclusive, NoLeak, UsedIsMarked, Using,
     Waiting
<1>4. NoLeak' /\ UsedIsMarked'
  BY <1>0, <1>a, <1>b DEF TypeOK, NoLeak, UsedIsMarked
<1>5. Mutexes'
  BY NoOneAssumption DEF TypeOK, Mutexes
<1>6. ScanFinds'
  BY <1>0, <1>a, <1>b DEF TypeOK, Mutexes, ScanFinds
<1>7. StatFollowsPc'
  BY <1>0, <1>a, <1>b, IdxFacts DEF TypeOK, IndexInUse, IndexExclusive,
     StatFollowsPc, Using, Waiting, NOFRAME, OTHERFRAME
<1>8. BuffersOwn' /\ OwnAnswer'
  BY <1>0, <1>a, <1>b, IdxFacts DEF TypeOK, IndexInUse, IndexExclusive,
     StatFollowsPc, BuffersOwn, OwnAnswer, Using, Waiting, ReqOf, NOFRAME,
     OTHERFRAME
<1>9. FlightHasWaiter' /\ OneAnswer'
  BY <1>0, <1>a, <1>b, IdxFacts
  DEF TypeOK, Mutexes, FlightHasWaiter, OneAnswer, Waiting, ReqOf, InFlight
<1>10. QED
  BY <1>1, <1>2, <1>3, <1>4, <1>5, <1>6, <1>7, <1>8, <1>9

LEMMA WaitOnIInv ==
  ASSUME IInv, NEW s \in Slot, WaitOn(s)
  PROVE  IInv'
<1>. USE DEF IInv, WaitOn, Goto, bufVars, indexVars, portVars, netVars,
             slotVars, Mark, Missed, Complete, IsFiled, IsRequested, Free,
             FileMark, UnlockRx, ScanStart
<1>1. TypeOK'
  BY IdxFacts, NoOneAssumption, MaxBufAssumption DEF TypeOK, PCs, BufStat
<1>2. IndexInUse'
  BY DEF TypeOK, IndexInUse, Using, Waiting
<1>3. IndexExclusive'
  BY DEF TypeOK, IndexInUse, IndexExclusive, NoLeak, UsedIsMarked, Using,
     Waiting
<1>4. NoLeak' /\ UsedIsMarked'
  BY DEF TypeOK, IndexInUse, IndexExclusive, NoLeak, UsedIsMarked, Using,
     Waiting
<1>5. Mutexes'
  BY NoOneAssumption DEF TypeOK, Mutexes
<1>6. ScanFinds'
  BY DEF TypeOK, Mutexes, ScanFinds
<1>7. StatFollowsPc'
  BY DEF TypeOK, IndexInUse, IndexExclusive, StatFollowsPc, Using, Waiting
<1>8. BuffersOwn' /\ OwnAnswer'
  BY DEF TypeOK, IndexInUse, IndexExclusive, StatFollowsPc, BuffersOwn,
     OwnAnswer, Using, Waiting, ReqOf
<1>9. FlightHasWaiter' /\ OneAnswer'
  BY DEF TypeOK, IndexInUse, IndexExclusive, FlightHasWaiter, OneAnswer, Using,
     Waiting, ReqOf, InFlight
<1>10. QED
  BY <1>1, <1>2, <1>3, <1>4, <1>5, <1>6, <1>7, <1>8, <1>9

LEMMA RetryIInv ==
  ASSUME IInv, NEW s \in Slot, Retry(s), NoFaults
  PROVE  IInv'
<1>. USE DEF IInv, Retry, Goto, bufVars, indexVars, portVars, netVars,
             slotVars, MayExpire, AnswerOnTheWay, NoFaults, Mark, Missed,
             Complete, IsFiled, IsRequested, Free, FileMark, UnlockRx, ScanStart
<1>1. TypeOK'
  BY IdxFacts, NoOneAssumption, MaxBufAssumption DEF TypeOK, PCs, BufStat
<1>2. IndexInUse'
  BY DEF TypeOK, IndexInUse, Using, Waiting
<1>3. IndexExclusive'
  BY DEF TypeOK, IndexInUse, IndexExclusive, NoLeak, UsedIsMarked, Using,
     Waiting
<1>4. NoLeak' /\ UsedIsMarked'
  BY DEF TypeOK, IndexInUse, IndexExclusive, NoLeak, UsedIsMarked, Using,
     Waiting
<1>5. Mutexes'
  BY NoOneAssumption DEF TypeOK, Mutexes
<1>6. ScanFinds'
  BY DEF TypeOK, Mutexes, ScanFinds
<1>7. StatFollowsPc'
  BY DEF TypeOK, IndexInUse, IndexExclusive, StatFollowsPc, Using, Waiting
<1>8. BuffersOwn' /\ OwnAnswer'
  BY DEF TypeOK, IndexInUse, IndexExclusive, StatFollowsPc, BuffersOwn,
     OwnAnswer, Using, Waiting, ReqOf
<1>9. FlightHasWaiter' /\ OneAnswer'
  BY DEF TypeOK, IndexInUse, IndexExclusive, FlightHasWaiter, OneAnswer, Using,
     Waiting, ReqOf, InFlight
<1>10. QED
  BY <1>1, <1>2, <1>3, <1>4, <1>5, <1>6, <1>7, <1>8, <1>9

LEMMA GiveUpIInv ==
  ASSUME IInv, NEW s \in Slot, GiveUp(s), NoFaults
  PROVE  IInv'
<1>. USE DEF IInv, GiveUp, Goto, bufVars, indexVars, portVars, netVars,
             slotVars, MayExpire, AnswerOnTheWay, NoFaults, Mark, Missed,
             Complete, IsFiled, IsRequested, Free, FileMark, UnlockRx, ScanStart
<1>1. TypeOK'
  BY IdxFacts, NoOneAssumption, MaxBufAssumption DEF TypeOK, PCs, BufStat
<1>2. IndexInUse'
  BY DEF TypeOK, IndexInUse, Using, Waiting
<1>3. IndexExclusive'
  BY DEF TypeOK, IndexInUse, IndexExclusive, NoLeak, UsedIsMarked, Using,
     Waiting
<1>4. NoLeak' /\ UsedIsMarked'
  BY DEF TypeOK, IndexInUse, IndexExclusive, NoLeak, UsedIsMarked, Using,
     Waiting
<1>5. Mutexes'
  BY NoOneAssumption DEF TypeOK, Mutexes
<1>6. ScanFinds'
  BY DEF TypeOK, Mutexes, ScanFinds
<1>7. StatFollowsPc'
  BY DEF TypeOK, StatFollowsPc, Waiting, WKC, NOFRAME, OTHERFRAME
<1>8. BuffersOwn' /\ OwnAnswer'
  BY DEF TypeOK, StatFollowsPc, BuffersOwn, OwnAnswer, Using, Waiting, ReqOf,
     WKC, NOFRAME, OTHERFRAME
<1>9. FlightHasWaiter' /\ OneAnswer'
  BY DEF TypeOK, IndexInUse, IndexExclusive, FlightHasWaiter, OneAnswer, Using,
     Waiting, ReqOf, InFlight
<1>10. QED
  BY <1>1, <1>2, <1>3, <1>4, <1>5, <1>6, <1>7, <1>8, <1>9

LEMMA ReleaseIInv ==
  ASSUME IInv, NEW s \in Slot, Release(s)
  PROVE  IInv'
<1>. USE DEF IInv, Release, Goto, bufVars, indexVars, portVars, netVars,
             slotVars, NextSegment, Mark, Missed, Complete, IsFiled,
             IsRequested, Free, FileMark, UnlockRx, ScanStart
<1>1. TypeOK'
  <2>1. gen' \in [Slot -> Gen]
    BY BoundAssumption DEF TypeOK, Gen
  <2>2. rt' \in [phase : {"send", "receive"}, seg : 1..(NSeg + 1)]
    BY NSegAssumption DEF TypeOK, Seg
  <2>3. QED
    BY <2>1, <2>2 DEF TypeOK, PCs, BufStat
<1>2. IndexInUse'
  BY DEF TypeOK, IndexInUse, Using, Waiting
<1>3. IndexExclusive'
  BY DEF TypeOK, IndexInUse, IndexExclusive, NoLeak, UsedIsMarked, Using,
     Waiting
<1>4. NoLeak' /\ UsedIsMarked'
  BY DEF TypeOK, IndexInUse, IndexExclusive, NoLeak, UsedIsMarked, Using,
     Waiting
<1>5. Mutexes'
  BY NoOneAssumption DEF TypeOK, Mutexes
<1>6. ScanFinds'
  BY DEF TypeOK, Mutexes, ScanFinds
<1>7. StatFollowsPc'
  BY IdxFacts DEF TypeOK, IndexInUse, IndexExclusive, StatFollowsPc, Using,
     Waiting, NOFRAME
<1>8. BuffersOwn' /\ OwnAnswer'
  BY DEF TypeOK, IndexInUse, IndexExclusive, StatFollowsPc, BuffersOwn,
     OwnAnswer, Using, Waiting, ReqOf
<1>9. FlightHasWaiter' /\ OneAnswer'
  BY DEF TypeOK, IndexInUse, IndexExclusive, FlightHasWaiter, OneAnswer, Using,
     Waiting, ReqOf, InFlight
<1>10. QED
  BY <1>1, <1>2, <1>3, <1>4, <1>5, <1>6, <1>7, <1>8, <1>9

LEMMA DeliverIInv ==
  ASSUME IInv, NEW f \in wire, Deliver(f)
  PROVE  IInv'
<1>. USE DEF IInv, Deliver, bufVars, portVars, slotVars
<1>1. f \in Frame /\ wire' \subseteq wire /\ sock' = sock \cup {f}
      /\ InFlight' = InFlight
  BY DEF TypeOK, InFlight
<1>2. TypeOK'
  BY <1>1 DEF TypeOK
<1>3. /\ IndexInUse' /\ IndexExclusive' /\ NoLeak' /\ UsedIsMarked' /\ Mutexes'
      /\ ScanFinds' /\ StatFollowsPc' /\ BuffersOwn' /\ OwnAnswer'
  BY DEF IndexInUse, IndexExclusive, NoLeak, UsedIsMarked, Mutexes, ScanFinds,
         StatFollowsPc, BuffersOwn, OwnAnswer, ReqOf
<1>4. FlightHasWaiter' /\ OneAnswer'
  BY <1>1 DEF FlightHasWaiter, OneAnswer, ReqOf
<1>5. QED
  BY <1>2, <1>3, <1>4

LEMMA NextIInv ==
  ASSUME NoFaults, IInv, [Next]_vars
  PROVE  IInv'
<1>1. CASE UNCHANGED vars
  BY <1>1 DEF vars, bufVars, indexVars, portVars, netVars, slotVars, IInv,
     TypeOK, IndexInUse,
     IndexExclusive, NoLeak, UsedIsMarked, Mutexes, ScanFinds, StatFollowsPc,
     BuffersOwn, FlightHasWaiter, OneAnswer, OwnAnswer, ReqOf, InFlight
<1>2. ASSUME NEW f \in wire, Deliver(f) PROVE IInv'
  BY <1>2, DeliverIInv
<1>3. ASSUME NEW s \in Slot, SlotStep(s) PROVE IInv'
  <2>1. ~OutframeFails(s)
    BY DEF NoFaults, OutframeFails
  <2>2. QED
    BY <1>3, <2>1, StartIInv, LockIndexIInv, ScanNextIInv, ScanTakeIInv,
       SetupIInv, OutframeIInv, TakeFiledIInv, NotFiledIInv,
       ReceiveNothingIInv, ReceiveOwnIInv, ReceiveOtherIInv,
       ReceiveStrangeIInv, FileIInv, WaitOnIInv, RetryIInv, GiveUpIInv,
       ReleaseIInv DEF SlotStep, Inframe
<1>4. QED
  BY <1>1, <1>2, <1>3 DEF Next

(* The inductive invariant holds throughout: every part of it. *)
THEOREM Inductive == ASSUME NoFaults PROVE Spec => []IInv
<1>1. Init => IInv
  BY InitIInv
<1>2. IInv /\ [Next]_vars => IInv'
  BY NextIInv
<1>3. QED
  BY <1>1, <1>2, PTL DEF Spec

(* The variables keep their types. *)
THEOREM TypeCorrect == ASSUME NoFaults PROVE Spec => []TypeOK
<1>1. IInv => TypeOK
  BY DEF IInv
<1>2. QED
  BY <1>1, Inductive, PTL

(* ecx_getindex never hands out an index somebody uses, although it would  *)
(* do so after a full turn over busy entries: with an entry for every slot *)
(* it always finds an unused one.                                          *)
THEOREM Exclusive == ASSUME NoFaults PROVE Spec => []IndexExclusive
<1>1. IInv => IndexExclusive
  BY DEF IInv
<1>2. QED
  BY <1>1, Inductive, PTL

(* No index is lost: what is marked as used is used, and what is used is   *)
(* marked.                                                                 *)
THEOREM NothingLeaks == ASSUME NoFaults PROVE Spec => [](NoLeak /\ UsedIsMarked)
<1>1. IInv => NoLeak /\ UsedIsMarked
  BY DEF IInv
<1>2. QED
  BY <1>1, Inductive, PTL

(* Every answer that comes back is awaited by the request it answers. *)
THEOREM Awaited == ASSUME NoFaults PROVE Spec => []AnswerExpected
<1>1. IInv => AnswerExpected
  BY DEF IInv, FlightHasWaiter, AnswerExpected
<1>2. QED
  BY <1>1, Inductive, PTL

(* No request is given the answer to another one. *)
THEOREM AnswersMatch == ASSUME NoFaults PROVE Spec => []OwnAnswer
<1>1. IInv => OwnAnswer
  BY DEF IInv
<1>2. QED
  BY <1>1, Inductive, PTL

-----------------------------------------------------------------------------
(* The driver implements FrameExchange.  An index is taken when the scan   *)
(* ends, an answer is given when it is found filed or read from the        *)
(* socket, and everything is over with the release; all else is invisible. *)
LEMMA StepSimulated ==
  ASSUME NoFaults, IInv, IInv', [Next]_vars
  PROVE  [Exchange!Next]_(Exchange!vars)
<1>. DEFINE got == [s \in Slot |-> IF pc[s] = "copy" /\ wkc[s] > NOFRAME
                                   THEN rxbuf[idx[s]] ELSE NoReq]
<1>. USE DEF IInv, Goto, bufVars, indexVars, portVars, netVars, slotVars, Mark,
   Missed, Complete, IsFiled, IsRequested, Free, FileMark, UnlockRx, ScanStart
<1>1. CASE UNCHANGED vars
  BY <1>1 DEF vars, Exchange!vars
<1>2. ASSUME NEW s \in Slot, ScanTake(s) PROVE Exchange!Begin(s)
  <2>1. got' = got
    BY <1>2 DEF ScanTake, TypeOK
  <2>2. idx[s] = NoIdx
    BY <1>2 DEF ScanTake, IndexInUse, Using, Waiting
  <2>3. scan.idx \in Idx /\ \A t \in Slot : idx[t] # scan.idx
    <3>1. rxbufstat[scan.idx] = "EMPTY" /\ scan.idx \in Idx
      BY <1>2, TakesUnused
    <3>2. QED
      BY <3>1, IdxFacts DEF UsedIsMarked
  <2>4. QED
    BY <1>2, <2>1, <2>2, <2>3 DEF ScanTake, Exchange!Begin
<1>3. ASSUME NEW s \in Slot, TakeFiled(s) \/ ReceiveOwn(s)
      PROVE  Exchange!Obtain(s)
  <2>1. idx[s] # NoIdx /\ pc[s] # "copy" /\ got[s] = NoReq
    BY <1>3 DEF TakeFiled, ReceiveOwn, IndexInUse, Using, Waiting
  <2>2. pc'[s] = "copy" /\ wkc'[s] > NOFRAME
    BY <1>3 DEF TakeFiled, ReceiveOwn, TypeOK, WKC, NOFRAME
  <2>3. got'[s] = <<s, gen[s]>>
    BY <1>3, <2>2 DEF OwnAnswer, ReqOf, TakeFiled, ReceiveOwn
  <2>4. ASSUME NEW t \in Slot \ {s} PROVE got'[t] = got[t]
    <3>1. CASE pc[t] = "copy"
      <4>1. idx[t] \in Idx /\ idx[t] # idx[s]
        BY <2>1, <3>1, IdxFacts DEF TypeOK, IndexInUse, IndexExclusive, Using
      <4>2. rxbuf'[idx[t]] = rxbuf[idx[t]]
        BY <1>3, <4>1 DEF TakeFiled, ReceiveOwn, TypeOK
      <4>3. QED
        BY <1>3, <3>1, <4>2 DEF TakeFiled, ReceiveOwn, TypeOK
    <3>2. CASE pc[t] # "copy"
      BY <1>3, <3>2 DEF TakeFiled, ReceiveOwn, TypeOK
    <3>3. QED
      BY <3>1, <3>2
  <2>5. got' = [got EXCEPT ![s] = <<s, gen[s]>>]
    BY <2>3, <2>4
  <2>6. UNCHANGED <<idx, gen>>
    BY <1>3 DEF TakeFiled, ReceiveOwn
  <2>7. QED
    BY <2>1, <2>5, <2>6 DEF Exchange!Obtain
<1>4. ASSUME NEW s \in Slot, Release(s) PROVE Exchange!End(s)
  <2>1. idx[s] # NoIdx
    BY <1>4 DEF Release, IndexInUse, Using
  <2>2. got' = [got EXCEPT ![s] = NoReq]
    BY <1>4 DEF Release, TypeOK
  <2>3. QED
    BY <1>4, <2>1, <2>2 DEF Release, Exchange!End
<1>5. ASSUME NEW s \in Slot,
             \/ Start(s) \/ LockIndex(s) \/ ScanNext(s) \/ Setup(s)
             \/ Outframe(s) \/ NotFiled(s) \/ ReceiveNothing(s)
             \/ ReceiveOther(s) \/ ReceiveStrange(s) \/ WaitOn(s) \/ Retry(s)
             \/ GiveUp(s) \/ File(s)
      PROVE  UNCHANGED Exchange!vars
  <2>1. UNCHANGED <<idx, gen>>
    BY <1>5 DEF Start, LockIndex, ScanNext, Setup, Outframe, NotFiled,
       ReceiveNothing, ReceiveOther, ReceiveStrange, WaitOn, Retry, GiveUp, File
  <2>2. CASE File(s)
    <3>1. PICK f \in tempbuf : rxbuf' = [rxbuf EXCEPT ![f.idx] = f.req]
      BY <2>2 DEF File
    <3>2. rxbufstat[f.idx] = "TX"
      BY <3>1 DEF FlightHasWaiter, InFlight
    <3>3. QED
      BY <2>1, <2>2, <3>1, <3>2 DEF File, TypeOK, StatFollowsPc, Exchange!vars
  <2>3. CASE ~File(s)
    <3>1. rxbuf' = rxbuf
      BY <1>5, <2>3 DEF Start, LockIndex, ScanNext, Setup, Outframe, NotFiled,
         ReceiveNothing, ReceiveOther, ReceiveStrange, WaitOn, Retry, GiveUp
    <3>2. \A t \in Slot : (pc[t] = "copy" /\ wkc[t] > NOFRAME)
                          <=> (pc'[t] = "copy" /\ wkc'[t] > NOFRAME)
      BY <1>5, <2>3 DEF Start, LockIndex, ScanNext, Setup, Outframe, AfterSend,
         NotFiled, ReceiveNothing, ReceiveOther, ReceiveStrange, WaitOn, Retry,
         GiveUp, TypeOK, StatFollowsPc, NOFRAME, OTHERFRAME, WKC
    <3>3. QED
      BY <2>1, <3>1, <3>2 DEF Exchange!vars
  <2>4. QED
    BY <2>2, <2>3
<1>6. ASSUME NEW f \in wire, Deliver(f) PROVE UNCHANGED Exchange!vars
  BY <1>6 DEF Deliver, Exchange!vars
<1>7. \A s \in Slot : ~OutframeFails(s)
  BY DEF NoFaults, OutframeFails
<1>8. QED
  BY <1>1, <1>2, <1>3, <1>4, <1>5, <1>6, <1>7
  DEF Next, SlotStep, Inframe, Exchange!Next

(* Whoever uses the driver sees exclusive indices, its own answers, and    *)
(* nothing else.                                                           *)
THEOREM Implements == ASSUME NoFaults PROVE Spec => ExchangeSpec
<1>1. Init => Exchange!Init
  BY DEF Init, Exchange!Init
<1>2. IInv /\ IInv' /\ [Next]_vars => [Exchange!Next]_(Exchange!vars)
  BY StepSimulated
<1>3. QED
  BY <1>1, <1>2, Inductive, PTL DEF Spec, ExchangeSpec, Exchange!Spec
===============================================================================
