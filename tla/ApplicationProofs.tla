----------------------------- MODULE ApplicationProofs -----------------------------
(***************************************************************************)
(* Proofs about the application: its threads and the bring-up of its       *)
(* segment, each model in behaviours of its own.                           *)
(*                                                                         *)
(* RTthread and the main thread of simple_test, for bytes of any size (the *)
(* code: 256), any number of lost frames and any number of cycles: the     *)
(* control words that are sent.                                            *)
(*                                                                         *)
(* The thread ecatcheck, for any number of slaves: their addresses while   *)
(* it recovers them. Whatever fails: a segment that has all its addresses  *)
(* keeps them. And where slaves lose their power, no slave gets the        *)
(* address of another one and none keeps EC_TEMPNODE, provided that slaves *)
(* can be told apart, are unplugged in one go, and no datagram is lost.    *)
(* The provisos are needed: of two slaves of one kind the wrong one is     *)
(* recovered, and a slave that is unplugged while it has EC_TEMPNODE, or   *)
(* whose clean-up is lost, may share the address of the next one that is   *)
(* recovered.                                                              *)
(*                                                                         *)
(* The bring-up, for any number of slaves of any kinds wired to any tree:  *)
(* the list is the segment, slaves reach PRE_OP, clocks are chained, and   *)
(* pulses fall together.                                                   *)
(***************************************************************************)
EXTENDS SimpleTest, SlaveMonitor, BringUp, FiniteSetTheorems, TLAPS

(* What division by n gives. *)
LEMMA Division ==
  ASSUME NEW a \in Int, NEW n \in Nat, n > 0
  PROVE  /\ a % n \in 0..(n - 1) /\ a \div n \in Int
         /\ a = n * (a \div n) + (a % n)
BY SMTT(30)

(* Different multiples of n are at least n apart. *)
LEMMA Multiples ==
  ASSUME NEW p \in Int, NEW q \in Int, NEW n \in Nat, n > 0, p < q
  PROVE  n * p + n <= n * q
<1>1. PICK k \in Nat : q = p + 1 + k
  <2>1. q - p - 1 \in Nat
    OBVIOUS
  <2>2. q = p + 1 + (q - p - 1)
    OBVIOUS
  <2>3. QED
    BY <2>1, <2>2
<1>2. n * k >= 0
  BY SMTT(20)
<1>3. n * (p + 1 + k) = n * p + n + n * k
  BY SMTT(20)
<1>4. QED
  BY <1>1, <1>2, <1>3

(* The remainder is unique. *)
LEMMA Remainder ==
  ASSUME NEW p \in Int, NEW q \in Int, NEW n \in Nat, n > 0,
         NEW r \in 0..(n - 1), NEW s \in 0..(n - 1), n * p + r = n * q + s
  PROVE  r = s
<1>1. n * p \in Int /\ n * q \in Int
  OBVIOUS
<1>2. ~(p < q) /\ ~(q < p)
  BY <1>1, Multiples
<1>3. QED
  BY <1>1, <1>2

(* Counting modulo n: the remainder of a successor depends on the          *)
(* remainder alone.                                                        *)
LEMMA SuccessorMod ==
  ASSUME NEW a \in Nat, NEW n \in Nat, n > 0
  PROVE  ((a % n) + 1) % n = (a + 1) % n
<1> DEFINE b == (a % n) + 1
<1>1. a % n \in Int /\ a \div n \in Int /\ a = n * (a \div n) + (a % n)
  BY Division
<1>2. /\ b \in Int /\ b % n \in 0..(n - 1) /\ b \div n \in Int
      /\ b = n * (b \div n) + (b % n)
  BY <1>1, Division
<1>3. /\ (a + 1) % n \in 0..(n - 1) /\ (a + 1) \div n \in Int
      /\ a + 1 = n * ((a + 1) \div n) + ((a + 1) % n)
  BY Division
<1>4. PICK q \in Int : q = (a \div n) + (b \div n)
  BY <1>1, <1>2
<1>5. n * q = n * (a \div n) + n * (b \div n)
  BY <1>1, <1>2, <1>4, SMTT(20)
<1>6. n * (a \div n) \in Int /\ n * (b \div n) \in Int
  BY <1>1, <1>2
<1>7. n * q + (b % n) = a + 1
  <2> HIDE DEF b
  <2>1. b = (a % n) + 1
    BY DEF b
  <2>2. QED
    BY <1>1, <1>2, <1>5, <1>6, <2>1
<1>8. n * q + (b % n) = n * ((a + 1) \div n) + ((a + 1) % n)
  BY <1>3, <1>7
<1>9. QED
  BY <1>2, <1>3, <1>4, <1>8, Remainder

-----------------------------------------------------------------------------
(* DriveEnable and modifyControlWord make control words. *)
LEMMA CommandType ==
  ASSUME NEW status \in DriveState \cup {"unknown"}, NEW w \in CtlWd
  PROVE  Command(status, w) \in CtlWd /\ WithReset(w) \in CtlWd
<1>1. WithReset(w) \in CtlWd
  BY DEF WithReset, CtlWd
<1>2. {6, 7, 15} \subseteq CtlWd
  BY DEF CtlWd, Word
<1>3. QED
  BY <1>1, <1>2 DEF Command, DriveState

(* What updateStatus makes of a status word is one of its states. *)
LEMMA DecodedType ==
  ASSUME NEW status
  PROVE  Decoded(status) \in DriveState \cup {"unknown"}
BY DEF Decoded

(* The drive is in a state of its profile, after any control word. *)
LEMMA ObeysType ==
  ASSUME NEW d \in DriveState, NEW w
  PROVE  Obeys(d, w) \in DriveState
<1> DEFINE b0 == Bit(w, 0)  b1 == Bit(w, 1)  b2 == Bit(w, 2)
           b3 == Bit(w, 3)  b7 == Bit(w, 7)
<1>1. /\ b0 \in BOOLEAN /\ b1 \in BOOLEAN /\ b2 \in BOOLEAN
      /\ b3 \in BOOLEAN /\ b7 \in BOOLEAN
  BY DEF Bit
<1>2. QED
  BY <1>1 DEF Obeys, DriveState

(* It shows bits of the low byte. *)
LEMMA StatusType ==
  ASSUME drive \in DriveState, NEW status \in StatusWords
  PROVE  status \subseteq 0..7
<1>1. StatusBits \in {{}, {6}, {0, 5}, {0, 1, 5}, {0, 1, 2, 5}, {0, 1, 2},
                     {0, 1, 2, 3}, {3}}
  BY Zenon DEF StatusBits, DriveState
<1>2. StatusBits \subseteq 0..7
  BY <1>1
<1>3. PICK free \in {{}, {5}} :
        status = StatusBits \cup (IF warning THEN {7} ELSE {}) \cup free
  BY Zenon DEF StatusWords
<1>4. (IF warning THEN {7} ELSE {}) \subseteq 0..7 /\ free \subseteq 0..7
  <2>1. {7} \subseteq 0..7 /\ {5} \subseteq 0..7 /\ {} \subseteq 0..7
    OBVIOUS
  <2>2. QED
    BY <2>1, <1>3, Zenon
<1>5. QED
  BY <1>2, <1>3, <1>4, Zenon

-----------------------------------------------------------------------------
(* Where a frame is while RTthread is somewhere; that a cycle in progress  *)
(* was begun with dorun set and nothing clears it any more.                *)
FrameFollows ==
  /\ mpc = "create" => rpc = "none"
  /\ mpc = "create" \/ rpc = "start" => frame.at = "none"
  /\ rpc \in {"loop", "receive", "enable", "copy"} => frame.at # "none"
  /\ rpc = "send" => frame.at \in {"none", "lost"}
  /\ rpc \in {"receive", "send"} => dorun > 0

(* The control word in the IOmap and in the frame, with LRW.  It is one    *)
(* ahead from the begin of a cycle until the answer, and one behind when a *)
(* frame is lost until the next cycle begins.                              *)
Ahead  == rpc = "receive" /\ frame.at # "lost"
Behind == rpc \notin {"receive", "send"} /\ frame.at = "lost"
Counts ==
  ~blockLRW =>
    /\ Ahead => ioCtl = (losses + 1) % Byte
    /\ Behind => (ioCtl + 1) % Byte = losses % Byte
    /\ ~Ahead /\ ~Behind => ioCtl = losses % Byte
    /\ frame.at \in {"cable", "back"} => frame.ctl = losses % Byte

IInv == TypeOK /\ FrameFollows /\ Counts

(* Nothing is lost at first. *)
LEMMA ZeroMod == 0 % Byte = 0
<1> USE SimpleTestConstants
<1>1. 0 % Byte \in 0..(Byte - 1) /\ 0 \div Byte \in Int
  BY Division
<1>2. 0 = Byte * (0 \div Byte) + (0 % Byte)
  BY Division
<1>3. Byte * 0 + 0 = Byte * (0 \div Byte) + (0 % Byte)
  BY <1>2
<1>4. QED
  BY <1>1, <1>3, Remainder

(* The test of a bit is a flag. *)
LEMMA Membership == ASSUME NEW x, NEW S PROVE (x \in S) \in BOOLEAN
BY SMT

(* The ranges of the counters. *)
LEMMA Ranges ==
  /\ 0 \in 0..MaxRun /\ 1 \in 0..MaxRun /\ 0 \in 0..(Byte - 1)
  /\ 0 \in 0..MaxLoss /\ 0 \in 0..MaxFault
  /\ \A b \in 0..(Byte - 1) : (b + 1) % Byte \in 0..(Byte - 1)
  /\ \A n \in 0..MaxRun : n < MaxRun => n + 1 \in 0..MaxRun
  /\ \A n \in 0..MaxLoss : n < MaxLoss => n + 1 \in 0..MaxLoss
  /\ \A n \in 0..MaxFault : n < MaxFault => n + 1 \in 0..MaxFault
<1> USE SimpleTestConstants
<1>1. \A b \in 0..(Byte - 1) : (b + 1) % Byte \in 0..(Byte - 1)
  BY Division
<1>2. QED
  BY <1>1

(* The invariant holds when RTthread is about to be created. *)
LEMMA InitIInv == Init => IInv
<1> SUFFICES ASSUME Init PROVE IInv
  OBVIOUS
<1> USE SimpleTestConstants DEF Init
<1>1. TypeOK
  BY Ranges, Zenon DEF TypeOK, NoFrame, DriveState, CtlWd, Word
<1>2. FrameFollows
  BY DEF FrameFollows, NoFrame
<1>3. Counts
  BY ZeroMod DEF Counts, Ahead, Behind, NoFrame
<1>4. QED
  BY <1>1, <1>2, <1>3 DEF IInv

(* Every step keeps the types. *)
LEMMA TypeStep == TypeOK /\ [Next]_vars => TypeOK'
<1> SUFFICES ASSUME TypeOK, [Next]_vars PROVE TypeOK'
  OBVIOUS
<1> USE DEF TypeOK, mainVars, cmdVars, statVars, imageVars, slaveVars, bounds
<1>1. CASE Create
  BY <1>1 DEF Create
<1>2. CASE Request
  BY <1>2 DEF Request
<1>3. CASE Activate
  BY <1>3, Ranges, Zenon DEF Activate
<1>4. CASE Operational
  BY <1>4 DEF Operational
<1>5. CASE GiveUp
  BY <1>5 DEF GiveUp
<1>6. CASE PrintReads
  BY <1>6 DEF PrintReads
<1>7. CASE PrintResets
  <2>1. uiCtlWd' \in CtlWd /\ mainCtl' \in CtlWd
    <3>1. mainCtl \in CtlWd /\ "fault" \in DriveState
      BY DEF DriveState
    <3>2. uiCtlWd' = WithReset(mainCtl) /\ mainCtl' = 0
      BY <1>7 DEF PrintResets
    <3>3. 0 \in CtlWd
      BY DEF CtlWd, Word
    <3>4. QED
      BY <3>1, <3>2, <3>3, CommandType
  <2>2. QED
    BY <1>7, <2>1 DEF PrintResets
<1>8. CASE PrintCopies
  BY <1>8 DEF PrintCopies
<1>9. CASE Prologue
  BY <1>9, Ranges, Zenon DEF Prologue, Sent, SentCtl
<1>10. CASE Cycle
  BY <1>10, Ranges, Zenon DEF Cycle, NextByte
<1>11. CASE NoCycle
  BY <1>11 DEF NoCycle
<1>12. CASE Receive
  BY <1>12, Ranges, Zenon DEF Receive, CopiedBack, NoFrame
<1>13. CASE ReceiveNothing
  BY <1>13 DEF ReceiveNothing
<1>14. CASE SendAndUpdate
  <2>1. uiDriveStatus' \in DriveState \cup {"unknown"}
    BY <1>14, DecodedType DEF SendAndUpdate
  <2>2. uiErrorFlag' \in BOOLEAN
    <3>1. uiErrorFlag' = (7 \in inputs)
      BY <1>14, Zenon DEF SendAndUpdate
    <3>2. (7 \in inputs) \in BOOLEAN
      BY Membership, Zenon
    <3>3. QED
      BY <3>1, <3>2, Zenon
  <2>3. frame' = [at |-> "cable", ctl |-> ioCtl, status |-> {}]
    BY <1>14, Zenon DEF SendAndUpdate, Sent, SentCtl
  <2>4. frame' \in [at : {"none", "cable", "back", "lost"},
                    ctl : 0..(Byte - 1), status : SUBSET (0..7)]
    BY <2>3, Zenon
  <2>5. QED
    BY <1>14, <2>1, <2>2, <2>4, Zenon DEF SendAndUpdate
<1>15. CASE Enable
  <2>1. uiCtlWd' \in CtlWd
    BY <1>15, CommandType DEF Enable
  <2>2. QED
    BY <1>15, <2>1 DEF Enable
<1>16. CASE NoEnable
  BY <1>16 DEF NoEnable
<1>17. CASE Copy
  BY <1>17 DEF Copy
<1>18. CASE Pass
  <2>1. PICK status \in StatusWords :
          frame' = [frame EXCEPT !.at = "back", !.status = status]
    BY <1>18 DEF Pass
  <2>2. status \subseteq 0..7
    BY StatusType
  <2>3. drive' \in DriveState
    BY <1>18, ObeysType DEF Pass
  <2>4. QED
    BY <1>18, <2>1, <2>2, <2>3 DEF Pass
<1>19. CASE Lose
  BY <1>19, Ranges, Zenon DEF Lose, NoFrame
<1>20. CASE SlaveStarts
  BY <1>20 DEF SlaveStarts
<1>21. CASE Watchdog
  BY <1>21 DEF Watchdog
<1>22. CASE Drive
  <2>1. drive' \in DriveState
    BY <1>22, Zenon DEF Drive, DriveState
  <2>2. warning' \in BOOLEAN
    BY <1>22, Zenon DEF Drive
  <2>3. faults' \in 0..MaxFault
    BY <1>22, Ranges, Zenon DEF Drive
  <2>4. QED
    BY <1>22, <2>1, <2>2, <2>3, Zenon DEF Drive
<1>23. CASE UNCHANGED vars
  BY <1>23 DEF vars
<1>24. QED
    BY <1>1, <1>2, <1>3, <1>4, <1>5, <1>6, <1>7, <1>8, <1>9, <1>10, <1>11,
     <1>12, <1>13, <1>14, <1>15, <1>16, <1>17, <1>18, <1>19, <1>20, <1>21,
     <1>22, <1>23 DEF Next, Main, RTthread, Ended

(* Every step keeps the frame where RTthread expects it. *)
LEMMA FollowStep == TypeOK /\ FrameFollows /\ [Next]_vars => FrameFollows'
<1> SUFFICES ASSUME TypeOK, FrameFollows, [Next]_vars PROVE FrameFollows'
  OBVIOUS
<1> USE DEF FrameFollows, mainVars, cmdVars, statVars, imageVars, slaveVars,
            bounds
<1>1. CASE Create
  BY <1>1 DEF Create
<1>2. CASE Request
  BY <1>2 DEF Request
<1>3. CASE Activate
  BY <1>3 DEF Activate
<1>4. CASE Operational
  BY <1>4 DEF Operational
<1>5. CASE GiveUp
  BY <1>5 DEF GiveUp, Exchanging, Active
<1>6. CASE PrintReads
  BY <1>6 DEF PrintReads
<1>7. CASE PrintResets
  BY <1>7 DEF PrintResets
<1>8. CASE PrintCopies
  BY <1>8 DEF PrintCopies
<1>9. CASE Prologue
  BY <1>9 DEF Prologue, Sent, SentCtl
<1>10. CASE Cycle
  <2>1. dorun \in Int
    <3>1. dorun \in 0..MaxRun
      BY Zenon DEF TypeOK
    <3>2. QED
      BY <3>1
  <2>2. dorun' > 0
    BY <1>10, <2>1 DEF Cycle, Active
  <2>3. QED
    BY <1>10, <2>2, Zenon DEF Cycle
<1>11. CASE NoCycle
  BY <1>11 DEF NoCycle
<1>12. CASE Receive
  BY <1>12 DEF Receive, NoFrame
<1>13. CASE ReceiveNothing
  BY <1>13 DEF ReceiveNothing
<1>14. CASE SendAndUpdate
  BY <1>14 DEF SendAndUpdate, Sent, SentCtl
<1>15. CASE Enable
  BY <1>15 DEF Enable
<1>16. CASE NoEnable
  BY <1>16 DEF NoEnable
<1>17. CASE Copy
  BY <1>17 DEF Copy
<1>18. CASE Pass
  BY <1>18 DEF Pass
<1>19. CASE Lose
  BY <1>19 DEF Lose, NoFrame
<1>20. CASE SlaveStarts
  BY <1>20 DEF SlaveStarts
<1>21. CASE Watchdog
  BY <1>21 DEF Watchdog
<1>22. CASE Drive
  BY <1>22 DEF Drive
<1>23. CASE UNCHANGED vars
  BY <1>23 DEF vars
<1>24. QED
    BY <1>1, <1>2, <1>3, <1>4, <1>5, <1>6, <1>7, <1>8, <1>9, <1>10, <1>11,
     <1>12, <1>13, <1>14, <1>15, <1>16, <1>17, <1>18, <1>19, <1>20, <1>21,
     <1>22, <1>23 DEF Next, Main, RTthread, Ended

(* Every step keeps the count: the begin of a cycle and a loss add one to  *)
(* either side, an answer takes back what the cycle added.                 *)
LEMMA CountStep ==
  TypeOK /\ FrameFollows /\ Counts /\ [Next]_vars => Counts'
<1> SUFFICES ASSUME TypeOK, FrameFollows, Counts, [Next]_vars PROVE Counts'
  OBVIOUS
<1>a. /\ losses \in Nat /\ ioCtl \in 0..(Byte - 1) /\ dorun \in Int
      /\ frame \in [at : {"none", "cable", "back", "lost"},
                     ctl : 0..(Byte - 1), status : SUBSET (0..7)]
  <2>1. /\ losses \in 0..MaxLoss /\ ioCtl \in 0..(Byte - 1)
        /\ dorun \in 0..MaxRun
        /\ frame \in [at : {"none", "cable", "back", "lost"},
                       ctl : 0..(Byte - 1), status : SUBSET (0..7)]
    BY Zenon DEF TypeOK
  <2>2. QED
    BY <2>1
<1>b. ((losses % Byte) + 1) % Byte = (losses + 1) % Byte
  <2>1. Byte \in Nat /\ Byte > 0
    BY SimpleTestConstants
  <2>2. QED
    BY <1>a, <2>1, SuccessorMod, Zenon
<1> USE DEF Counts, Ahead, Behind, FrameFollows, mainVars, cmdVars, statVars,
    imageVars, slaveVars, bounds
<1>1. CASE Create
  BY <1>1 DEF Create
<1>2. CASE Request
  BY <1>2 DEF Request
<1>3. CASE Activate
  BY <1>3 DEF Activate
<1>4. CASE Operational
  BY <1>4 DEF Operational
<1>5. CASE GiveUp
  BY <1>5 DEF GiveUp, Exchanging, Active
<1>6. CASE PrintReads
  BY <1>6 DEF PrintReads
<1>7. CASE PrintResets
  BY <1>7 DEF PrintResets
<1>8. CASE PrintCopies
  BY <1>8 DEF PrintCopies
<1>9. CASE Prologue
  BY <1>9 DEF Prologue, Sent, SentCtl
<1>10. CASE Cycle
  <2>1. ioCtl' = (ioCtl + 1) % Byte
    BY <1>10 DEF Cycle, NextByte
  <2>2. QED
    BY <1>10, <1>a, <1>b, <2>1 DEF Cycle
<1>11. CASE NoCycle
  BY <1>11 DEF NoCycle
<1>12. CASE Receive
  BY <1>12 DEF Receive, NoFrame, CopiedBack
<1>13. CASE ReceiveNothing
  BY <1>13 DEF ReceiveNothing
<1>14. CASE SendAndUpdate
  BY <1>14 DEF SendAndUpdate, Sent, SentCtl
<1>15. CASE Enable
  BY <1>15 DEF Enable
<1>16. CASE NoEnable
  BY <1>16 DEF NoEnable
<1>17. CASE Copy
  BY <1>17 DEF Copy
<1>18. CASE Pass
  <2>1. frame'.at = "back" /\ frame'.ctl = frame.ctl
    BY <1>18, <1>a DEF Pass
  <2>2. QED
    BY <1>18, <2>1 DEF Pass
<1>19. CASE Lose
  <2>1. frame.at # "lost" /\ frame'.at = "lost" /\ losses' = losses + 1
    BY <1>19 DEF Lose, NoFrame
  <2>2. QED
    BY <1>19, <1>a, <1>b, <2>1 DEF Lose
<1>20. CASE SlaveStarts
  BY <1>20 DEF SlaveStarts
<1>21. CASE Watchdog
  BY <1>21 DEF Watchdog
<1>22. CASE Drive
  BY <1>22 DEF Drive
<1>23. CASE UNCHANGED vars
  BY <1>23 DEF vars
<1>24. QED
    BY <1>1, <1>2, <1>3, <1>4, <1>5, <1>6, <1>7, <1>8, <1>9, <1>10, <1>11,
     <1>12, <1>13, <1>14, <1>15, <1>16, <1>17, <1>18, <1>19, <1>20, <1>21,
     <1>22, <1>23 DEF Next, Main, RTthread, Ended

(* Every step keeps the invariant. *)
LEMMA NextIInv == IInv /\ [Next]_vars => IInv'
BY TypeStep, FollowStep, CountStep DEF IInv

-----------------------------------------------------------------------------
(* Types, where the frame is, and the count hold throughout. *)
THEOREM Inductive == Spec => []IInv
<1>1. Init => IInv
  BY InitIInv
<1>2. IInv /\ [Next]_vars => IInv'
  BY NextIInv
<1>3. QED
  BY <1>1, <1>2, PTL DEF Spec

(* The variables of both threads, the images and the drive keep their      *)
(* types.                                                                  *)
THEOREM TypeCorrect == Spec => []TypeOK
<1>1. IInv => TypeOK
  BY DEF IInv
<1>2. QED
  BY <1>1, Inductive, PTL

(* With LRW, what goes to the drive as control word is the number of lost  *)
(* frames, whatever the application commands: for bytes of 256 values, and *)
(* any number of losses.                                                   *)
THEOREM SentIsLossCount == Spec => []CtlCountsLosses
<1>1. IInv => CtlCountsLosses
  BY DEF IInv, Counts, Ahead, Behind, CtlCountsLosses, SentCtl
<1>2. QED
  BY <1>1, Inductive, PTL

-----------------------------------------------------------------------------
(* What updateStatus compares, bit by bit. *)
LEMMA Patterns ==
  ASSUME NEW status
  PROVE  /\ Matches(status, "not ready") <=>
              0 \notin status /\ 1 \notin status
              /\ 2 \notin status /\ 3 \notin status /\ 6 \notin status
         /\ Matches(status, "switch on disabled") <=>
              0 \notin status /\ 1 \notin status
              /\ 2 \notin status /\ 3 \notin status /\ 6 \in status
         /\ Matches(status, "ready") <=>
              0 \in status /\ 1 \notin status /\ 2 \notin status
              /\ 3 \notin status /\ 5 \in status /\ 6 \notin status
         /\ Matches(status, "switched on") <=>
              0 \in status /\ 1 \in status /\ 2 \notin status
              /\ 3 \notin status /\ 5 \in status /\ 6 \notin status
         /\ Matches(status, "operation enabled") <=>
              0 \in status /\ 1 \in status /\ 2 \in status
              /\ 3 \notin status /\ 5 \in status /\ 6 \notin status
         /\ Matches(status, "quick stop") <=>
              0 \in status /\ 1 \in status /\ 2 \in status
              /\ 3 \notin status /\ 5 \notin status /\ 6 \notin status
         /\ Matches(status, "fault reaction") <=>
              0 \in status /\ 1 \in status /\ 2 \in status
              /\ 3 \in status /\ 5 \notin status /\ 6 \notin status
         /\ Matches(status, "fault") <=>
              0 \notin status /\ 1 \notin status
              /\ 2 \notin status /\ 3 \in status /\ 6 \notin status
<1>1. Matches(status, "not ready") <=>
        0 \notin status /\ 1 \notin status
        /\ 2 \notin status /\ 3 \notin status /\ 6 \notin status
  <2>1. Matches(status, "not ready") <=> status \cap {0, 1, 2, 3, 6} = {}
    BY Zenon DEF Matches, MaskSOD
  <2>2. status \cap {0, 1, 2, 3, 6} = {} =>
          0 \notin status /\ 1 \notin status
          /\ 2 \notin status /\ 3 \notin status /\ 6 \notin status
    OBVIOUS
  <2>3. 0 \notin status /\ 1 \notin status
        /\ 2 \notin status /\ 3 \notin status /\ 6 \notin status
        => status \cap {0, 1, 2, 3, 6} = {}
    OBVIOUS
  <2>4. QED
    BY <2>1, <2>2, <2>3, Zenon
<1>2. Matches(status, "switch on disabled") <=>
        0 \notin status /\ 1 \notin status
        /\ 2 \notin status /\ 3 \notin status /\ 6 \in status
  <2>1. Matches(status, "switch on disabled") <=> status \cap {0, 1, 2, 3, 6} = {6}
    BY Zenon DEF Matches, MaskSOD
  <2>2. status \cap {0, 1, 2, 3, 6} = {6} =>
          0 \notin status /\ 1 \notin status
          /\ 2 \notin status /\ 3 \notin status /\ 6 \in status
    OBVIOUS
  <2>3. 0 \notin status /\ 1 \notin status
        /\ 2 \notin status /\ 3 \notin status /\ 6 \in status
        => status \cap {0, 1, 2, 3, 6} = {6}
    OBVIOUS
  <2>4. QED
    BY <2>1, <2>2, <2>3, Zenon
<1>3. Matches(status, "ready") <=>
        0 \in status /\ 1 \notin status /\ 2 \notin status
        /\ 3 \notin status /\ 5 \in status /\ 6 \notin status
  <2>1. Matches(status, "ready") <=> status \cap {0, 1, 2, 3, 5, 6} = {0, 5}
    BY Zenon DEF Matches, MaskSOD
  <2>2. status \cap {0, 1, 2, 3, 5, 6} = {0, 5} =>
          0 \in status /\ 1 \notin status /\ 2 \notin status
          /\ 3 \notin status /\ 5 \in status /\ 6 \notin status
    OBVIOUS
  <2>3. 0 \in status /\ 1 \notin status /\ 2 \notin status
        /\ 3 \notin status /\ 5 \in status /\ 6 \notin status
        => status \cap {0, 1, 2, 3, 5, 6} = {0, 5}
    OBVIOUS
  <2>4. QED
    BY <2>1, <2>2, <2>3, Zenon
<1>4. Matches(status, "switched on") <=>
        0 \in status /\ 1 \in status /\ 2 \notin status
        /\ 3 \notin status /\ 5 \in status /\ 6 \notin status
  <2>1. Matches(status, "switched on") <=> status \cap {0, 1, 2, 3, 5, 6} = {0, 1, 5}
    BY Zenon DEF Matches, MaskSOD
  <2>2. status \cap {0, 1, 2, 3, 5, 6} = {0, 1, 5} =>
          0 \in status /\ 1 \in status /\ 2 \notin status
          /\ 3 \notin status /\ 5 \in status /\ 6 \notin status
    OBVIOUS
  <2>3. 0 \in status /\ 1 \in status /\ 2 \notin status
        /\ 3 \notin status /\ 5 \in status /\ 6 \notin status
        => status \cap {0, 1, 2, 3, 5, 6} = {0, 1, 5}
    OBVIOUS
  <2>4. QED
    BY <2>1, <2>2, <2>3, Zenon
<1>5. Matches(status, "operation enabled") <=>
        0 \in status /\ 1 \in status /\ 2 \in status
        /\ 3 \notin status /\ 5 \in status /\ 6 \notin status
  <2>1. Matches(status, "operation enabled") <=> status \cap {0, 1, 2, 3, 5, 6} = {0, 1, 2, 5}
    BY Zenon DEF Matches, MaskSOD
  <2>2. status \cap {0, 1, 2, 3, 5, 6} = {0, 1, 2, 5} =>
          0 \in status /\ 1 \in status /\ 2 \in status
          /\ 3 \notin status /\ 5 \in status /\ 6 \notin status
    OBVIOUS
  <2>3. 0 \in status /\ 1 \in status /\ 2 \in status
        /\ 3 \notin status /\ 5 \in status /\ 6 \notin status
        => status \cap {0, 1, 2, 3, 5, 6} = {0, 1, 2, 5}
    OBVIOUS
  <2>4. QED
    BY <2>1, <2>2, <2>3, Zenon
<1>6. Matches(status, "quick stop") <=>
        0 \in status /\ 1 \in status /\ 2 \in status
        /\ 3 \notin status /\ 5 \notin status /\ 6 \notin status
  <2>1. Matches(status, "quick stop") <=> status \cap {0, 1, 2, 3, 5, 6} = {0, 1, 2}
    BY Zenon DEF Matches, MaskSOD
  <2>2. status \cap {0, 1, 2, 3, 5, 6} = {0, 1, 2} =>
          0 \in status /\ 1 \in status /\ 2 \in status
          /\ 3 \notin status /\ 5 \notin status /\ 6 \notin status
    OBVIOUS
  <2>3. 0 \in status /\ 1 \in status /\ 2 \in status
        /\ 3 \notin status /\ 5 \notin status /\ 6 \notin status
        => status \cap {0, 1, 2, 3, 5, 6} = {0, 1, 2}
    OBVIOUS
  <2>4. QED
    BY <2>1, <2>2, <2>3, Zenon
<1>7. Matches(status, "fault reaction") <=>
        0 \in status /\ 1 \in status /\ 2 \in status
        /\ 3 \in status /\ 5 \notin status /\ 6 \notin status
  <2>1. Matches(status, "fault reaction") <=> status \cap {0, 1, 2, 3, 5, 6} = {0, 1, 2, 3}
    BY Zenon DEF Matches, MaskSOD
  <2>2. status \cap {0, 1, 2, 3, 5, 6} = {0, 1, 2, 3} =>
          0 \in status /\ 1 \in status /\ 2 \in status
          /\ 3 \in status /\ 5 \notin status /\ 6 \notin status
    OBVIOUS
  <2>3. 0 \in status /\ 1 \in status /\ 2 \in status
        /\ 3 \in status /\ 5 \notin status /\ 6 \notin status
        => status \cap {0, 1, 2, 3, 5, 6} = {0, 1, 2, 3}
    OBVIOUS
  <2>4. QED
    BY <2>1, <2>2, <2>3, Zenon
<1>8. Matches(status, "fault") <=>
        0 \notin status /\ 1 \notin status
        /\ 2 \notin status /\ 3 \in status /\ 6 \notin status
  <2>1. Matches(status, "fault") <=> status \cap {0, 1, 2, 3, 6} = {3}
    BY Zenon DEF Matches, MaskSOD
  <2>2. status \cap {0, 1, 2, 3, 6} = {3} =>
          0 \notin status /\ 1 \notin status
          /\ 2 \notin status /\ 3 \in status /\ 6 \notin status
    OBVIOUS
  <2>3. 0 \notin status /\ 1 \notin status
        /\ 2 \notin status /\ 3 \in status /\ 6 \notin status
        => status \cap {0, 1, 2, 3, 6} = {3}
    OBVIOUS
  <2>4. QED
    BY <2>1, <2>2, <2>3, Zenon
<1>9. QED
  BY <1>1, <1>2, <1>3, <1>4, <1>5, <1>6, <1>7, <1>8

(* No status word matches two patterns. *)
LEMMA OnePattern ==
  ASSUME NEW status, NEW s \in DriveState, NEW t \in DriveState,
         Matches(status, s), Matches(status, t)
  PROVE  s = t
<1>1. CASE s = "not ready"
  BY <1>1, Patterns, Zenon DEF DriveState
<1>2. CASE s = "switch on disabled"
  BY <1>2, Patterns, Zenon DEF DriveState
<1>3. CASE s = "ready"
  BY <1>3, Patterns, Zenon DEF DriveState
<1>4. CASE s = "switched on"
  BY <1>4, Patterns, Zenon DEF DriveState
<1>5. CASE s = "operation enabled"
  BY <1>5, Patterns, Zenon DEF DriveState
<1>6. CASE s = "quick stop"
  BY <1>6, Patterns, Zenon DEF DriveState
<1>7. CASE s = "fault reaction"
  BY <1>7, Patterns, Zenon DEF DriveState
<1>8. CASE s = "fault"
  BY <1>8, Patterns, Zenon DEF DriveState
<1>9. QED
  BY <1>1, <1>2, <1>3, <1>4, <1>5, <1>6, <1>7, <1>8 DEF DriveState

(* So that it is decoded as the state whose pattern it matches. *)
LEMMA DecodedIs ==
  ASSUME NEW status, NEW s \in DriveState, Matches(status, s)
  PROVE  Decoded(status) = s
<1>1. Decoded(status) = CHOOSE t \in DriveState : Matches(status, t)
  BY DEF Decoded
<1>2. \A t \in DriveState : Matches(status, t) => t = s
  BY OnePattern
<1>3. QED
  BY <1>1, <1>2

(* The status bits of a drive in each of its states, bit by bit. *)
LEMMA Bits ==
  /\ drive = "not ready" =>
       0 \notin StatusBits /\ 1 \notin StatusBits
       /\ 2 \notin StatusBits /\ 3 \notin StatusBits /\ 6 \notin StatusBits
  /\ drive = "switch on disabled" =>
       0 \notin StatusBits /\ 1 \notin StatusBits
       /\ 2 \notin StatusBits /\ 3 \notin StatusBits /\ 6 \in StatusBits
  /\ drive = "ready" =>
       0 \in StatusBits /\ 1 \notin StatusBits /\ 2 \notin StatusBits
       /\ 3 \notin StatusBits /\ 5 \in StatusBits /\ 6 \notin StatusBits
  /\ drive = "switched on" =>
       0 \in StatusBits /\ 1 \in StatusBits /\ 2 \notin StatusBits
       /\ 3 \notin StatusBits /\ 5 \in StatusBits /\ 6 \notin StatusBits
  /\ drive = "operation enabled" =>
       0 \in StatusBits /\ 1 \in StatusBits /\ 2 \in StatusBits
       /\ 3 \notin StatusBits /\ 5 \in StatusBits /\ 6 \notin StatusBits
  /\ drive = "quick stop" =>
       0 \in StatusBits /\ 1 \in StatusBits /\ 2 \in StatusBits
       /\ 3 \notin StatusBits /\ 5 \notin StatusBits /\ 6 \notin StatusBits
  /\ drive = "fault reaction" =>
       0 \in StatusBits /\ 1 \in StatusBits /\ 2 \in StatusBits
       /\ 3 \in StatusBits /\ 5 \notin StatusBits /\ 6 \notin StatusBits
  /\ drive = "fault" =>
       0 \notin StatusBits /\ 1 \notin StatusBits
       /\ 2 \notin StatusBits /\ 3 \in StatusBits /\ 6 \notin StatusBits
<1>1. drive = "not ready" =>
        0 \notin StatusBits /\ 1 \notin StatusBits
        /\ 2 \notin StatusBits /\ 3 \notin StatusBits /\ 6 \notin StatusBits
  <2>1. drive = "not ready" => StatusBits = {}
    BY Zenon DEF StatusBits
  <2>2. 0 \notin {} /\ 1 \notin {}
        /\ 2 \notin {} /\ 3 \notin {} /\ 6 \notin {}
    OBVIOUS
  <2>3. QED
    BY <2>1, <2>2, Zenon
<1>2. drive = "switch on disabled" =>
        0 \notin StatusBits /\ 1 \notin StatusBits
        /\ 2 \notin StatusBits /\ 3 \notin StatusBits /\ 6 \in StatusBits
  <2>1. drive = "switch on disabled" => StatusBits = {6}
    BY Zenon DEF StatusBits
  <2>2. 0 \notin {6} /\ 1 \notin {6}
        /\ 2 \notin {6} /\ 3 \notin {6} /\ 6 \in {6}
    OBVIOUS
  <2>3. QED
    BY <2>1, <2>2, Zenon
<1>3. drive = "ready" =>
        0 \in StatusBits /\ 1 \notin StatusBits /\ 2 \notin StatusBits
        /\ 3 \notin StatusBits /\ 5 \in StatusBits /\ 6 \notin StatusBits
  <2>1. drive = "ready" => StatusBits = {0, 5}
    BY Zenon DEF StatusBits
  <2>2. 0 \in {0, 5} /\ 1 \notin {0, 5} /\ 2 \notin {0, 5}
        /\ 3 \notin {0, 5} /\ 5 \in {0, 5} /\ 6 \notin {0, 5}
    OBVIOUS
  <2>3. QED
    BY <2>1, <2>2, Zenon
<1>4. drive = "switched on" =>
        0 \in StatusBits /\ 1 \in StatusBits /\ 2 \notin StatusBits
        /\ 3 \notin StatusBits /\ 5 \in StatusBits /\ 6 \notin StatusBits
  <2>1. drive = "switched on" => StatusBits = {0, 1, 5}
    BY Zenon DEF StatusBits
  <2>2. 0 \in {0, 1, 5} /\ 1 \in {0, 1, 5} /\ 2 \notin {0, 1, 5}
        /\ 3 \notin {0, 1, 5} /\ 5 \in {0, 1, 5} /\ 6 \notin {0, 1, 5}
    OBVIOUS
  <2>3. QED
    BY <2>1, <2>2, Zenon
<1>5. drive = "operation enabled" =>
        0 \in StatusBits /\ 1 \in StatusBits /\ 2 \in StatusBits
        /\ 3 \notin StatusBits /\ 5 \in StatusBits /\ 6 \notin StatusBits
  <2>1. drive = "operation enabled" => StatusBits = {0, 1, 2, 5}
    BY Zenon DEF StatusBits
  <2>2. 0 \in {0, 1, 2, 5} /\ 1 \in {0, 1, 2, 5} /\ 2 \in {0, 1, 2, 5}
        /\ 3 \notin {0, 1, 2, 5} /\ 5 \in {0, 1, 2, 5} /\ 6 \notin {0, 1, 2, 5}
    OBVIOUS
  <2>3. QED
    BY <2>1, <2>2, Zenon
<1>6. drive = "quick stop" =>
        0 \in StatusBits /\ 1 \in StatusBits /\ 2 \in StatusBits
        /\ 3 \notin StatusBits /\ 5 \notin StatusBits /\ 6 \notin StatusBits
  <2>1. drive = "quick stop" => StatusBits = {0, 1, 2}
    BY Zenon DEF StatusBits
  <2>2. 0 \in {0, 1, 2} /\ 1 \in {0, 1, 2} /\ 2 \in {0, 1, 2}
        /\ 3 \notin {0, 1, 2} /\ 5 \notin {0, 1, 2} /\ 6 \notin {0, 1, 2}
    OBVIOUS
  <2>3. QED
    BY <2>1, <2>2, Zenon
<1>7. drive = "fault reaction" =>
        0 \in StatusBits /\ 1 \in StatusBits /\ 2 \in StatusBits
        /\ 3 \in StatusBits /\ 5 \notin StatusBits /\ 6 \notin StatusBits
  <2>1. drive = "fault reaction" => StatusBits = {0, 1, 2, 3}
    BY Zenon DEF StatusBits
  <2>2. 0 \in {0, 1, 2, 3} /\ 1 \in {0, 1, 2, 3} /\ 2 \in {0, 1, 2, 3}
        /\ 3 \in {0, 1, 2, 3} /\ 5 \notin {0, 1, 2, 3} /\ 6 \notin {0, 1, 2, 3}
    OBVIOUS
  <2>3. QED
    BY <2>1, <2>2, Zenon
<1>8. drive = "fault" =>
        0 \notin StatusBits /\ 1 \notin StatusBits
        /\ 2 \notin StatusBits /\ 3 \in StatusBits /\ 6 \notin StatusBits
  <2>1. drive = "fault" => StatusBits = {3}
    BY Zenon DEF StatusBits
  <2>2. 0 \notin {3} /\ 1 \notin {3}
        /\ 2 \notin {3} /\ 3 \in {3} /\ 6 \notin {3}
    OBVIOUS
  <2>3. QED
    BY <2>1, <2>2, Zenon
<1>9. QED
  BY <1>1, <1>2, <1>3, <1>4, <1>5, <1>6, <1>7, <1>8

(* They are a word with the pattern of its state, and stay one with the    *)
(* warning bit, or with bit 5 where that is free.                          *)
LEMMA ShownMatches ==
  ASSUME drive \in DriveState, NEW status,
         0 \in status <=> 0 \in StatusBits, 1 \in status <=> 1 \in StatusBits,
         2 \in status <=> 2 \in StatusBits, 3 \in status <=> 3 \in StatusBits,
         6 \in status <=> 6 \in StatusBits,
         drive \in {"not ready", "switch on disabled", "fault"}
           \/ (5 \in status <=> 5 \in StatusBits)
  PROVE  Matches(status, drive)
<1>1. CASE drive = "not ready"
  BY <1>1, Bits, Patterns, Zenon
<1>2. CASE drive = "switch on disabled"
  BY <1>2, Bits, Patterns, Zenon
<1>3. CASE drive = "ready"
  BY <1>3, Bits, Patterns, Zenon
<1>4. CASE drive = "switched on"
  BY <1>4, Bits, Patterns, Zenon
<1>5. CASE drive = "operation enabled"
  BY <1>5, Bits, Patterns, Zenon
<1>6. CASE drive = "quick stop"
  BY <1>6, Bits, Patterns, Zenon
<1>7. CASE drive = "fault reaction"
  BY <1>7, Bits, Patterns, Zenon
<1>8. CASE drive = "fault"
  BY <1>8, Bits, Patterns, Zenon
<1>9. QED
  BY <1>1, <1>2, <1>3, <1>4, <1>5, <1>6, <1>7, <1>8 DEF DriveState

(* What the drive may show in each of its states, with a warning or not,   *)
(* makes updateStatus find the state, or in a fault reaction perhaps none, *)
(* for which the command is the same.                                      *)
LEMMA ShownIsObeyed ==
  ASSUME drive \in DriveState, NEW status \in StatusWords, NEW w
  PROVE  Command(Decoded(status), w) = Command(drive, w)
<1> DEFINE W == IF warning THEN {7} ELSE {}
<1>1. PICK free :
        /\ status = (StatusBits \cup W) \cup free
        /\ free \in {{}, {5}}
        /\ drive \notin {"not ready", "switch on disabled", "fault reaction", "fault"}
             => free = {}
  BY Zenon DEF StatusWords
<1>2. 0 \notin W /\ 1 \notin W /\ 2 \notin W /\ 3 \notin W /\ 5 \notin W /\ 6 \notin W
  OBVIOUS
<1> HIDE DEF W
<1>3. \A n : n \in status <=> n \in StatusBits \/ n \in W \/ n \in free
  BY <1>1
<1>4. /\ 0 \in status <=> 0 \in StatusBits
      /\ 1 \in status <=> 1 \in StatusBits
      /\ 2 \in status <=> 2 \in StatusBits
      /\ 3 \in status <=> 3 \in StatusBits
      /\ 6 \in status <=> 6 \in StatusBits
      /\ 5 \in status <=> 5 \in StatusBits \/ 5 \in free
  <2>1. 0 \notin free /\ 1 \notin free /\ 2 \notin free /\ 3 \notin free /\ 6 \notin free
    <3>1. free = {} \/ free = {5}
      BY <1>1
    <3>2. QED
      BY <3>1
  <2>2. QED
    BY <1>2, <1>3, <2>1, Zenon
<1>5. CASE drive # "fault reaction"
  <2>1. drive \in {"not ready", "switch on disabled", "fault"}
          \/ (5 \in status <=> 5 \in StatusBits)
    BY <1>1, <1>4, <1>5
  <2>2. Matches(status, drive)
    BY <1>4, <1>5, <2>1, ShownMatches
  <2>3. QED
    BY <2>2, DecodedIs
<1>6. CASE drive = "fault reaction"
  <2>1. 5 \notin StatusBits
    BY <1>6, Bits, Zenon
  <2>2. Command("fault reaction", w) = 7 /\ Command("unknown", w) = 7
    BY Zenon DEF Command
  <2>3. CASE 5 \notin status
    <3>1. Matches(status, drive)
      BY <1>4, <2>1, <2>3, ShownMatches
    <3>2. QED
      BY <3>1, DecodedIs
  <2>4. CASE 5 \in status
    <3>1. \A s \in DriveState : ~Matches(status, s)
      BY <1>4, <1>6, <2>4, Bits, Patterns, Zenon DEF DriveState
    <3>2. Decoded(status) = "unknown"
      BY <3>1 DEF Decoded
    <3>3. QED
      BY <1>6, <2>2, <3>2
  <2>5. QED
    BY <2>3, <2>4
<1>7. QED
  BY <1>5, <1>6

(* At most one of the patterns matches. *)
LEMMA FewPatterns ==
  ASSUME NEW status
  PROVE  Cardinality({s \in DriveState : Matches(status, s)}) <= 1
<1> DEFINE S == {s \in DriveState : Matches(status, s)}
<1>1. CASE S = {}
  BY <1>1, FS_EmptySet
<1>2. CASE S # {}
  <2>1. PICK s : s \in S
    BY <1>2
  <2>2. \A t \in S : t = s
    BY <2>1, OnePattern
  <2>3. S = {s}
    BY <2>1, <2>2
  <2>4. Cardinality({s}) = 1
    BY FS_Singleton
  <2>5. QED
    BY <2>3, <2>4
<1>3. QED
  BY <1>1, <1>2

(* What CommandIsForState asks follows from the types. *)
LEMMA CommandsFit == TypeOK => CommandIsForState
<1> SUFFICES ASSUME TypeOK, NEW w \in Word
             PROVE  /\ frame.at = "back" /\ frame.status \in StatusWords =>
                         Command(Decoded(frame.status), w) = Command(drive, w)
                    /\ Cardinality({s \in DriveState : Matches(inputs, s)}) <= 1
  BY DEF CommandIsForState
<1>1. drive \in DriveState
  BY DEF TypeOK
<1>2. QED
  BY <1>1, ShownIsObeyed, FewPatterns

(* CommandIsForState: the application always gives the drive the command   *)
(* for the state the drive was in when it showed its status word, and      *)
(* never has two states of updateStatus to choose from.                    *)
THEOREM CommandsFollow == Spec => []CommandIsForState
BY TypeCorrect, CommandsFit, PTL

-----------------------------------------------------------------------------
Places == {"poll", "brd", "multi", "visit", "recheck", "lost", "next", "init", "isinit",
           "sms", "preop", "ispreop", "safeop", "issafeop", "fmmus",
           "pos", "clear", "temp", "ident", "own", "unset"}
Recovering == {"clear", "temp", "ident", "own", "unset"}
Fault == {"cut", "power", "fall", "loss"}

(* What the addresses depend on. *)
MonitorTypeOK ==
  /\ up \subseteq Slave /\ adr \in [Slave -> Slave \cup {NoAddr, TEMP}]
  /\ pc \in Places /\ cur \in Slave
  /\ type \in [Slave -> Nat] /\ left \in [Fault -> Nat]

(* A slave is given an address only after one without was seen.            *)
Seen == pc \in {"clear", "temp"} => \E s \in Slave : adr[s] # s

-----------------------------------------------------------------------------
LEMMA Numbers ==
  /\ 0 \notin Slave /\ TEMP \notin Slave /\ TEMP # NoAddr /\ 1 \in Slave
  /\ Slave \subseteq Nat /\ IsFiniteSet(Slave)
<1>1. N \in Nat \ {0}
  BY NAssumption
<1>2. IsFiniteSet(1..N)
  BY <1>1, FS_Interval
<1>3. QED
  BY <1>1, <1>2 DEF Slave, TEMP, NoAddr

(* One slave at most is at a position.                                     *)
LEMMA OneAtPosition ==
  ASSUME up \subseteq Slave, NEW p, NEW s \in AtPosition(p), NEW t \in AtPosition(p)
  PROVE  s = t
<1> DEFINE Upto(x) == {u \in up : u <= x}
<1>1. /\ s \in up /\ t \in up /\ s \in Nat /\ t \in Nat
      /\ Cardinality(Upto(s)) = Cardinality(Upto(t))
  BY Numbers DEF AtPosition, Place
<1>2. IsFiniteSet(up) /\ Upto(s) \in SUBSET up /\ Upto(t) \in SUBSET up
  BY Numbers, FS_Subset
<1>3. IsFiniteSet(Upto(s)) /\ IsFiniteSet(Upto(t))
  BY <1>2, FS_Subset
<1>4. \A u \in up : u \in Nat
  BY Numbers
<1>5. CASE s <= t
  <2>0. \A u \in up : u <= s => u <= t
    BY <1>1, <1>4, <1>5
  <2>1. Upto(s) \in SUBSET Upto(t) /\ t \in Upto(t)
    <3>1. \A u \in Upto(s) : u \in Upto(t)
      BY <2>0
    <3>2. t \in Upto(t)
      BY <1>1
    <3>3. QED
      BY <3>1, <3>2
  <2>2. Upto(s) = Upto(t)
    BY <1>1, <1>3, <2>1, FS_Subset
  <2>3. t <= s
    BY <2>1, <2>2
  <2>4. QED
    BY <1>1, <1>5, <2>3
<1>6. CASE t <= s
  <2>0. \A u \in up : u <= t => u <= s
    BY <1>1, <1>4, <1>6
  <2>1. Upto(t) \in SUBSET Upto(s) /\ s \in Upto(s)
    <3>1. \A u \in Upto(t) : u \in Upto(s)
      BY <2>0
    <3>2. s \in Upto(s)
      BY <1>1
    <3>3. QED
      BY <3>1, <3>2
  <2>2. Upto(s) = Upto(t)
    BY <1>1, <1>3, <2>1, FS_Subset
  <2>3. s <= t
    BY <2>1, <2>2
  <2>4. QED
    BY <1>1, <1>6, <2>3
<1>7. QED
  BY <1>1, <1>5, <1>6

-----------------------------------------------------------------------------
(* The hypothesis: a scenario without loss of power, or with slaves that   *)
(* can be told apart, are unplugged once, and lose no datagram.            *)
Apart(kind) == \A s, t \in Slave : kind[s] = kind[t] => s = t
Gentle(z) == z.power = 0 \/ (z.cut <= 1 /\ z.loss = 0 /\ Apart(z.type))

(* No slave has lost its address, and the recovery readdresses none.       *)
Settled == (\A s \in Slave : adr[s] = s) /\ pc \notin Recovering

(* After the outage: a slave has EC_TEMPNODE only during the recovery that *)
(* gave it, it is alone, is in reach, and is the right one when it is given*)
(* an address of its own.                                                  *)
OneTemp ==
  /\ \A s \in Slave : adr[s] \in {NoAddr, TEMP, s}
  /\ \A s \in Slave : adr[s] = TEMP => s \in up /\ pc \in {"ident", "own", "unset"}
  /\ \A s, t \in Slave : adr[s] = TEMP /\ adr[t] = TEMP => s = t
  /\ pc = "own" => \A s \in Slave : adr[s] = TEMP => s = cur

AfterPower ==
  /\ Apart(type) /\ left["loss"] = 0
  /\ \/ left["cut"] = 1 /\ up = Slave /\ Settled
     \/ left["cut"] = 0 /\ OneTemp

AddressInv == (left["power"] = 0 /\ Settled) \/ AfterPower
MonitorInv == MonitorTypeOK /\ Seen /\ AddressInv

-----------------------------------------------------------------------------
(* What a step does to the addresses.                                      *)
Counted == left' \in [Fault -> Nat] /\ \A x \in Fault : left'[x] <= left[x]
Kept == adr' = adr /\ type' = type /\ Counted
Stays == pc' = pc /\ cur' = cur

(* Every step but those below.                                             *)
Quiet ==
  /\ Kept /\ up' = up /\ cur' \in Slave
  /\ Stays \/ (pc \notin Recovering /\ pc' \in Places \ Recovering)

Cut ==
  /\ Kept /\ Stays /\ up' \subseteq up
  /\ left["cut"] > 0 /\ left'["cut"] = left["cut"] - 1
Join == Kept /\ Stays /\ left' = left /\ up \subseteq up' /\ up' \subseteq Slave
Off(s) ==
  /\ type' = type /\ Counted /\ Stays /\ up' = up /\ s \notin up
  /\ left["power"] > 0 /\ left'["cut"] = left["cut"]
  /\ adr' = [adr EXCEPT ![s] = NoAddr]
Found ==
  /\ Kept /\ up' = up /\ cur' = cur /\ pc = "pos" /\ pc' = "clear"
  /\ \E s \in Slave : adr[s] = NoAddr

(* One of the datagrams that give addresses, or fails to.                  *)
Give(o, S, a, next) ==
  /\ Counted /\ type' = type /\ up' = up /\ cur' = cur /\ pc' = next
  /\ left'["cut"] = left["cut"]
  /\ left["loss"] = 0 => o = "done"
  /\ SetAdr(o, S, a)
Recognised ==
  /\ Kept /\ up' = up /\ cur' = cur /\ pc = "ident" /\ pc' = "own"
  /\ \E s \in Reach(TEMP) : type[s] = type[cur]
Rejected == Kept /\ up' = up /\ cur' = cur /\ pc = "ident" /\ pc' = "unset"

LEMMA Used ==
  ASSUME left \in [Fault -> Nat], NEW x \in Fault, Uses(x)
  PROVE  /\ type' = type /\ Counted /\ left[x] > 0 /\ left'[x] = left[x] - 1
         /\ \A y \in Fault \ {x} : left'[y] = left[y]
BY DEF Uses, Counted

LEMMA WhenSent ==
  ASSUME left \in [Fault -> Nat], NEW o, Datagram(o)
  PROVE  /\ type' = type /\ Counted
         /\ left["loss"] = 0 => o = "done"
         /\ left'["cut"] = left["cut"] /\ left'["power"] = left["power"]
<1>1. CASE o = "done"
  BY <1>1 DEF Datagram, faultVars, Fault, Counted
<1>2. CASE o # "done"
  <2>1. Uses("loss") /\ "loss" \in Fault
    BY <1>2 DEF Datagram, Fault
  <2>2. QED
    BY <2>1, Used DEF Fault
<1>3. QED
  BY <1>1, <1>2

(* The steps that leave the faults as they are.                            *)
LEMMA SameFaults ==
  ASSUME left \in [Fault -> Nat], UNCHANGED faultVars
  PROVE  type' = type /\ left' = left /\ Counted
BY DEF faultVars, Counted, Fault

LEMMA SegmentMoves ==
  ASSUME MonitorTypeOK, Segment
  PROVE  Quiet \/ Cut \/ Join \/ \E s \in Slave : Off(s)
<1>1. left \in [Fault -> Nat] /\ cur \in Slave /\ pc \in Places /\ up \subseteq Slave
  BY DEF MonitorTypeOK
<1>2. CASE Unplug
  <2>1. Uses("cut") /\ "cut" \in Fault
    BY <1>2 DEF Unplug, Fault
  <2>2. up' \subseteq up /\ adr' = adr /\ Stays
    BY <1>2 DEF Unplug, Stays
  <2>3. Cut
    BY <1>1, <2>1, <2>2, Used DEF Cut, Kept
  <2>4. QED
    BY <2>3
<1>3. CASE PlugIn
  <2>1. /\ up \subseteq up' /\ up' \subseteq Slave /\ adr' = adr /\ Stays
        /\ UNCHANGED faultVars
    BY <1>1, <1>3 DEF PlugIn, Stays
  <2>2. Join
    BY <1>1, <2>1, SameFaults DEF Join, Kept
  <2>3. QED
    BY <2>2
<1>4. ASSUME NEW s \in Slave, PowerCycle(s) PROVE Off(s)
  <2>1. Uses("power") /\ "power" \in Fault /\ "cut" \in Fault \ {"power"}
    BY <1>4 DEF PowerCycle, Fault
  <2>2. up' = up /\ s \notin up /\ adr' = [adr EXCEPT ![s] = NoAddr] /\ Stays
    BY <1>4 DEF PowerCycle, Stays
  <2>3. QED
    BY <1>1, <2>1, <2>2, Used DEF Off
<1>5. ASSUME NEW s \in Slave, SmWatchdog(s) PROVE Quiet
  <2>1. up' = up /\ adr' = adr /\ Stays /\ cur' = cur /\ UNCHANGED faultVars
    BY <1>5 DEF SmWatchdog, Stays
  <2>2. QED
    BY <1>1, <2>1, SameFaults DEF Quiet, Kept
<1>6. ASSUME NEW s \in Slave, LocalError(s) PROVE Quiet
  <2>1. up' = up /\ adr' = adr /\ Stays /\ cur' = cur /\ Uses("fall") /\ "fall" \in Fault
    BY <1>6 DEF LocalError, Stays, Fault
  <2>2. QED
    BY <1>1, <2>1, Used DEF Quiet, Kept
<1>7. QED
  BY <1>2, <1>3, <1>4, <1>5, <1>6 DEF Segment

(* Every other step of the monitor and of the real-time thread.            *)
LEMMA MonitorQuiet ==
  ASSUME MonitorTypeOK,
         \/ Poll \/ IsOperational \/ Dispatch \/ IfLost \/ NextSlave
         \/ ReconfigIsInit \/ ReconfigIsPreop \/ ReconfigIsSafeop
         \/ ReadStateAll \/ ReadStateEach \/ RequestState \/ Recheck
         \/ ReconfigInit \/ ReconfigSM \/ ReconfigRequest \/ ReconfigFMMU
  PROVE  Quiet
<1>1. left \in [Fault -> Nat] /\ cur \in Slave /\ 1 \in Slave
  BY Numbers DEF MonitorTypeOK
<1> DEFINE Moved == up' = up /\ adr' = adr /\ cur' \in Slave /\ pc \notin Recovering /\ pc' \in Places \ Recovering
<1>2. ASSUME Moved, UNCHANGED faultVars PROVE Quiet
  BY <1>1, <1>2, SameFaults DEF Quiet, Kept
<1>3. ASSUME Moved, NEW o \in Outcome, Datagram(o) PROVE Quiet
  BY <1>1, <1>3, WhenSent DEF Quiet, Kept
<1>4. cur < N => cur + 1 \in Slave
  BY <1>1, NAssumption DEF Slave
<1>5. CASE Poll
  <2>1. Moved /\ UNCHANGED faultVars
    BY <1>1, <1>5 DEF Poll, Goto, Places, Recovering, segment
  <2>2. QED
    BY <1>2, <2>1
<1>6. CASE IsOperational
  <2>1. Moved /\ UNCHANGED faultVars
    BY <1>1, <1>6 DEF IsOperational, Goto, Places, Recovering, segment
  <2>2. QED
    BY <1>2, <2>1
<1>7. CASE Dispatch
  <2>1. Moved /\ UNCHANGED faultVars
    BY <1>1, <1>7 DEF Dispatch, Goto, Places, Recovering, segment
  <2>2. QED
    BY <1>2, <2>1
<1>8. CASE IfLost
  <2>1. Moved /\ UNCHANGED faultVars
    BY <1>1, <1>8 DEF IfLost, Goto, Places, Recovering, segment
  <2>2. QED
    BY <1>2, <2>1
<1>9. CASE NextSlave
  <2>1. Moved /\ UNCHANGED faultVars
    BY <1>1, <1>4, <1>9 DEF NextSlave, Goto, Places, Recovering, segment
  <2>2. QED
    BY <1>2, <2>1
<1>10. CASE ReconfigIsInit
  <2>1. Moved /\ UNCHANGED faultVars
    BY <1>1, <1>10 DEF ReconfigIsInit, StateCheck, Goto, Places, Recovering, segment
  <2>2. QED
    BY <1>2, <2>1
<1>11. CASE ReconfigIsPreop
  <2>1. Moved /\ UNCHANGED faultVars
    BY <1>1, <1>11 DEF ReconfigIsPreop, StateCheck, Goto, Places, Recovering, segment
  <2>2. QED
    BY <1>2, <2>1
<1>12. CASE ReconfigIsSafeop
  <2>1. Moved /\ UNCHANGED faultVars
    BY <1>1, <1>12 DEF ReconfigIsSafeop, Goto, Places, Recovering, segment
  <2>2. QED
    BY <1>2, <2>1
<1>13. CASE ReadStateAll
  <2>1. Moved /\ \E o \in Outcome : Datagram(o)
    BY <1>1, <1>13 DEF ReadStateAll, Goto, Places, Recovering, segment, Outcome
  <2>2. QED
    BY <1>3, <2>1
<1>14. CASE ReadStateEach
  <2>1. Moved /\ \E o \in Outcome : Datagram(o)
    BY <1>1, <1>14 DEF ReadStateEach, Goto, Places, Recovering, segment, Outcome
  <2>2. QED
    BY <1>3, <2>1
<1>15. CASE RequestState
  <2>1. Moved /\ \E o \in Outcome : Datagram(o)
    BY <1>1, <1>15 DEF RequestState, Goto, Places, Recovering, segment, Outcome
  <2>2. QED
    BY <1>3, <2>1
<1>16. CASE Recheck
  <2>1. Moved /\ \E o \in Outcome : Datagram(o)
    BY <1>1, <1>16 DEF Recheck, Goto, Places, Recovering, segment, Outcome
  <2>2. QED
    BY <1>3, <2>1
<1>17. CASE ReconfigInit
  <2>1. Moved /\ \E o \in Outcome : Datagram(o)
    BY <1>1, <1>17 DEF ReconfigInit, Goto, Places, Recovering, segment, Outcome
  <2>2. QED
    BY <1>3, <2>1
<1>18. CASE ReconfigSM
  <2>1. Moved /\ \E o \in Outcome : Datagram(o)
    BY <1>1, <1>18 DEF ReconfigSM, Goto, Places, Recovering, segment, Outcome
  <2>2. QED
    BY <1>3, <2>1
<1>19. CASE ReconfigRequest
  <2>1. Moved /\ \E o \in Outcome : Datagram(o)
    BY <1>1, <1>19 DEF ReconfigRequest, Goto, Places, Recovering, segment, Outcome
  <2>2. QED
    BY <1>3, <2>1
<1>20. CASE ReconfigFMMU
  <2>1. Moved /\ \E o \in Outcome : Datagram(o)
    BY <1>1, <1>20 DEF ReconfigFMMU, Goto, Places, Recovering, segment, Outcome
  <2>2. QED
    BY <1>3, <2>1
<1>21. QED
  BY <1>5, <1>6, <1>7, <1>8, <1>9, <1>10, <1>11, <1>12, <1>13, <1>14, <1>15, <1>16, <1>17, <1>18, <1>19, <1>20

LEMMA ReceiveQuiet ==
  ASSUME MonitorTypeOK, ReceiveProcessdata
  PROVE  Quiet
<1>1. left \in [Fault -> Nat] /\ cur \in Slave
  BY DEF MonitorTypeOK
<1>2. up' = up /\ adr' = adr /\ cur' \in Slave /\ Stays
  BY <1>1 DEF ReceiveProcessdata, segment, Stays
<1>3. UNCHANGED faultVars \/ Datagram("lost")
  BY DEF ReceiveProcessdata
<1>4. QED
  BY <1>1, <1>2, <1>3, SameFaults, WhenSent DEF Quiet, Kept

(* The datagrams of ecx_recover_slave that write a station address.         *)
Giving(o) ==
  \/ pc = "clear" /\ Give(o, Reach(TEMP), NoAddr, "temp")
  \/ pc = "unset" /\ Give(o, Reach(TEMP), NoAddr, "next")
  \/ /\ pc = "temp"
     /\ \/ Give(o, AtPosition(cur), TEMP, "unset")
        \/ o = "done" /\ Give(o, AtPosition(cur), TEMP, "ident")
  \/ pc = "own" /\ Give(o, Reach(TEMP), cur, "next")

LEMMA RecoverMoves ==
  ASSUME MonitorTypeOK, Recover
  PROVE  Quiet \/ Found \/ Recognised \/ Rejected \/ \E o \in Outcome : Giving(o)
<1>1. left \in [Fault -> Nat] /\ cur \in Slave /\ up \subseteq Slave
  BY DEF MonitorTypeOK
<1>2. CASE RecoverRead
  <2>1. PICK o \in {"done", "lost"} :
          LET found == IF o = "done" THEN {adr[s] : s \in AtPosition(cur)} ELSE {} IN
            Datagram(o) /\ Goto(IF MayReaddress(found) THEN "clear" ELSE "next")
    BY <1>2 DEF RecoverRead
  <2>2. Kept /\ up' = up /\ cur' = cur /\ pc = "pos"
    BY <1>1, <1>2, <2>1, WhenSent DEF RecoverRead, Kept, segment
  <2>3. CASE pc' = "next"
    BY <1>1, <2>2, <2>3 DEF Quiet, Places, Recovering
  <2>4. CASE pc' # "next"
    <3>1. /\ pc' = "clear"
          /\ (IF o = "done" THEN {adr[s] : s \in AtPosition(cur)} ELSE {}) = {NoAddr}
      BY <2>1, <2>4 DEF Goto, MayReaddress
    <3>2. NoAddr \in {adr[s] : s \in AtPosition(cur)}
      BY <3>1
    <3>3. AtPosition(cur) \subseteq Slave
      BY <1>1 DEF AtPosition
    <3>4. Found
      BY <2>2, <3>1, <3>2, <3>3 DEF Found
    <3>5. QED
      BY <3>4
  <2>5. QED
    BY <2>3, <2>4
<1>3. CASE ClearTemp
  <2>1. PICK o \in Outcome : Datagram(o) /\ SetAdr(o, Reach(TEMP), NoAddr)
    BY <1>3 DEF ClearTemp
  <2>2. /\ up' = up /\ cur' = cur /\ pc \in {"clear", "unset"}
        /\ pc = "clear" => pc' = "temp"
        /\ pc = "unset" => pc' = "next"
    BY <1>3 DEF ClearTemp, Goto
  <2>3. Give(o, Reach(TEMP), NoAddr, pc')
    BY <1>1, <2>1, <2>2, WhenSent DEF Give
  <2>4. QED
    BY <2>2, <2>3 DEF Giving
<1>4. CASE SetTemp
  <2>1. PICK o \in Outcome :
          /\ Datagram(o) /\ SetAdr(o, AtPosition(cur), TEMP)
          /\ Goto(IF o = "done" /\ AtPosition(cur) # {} THEN "ident" ELSE "unset")
    BY <1>4 DEF SetTemp
  <2>2. up' = up /\ cur' = cur /\ pc = "temp"
    BY <1>4 DEF SetTemp
  <2>3. pc' = "unset" \/ (o = "done" /\ pc' = "ident")
    BY <2>1 DEF Goto
  <2>4. Give(o, AtPosition(cur), TEMP, pc')
    BY <1>1, <2>1, <2>2, WhenSent DEF Give
  <2>5. QED
    BY <2>2, <2>3, <2>4 DEF Giving
<1>5. CASE Identify
  <2>1. up' = up /\ cur' = cur /\ pc = "ident" /\ adr' = adr
    BY <1>5 DEF Identify, segment
  <2>2. \/ /\ \E s \in Reach(TEMP) : SameIdentity(s)
           /\ pc' = "own" /\ UNCHANGED faultVars
        \/ pc' = "unset" /\ (UNCHANGED faultVars \/ Datagram("lost"))
    BY <1>5 DEF Identify, Goto
  <2>3. Kept
    BY <1>1, <2>1, <2>2, SameFaults, WhenSent DEF Kept
  <2>4. QED
    BY <2>1, <2>2, <2>3 DEF Recognised, Rejected, SameIdentity
<1>6. CASE SetOwn
  <2>1. PICK o \in Outcome : Datagram(o) /\ SetAdr(o, Reach(TEMP), cur)
    BY <1>6 DEF SetOwn
  <2>2. up' = up /\ cur' = cur /\ pc = "own" /\ pc' = "next"
    BY <1>6 DEF SetOwn, Goto
  <2>3. Give(o, Reach(TEMP), cur, "next")
    BY <1>1, <2>1, <2>2, WhenSent DEF Give
  <2>4. QED
    BY <2>2, <2>3 DEF Giving
<1>7. QED
  BY <1>2, <1>3, <1>4, <1>5, <1>6 DEF Recover

Move ==
  \/ Quiet \/ Cut \/ Join \/ Found \/ Recognised \/ Rejected
  \/ \E s \in Slave : Off(s)
  \/ \E o \in Outcome : Giving(o)

LEMMA Moves ==
  ASSUME MonitorTypeOK, [MonitorNext]_monitorVars
  PROVE  Move
<1>1. CASE Segment
  BY <1>1, SegmentMoves DEF Move
<1>2. CASE ReceiveProcessdata
  BY <1>2, ReceiveQuiet DEF Move
<1>3. CASE Recover
  BY <1>3, RecoverMoves DEF Move
<1>4. CASE Ecatcheck /\ ~Recover
  BY <1>4, MonitorQuiet DEF Move, Ecatcheck, Reconfig
<1>5. CASE UNCHANGED monitorVars
  <2>1. up' = up /\ adr' = adr /\ Stays /\ UNCHANGED faultVars
    BY <1>5 DEF monitorVars, segment, Stays
  <2>2. left \in [Fault -> Nat] /\ cur \in Slave /\ cur' = cur
    BY <2>1 DEF MonitorTypeOK, Stays
  <2>3. Quiet
    BY <2>1, <2>2, SameFaults DEF Quiet, Kept
  <2>4. QED
    BY <2>3 DEF Move
<1>6. QED
  BY <1>1, <1>2, <1>3, <1>4, <1>5 DEF MonitorNext

LEMMA Given ==
  ASSUME NEW o, NEW S, NEW a, SetAdr(o, S, a), NEW s \in Slave
  PROVE  adr'[s] = IF o # "lost" /\ s \in S THEN a ELSE adr[s]
BY DEF SetAdr

LEMMA TypeKept ==
  ASSUME MonitorTypeOK, Move
  PROVE  MonitorTypeOK'
<1>0. /\ up \subseteq Slave /\ adr \in [Slave -> Slave \cup {NoAddr, TEMP}]
      /\ pc \in Places /\ cur \in Slave /\ type \in [Slave -> Nat]
      /\ left \in [Fault -> Nat]
  BY DEF MonitorTypeOK
<1>1. /\ up' \subseteq Slave /\ cur' \in Slave /\ type' = type /\ Counted
  BY <1>0 DEF Move, Quiet, Cut, Join, Off, Found, Recognised, Rejected, Giving, Give, Kept, Stays
<1>2. pc' \in Places
  BY <1>0 DEF Move, Quiet, Cut, Join, Off, Found, Recognised, Rejected, Giving, Give, Stays, Places
<1>3. adr' \in [Slave -> Slave \cup {NoAddr, TEMP}]
  <2>1. CASE adr' = adr
    BY <1>0, <2>1
  <2>2. ASSUME NEW s \in Slave, Off(s) PROVE adr' \in [Slave -> Slave \cup {NoAddr, TEMP}]
    BY <1>0, <2>2 DEF Off
  <2>3. ASSUME NEW o \in Outcome, Giving(o)
        PROVE  adr' \in [Slave -> Slave \cup {NoAddr, TEMP}]
    <3>1. \/ SetAdr(o, Reach(TEMP), NoAddr) \/ SetAdr(o, AtPosition(cur), TEMP)
          \/ SetAdr(o, Reach(TEMP), cur)
      BY <2>3 DEF Giving, Give
    <3>2. QED
      BY <1>0, <3>1 DEF SetAdr
  <2>4. QED
    BY <2>1, <2>2, <2>3 DEF Move, Quiet, Cut, Join, Found, Recognised, Rejected, Kept
<1>4. QED
  BY <1>0, <1>1, <1>2, <1>3 DEF MonitorTypeOK, Counted

LEMMA SeenKept ==
  ASSUME MonitorTypeOK, Seen, Move
  PROVE  Seen'
<1>0. TEMP \notin Slave /\ NoAddr \notin Slave
  BY Numbers DEF NoAddr
<1> SUFFICES ASSUME pc' \in {"clear", "temp"}
             PROVE  \E s \in Slave : adr'[s] # s
  BY DEF Seen
<1>1. CASE Quiet \/ Cut \/ Join
  <2>1. pc' = pc /\ adr' = adr
    BY <1>1 DEF Quiet, Cut, Join, Kept, Stays, Recovering
  <2>2. QED
    BY <2>1 DEF Seen
<1>2. CASE Found
  BY <1>0, <1>2 DEF Found, Kept
<1>3. CASE Recognised \/ Rejected
  BY <1>3 DEF Recognised, Rejected
<1>4. ASSUME NEW s \in Slave, Off(s) PROVE \E t \in Slave : adr'[t] # t
  <2>1. adr'[s] = NoAddr
    BY <1>4 DEF Off, MonitorTypeOK
  <2>2. QED
    BY <1>0, <2>1
<1>5. ASSUME NEW o \in Outcome, Giving(o) PROVE \E t \in Slave : adr'[t] # t
  <2>1. pc = "clear" /\ SetAdr(o, Reach(TEMP), NoAddr)
    BY <1>5 DEF Giving, Give
  <2>2. PICK s \in Slave : adr[s] # s
    BY <2>1 DEF Seen
  <2>3. adr'[s] # s
    BY <1>0, <2>1, <2>2, Given
  <2>4. QED
    BY <2>3
<1>6. QED
  BY <1>1, <1>2, <1>3, <1>4, <1>5 DEF Move

(* The action of the property AddressKept. *)
LEMMA KeptByMove ==
  ASSUME MonitorTypeOK, Seen, Move, \A s \in Slave : adr[s] = s
  PROVE  \A s \in up : adr'[s] = s
<1>0. TEMP \notin Slave /\ Reach(TEMP) = {} /\ up \subseteq Slave
  BY Numbers DEF Reach, MonitorTypeOK
<1>1. CASE adr' = adr
  BY <1>0, <1>1
<1>2. ASSUME NEW s \in Slave, Off(s) PROVE \A t \in up : adr'[t] = t
  BY <1>0, <1>2 DEF Off, MonitorTypeOK
<1>3. ASSUME NEW o \in Outcome, Giving(o) PROVE \A t \in up : adr'[t] = t
  <2>1. pc \notin {"clear", "temp"}
    BY DEF Seen
  <2>2. PICK a : SetAdr(o, Reach(TEMP), a)
    BY <1>3, <2>1 DEF Giving, Give
  <2>3. QED
    BY <1>0, <2>2, Given
<1>4. QED
  BY <1>1, <1>2, <1>3 DEF Move, Quiet, Cut, Join, Found, Recognised, Rejected, Kept

-----------------------------------------------------------------------------
(* Without loss of power, or before the outage.                            *)
LEMMA SettledKept ==
  ASSUME MonitorTypeOK, Settled, Move, ~\E s \in Slave : Off(s)
  PROVE  Settled'
<1>0. TEMP \notin Slave /\ NoAddr \notin Slave
  BY Numbers DEF NoAddr
<1>1. ~Found /\ ~Recognised /\ ~Rejected /\ \A o \in Outcome : ~Giving(o)
  BY <1>0 DEF Settled, Found, Recognised, Rejected, Giving, Recovering
<1>2. Quiet \/ Cut \/ Join
  BY <1>1 DEF Move
<1>3. adr' = adr /\ pc' \notin Recovering
  BY <1>2 DEF Quiet, Cut, Join, Kept, Stays, Settled
<1>4. QED
  BY <1>3 DEF Settled

(* The bounds only shrink, and the identities stay.                        *)
LEMMA BoundsShrink ==
  ASSUME MonitorTypeOK, Move
  PROVE  /\ type' = type /\ left' \in [Fault -> Nat]
         /\ \A x \in Fault : left'[x] <= left[x]
BY DEF Move, Quiet, Cut, Join, Off, Found, Recognised, Rejected, Giving, Give, Kept, Counted

LEMMA SettledIsOneTemp ==
  ASSUME Settled
  PROVE  OneTemp
BY Numbers DEF Settled, OneTemp, Recovering

(* After the outage, step by step.                                         *)
LEMMA OneTempKept ==
  ASSUME MonitorTypeOK, OneTemp, Apart(type), left["cut"] = 0, left["loss"] = 0, Move
  PROVE  OneTemp'
<1>0. /\ TEMP \notin Slave /\ NoAddr \notin Slave /\ TEMP # NoAddr
      /\ up \subseteq Slave /\ cur \in Slave /\ adr \in [Slave -> Slave \cup {NoAddr, TEMP}]
  BY Numbers DEF NoAddr, MonitorTypeOK
<1>1. /\ \A s \in Slave : adr[s] \in {NoAddr, TEMP, s}
      /\ \A s \in Slave : adr[s] = TEMP => s \in up /\ pc \in {"ident", "own", "unset"}
      /\ \A s, t \in Slave : adr[s] = TEMP /\ adr[t] = TEMP => s = t
      /\ pc = "own" => \A s \in Slave : adr[s] = TEMP => s = cur
  BY DEF OneTemp
<1>2. ~Cut
  BY DEF Cut
<1>3. CASE Quiet
  BY <1>1, <1>3 DEF Quiet, Kept, Stays, OneTemp, Recovering
<1>4. CASE Join
  BY <1>1, <1>4 DEF Join, Kept, Stays, OneTemp
<1>5. CASE Found
  BY <1>1, <1>5 DEF Found, Kept, OneTemp
<1>6. CASE Rejected
  BY <1>1, <1>6 DEF Rejected, Kept, OneTemp
<1>7. CASE Recognised
  <2>1. PICK s \in Slave : adr[s] = TEMP /\ type[s] = type[cur]
    BY <1>0, <1>7 DEF Recognised, Reach
  <2>2. s = cur
    BY <1>0, <2>1 DEF Apart
  <2>3. \A t \in Slave : adr[t] = TEMP => t = cur
    BY <1>1, <2>1, <2>2
  <2>4. adr' = adr /\ up' = up /\ cur' = cur /\ pc' = "own"
    BY <1>7 DEF Recognised, Kept
  <2>5. QED
    BY <1>1, <2>3, <2>4 DEF OneTemp
<1>8. ASSUME NEW s \in Slave, Off(s) PROVE OneTemp'
  <2>1. \A t \in Slave : adr'[t] = IF t = s THEN NoAddr ELSE adr[t]
    BY <1>0, <1>8 DEF Off
  <2>2. up' = up /\ pc' = pc /\ cur' = cur
    BY <1>8 DEF Off, Stays
  <2>3. QED
    BY <1>0, <1>1, <2>1, <2>2 DEF OneTemp
<1>9. ASSUME NEW o \in Outcome, Giving(o) PROVE OneTemp'
  <2>1. o = "done" /\ up' = up /\ cur' = cur
    BY <1>9 DEF Giving, Give
  <2>2. CASE pc = "clear" /\ Give(o, Reach(TEMP), NoAddr, "temp")
    <3>1. \A s \in Slave : adr'[s] = adr[s] /\ adr[s] # TEMP
      BY <1>1, <2>2, Given DEF Give, Reach
    <3>2. pc' = "temp"
      BY <2>2 DEF Give
    <3>3. QED
      BY <1>1, <3>1, <3>2 DEF OneTemp
  <2>3. CASE pc = "unset" /\ Give(o, Reach(TEMP), NoAddr, "next")
    <3>1. \A s \in Slave : adr'[s] = IF adr[s] = TEMP THEN NoAddr ELSE adr[s]
      BY <1>1, <2>1, <2>3, Given DEF Give, Reach
    <3>2. pc' = "next"
      BY <2>3 DEF Give
    <3>3. QED
      BY <1>0, <1>1, <3>1, <3>2 DEF OneTemp
  <2>4. ASSUME pc = "temp", pc' \in {"ident", "unset"}, SetAdr(o, AtPosition(cur), TEMP)
        PROVE  OneTemp'
    <3>1. AtPosition(cur) \subseteq up /\ \A s, t \in AtPosition(cur) : s = t
      BY <1>0, OneAtPosition DEF AtPosition
    <3>2. \A s \in Slave : adr[s] # TEMP
      BY <1>1, <2>4
    <3>3. \A s \in Slave : adr'[s] = IF s \in AtPosition(cur) THEN TEMP ELSE adr[s]
      BY <2>1, <2>4, Given
    <3>4. QED
      BY <1>1, <2>1, <2>4, <3>1, <3>2, <3>3 DEF OneTemp
  <2>5. CASE pc = "own" /\ Give(o, Reach(TEMP), cur, "next")
    <3>1. \A s \in Slave : adr'[s] = IF adr[s] = TEMP THEN cur ELSE adr[s]
      BY <1>1, <2>1, <2>5, Given DEF Give, Reach
    <3>2. pc' = "next"
      BY <2>5 DEF Give
    <3>3. QED
      BY <1>0, <1>1, <2>5, <3>1, <3>2 DEF OneTemp
  <2>6. QED
    BY <1>9, <2>2, <2>3, <2>4, <2>5 DEF Giving, Give
<1>10. QED
  BY <1>2, <1>3, <1>4, <1>5, <1>6, <1>7, <1>8, <1>9 DEF Move

LEMMA AddressInvKept ==
  ASSUME MonitorTypeOK, AddressInv, Move
  PROVE  AddressInv'
<1>0. /\ type' = type /\ left' \in [Fault -> Nat] /\ left \in [Fault -> Nat]
      /\ left'["cut"] <= left["cut"] /\ left'["loss"] <= left["loss"]
      /\ left'["power"] <= left["power"]
      /\ left["cut"] \in Nat /\ left'["cut"] \in Nat /\ left["loss"] \in Nat
      /\ left'["loss"] \in Nat /\ left["power"] \in Nat /\ left'["power"] \in Nat
  BY BoundsShrink DEF MonitorTypeOK, Fault
<1>1. CASE left["power"] = 0 /\ Settled
  <2>1. ~\E s \in Slave : Off(s)
    BY <1>1 DEF Off
  <2>2. Settled' /\ left'["power"] = 0
    BY <1>0, <1>1, <2>1, SettledKept
  <2>3. QED
    BY <2>2 DEF AddressInv
<1>2. CASE AfterPower
  <2>1. left["loss"] = 0 /\ left'["loss"] = 0 /\ Apart(type) /\ Apart(type)'
    BY <1>0, <1>2 DEF AfterPower, Apart
  <2>2. CASE left["cut"] = 1 /\ up = Slave /\ Settled
    <3>1. ~\E s \in Slave : Off(s)
      BY <2>2 DEF Off
    <3>2. Settled' /\ OneTemp'
      BY <2>2, <3>1, SettledKept, SettledIsOneTemp, PTL
    <3>3. CASE left'["cut"] = 0
      BY <2>1, <3>2, <3>3 DEF AddressInv, AfterPower
    <3>4. CASE left'["cut"] # 0
      <4>1. left'["cut"] = 1
        BY <1>0, <2>2, <3>4
      <4>2. ~Cut
        BY <1>0, <2>2, <4>1 DEF Cut
      <4>3. up' = Slave
        BY <2>2, <3>1, <4>2 DEF Move, Quiet, Join, Found, Recognised, Rejected, Giving, Give
      <4>4. QED
        BY <2>1, <3>2, <4>1, <4>3 DEF AddressInv, AfterPower
    <3>5. QED
      BY <3>3, <3>4
  <2>3. CASE left["cut"] = 0 /\ OneTemp
    <3>1. OneTemp' /\ left'["cut"] = 0
      BY <1>0, <2>1, <2>3, OneTempKept
    <3>2. QED
      BY <2>1, <3>1 DEF AddressInv, AfterPower
  <2>4. QED
    BY <1>2, <2>2, <2>3 DEF AfterPower
<1>3. QED
  BY <1>1, <1>2 DEF AddressInv

-----------------------------------------------------------------------------
(* Every initial state.                                                    *)
LEMMA InitRight ==
  ASSUME MonitorInit
  PROVE  MonitorTypeOK /\ Seen /\ ((\A z \in Scenario : Gentle(z)) => AddressInv)
<1>1. PICK z \in Scenario :
        /\ type = z.type
        /\ left = [cut |-> z.cut, power |-> z.power, fall |-> z.fall, loss |-> z.loss]
  BY DEF MonitorInit
<1>2. z \in [type : [Slave -> Nat], cut : Nat, power : Nat, fall : Nat, loss : Nat]
  BY ScenarioAssumption
<1>3. /\ left["cut"] = z.cut /\ left["power"] = z.power /\ left["loss"] = z.loss
      /\ left \in [Fault -> Nat] /\ type \in [Slave -> Nat]
  BY <1>1, <1>2 DEF Fault
<1>4. up = Slave /\ (\A s \in Slave : adr[s] = s) /\ pc = "poll" /\ cur = 1
      /\ adr \in [Slave -> Slave \cup {NoAddr, TEMP}]
  BY DEF MonitorInit
<1>5. MonitorTypeOK /\ Seen /\ Settled
  BY <1>3, <1>4, Numbers DEF MonitorTypeOK, Seen, Settled, Places, Recovering
<1>6. ASSUME Gentle(z) PROVE AddressInv
  <2>1. CASE z.power = 0
    BY <1>3, <1>5, <2>1 DEF AddressInv
  <2>2. CASE z.cut <= 1 /\ z.loss = 0 /\ Apart(z.type)
    <3>1. left["cut"] \in {0, 1} /\ left["loss"] = 0 /\ Apart(type)
      BY <1>1, <1>2, <1>3, <2>2 DEF Apart
    <3>2. AfterPower
      BY <1>4, <1>5, <3>1, SettledIsOneTemp DEF AfterPower
    <3>3. QED
      BY <3>2 DEF AddressInv
  <2>3. QED
    BY <1>6, <2>1, <2>2 DEF Gentle
<1>7. QED
  BY <1>1, <1>5, <1>6

LEMMA TypesAndSeen == MonitorSpec => [](MonitorTypeOK /\ Seen)
<1>1. MonitorInit => MonitorTypeOK /\ Seen
  BY InitRight
<1>2. MonitorTypeOK /\ Seen /\ [MonitorNext]_monitorVars => (MonitorTypeOK /\ Seen)'
  BY Moves, TypeKept, SeenKept
<1>3. QED
  BY <1>1, <1>2, PTL DEF MonitorSpec

(* While every slave still has its address, the recovery readdresses none  *)
(* of those in reach: in every scenario, however many slaves are unplugged *)
(* or lose their power and however many datagrams are lost.                *)
THEOREM AddressesKept == MonitorSpec => AddressKept
<1>1. MonitorTypeOK /\ Seen /\ [MonitorNext]_monitorVars =>
        [(\A s \in Slave : adr[s] = s) => \A s \in up : adr'[s] = s]_monitorVars
  BY Moves, KeptByMove
<1>2. QED
  BY <1>1, TypesAndSeen, PTL DEF MonitorSpec, AddressKept

(* The inductive invariant of the addresses.                               *)
THEOREM MonitorInductive == (\A z \in Scenario : Gentle(z)) => (MonitorSpec => []MonitorInv)
<1> SUFFICES ASSUME \A z \in Scenario : Gentle(z)
             PROVE  MonitorSpec => []MonitorInv
  OBVIOUS
<1>1. MonitorInit => MonitorInv
  BY InitRight DEF MonitorInv
<1>2. MonitorInv /\ [MonitorNext]_monitorVars => MonitorInv'
  BY Moves, TypeKept, SeenKept, AddressInvKept DEF MonitorInv
<1>3. QED
  BY <1>1, <1>2, PTL DEF MonitorSpec

(* No slave carries the station address of another one.                    *)
THEOREM AddressesRight == (\A z \in Scenario : Gentle(z)) => (MonitorSpec => []RightAddress)
<1>1. MonitorInv => RightAddress
  BY DEF MonitorInv, AddressInv, AfterPower, Settled, OneTemp, RightAddress
<1>2. QED
  BY <1>1, MonitorInductive, PTL

(* No slave in reach keeps EC_TEMPNODE once its recovery is over.          *)
THEOREM TempForTheTime == (\A z \in Scenario : Gentle(z)) => (MonitorSpec => []TempIsTemporary)
<1>1. MonitorInv => TempIsTemporary
  <2> SUFFICES ASSUME MonitorInv, pc = "poll" PROVE Reach(TEMP) = {}
    BY DEF TempIsTemporary
  <2>1. up \subseteq Slave /\ \A s \in Slave : adr[s] # TEMP
    BY Numbers DEF MonitorInv, MonitorTypeOK, AddressInv, AfterPower, Settled, OneTemp
  <2>2. QED
    BY <2>1 DEF Reach
<1>2. QED
  BY <1>1, MonitorInductive, PTL

-----------------------------------------------------------------------------
(* A nonempty set of natural numbers has a least element. *)
LEMMA Least ==
  ASSUME NEW S \in SUBSET Nat, S # {}
  PROVE  \E x \in S : \A y \in S : x <= y
<1>1. PICK n \in S : TRUE
  OBVIOUS
<1>2. IsFiniteSet(0..n) /\ n \in Nat
  BY FS_Interval
<1> DEFINE R == StrictSubsetOrdering(0..n)
<1> DEFINE T == {0..x : x \in {y \in S : y <= n}}
<1>3. IsWellFoundedOn(R, SUBSET (0..n))
  BY <1>2, FS_StrictSubsetOrderingWellFounded, FS_FiniteSubsetsOfFinite
<1>4. T \subseteq SUBSET (0..n)
  <2>1. \A x \in Nat : x <= n => 0..x \subseteq 0..n
    BY <1>2
  <2>2. QED
    BY <2>1
<1>5. T # {}
  BY <1>1
<1>6. \E I \in T : \A J \in T : ~(<<J, I>> \in R)
  <2> HIDE DEF R, T
  <2>1. QED
    BY <1>3, <1>4, <1>5, WFMin
<1>7. PICK x \in S : x <= n /\ \A J \in T : <<J, 0..x>> \notin R
  BY <1>6
<1>8. \A y \in S : x <= y
  <2> SUFFICES ASSUME NEW y \in S, y < x PROVE FALSE
    BY <1>7
  <2>1. y <= n /\ 0..y \in T
    BY <1>2, <1>7
  <2>2. 0..y \subseteq 0..x /\ x \in 0..x /\ x \notin 0..y
    BY <1>2, <1>7
  <2>3. 0..y \in SUBSET (0..n) /\ 0..x \in SUBSET (0..n)
    BY <1>2, <1>7, <2>1
  <2>4. <<0..y, 0..x>> \in R
    BY <2>2, <2>3 DEF StrictSubsetOrdering
  <2>5. QED
    BY <1>7, <2>1, <2>4
<1>9. QED
  BY <1>8

(* What is to be known of a segment.                                       *)
LEMMA Wiring ==
  ASSUME NEW b, IsSegment(b)
  PROVE  /\ b.n \in Nat /\ b.n > 0 /\ Slaves(b) = 1..b.n
         /\ \A s \in Slaves(b) : b.parent[s] \in Nat /\ b.parent[s] < s
         /\ \A s \in Slaves(b) : b.parent[s] = 0 <=> s = 1
         /\ \A s \in Slaves(b), t \in Slaves(b) :
              s < t => b.parent[t] <= b.parent[s] \/ b.parent[t] >= s
         /\ IsFiniteSet(Slaves(b))
         /\ \A s \in Slaves(b) : IsFiniteSet(ChildrenOf(b, s))
         /\ \A s \in Slaves(b) : b.port[s] \in {1, 2, 3}
<1>1. /\ b.n \in Nat /\ b.n > 0 /\ Slaves(b) = 1..b.n
      /\ b.parent \in [Slaves(b) -> Nat] /\ b.port \in [Slaves(b) -> {1, 2, 3}]
  BY DEF IsSegment, Slaves
<1>2. \A s \in Slaves(b) : b.parent[s] < s /\ (b.parent[s] = 0 <=> s = 1)
  BY DEF IsSegment
<1>3. \A s \in Slaves(b), t \in Slaves(b) :
        s < t => b.parent[t] <= b.parent[s] \/ b.parent[t] >= s
  BY DEF IsSegment
<1>4. IsFiniteSet(Slaves(b)) /\ \A s \in Slaves(b) : IsFiniteSet(ChildrenOf(b, s))
  <2>1. IsFiniteSet(Slaves(b))
    <3>1. b.n \in Int /\ 1 \in Int
      BY <1>1
    <3>2. IsFiniteSet(1..b.n)
      BY <3>1, FS_Interval
    <3>3. QED
      BY <1>1, <3>2
  <2>2. \A s \in Slaves(b) : ChildrenOf(b, s) \in SUBSET Slaves(b)
    BY DEF ChildrenOf
  <2>3. QED
    BY <2>1, <2>2, FS_Subset
<1>5. QED
  BY <1>1, <1>2, <1>3, <1>4

(* Slaves that hang on one slave hang on ports of their own, and none on   *)
(* port 0.                                                                 *)
LEMMA OnePortEach ==
  ASSUME NEW b, IsSegment(b), NEW p \in Slaves(b)
  PROVE  /\ IsFiniteSet(ChildrenOf(b, p)) /\ Cardinality(ChildrenOf(b, p)) \in Nat
         /\ Cardinality(OpenPorts(b, p)) = Cardinality(ChildrenOf(b, p)) + 1
         /\ Cardinality(ChildrenOf(b, p)) <= 3
<1> DEFINE C == ChildrenOf(b, p)
           T == {b.port[c] : c \in C}
           f == [c \in C |-> b.port[c]]
<1>1. IsFiniteSet(C) /\ Cardinality(C) \in Nat
  BY Wiring, FS_CardinalityType
<1>2. \A x \in {1, 2, 3} : Rank(x) \in 1..4
  <2>1. \A x \in {1, 2, 3} : \E i \in 1..4 : Order[i] = x
    BY DEF Order
  <2>2. QED
    BY <2>1 DEF Rank
<1>3. \A c \in C, d \in C : c # d => b.port[c] # b.port[d]
  <2> SUFFICES ASSUME NEW c \in C, NEW d \in C, c < d PROVE b.port[c] # b.port[d]
    BY Wiring DEF ChildrenOf
  <2>1. Rank(b.port[c]) < Rank(b.port[d])
    BY DEF IsSegment, ChildrenOf
  <2>2. Rank(b.port[c]) \in 1..4
    BY <1>2, Wiring DEF ChildrenOf
  <2>3. QED
    BY <2>1, <2>2
<1>4. f \in Bijection(C, T)
  <2> HIDE DEF C
  <2>1. f \in [C -> T]
    OBVIOUS
  <2>2. \A c \in C, d \in C : c # d => f[c] # f[d]
    BY <1>3
  <2>3. \A t \in T : \E c \in C : f[c] = t
    OBVIOUS
  <2> HIDE DEF f, T
  <2>4. QED
    BY <2>1, <2>2, <2>3 DEF Bijection, Injection, Surjection, IsInjective
<1>5. IsFiniteSet(T) /\ Cardinality(T) = Cardinality(C)
  BY <1>1, <1>4, FS_Bijection DEF ExistsBijection
<1>6. T \in SUBSET {1, 2, 3}
  BY Wiring DEF ChildrenOf
<1>7. 0 \notin T
  BY <1>6
<1>8. OpenPorts(b, p) = T \cup {0}
  BY DEF OpenPorts
<1>9. Cardinality(OpenPorts(b, p)) = Cardinality(C) + 1
  BY <1>5, <1>7, <1>8, FS_AddElement
<1>10. {1, 2, 3} = 1..3
  OBVIOUS
<1>11. Cardinality(T) <= 3
  <2>1. IsFiniteSet(1..3) /\ Cardinality(1..3) = 3
    <3>1. 1 \in Int /\ 3 \in Int /\ ~(1 > 3) /\ 3 - 1 + 1 = 3
      OBVIOUS
    <3>2. IsFiniteSet(1..3) /\ Cardinality(1..3) = IF 1 > 3 THEN 0 ELSE 3 - 1 + 1
      BY <3>1, FS_Interval
    <3>3. QED
      BY <3>1, <3>2
  <2>2. Cardinality(T) <= Cardinality(1..3)
    BY <1>6, <1>10, <2>1, FS_Subset
  <2>3. QED
    BY <2>1, <2>2
<1>12. QED
  BY <1>1, <1>5, <1>9, <1>11

(* The slaves that hang on slave v or one between it and s.                *)
Kids(b, v, s) == {c \in Slaves(b) : v <= b.parent[c] /\ b.parent[c] < s}

(* There are finitely many of them. *)
LEMMA KidsCounted ==
  ASSUME NEW b, IsSegment(b), NEW s \in Slaves(b), NEW v \in 1..s
  PROVE  /\ IsFiniteSet(Kids(b, v, s)) /\ Cardinality(Kids(b, v, s)) \in Nat
         /\ v = s => Cardinality(Kids(b, v, s)) = 0
         /\ v < s => Cardinality(Kids(b, v, s)) =
                       Cardinality(Kids(b, v + 1, s)) + Cardinality(ChildrenOf(b, v))
<1>1. \A w \in Nat : Kids(b, w, s) \in SUBSET Slaves(b)
  BY DEF Kids
<1>2. IsFiniteSet(Slaves(b))
  BY Wiring
<1>3. \A w \in Nat : IsFiniteSet(Kids(b, w, s)) /\ Cardinality(Kids(b, w, s)) \in Nat
  BY <1>1, <1>2, FS_Subset, FS_CardinalityType
<1>4. ASSUME v = s PROVE Cardinality(Kids(b, v, s)) = 0
  <2>1. Kids(b, v, s) = {}
    BY <1>4, Wiring DEF Kids
  <2>2. QED
    BY <2>1, FS_EmptySet
<1>5. ASSUME v < s
      PROVE  Cardinality(Kids(b, v, s)) =
               Cardinality(Kids(b, v + 1, s)) + Cardinality(ChildrenOf(b, v))
  <2>1. v \in Slaves(b) /\ v + 1 \in Nat /\ v \in Nat
    BY Wiring
  <2>2. IsFiniteSet(ChildrenOf(b, v)) /\ Cardinality(ChildrenOf(b, v)) \in Nat
    BY <2>1, OnePortEach
  <2>3. Kids(b, v, s) = Kids(b, v + 1, s) \cup ChildrenOf(b, v)
    BY <1>5, <2>1, Wiring DEF Kids, ChildrenOf
  <2>4. Kids(b, v + 1, s) \cap ChildrenOf(b, v) = {}
    BY <2>1, Wiring DEF Kids, ChildrenOf
  <2>5. Cardinality(Kids(b, v + 1, s) \cap ChildrenOf(b, v)) = 0
    BY <2>4, FS_EmptySet
  <2>6. IsFiniteSet(Kids(b, v + 1, s)) /\ Cardinality(Kids(b, v + 1, s)) \in Nat
    BY <1>3, <2>1
  <2>7. Cardinality(Kids(b, v + 1, s) \cup ChildrenOf(b, v)) =
          Cardinality(Kids(b, v + 1, s)) + Cardinality(ChildrenOf(b, v)) -
          Cardinality(Kids(b, v + 1, s) \cap ChildrenOf(b, v))
    BY <2>2, <2>6, FS_Union
  <2>8. QED
    BY <2>2, <2>3, <2>5, <2>6, <2>7
<1>6. QED
  BY <1>3, <1>4, <1>5

(* The count of the open ends, in closed form: there is one function only  *)
(* that counts like this.                                                  *)
LEMMA EndsCounted ==
  ASSUME NEW b, IsSegment(b), NEW s \in Slaves(b), NEW topology,
         \A v \in 1..(s - 1) : topology[v] = Cardinality(OpenPorts(b, v))
  PROVE  \A v \in 1..s :
           OpenEnds(s, topology)[v] = Cardinality(Kids(b, v, s)) - (s - v)
<1> DEFINE Tallies(f) ==
       f = [v \in 1..s |-> IF v >= s THEN 0 ELSE f[v + 1] + Spare(topology[v])]
           g == [v \in 1..s |-> Cardinality(Kids(b, v, s)) - (s - v)]
<1>0. s \in Nat /\ s >= 1 /\ \A v \in 1..s : v \in Slaves(b)
  BY Wiring
<1>1. \A v \in 1..s : v < s => g[v] = g[v + 1] + Spare(topology[v])
  <2> SUFFICES ASSUME NEW v \in 1..s, v < s
               PROVE  g[v] = g[v + 1] + Spare(topology[v])
    OBVIOUS
  <2>1. v \in Slaves(b) /\ v + 1 \in 1..s /\ v \in 1..(s - 1)
    BY <1>0
  <2>2. topology[v] = Cardinality(ChildrenOf(b, v)) + 1
    BY <2>1, OnePortEach
  <2>3. Cardinality(ChildrenOf(b, v)) \in 0..3
    BY <2>1, OnePortEach
  <2>4. Spare(topology[v]) = Cardinality(ChildrenOf(b, v)) - 1
    BY <2>2, <2>3 DEF Spare
  <2>5. Cardinality(Kids(b, v, s)) =
          Cardinality(Kids(b, v + 1, s)) + Cardinality(ChildrenOf(b, v))
    BY KidsCounted
  <2>6. Cardinality(Kids(b, v + 1, s)) \in Nat /\ Cardinality(Kids(b, v, s)) \in Nat
    BY <2>1, KidsCounted
  <2>7. QED
    BY <2>1, <2>3, <2>4, <2>5, <2>6
<1>2. g[s] = 0
  BY <1>0, KidsCounted
<1>3. Tallies(g)
  <2>1. \A v \in 1..s : g[v] = IF v >= s THEN 0 ELSE g[v + 1] + Spare(topology[v])
    <3> HIDE DEF g
    <3>1. QED
      BY <1>0, <1>1, <1>2
  <2>2. g = [v \in 1..s |-> g[v]]
    OBVIOUS
  <2>3. QED
    <3> HIDE DEF g
    <3>1. QED
      BY <2>1, <2>2
<1>4. \E f : Tallies(f)
  <2> HIDE DEF g, Tallies
  <2>1. QED
    BY <1>3
<1>5. Tallies(OpenEnds(s, topology))
  BY <1>4 DEF OpenEnds
<1>6. ASSUME NEW v \in 1..s, OpenEnds(s, topology)[v] # g[v] PROVE FALSE
  <2> DEFINE h == OpenEnds(s, topology)
             D == {x \in Nat : x <= s - 1 /\ h[s - x] # g[s - x]}
  <2> HIDE DEF g
  <2>1. \A w \in 1..s : h[w] = IF w >= s THEN 0 ELSE h[w + 1] + Spare(topology[w])
    BY <1>5
  <2> HIDE DEF h
  <2>2. s - v \in D
    <3>1. s - (s - v) = v /\ s - v \in Nat /\ s - v <= s - 1
      BY <1>0
    <3>2. QED
      BY <1>6, <3>1 DEF h
  <2>3. PICK x \in D : \A y \in D : x <= y
    <3> HIDE DEF D
    <3>1. D \in SUBSET Nat
      BY DEF D
    <3>2. QED
      BY <2>2, <3>1, Least
  <2>4. x \in Nat /\ s - x \in 1..s /\ h[s - x] # g[s - x]
    BY <1>0, <2>3
  <2>5. x # 0
    BY <1>0, <1>2, <2>1, <2>4
  <2>6. x - 1 \notin D /\ x - 1 \in Nat /\ x - 1 <= s - 1
    BY <1>0, <2>3, <2>4, <2>5
  <2>7. h[s - (x - 1)] = g[s - (x - 1)] /\ s - (x - 1) = (s - x) + 1
    BY <1>0, <2>4, <2>6
  <2>8. h[(s - x) + 1] = g[(s - x) + 1]
    BY <2>7
  <2>9. QED
    BY <1>0, <1>1, <2>1, <2>4, <2>5, <2>8
<1>7. QED
  BY <1>6

(* The search finds the slave that slave s hangs on, in every tree: from   *)
(* it on at least as many slaves hang on the slaves before s as follow     *)
(* there and s itself; from a later one on, only those that follow.        *)
LEMMA ParentIsFound ==
  ASSUME NEW b, IsSegment(b), NEW s \in Slaves(b), NEW topology,
         \A v \in 1..(s - 1) : topology[v] = Cardinality(OpenPorts(b, v))
  PROVE  ParentOf(s, topology) = b.parent[s]
<1> DEFINE p == b.parent[s]
           ends == OpenEnds(s, topology)
           found == {v \in 1..(s - 1) : (ends[v] >= 0 /\ topology[v] > 1) \/ v = 1}
<1>1. CASE s = 1
  BY <1>1, Wiring DEF ParentOf
<1>2. CASE s # 1
  <2>1. s \in Nat /\ s > 1 /\ p \in 1..(s - 1) /\ s <= b.n /\ b.n \in Nat
    BY <1>2, Wiring
  <2>2. p \in found
    <3>1. p + 1 .. s \in SUBSET Kids(b, p, s)
      <4> SUFFICES ASSUME NEW c \in p + 1 .. s PROVE c \in Kids(b, p, s)
        OBVIOUS
      <4>1. c \in Slaves(b) /\ c <= s
        BY <2>1, Wiring
      <4>2. b.parent[c] \in Nat /\ b.parent[c] < c
        BY <4>1, Wiring
      <4>3. CASE c = s
        BY <2>1, <4>1, <4>3 DEF Kids
      <4>4. CASE c < s
        <5>1. p <= b.parent[c] \/ p >= c
          BY <4>1, <4>4, Wiring
        <5>2. p <= b.parent[c]
          BY <2>1, <5>1
        <5>3. QED
          BY <2>1, <4>1, <4>2, <5>2 DEF Kids
      <4>5. QED
        BY <2>1, <4>3, <4>4
    <3>2. IsFiniteSet(Kids(b, p, s)) /\ Cardinality(Kids(b, p, s)) \in Nat
      BY <2>1, KidsCounted
    <3>3. Cardinality(p + 1 .. s) = s - p
      <4>1. p + 1 \in Int /\ s \in Int /\ ~(p + 1 > s) /\ s - (p + 1) + 1 = s - p
        BY <2>1
      <4>2. Cardinality(p + 1 .. s) = s - (p + 1) + 1
        BY <4>1, FS_Interval
      <4>3. QED
        BY <4>1, <4>2
    <3>4. Cardinality(Kids(b, p, s)) >= s - p
      <4>1. Cardinality(p + 1 .. s) <= Cardinality(Kids(b, p, s))
        BY <3>1, <3>2, FS_Subset
      <4>2. QED
        BY <2>1, <3>2, <3>3, <4>1
    <3>5. ends[p] >= 0
      <4>1. ends[p] = Cardinality(Kids(b, p, s)) - (s - p)
        BY <2>1, EndsCounted
      <4>2. QED
        BY <2>1, <3>2, <3>4, <4>1
    <3>6. p \in Slaves(b) /\ s \in ChildrenOf(b, p)
      BY <2>1, Wiring DEF ChildrenOf
    <3>7. Cardinality(ChildrenOf(b, p)) # 0 /\ Cardinality(ChildrenOf(b, p)) \in Nat
      BY <3>6, OnePortEach, FS_EmptySet
    <3>8. topology[p] > 1
      BY <2>1, <3>6, <3>7, OnePortEach
    <3>9. QED
      BY <2>1, <3>5, <3>8
  <2>3. \A v \in found : v <= p
    <3> SUFFICES ASSUME NEW v \in found, v > p PROVE FALSE
      BY <2>1
    <3>1. v \in 1..(s - 1) /\ v > 1 /\ ends[v] >= 0
      BY <2>1
    <3>2. Kids(b, v, s) \in SUBSET (v + 1 .. s - 1)
      <4> SUFFICES ASSUME NEW c \in Kids(b, v, s) PROVE c \in v + 1 .. s - 1
        OBVIOUS
      <4>1. c \in Slaves(b) /\ v <= b.parent[c] /\ b.parent[c] < s
        BY DEF Kids
      <4>2. b.parent[c] \in Nat /\ b.parent[c] < c /\ c \in Nat
        BY <4>1, Wiring
      <4>3. c # s
        BY <2>1, <4>1, <3>1
      <4>4. ~(c > s)
        <5> SUFFICES ASSUME c > s PROVE FALSE
          OBVIOUS
        <5>1. b.parent[c] <= p \/ b.parent[c] >= s
          BY <4>1, Wiring
        <5>2. QED
          BY <2>1, <3>1, <4>1, <4>2, <5>1
      <4>5. QED
        BY <2>1, <3>1, <4>1, <4>2, <4>3, <4>4
    <3>3. IsFiniteSet(v + 1 .. s - 1) /\ Cardinality(v + 1 .. s - 1) = s - 1 - v
      <4>1. v + 1 \in Int /\ s - 1 \in Int /\ s - 1 - (v + 1) + 1 = s - 1 - v
        BY <2>1, <3>1
      <4>2. v + 1 > s - 1 => s - 1 - v = 0
        BY <2>1, <3>1
      <4>3. /\ IsFiniteSet(v + 1 .. s - 1)
            /\ Cardinality(v + 1 .. s - 1) =
                 IF v + 1 > s - 1 THEN 0 ELSE s - 1 - (v + 1) + 1
        BY <4>1, FS_Interval
      <4>4. QED
        BY <4>1, <4>2, <4>3
    <3>4. Cardinality(Kids(b, v, s)) <= s - 1 - v
      BY <3>2, <3>3, FS_Subset
    <3>5. ends[v] = Cardinality(Kids(b, v, s)) - (s - v)
      <4>1. v \in 1..s
        BY <2>1, <3>1
      <4>2. QED
        BY <4>1, EndsCounted
    <3>6. Cardinality(Kids(b, v, s)) \in Nat
      BY <2>1, <3>1, KidsCounted
    <3>7. QED
      BY <2>1, <3>1, <3>4, <3>5, <3>6
  <2>4. Max(found) = p
    <3> HIDE DEF found, ends
    <3>1. found \in SUBSET Nat
      BY <2>1 DEF found
    <3>2. \A x \in found : (\A y \in found : x >= y) => x = p
      BY <2>1, <2>2, <2>3, <3>1
    <3>3. \E x \in found : \A y \in found : x >= y
      BY <2>1, <2>2, <2>3, <3>1
    <3>4. QED
      BY <3>2, <3>3 DEF Max
  <2>5. QED
    BY <1>2, <2>4 DEF ParentOf
<1>3. QED
  BY <1>1, <1>2

-----------------------------------------------------------------------------
(* Where the configuration is: the first loops, the loop over placing a    *)
(* slave, reading its SII and sending it to PRE_OP, and all that follows.  *)
Loop == [address |-> 1, man |-> 2, id |-> 3, rev |-> 4, mbx |-> 5]
Placing == [place |-> 5, sii |-> 6, preop |-> 7]
Configured == {"hook", "coe", "pdo", "soe", "map", "latch", "dc", "sync"}

(* What has been done for slave s, of the eight things there are to do.    *)
Did(s) ==
  IF stage \in DOMAIN Loop THEN (IF s < slave THEN Loop[stage] ELSE Loop[stage] - 1)
  ELSE IF stage \in DOMAIN Placing
       THEN (IF s < slave THEN 8 ELSE IF s = slave THEN Placing[stage] ELSE 5)
  ELSE IF stage \in Configured THEN 8 ELSE 0

(* The shape of what the master and the slaves keep. *)
Shape ==
  /\ IsSegment(bus) /\ slave \in Slaves(bus)
  /\ DOMAIN esc = Slaves(bus) /\ \A s \in Slaves(bus) : DOMAIN esc[s] = DOMAIN LeftBehind
  /\ DOMAIN slavelist = 0..bus.n
  /\ \A s \in 0..bus.n : /\ DOMAIN slavelist[s] = DOMAIN Cleared
                         /\ slavelist[s].ids \in [1..3 -> Nat]
  /\ stage \in {"detect", "too many"} \cup DOMAIN Loop \cup DOMAIN Placing \cup Configured
  /\ slavecount = IF stage \in {"detect", "too many"} THEN 0 ELSE bus.n

(* What is right of slave s when d things have been done for it.           *)
Addressed(s, d) ==
  d >= 1 => esc[s].adr = NewAddress(s) /\ slavelist[s].configadr = NewAddress(s)
Identified(s, d) ==
  /\ \A i \in 1..3 : d >= i + 1 => slavelist[s].ids[i] = KindOf(s).ids[i]
  /\ \A i \in 1..3 : d = i => esc[s].chip = KindOf(s).ids[i]
Worded(s, d) ==
  /\ d = 4 => esc[s].chip = <<KindOf(s).wo, KindOf(s).l>>
  /\ d \in 5..7 => slavelist[s].wo = KindOf(s).wo /\ slavelist[s].l = KindOf(s).l
  /\ d = 5 /\ KindOf(s).l > 0 => esc[s].chip = <<KindOf(s).ro, KindOf(s).rl>>
  /\ d \in 6..7 /\ KindOf(s).l > 0 =>
       /\ slavelist[s].ro = KindOf(s).ro
       /\ slavelist[s].rl = IF KindOf(s).rl = 0 THEN KindOf(s).l ELSE KindOf(s).rl
InTree(s, d) ==
  d >= 6 => /\ slavelist[s].parent = bus.parent[s]
            /\ slavelist[s].topology = Cardinality(OpenPorts(bus, s))
            /\ slavelist[s].hasdc = (s \in bus.dc)
Ready(s, d) ==
  /\ SiiIsTrue /\ d = 7 /\ KindOf(s).l > 0 =>
       \A n \in 0..1 : WithDefault(slavelist[s].sm[n], n) = Firmware(KindOf(s), n)
  /\ SiiIsTrue /\ d = 8 /\ s \notin bus.odd => esc[s].al = "preop"
  /\ slavelist[s].eep_pdi = IF d = 8 THEN 1 ELSE 0

Right(s, d) ==
  Addressed(s, d) /\ Identified(s, d) /\ Worded(s, d) /\ InTree(s, d) /\ Ready(s, d)

AllRight == \A s \in Slaves(bus) : Right(s, Did(s))

(* The mailboxes of slaves that may be copied from. *)
Mailboxes ==
  SiiIsTrue /\ stage \in DOMAIN Placing =>
    \A s \in Slaves(bus) : s < slave /\ KindOf(s).l > 0 =>
      \A n \in 0..1 : slavelist[s].sm[n] = Firmware(KindOf(s), n)

ConfigInv == Shape /\ AllRight /\ Mailboxes

-----------------------------------------------------------------------------
(* The fields of the records. *)
LEMMA Names ==
  /\ DOMAIN Loop = {"address", "man", "id", "rev", "mbx"}
  /\ DOMAIN Placing = {"place", "sii", "preop"}
  /\ DOMAIN LeftBehind = {"adr", "al", "eeprom", "chip", "sm", "stamp", "delay", "sync", "act"}
  /\ DOMAIN Cleared = {"configadr", "ids", "wo", "l", "ro", "rl", "proto", "hasdc", "ports",
       "topology", "parent", "eep_pdi", "ca", "sm", "SMtype", "Obits", "Ibits", "rt",
       "consumed", "entry", "pport", "pdelay", "DCnext", "DCprevious", "DCactive", "DCcycle"}
  /\ Cleared.ids \in [1..3 -> Nat] /\ Cleared.eep_pdi = 0
  /\ Placing.place = 5 /\ Placing.sii = 6 /\ Placing.preop = 7
BY DEF Loop, Placing, LeftBehind, Cleared

(* The configuration begins like this. *)
LEMMA ConfigBegins ==
  ASSUME SegmentConstants, ConfigStart
  PROVE  ConfigInv
<1>1. IsSegment(bus)
  BY DEF SegmentConstants, ConfigStart
<1>2. 1 \in Slaves(bus) /\ bus.n \in Nat /\ Slaves(bus) = 1..bus.n
  BY <1>1, Wiring
<1>3. Shape
  BY <1>1, <1>2, Names DEF Shape, ConfigStart
<1>4. ASSUME NEW s \in Slaves(bus) PROVE Right(s, Did(s))
  <2>1. Did(s) = 0
    BY Names DEF Did, ConfigStart, Configured
  <2>2. slavelist[s].eep_pdi = 0
    BY <1>2, Names DEF ConfigStart
  <2>3. QED
    BY <2>1, <2>2 DEF Right, Addressed, Identified, Worded, InTree, Ready
<1>5. Mailboxes
  BY Names DEF Mailboxes, ConfigStart
<1>6. QED
  BY <1>3, <1>4, <1>5 DEF ConfigInv, AllRight

(* Detection clears the list and goes on with the first address.           *)
LEMMA DetectKeeps ==
  ASSUME ConfigInv, Detect
  PROVE  ConfigInv'
<1>1. IsSegment(bus) /\ bus.n \in Nat /\ bus.n > 0 /\ Slaves(bus) = 1..bus.n /\ bus' = bus
  BY Wiring DEF ConfigInv, Shape, Detect
<1>2. /\ DOMAIN slavelist' = 0..bus.n
      /\ \A s \in 0..bus.n : slavelist'[s] = Cleared
  BY <1>1 DEF ConfigInv, Shape, Detect
<1>3. /\ DOMAIN esc' = Slaves(bus)
      /\ \A s \in Slaves(bus) : DOMAIN esc'[s] = DOMAIN LeftBehind
  BY <1>1 DEF ConfigInv, Shape, Detect
<1>4. /\ stage' \in {"address", "too many"} /\ slave' = 1
      /\ slavecount' = IF stage' = "address" THEN bus.n ELSE 0
  BY DEF ConfigInv, Shape, Detect
<1>5. Shape'
  <2>1. (IsSegment(bus) /\ slave \in Slaves(bus))'
    <3>0. 1 \in 1..bus.n
      BY <1>1
    <3>1. slave' \in Slaves(bus)
      BY <1>1, <1>4, <3>0
    <3>2. QED
      BY <1>1, <3>1
  <2>2. (DOMAIN esc = Slaves(bus) /\ \A s \in Slaves(bus) : DOMAIN esc[s] = DOMAIN LeftBehind)'
    BY <1>1, <1>3
  <2>3. (/\ DOMAIN slavelist = 0..bus.n
         /\ \A s \in 0..bus.n : /\ DOMAIN slavelist[s] = DOMAIN Cleared
                                /\ slavelist[s].ids \in [1..3 -> Nat])'
    BY <1>1, <1>2, Names
  <2>4. (/\ stage \in {"detect", "too many"} \cup DOMAIN Loop \cup DOMAIN Placing \cup Configured
         /\ slavecount = IF stage \in {"detect", "too many"} THEN 0 ELSE bus.n)'
    BY <1>1, <1>4, Names
  <2>5. QED
    BY <2>1, <2>2, <2>3, <2>4 DEF Shape
<1>6. ASSUME NEW s \in Slaves(bus) PROVE Right(s, Did(s))'
  <2>1. Did(s)' = 0
    <3>1. s >= 1 /\ s \in Nat
      BY <1>1
    <3>2. Loop.address = 1
      BY DEF Loop
    <3>3. CASE stage' = "address"
      BY <1>4, <3>1, <3>2, <3>3, Names DEF Did
    <3>4. CASE stage' = "too many"
      BY <3>4, Names DEF Did, Configured
    <3>5. QED
      BY <1>4, <3>3, <3>4
  <2>2. slavelist'[s].eep_pdi = 0
    BY <1>1, <1>2, Names
  <2>3. QED
    BY <2>1, <2>2 DEF Right, Addressed, Identified, Worded, InTree, Ready
<1>7. Mailboxes'
  BY <1>4, Names DEF Mailboxes
<1>8. QED
  BY <1>1, <1>5, <1>6, <1>7 DEF ConfigInv, AllRight

(* The numbers the proofs count with. *)
LEMMA SegmentNumbers ==
  ASSUME Shape
  PROVE  /\ IsSegment(bus) /\ bus.n \in Nat /\ bus.n > 0 /\ Slaves(bus) = 1..bus.n
         /\ slave \in Slaves(bus) /\ slave \in Nat
         /\ \A s \in Slaves(bus) : s \in Nat /\ s >= 1 /\ s <= bus.n /\ s \in 0..bus.n
         /\ \A s \in Slaves(bus) : Did(s) \in 0..8
         /\ \A s \in Slaves(bus) : bus.kind[s] \in DOMAIN Kind
<1>1. /\ IsSegment(bus) /\ bus.n \in Nat /\ bus.n > 0 /\ Slaves(bus) = 1..bus.n
      /\ slave \in Slaves(bus)
  BY Wiring DEF Shape
<1>2. \A s \in Slaves(bus) : s \in Nat /\ s >= 1 /\ s <= bus.n /\ s \in 0..bus.n
  BY <1>1
<1>3. \A s \in Slaves(bus) : Did(s) \in 0..8
  BY <1>2, Names DEF Did, Loop, Placing
<1>4. \A s \in Slaves(bus) : bus.kind[s] \in DOMAIN Kind
  BY <1>1 DEF IsSegment
<1>5. QED
  BY <1>1, <1>2, <1>3, <1>4

(* A step of one of the first loops counts for the slave it is about.      *)
LEMMA LoopCounts ==
  ASSUME Shape, NEW i \in 1..5, NEW here, NEW there,
         here = <<"address", "man", "id", "rev", "mbx">>[i],
         there = <<"man", "id", "rev", "mbx", "place">>[i],
         stage = here, ForEach(here, there), bus' = bus, slavecount' = slavecount
  PROVE  /\ Did(slave) = i - 1
         /\ \A s \in Slaves(bus) : Did(s)' = IF s = slave THEN i ELSE Did(s)
         /\ slave' \in Slaves(bus)
         /\ (/\ stage \in {"detect", "too many"} \cup DOMAIN Loop \cup DOMAIN Placing \cup Configured
             /\ slavecount = IF stage \in {"detect", "too many"} THEN 0 ELSE bus.n)'
         /\ stage' \in DOMAIN Placing => slave' = 1
<1>1. /\ here \in DOMAIN Loop /\ Loop[here] = i
      /\ there \in DOMAIN Loop \/ there = "place"
      /\ there \in DOMAIN Loop => Loop[there] = i + 1
      /\ there = "place" => i = 5
  <2>1. i = 1 \/ i = 2 \/ i = 3 \/ i = 4 \/ i = 5
    OBVIOUS
  <2>2. QED
    BY <2>1, Names DEF Loop
<1>2. slavecount = bus.n
  BY <1>1, Names DEF Shape
<1>3. Did(slave) = i - 1
  BY <1>1, SegmentNumbers DEF Did
<1>4. CASE slave < slavecount
  <2>1. stage' = here /\ slave' = slave + 1
    BY <1>4 DEF ForEach
  <2>2. slave' \in Slaves(bus)
    BY <1>2, <1>4, <2>1, SegmentNumbers
  <2>3. \A s \in Slaves(bus) : Did(s)' = IF s = slave THEN i ELSE Did(s)
    BY <1>1, <2>1, SegmentNumbers DEF Did
  <2>4. QED
    BY <1>1, <1>2, <1>3, <2>1, <2>2, <2>3, Names
<1>5. CASE ~(slave < slavecount)
  <2>1. stage' = there /\ slave' = 1 /\ slave = bus.n
    BY <1>2, <1>5, SegmentNumbers DEF ForEach
  <2>2. slave' \in Slaves(bus)
    BY <2>1, SegmentNumbers
  <2>3. \A s \in Slaves(bus) : Did(s) = IF s = slave THEN i - 1 ELSE i
    BY <1>1, <2>1, SegmentNumbers DEF Did
  <2>4. \A s \in Slaves(bus) : Did(s)' = i
    <3>1. CASE there \in DOMAIN Loop
      BY <1>1, <2>1, <3>1, SegmentNumbers DEF Did
    <3>2. CASE there = "place"
      <4>1. there \notin DOMAIN Loop /\ there \in DOMAIN Placing /\ Placing[there] = 5 /\ i = 5
        BY <1>1, <3>2, Names DEF Placing
      <4>2. QED
        BY <2>1, <4>1, SegmentNumbers DEF Did
    <3>3. QED
      BY <1>1, <3>1, <3>2
  <2>5. QED
    BY <1>1, <1>2, <1>3, <2>1, <2>2, <2>3, <2>4, Names
<1>6. QED
  BY <1>4, <1>5

(* What a step leaves alone stays right. *)
LEMMA OthersRight ==
  ASSUME Shape, bus' = bus, NEW s \in Slaves(bus), NEW d \in 0..8,
         esc'[s] = esc[s], slavelist'[s] = slavelist[s], Right(s, d)
  PROVE  Right(s, d)'
<1>1. KindOf(s)' = KindOf(s) /\ OpenPorts(bus, s)' = OpenPorts(bus, s)
  BY DEF KindOf
<1>2. Addressed(s, d)' /\ Identified(s, d)'
  BY <1>1 DEF Right, Addressed, Identified, NewAddress, EC_NODEOFFSET
<1>3. Worded(s, d)'
  BY <1>1 DEF Right, Worded
<1>4. InTree(s, d)' /\ Ready(s, d)'
  BY <1>1 DEF Right, InTree, Ready
<1>5. QED
  BY <1>2, <1>3, <1>4 DEF Right

(* So is everything, when it is right of the slave a step is about.        *)
LEMMA AllButOne ==
  ASSUME Shape, AllRight, bus' = bus, NEW c \in Slaves(bus), NEW i \in 0..8,
         \A s \in Slaves(bus) : s # c => esc'[s] = esc[s] /\ slavelist'[s] = slavelist[s],
         \A s \in Slaves(bus) : Did(s)' = IF s = c THEN i ELSE Did(s),
         Right(c, i)'
  PROVE  AllRight'
<1> SUFFICES ASSUME NEW s \in Slaves(bus) PROVE Right(s, Did(s))'
  BY DEF AllRight
<1>1. CASE s = c
  BY <1>1
<1>2. CASE s # c
  <2>1. PICK d \in 0..8 : d = Did(s)
    BY SegmentNumbers
  <2>2. Right(s, d)
    BY <2>1 DEF AllRight
  <2>3. Right(s, d)'
    BY <1>2, <2>2, OthersRight
  <2>4. Did(s)' = d
    BY <1>2, <2>1
  <2>5. QED
    BY <2>3, <2>4
<1>3. QED
  BY <1>1, <1>2

(* A step on slave c: it changes nothing but the records of this slave.    *)
OnlyAt(c) ==
  /\ DOMAIN esc' = DOMAIN esc /\ DOMAIN slavelist' = DOMAIN slavelist
  /\ DOMAIN esc'[c] = DOMAIN esc[c] /\ DOMAIN slavelist'[c] = DOMAIN slavelist[c]
  /\ slavelist'[c].ids \in [1..3 -> Nat]
  /\ \A s \in DOMAIN esc : s # c => esc'[s] = esc[s]
  /\ \A s \in DOMAIN slavelist : s # c => slavelist'[s] = slavelist[s]

(* A step that is about slave c keeps the shape. *)
LEMMA ShapeStays ==
  ASSUME Shape, bus' = bus, slave' \in Slaves(bus),
         (/\ stage \in {"detect", "too many"} \cup DOMAIN Loop \cup DOMAIN Placing \cup Configured
          /\ slavecount = IF stage \in {"detect", "too many"} THEN 0 ELSE bus.n)',
         NEW c \in Slaves(bus), OnlyAt(c)
  PROVE  /\ Shape'
         /\ \A s \in Slaves(bus) :
              s # c => esc'[s] = esc[s] /\ slavelist'[s] = slavelist[s]
<1>1. /\ DOMAIN esc = Slaves(bus) /\ DOMAIN slavelist = 0..bus.n
      /\ \A s \in Slaves(bus) : DOMAIN esc[s] = DOMAIN LeftBehind
      /\ \A s \in 0..bus.n : /\ DOMAIN slavelist[s] = DOMAIN Cleared
                             /\ slavelist[s].ids \in [1..3 -> Nat]
  BY DEF Shape
<1>2. c \in 0..bus.n /\ \A s \in Slaves(bus) : s \in 0..bus.n
  BY SegmentNumbers
<1>3. /\ \A s \in Slaves(bus) : s # c => esc'[s] = esc[s] /\ slavelist'[s] = slavelist[s]
      /\ \A s \in 0..bus.n : s # c => slavelist'[s] = slavelist[s]
      /\ DOMAIN esc' = Slaves(bus) /\ DOMAIN slavelist' = 0..bus.n
  BY <1>1, <1>2 DEF OnlyAt
<1>4. \A s \in Slaves(bus) : DOMAIN esc'[s] = DOMAIN LeftBehind
  BY <1>1, <1>2, <1>3 DEF OnlyAt
<1>5. \A s \in 0..bus.n : /\ DOMAIN slavelist'[s] = DOMAIN Cleared
                         /\ slavelist'[s].ids \in [1..3 -> Nat]
  BY <1>1, <1>2, <1>3 DEF OnlyAt
<1>6. IsSegment(bus)'
  BY DEF Shape
<1>7. Shape'
  BY <1>3, <1>4, <1>5, <1>6 DEF Shape
<1>8. QED
  BY <1>3, <1>7

(* A step of one of the first loops keeps everything right, when it is     *)
(* right of the slave the step is about.                                   *)
LEMMA LoopStep ==
  ASSUME ConfigInv, NEW i \in 1..5, NEW here, NEW there,
         here = <<"address", "man", "id", "rev", "mbx">>[i],
         there = <<"man", "id", "rev", "mbx", "place">>[i],
         stage = here, ForEach(here, there), bus' = bus, slavecount' = slavecount,
         NEW c, c = slave
  PROVE  /\ Right(c, i - 1)
         /\ OnlyAt(c) /\ Right(c, i)' => ConfigInv'
<1>1. Shape /\ AllRight
  BY DEF ConfigInv
<1>2. /\ Did(slave) = i - 1 /\ slave' \in Slaves(bus)
      /\ \A s \in Slaves(bus) : Did(s)' = IF s = slave THEN i ELSE Did(s)
      /\ (/\ stage \in {"detect", "too many"} \cup DOMAIN Loop \cup DOMAIN Placing \cup Configured
          /\ slavecount = IF stage \in {"detect", "too many"} THEN 0 ELSE bus.n)'
      /\ stage' \in DOMAIN Placing => slave' = 1
  BY <1>1, LoopCounts
<1>3. c \in Slaves(bus)
  BY <1>1, SegmentNumbers
<1>4. Right(c, i - 1)
  <2>1. Right(c, Did(c))
    BY <1>1, <1>3 DEF AllRight
  <2>2. QED
    BY <1>2, <2>1
<1>5. ASSUME OnlyAt(c), Right(c, i)' PROVE ConfigInv'
  <2>1. /\ Shape'
        /\ \A s \in Slaves(bus) : s # c => esc'[s] = esc[s] /\ slavelist'[s] = slavelist[s]
    BY <1>1, <1>2, <1>3, <1>5, ShapeStays
  <2>2. \A s \in Slaves(bus) : Did(s)' = IF s = c THEN i ELSE Did(s)
    BY <1>2
  <2>3. i \in 0..8
    OBVIOUS
  <2>4. AllRight'
    BY <1>1, <1>3, <1>5, <2>1, <2>2, <2>3, AllButOne
  <2>5. \A s \in Slaves(bus) : ~(s < 1)
    BY <1>1, SegmentNumbers
  <2>6. Mailboxes'
    BY <1>2, <2>5 DEF Mailboxes
  <2>7. QED
    BY <2>1, <2>4, <2>6 DEF ConfigInv
<1>6. QED
  BY <1>4, <1>5

(* The records of the slave the configuration is at. *)
LEMMA RecordOf ==
  ASSUME ConfigInv
  PROVE  /\ slave \in Slaves(bus)
         /\ DOMAIN esc[slave] = DOMAIN LeftBehind /\ DOMAIN slavelist[slave] = DOMAIN Cleared
         /\ slavelist[slave].ids \in [1..3 -> Nat]
         /\ DOMAIN esc = Slaves(bus) /\ DOMAIN slavelist = 0..bus.n
         /\ slave \in 0..bus.n /\ bus.kind[slave] \in DOMAIN Kind
<1>1. Shape
  BY DEF ConfigInv
<1>2. slave \in Slaves(bus) /\ slave \in 0..bus.n /\ bus.kind[slave] \in DOMAIN Kind
  BY <1>1, SegmentNumbers
<1>3. QED
  BY <1>1, <1>2 DEF Shape

(* The first loops. *)
LEMMA SetAddressKeeps ==
  ASSUME ConfigInv, SetAddress
  PROVE  ConfigInv'
<1>1. PICK c : c = slave
  OBVIOUS
<1>2. /\ OnlyAt(c)
      /\ esc'[c].adr = NewAddress(c) /\ esc'[c].chip = KindOf(c).ids[1]
      /\ slavelist'[c].configadr = NewAddress(c)
      /\ slavelist'[c].eep_pdi = slavelist[c].eep_pdi
  BY <1>1, RecordOf, Names DEF SetAddress, OnlyAt
<1>3. /\ "address" = <<"address", "man", "id", "rev", "mbx">>[1]
      /\ "man" = <<"man", "id", "rev", "mbx", "place">>[1]
  OBVIOUS
<1>4. stage = "address" /\ ForEach("address", "man") /\ bus' = bus /\ slavecount' = slavecount
  BY DEF SetAddress
<1>5. Right(c, 0) /\ (Right(c, 1)' => ConfigInv')
  <2>1. Right(c, 1 - 1) /\ (OnlyAt(c) /\ Right(c, 1)' => ConfigInv')
    BY <1>1, <1>3, <1>4, LoopStep
  <2>2. 1 - 1 = 0
    OBVIOUS
  <2>3. QED
    BY <1>2, <2>1, <2>2
<1>6. slavelist[c].eep_pdi = 0
  BY <1>5 DEF Right, Ready
<1>7. Right(c, 1)'
  <2>1. Addressed(c, 1)'
    BY <1>2 DEF Addressed, NewAddress, EC_NODEOFFSET
  <2>2. Identified(c, 1)'
    BY <1>2, <1>4 DEF Identified, KindOf
  <2>3. Worded(c, 1)' /\ InTree(c, 1)' /\ Ready(c, 1)'
    BY <1>2, <1>6 DEF Worded, InTree, Ready
  <2>4. QED
    BY <2>1, <2>2, <2>3 DEF Right
<1>8. QED
  BY <1>5, <1>7

(* The loops over the identity. *)
LEMMA FetchKeeps ==
  ASSUME ConfigInv, ConfigConstants, NEW i \in 1..3,
         FetchAndAsk(<<"man", "id", "rev">>[i], i, <<"id", "rev", "rxmbx">>[i]),
         ForEach(<<"man", "id", "rev">>[i], <<"id", "rev", "mbx">>[i])
  PROVE  ConfigInv'
<1> DEFINE next == <<"id", "rev", "rxmbx">>[i]
           here == <<"man", "id", "rev">>[i]
           there == <<"id", "rev", "mbx">>[i]
<1>0. i = 1 \/ i = 2 \/ i = 3
  OBVIOUS
<1>1. PICK c : c = slave
  OBVIOUS
<1>2. /\ here = <<"address", "man", "id", "rev", "mbx">>[i + 1]
      /\ there = <<"man", "id", "rev", "mbx", "place">>[i + 1]
      /\ i + 1 \in 1..5
  BY <1>0
<1>3. /\ stage = here /\ ForEach(here, there) /\ bus' = bus /\ slavecount' = slavecount
      /\ slavelist' = [slavelist EXCEPT ![c].ids[i] = esc[c].chip]
      /\ esc' = [esc EXCEPT ![c].chip = WordFor(KindOf(c), next)]
  BY <1>1 DEF FetchAndAsk
<1>4. WordFor(KindOf(c), next) =
        IF i = 3 THEN <<KindOf(c).wo, KindOf(c).l>> ELSE KindOf(c).ids[i + 1]
  BY <1>0 DEF WordFor
<1> HIDE DEF here, there, next
<1>5. Right(c, i) /\ (OnlyAt(c) /\ Right(c, i + 1)' => ConfigInv')
  <2>1. Right(c, i + 1 - 1) /\ (OnlyAt(c) /\ Right(c, i + 1)' => ConfigInv')
    BY <1>1, <1>2, <1>3, LoopStep
  <2>2. i + 1 - 1 = i
    OBVIOUS
  <2>3. QED
    BY <2>1, <2>2
<1>6. /\ esc[c].chip = KindOf(c).ids[i] /\ KindOf(c).ids \in [1..3 -> Nat]
      /\ slavelist[c].eep_pdi = 0 /\ esc[c].adr = NewAddress(c)
      /\ slavelist[c].configadr = NewAddress(c)
      /\ \A j \in 1..3 : i >= j + 1 => slavelist[c].ids[j] = KindOf(c).ids[j]
  <2>1. KindOf(c).ids \in [1..3 -> Nat]
    BY <1>1, RecordOf DEF ConfigConstants, KindOf
  <2>2. esc[c].chip = KindOf(c).ids[i]
    BY <1>5 DEF Right, Identified
  <2>3. slavelist[c].eep_pdi = 0 /\ esc[c].adr = NewAddress(c)
        /\ slavelist[c].configadr = NewAddress(c)
    BY <1>5 DEF Right, Addressed, Ready
  <2>4. \A j \in 1..3 : i >= j + 1 => slavelist[c].ids[j] = KindOf(c).ids[j]
    BY <1>5 DEF Right, Identified
  <2>5. QED
    BY <2>1, <2>2, <2>3, <2>4
<1>7. /\ DOMAIN esc' = DOMAIN esc /\ DOMAIN esc'[c] = DOMAIN esc[c]
      /\ esc'[c].adr = esc[c].adr /\ esc'[c].chip = WordFor(KindOf(c), next)
      /\ \A s \in DOMAIN esc : s # c => esc'[s] = esc[s]
  BY <1>1, <1>3, RecordOf, Names
<1>8. /\ DOMAIN slavelist' = DOMAIN slavelist /\ DOMAIN slavelist'[c] = DOMAIN slavelist[c]
      /\ slavelist'[c].ids = [slavelist[c].ids EXCEPT ![i] = esc[c].chip]
      /\ slavelist'[c].configadr = slavelist[c].configadr
      /\ slavelist'[c].eep_pdi = slavelist[c].eep_pdi
      /\ \A s \in DOMAIN slavelist : s # c => slavelist'[s] = slavelist[s]
  BY <1>1, <1>3, RecordOf, Names
<1>9. /\ slavelist'[c].ids \in [1..3 -> Nat]
      /\ \A j \in 1..3 : i >= j => slavelist'[c].ids[j] = KindOf(c).ids[j]
  BY <1>1, <1>6, <1>8, RecordOf
<1>10. OnlyAt(c)
  BY <1>7, <1>8, <1>9 DEF OnlyAt
<1>11. Right(c, i + 1)'
  <2>0. KindOf(c)' = KindOf(c)
    BY <1>3 DEF KindOf
  <2>1. Addressed(c, i + 1)'
    BY <1>6, <1>7, <1>8 DEF Addressed, NewAddress, EC_NODEOFFSET
  <2>2. Identified(c, i + 1)'
    BY <1>4, <1>7, <1>9, <2>0 DEF Identified
  <2>3. Worded(c, i + 1)'
    BY <1>0, <1>4, <1>7, <2>0 DEF Worded
  <2>4. InTree(c, i + 1)' /\ Ready(c, i + 1)'
    BY <1>6, <1>8 DEF InTree, Ready
  <2>5. QED
    BY <2>1, <2>2, <2>3, <2>4 DEF Right
<1>12. QED
  BY <1>5, <1>10, <1>11

(* The loop over the mailboxes. *)
LEMMA FetchMbxKeeps ==
  ASSUME ConfigInv, ConfigConstants, FetchMbx
  PROVE  ConfigInv'
<1>1. PICK c : c = slave
  OBVIOUS
<1> DEFINE m == esc[c].chip
<1>2. /\ "mbx" = <<"address", "man", "id", "rev", "mbx">>[5]
      /\ "place" = <<"man", "id", "rev", "mbx", "place">>[5]
  OBVIOUS
<1>3. stage = "mbx" /\ ForEach("mbx", "place") /\ bus' = bus /\ slavecount' = slavecount
  BY DEF FetchMbx
<1>4. Right(c, 4) /\ (OnlyAt(c) /\ Right(c, 5)' => ConfigInv')
  <2>1. Right(c, 5 - 1) /\ (OnlyAt(c) /\ Right(c, 5)' => ConfigInv')
    BY <1>1, <1>2, <1>3, LoopStep
  <2>2. 5 - 1 = 4
    OBVIOUS
  <2>3. QED
    BY <2>1, <2>2
<1>5. m[1] = KindOf(c).wo /\ m[2] = KindOf(c).l
  BY <1>4 DEF Right, Worded
<1>6. /\ DOMAIN esc' = DOMAIN esc /\ DOMAIN esc'[c] = DOMAIN esc[c]
      /\ esc'[c].adr = esc[c].adr
      /\ KindOf(c).l > 0 => esc'[c].chip = <<KindOf(c).ro, KindOf(c).rl>>
      /\ \A s \in DOMAIN esc : s # c => esc'[s] = esc[s]
  <2>1. CASE m[2] > 0
    BY <1>1, <1>5, <2>1, RecordOf, Names DEF FetchMbx, WordFor
  <2>2. CASE ~(m[2] > 0)
    BY <1>1, <1>5, <2>2, RecordOf, Names DEF FetchMbx
  <2>3. QED
    BY <2>1, <2>2
<1>7. /\ DOMAIN slavelist' = DOMAIN slavelist /\ DOMAIN slavelist'[c] = DOMAIN slavelist[c]
      /\ slavelist'[c].wo = m[1] /\ slavelist'[c].l = m[2]
      /\ slavelist'[c].ids = slavelist[c].ids
      /\ slavelist'[c].configadr = slavelist[c].configadr
      /\ slavelist'[c].eep_pdi = slavelist[c].eep_pdi
      /\ \A s \in DOMAIN slavelist : s # c => slavelist'[s] = slavelist[s]
  BY <1>1, RecordOf, Names DEF FetchMbx
<1>8. OnlyAt(c)
  BY <1>1, <1>6, <1>7, RecordOf DEF OnlyAt
<1>9. Right(c, 5)'
  <2>0. KindOf(c)' = KindOf(c)
    BY <1>3 DEF KindOf
  <2>1. Addressed(c, 5)'
    BY <1>4, <1>6, <1>7 DEF Right, Addressed, NewAddress, EC_NODEOFFSET
  <2>2. Identified(c, 5)'
    BY <1>4, <1>7, <2>0 DEF Right, Identified
  <2>3. Worded(c, 5)'
    BY <1>5, <1>6, <1>7, <2>0 DEF Worded
  <2>4. InTree(c, 5)' /\ Ready(c, 5)'
    BY <1>4, <1>7 DEF Right, InTree, Ready
  <2>5. QED
    BY <2>1, <2>2, <2>3, <2>4 DEF Right
<1>10. QED
  BY <1>4, <1>8, <1>9

-----------------------------------------------------------------------------
(* A slave is placed, its SII is read, it is sent to PRE_OP.               *)

(* A step of the last loop counts for the slave it is about, and keeps     *)
(* everything right when it is right of this slave.                        *)
LEMMA PlacingStep ==
  ASSUME ConfigInv, NEW i \in 5..7, NEW c, c = slave,
         stage = <<"place", "sii", "preop">>[i - 4], bus' = bus, slavecount' = slavecount,
         \/ i < 7 /\ stage' = <<"sii", "preop">>[i - 4] /\ slave' = slave
         \/ i = 7 /\ ForEach("place", "hook")
  PROVE  /\ Right(c, i) /\ c \in Slaves(bus)
         /\ OnlyAt(c) /\ Right(c, i + 1)' /\
            (SiiIsTrue /\ i = 7 /\ KindOf(c).l > 0 =>
               \A n \in 0..1 : slavelist'[c].sm[n] = Firmware(KindOf(c), n)) => ConfigInv'
<1>0. /\ Shape /\ AllRight /\ Mailboxes /\ c \in Slaves(bus) /\ c \in Nat
      /\ bus.n \in Nat /\ \A s \in Slaves(bus) : s \in Nat /\ s <= bus.n
  BY SegmentNumbers DEF ConfigInv
<1>1. \/ i = 5 /\ stage = "place" /\ stage' = "sii"
      \/ i = 6 /\ stage = "sii" /\ stage' = "preop"
      \/ i = 7 /\ stage = "preop" /\ ForEach("place", "hook")
  <2>1. i = 5 \/ i = 6 \/ i = 7
    OBVIOUS
  <2>2. QED
    BY <2>1
<1>2. /\ stage \in DOMAIN Placing /\ stage \notin DOMAIN Loop /\ Placing[stage] = i
      /\ slavecount = bus.n
  <2>1. stage \in DOMAIN Placing /\ stage \notin DOMAIN Loop /\ stage \notin {"detect", "too many"}
    BY <1>1, Names
  <2>2. Placing[stage] = i
    BY <1>1, Names
  <2>3. slavecount = bus.n
    BY <1>0, <2>1 DEF Shape
  <2>4. QED
    BY <2>1, <2>2, <2>3
<1>3. /\ Did(c) = i
      /\ \A s \in Slaves(bus) :
           Did(s) = IF s < c THEN 8 ELSE IF s = c THEN i ELSE 5
  BY <1>0, <1>2 DEF Did
<1>4. /\ \A s \in Slaves(bus) : Did(s)' = IF s = c THEN i + 1 ELSE Did(s)
      /\ slave' \in Slaves(bus)
      /\ (/\ stage \in {"detect", "too many"} \cup DOMAIN Loop \cup DOMAIN Placing \cup Configured
          /\ slavecount = IF stage \in {"detect", "too many"} THEN 0 ELSE bus.n)'
      /\ stage' \in DOMAIN Placing => \A s \in Slaves(bus) :
           s < slave' => s < slave \/ (s = c /\ i = 7)
  <2>1. CASE i < 7
    <3>1. /\ stage' \in DOMAIN Placing /\ stage' \notin DOMAIN Loop /\ Placing[stage'] = i + 1
          /\ slave' = slave /\ stage' \notin {"detect", "too many"}
      <4>0. slave' = slave
        BY <2>1
      <4>1. CASE i = 5
        <5>1. stage' = "sii" /\ i + 1 = 6
          BY <1>1, <4>1
        <5>2. QED
          BY <4>0, <5>1, Names
      <4>2. CASE i = 6
        <5>1. stage' = "preop" /\ i + 1 = 7
          BY <1>1, <4>2
        <5>2. QED
          BY <4>0, <5>1, Names
      <4>3. i = 5 \/ i = 6
        BY <2>1
      <4>4. QED
        BY <4>1, <4>2, <4>3
    <3>2. \A s \in Slaves(bus) : Did(s)' = IF s = c THEN i + 1 ELSE Did(s)
      <4>1. \A s \in Slaves(bus) :
              Did(s)' = IF s < c THEN 8 ELSE IF s = c THEN i + 1 ELSE 5
        BY <1>0, <3>1 DEF Did
      <4>2. QED
        BY <1>0, <1>3, <4>1
    <3>3. QED
      BY <1>0, <1>2, <3>1, <3>2
  <2>2. CASE i = 7 /\ slave < slavecount
    <3>1. stage' = "place" /\ slave' = slave + 1
      BY <2>2 DEF ForEach
    <3>2. /\ stage' \in DOMAIN Placing /\ stage' \notin DOMAIN Loop /\ Placing[stage'] = 5
          /\ stage' \notin {"detect", "too many"}
      BY <3>1, Names DEF Placing
    <3>3. \A s \in Slaves(bus) : Did(s)' = IF s = c THEN i + 1 ELSE Did(s)
      BY <1>0, <1>2, <2>2, <3>1, <3>2 DEF Did
    <3>4. slave' \in Slaves(bus)
      BY <1>0, <1>2, <2>2, <3>1, SegmentNumbers
    <3>5. \A s \in Slaves(bus) : s < slave' => s < slave \/ s = c
      BY <1>0, <3>1
    <3>6. QED
      BY <1>2, <2>2, <3>2, <3>3, <3>4, <3>5
  <2>3. CASE i = 7 /\ ~(slave < slavecount)
    <3>1. stage' = "hook" /\ slave' = 1 /\ slave = bus.n
      BY <1>0, <1>2, <2>3 DEF ForEach
    <3>2. /\ stage' \notin DOMAIN Placing /\ stage' \notin DOMAIN Loop /\ stage' \in Configured
          /\ stage' \notin {"detect", "too many"}
      BY <3>1, Names DEF Configured
    <3>3. \A s \in Slaves(bus) : Did(s)' = IF s = c THEN i + 1 ELSE Did(s)
      BY <1>0, <1>2, <2>3, <3>1, <3>2 DEF Did
    <3>4. slave' \in Slaves(bus)
      <4>1. 1 \in 1..bus.n /\ Slaves(bus) = 1..bus.n
        BY <1>0, SegmentNumbers
      <4>2. QED
        BY <3>1, <4>1
    <3>5. QED
      BY <1>2, <3>2, <3>3, <3>4
  <2>4. QED
    BY <1>1, <2>1, <2>2, <2>3
<1>5. Right(c, i)
  BY <1>0, <1>3 DEF AllRight
<1>6. ASSUME OnlyAt(c), Right(c, i + 1)',
             SiiIsTrue /\ i = 7 /\ KindOf(c).l > 0 =>
               \A n \in 0..1 : slavelist'[c].sm[n] = Firmware(KindOf(c), n)
      PROVE  ConfigInv'
  <2>1. /\ Shape'
        /\ \A s \in Slaves(bus) : s # c => esc'[s] = esc[s] /\ slavelist'[s] = slavelist[s]
    BY <1>0, <1>4, <1>6, ShapeStays
  <2>2. i + 1 \in 0..8
    OBVIOUS
  <2>3. AllRight'
    BY <1>0, <1>4, <1>6, <2>1, <2>2, AllButOne
  <2>4. Mailboxes'
    <3> SUFFICES ASSUME SiiIsTrue, stage' \in DOMAIN Placing, NEW s \in Slaves(bus), s < slave',
                        KindOf(s).l > 0, NEW n \in 0..1
                 PROVE  slavelist'[s].sm[n] = Firmware(KindOf(s), n)
      BY DEF Mailboxes, KindOf
    <3>1. CASE s = c /\ i = 7
      BY <1>6, <3>1
    <3>2. CASE s < slave
      <4>1. slavelist'[s] = slavelist[s]
        BY <1>0, <2>1, <3>2
      <4>2. slavelist[s].sm[n] = Firmware(KindOf(s), n)
        BY <1>0, <1>2, <3>2 DEF Mailboxes
      <4>3. QED
        BY <4>1, <4>2
    <3>3. QED
      BY <1>4, <3>1, <3>2
  <2>5. QED
    BY <2>1, <2>3, <2>4 DEF ConfigInv
<1>7. QED
  BY <1>0, <1>5, <1>6

(* A slave enters the tree: the search finds its parent. *)
LEMMA PlaceKeeps ==
  ASSUME ConfigInv, PlaceSlave
  PROVE  ConfigInv'
<1>1. PICK c : c = slave
  OBVIOUS
<1> DEFINE m == esc[c].chip
           mbx == slavelist[c].l > 0
           topology == [v \in Slaves(bus) |-> slavelist[v].topology]
<1>2. stage = "place" /\ stage' = "sii" /\ slave' = slave /\ bus' = bus /\ slavecount' = slavecount
  BY DEF PlaceSlave
<1>3. Right(c, 5) /\ c \in Slaves(bus) /\ (OnlyAt(c) /\ Right(c, 6)' => ConfigInv')
  <2>1. /\ 5 \in 5..7 /\ 5 < 7 /\ 5 - 4 = 1 /\ 5 + 1 = 6
        /\ <<"place", "sii", "preop">>[1] = "place" /\ <<"sii", "preop">>[1] = "sii"
    OBVIOUS
  <2>2. QED
    BY <1>1, <1>2, <2>1, PlacingStep
<1>4. slavelist[c].l = KindOf(c).l /\ slavelist[c].wo = KindOf(c).wo
      /\ (KindOf(c).l > 0 => m[1] = KindOf(c).ro /\ m[2] = KindOf(c).rl)
  BY <1>3 DEF Right, Worded
<1>5. ParentOf(c, topology) = bus.parent[c]
  <2>1. IsSegment(bus) /\ Shape /\ AllRight
    BY DEF ConfigInv, Shape
  <2>2. \A v \in 1..(c - 1) : topology[v] = Cardinality(OpenPorts(bus, v))
    <3> SUFFICES ASSUME NEW v \in 1..(c - 1)
                 PROVE  topology[v] = Cardinality(OpenPorts(bus, v))
      OBVIOUS
    <3>1. v \in Slaves(bus) /\ v < slave
      BY <1>1, <1>3, <2>1, SegmentNumbers
    <3>2. Did(v) = 8
      BY <1>2, <3>1, Names DEF Did
    <3>3. Right(v, 8)
      BY <2>1, <3>1, <3>2 DEF AllRight
    <3>4. QED
      BY <3>1, <3>3 DEF Right, InTree
  <2> HIDE DEF topology
  <2>3. QED
    BY <1>3, <2>1, <2>2, ParentIsFound
<1>6. /\ DOMAIN esc' = DOMAIN esc /\ DOMAIN esc'[c] = DOMAIN esc[c]
      /\ esc'[c].adr = esc[c].adr
      /\ \A s \in DOMAIN esc : s # c => esc'[s] = esc[s]
  <2>1. CASE mbx
    BY <1>1, <2>1, RecordOf, Names DEF PlaceSlave
  <2>2. CASE ~mbx
    BY <1>1, <2>2, RecordOf, Names DEF PlaceSlave
  <2>3. QED
    BY <2>1, <2>2
<1> HIDE DEF topology
<1>7. /\ slavelist' = [slavelist EXCEPT ![c] =
             [@ EXCEPT !.ro = IF mbx THEN m[1] ELSE 0,
                       !.rl = IF ~mbx THEN 0 ELSE IF m[2] = 0 THEN slavelist[c].l
                                                          ELSE m[2],
                       !.hasdc = c \in bus.dc,
                       !.ports = OpenPorts(bus, c),
                       !.topology = Cardinality(OpenPorts(bus, c)),
                       !.parent = ParentOf(c, topology)]]
  BY <1>1 DEF PlaceSlave, topology
<1>8. /\ DOMAIN slavelist' = DOMAIN slavelist /\ DOMAIN slavelist'[c] = DOMAIN slavelist[c]
      /\ slavelist'[c].ids = slavelist[c].ids
      /\ slavelist'[c].configadr = slavelist[c].configadr
      /\ slavelist'[c].eep_pdi = slavelist[c].eep_pdi
      /\ slavelist'[c].wo = slavelist[c].wo /\ slavelist'[c].l = slavelist[c].l
      /\ slavelist'[c].ro = (IF mbx THEN m[1] ELSE 0)
      /\ slavelist'[c].rl = (IF ~mbx THEN 0 ELSE IF m[2] = 0 THEN slavelist[c].l ELSE m[2])
      /\ slavelist'[c].hasdc = (c \in bus.dc)
      /\ slavelist'[c].topology = Cardinality(OpenPorts(bus, c))
      /\ slavelist'[c].parent = bus.parent[c]
      /\ \A s \in DOMAIN slavelist : s # c => slavelist'[s] = slavelist[s]
  BY <1>1, <1>5, <1>7, RecordOf, Names
<1>9. OnlyAt(c)
  BY <1>1, <1>6, <1>8, RecordOf DEF OnlyAt
<1>10. Right(c, 6)'
  <2>0. KindOf(c)' = KindOf(c)
    BY <1>2 DEF KindOf
  <2>1. Addressed(c, 6)'
    BY <1>3, <1>6, <1>8 DEF Right, Addressed, NewAddress, EC_NODEOFFSET
  <2>2. Identified(c, 6)'
    BY <1>3, <1>8, <2>0 DEF Right, Identified
  <2>3. Worded(c, 6)'
    BY <1>4, <1>8, <2>0 DEF Worded
  <2>4. InTree(c, 6)'
    BY <1>2, <1>8 DEF InTree
  <2>5. Ready(c, 6)'
    BY <1>3, <1>8 DEF Right, Ready
  <2>6. QED
    BY <2>1, <2>2, <2>3, <2>4, <2>5 DEF Right
<1>11. QED
  BY <1>3, <1>9, <1>10

(* The sync managers an earlier slave has are the right ones, as it has    *)
(* the same mailboxes.                                                     *)
LEMMA ReadSiiKeeps ==
  ASSUME ConfigInv, ConfigConstants, ReadSii
  PROVE  ConfigInv'
<1>1. PICK c : c = slave
  OBVIOUS
<1> DEFINE k == KindOf(c)
           sl == slavelist[c]
           mbx == sl.l > 0
           default == IF mbx THEN MailboxSms(sl) ELSE sl.sm
           from == SameBefore(c)
           sms == IF from # {} THEN slavelist[Min(from)].sm
                  ELSE [n \in 0..3 |-> IF n < Len(k.sms) THEN k.sms[n + 1] ELSE default[n]]
<1>2. stage = "sii" /\ stage' = "preop" /\ slave' = slave /\ bus' = bus /\ slavecount' = slavecount
      /\ esc' = esc
  BY DEF ReadSii
<1>3. Right(c, 6) /\ c \in Slaves(bus) /\ (OnlyAt(c) /\ Right(c, 7)' => ConfigInv')
  <2>1. /\ 6 \in 5..7 /\ 6 < 7 /\ 6 - 4 = 2 /\ 6 + 1 = 7
        /\ <<"place", "sii", "preop">>[2] = "sii" /\ <<"sii", "preop">>[2] = "preop"
    OBVIOUS
  <2>2. QED
    BY <1>1, <1>2, <2>1, PlacingStep
<1>4. sl.l = k.l /\ sl.wo = k.wo
      /\ (k.l > 0 => sl.ro = k.ro /\ sl.rl = IF k.rl = 0 THEN k.l ELSE k.rl)
  BY <1>3 DEF Right, Worded
<1>5. ASSUME SiiIsTrue, k.l > 0, NEW n \in 0..1
      PROVE  WithDefault(sms[n], n) = Firmware(k, n)
  <2>0. bus.kind[c] \in DOMAIN Kind /\ k = Kind[bus.kind[c]]
    BY <1>1, RecordOf DEF KindOf
  <2>1. CASE from = {}
    <3>1. default[n] = Firmware(k, n)
      <4>1. default = MailboxSms(sl) /\ (n = 0 \/ n = 1)
        BY <1>4, <1>5
      <4>2. /\ MailboxSms(sl)[0] = [start |-> sl.wo, len |-> sl.l, on |-> TRUE]
            /\ MailboxSms(sl)[1] = [start |-> sl.ro, len |-> sl.rl, on |-> TRUE]
        BY DEF MailboxSms
      <4>3. QED
        BY <1>4, <1>5, <4>1, <4>2 DEF Firmware
    <3>2. sms[n] = IF n < Len(k.sms) THEN k.sms[n + 1] ELSE Firmware(k, n)
      BY <2>1, <3>1
    <3>3. QED
      BY <1>5, <2>0, <3>2 DEF SiiIsTrue
  <2>2. CASE from # {}
    <3>1. PICK i \in from : i = Min(from)
      <4>1. from \in SUBSET Nat
        BY DEF SameBefore
      <4>2. \E x \in from : \A y \in from : x <= y
        BY <2>2, <4>1, Least
      <4>3. QED
        BY <4>2 DEF Min
    <3>2. Shape /\ AllRight /\ Mailboxes
      BY DEF ConfigInv
    <3>3. i \in 1..(c - 1) /\ slavelist[i].ids = slavelist[c].ids
      BY <3>1 DEF SameBefore
    <3>4. i \in Slaves(bus) /\ i < slave /\ i \in 0..bus.n
      BY <1>1, <1>3, <3>2, <3>3, SegmentNumbers
    <3>5. Did(i) = 8
      BY <1>2, <3>4, Names DEF Did
    <3>6. Right(i, 8)
      BY <3>2, <3>4, <3>5 DEF AllRight
    <3>7. bus.kind[i] \in DOMAIN Kind /\ KindOf(i) = Kind[bus.kind[i]]
      BY <3>2, <3>4, SegmentNumbers DEF KindOf
    <3>8. KindOf(i).ids = k.ids
      <4>1. KindOf(i).ids \in [1..3 -> Nat] /\ k.ids \in [1..3 -> Nat]
        BY <2>0, <3>7 DEF ConfigConstants
      <4>2. \A j \in 1..3 : slavelist[i].ids[j] = KindOf(i).ids[j]
        BY <3>6 DEF Right, Identified
      <4>3. \A j \in 1..3 : slavelist[c].ids[j] = k.ids[j]
        BY <1>3 DEF Right, Identified
      <4>4. QED
        BY <3>3, <4>1, <4>2, <4>3
    <3>9. KindOf(i).l = k.l /\ Firmware(KindOf(i), n) = Firmware(k, n)
      BY <1>5, <2>0, <3>7, <3>8 DEF SiiIsTrue
    <3>10. slavelist[i].sm[n] = Firmware(k, n)
      BY <1>2, <1>5, <3>2, <3>4, <3>9, Names DEF Mailboxes
    <3>11. WithDefault(Firmware(k, n), n) = Firmware(k, n)
      <4>1. PICK t : WithDefault(t, n) = Firmware(k, n)
        BY <1>5, <2>0 DEF SiiIsTrue
      <4>2. CASE t.start = 0
        <5>1. Firmware(k, n).start = 4096 + 128 * n
          BY <4>1, <4>2 DEF WithDefault
        <5>2. 4096 + 128 * n # 0
          OBVIOUS
        <5>3. QED
          BY <5>1, <5>2 DEF WithDefault
      <4>3. CASE t.start # 0
        BY <4>1, <4>3 DEF WithDefault
      <4>4. QED
        BY <4>2, <4>3
    <3>12. sms[n] = Firmware(k, n)
      BY <2>2, <3>1, <3>10
    <3>13. QED
      BY <3>11, <3>12
  <2>3. QED
    BY <2>1, <2>2
<1>6. \E proto, ca, types : slavelist' = [slavelist EXCEPT ![c] =
          [@ EXCEPT !.sm = sms, !.SMtype = types, !.proto = proto, !.ca = ca]]
  BY <1>1 DEF ReadSii
<1> HIDE DEF sms
<1>7. /\ DOMAIN slavelist' = DOMAIN slavelist /\ DOMAIN slavelist'[c] = DOMAIN slavelist[c]
      /\ slavelist'[c].ids = slavelist[c].ids
      /\ slavelist'[c].configadr = slavelist[c].configadr
      /\ slavelist'[c].eep_pdi = slavelist[c].eep_pdi
      /\ slavelist'[c].wo = slavelist[c].wo /\ slavelist'[c].l = slavelist[c].l
      /\ slavelist'[c].ro = slavelist[c].ro /\ slavelist'[c].rl = slavelist[c].rl
      /\ slavelist'[c].hasdc = slavelist[c].hasdc
      /\ slavelist'[c].topology = slavelist[c].topology
      /\ slavelist'[c].parent = slavelist[c].parent
      /\ slavelist'[c].sm = sms
      /\ \A s \in DOMAIN slavelist : s # c => slavelist'[s] = slavelist[s]
  BY <1>1, <1>6, RecordOf, Names
<1>8. OnlyAt(c)
  BY <1>1, <1>2, <1>7, RecordOf DEF OnlyAt
<1>9. Right(c, 7)'
  <2>0. KindOf(c)' = k
    BY <1>2 DEF KindOf
  <2>1. Addressed(c, 7)'
    BY <1>2, <1>3, <1>7 DEF Right, Addressed, NewAddress, EC_NODEOFFSET
  <2>2. Identified(c, 7)'
    BY <1>3, <1>7, <2>0 DEF Right, Identified
  <2>3. Worded(c, 7)'
    BY <1>3, <1>7, <2>0 DEF Right, Worded
  <2>4. InTree(c, 7)'
    BY <1>2, <1>3, <1>7 DEF Right, InTree
  <2>5. Ready(c, 7)'
    BY <1>3, <1>5, <1>7, <2>0 DEF Right, Ready
  <2>6. QED
    BY <2>1, <2>2, <2>3, <2>4, <2>5 DEF Right
<1>10. QED
  BY <1>3, <1>8, <1>9

(* A slave is sent to PRE_OP: its mailboxes are where its firmware has    *)
(* them.                                                                   *)
LEMMA RequestPreopKeeps ==
  ASSUME ConfigInv, RequestPreop
  PROVE  ConfigInv'
<1>1. PICK c : c = slave
  OBVIOUS
<1> DEFINE k == KindOf(c)
           sl == slavelist[slave]
           sent == [n \in 0..3 |->
                  IF sl.l > 0 /\ n < 2 /\ sl.sm[n].start = 0
                  THEN [start |-> 4096 + 128 * n, len |-> 128, on |-> TRUE]
                  ELSE sl.sm[n]]
           smIn == [n \in 0..3 |-> IF sl.l > 0 /\ n < 2 THEN sent[n] ELSE esc[slave].sm[n]]
           answer == IF Accepts(slave, smIn, EepromIn(slave)) THEN "preop" ELSE "init"
<1>2. stage = "preop" /\ ForEach("place", "hook") /\ bus' = bus /\ slavecount' = slavecount
  BY DEF RequestPreop
<1>3. /\ Right(c, 7) /\ c \in Slaves(bus)
      /\ OnlyAt(c) /\ Right(c, 8)' /\
            (SiiIsTrue /\ KindOf(c).l > 0 =>
               \A n \in 0..1 : slavelist'[c].sm[n] = Firmware(KindOf(c), n)) => ConfigInv'
  <2>1. /\ 7 \in 5..7 /\ 7 - 4 = 3 /\ 7 + 1 = 8 /\ 7 = 7
        /\ <<"place", "sii", "preop">>[3] = "preop"
    OBVIOUS
  <2>2. QED
    BY <1>1, <1>2, <2>1, PlacingStep
<1>4. sl.l = k.l
  BY <1>1, <1>3 DEF Right, Worded
<1>5. ASSUME SiiIsTrue, k.l > 0
      PROVE  \A n \in 0..1 : sent[n] = Firmware(k, n) /\ smIn[n] = Firmware(k, n)
  <2> SUFFICES ASSUME NEW n \in 0..1 PROVE sent[n] = Firmware(k, n) /\ smIn[n] = Firmware(k, n)
    OBVIOUS
  <2>1. WithDefault(sl.sm[n], n) = Firmware(k, n)
    BY <1>1, <1>3, <1>5 DEF Right, Ready
  <2>2. sent[n] = WithDefault(sl.sm[n], n)
    BY <1>4, <1>5 DEF WithDefault
  <2>3. smIn[n] = sent[n]
    BY <1>4, <1>5
  <2>4. QED
    BY <2>1, <2>2, <2>3
<1>6. ASSUME SiiIsTrue, c \notin bus.odd PROVE answer = "preop"
  <2>1. k.l > 0 => smIn[0] = Firmware(k, 0) /\ smIn[1] = Firmware(k, 1)
    BY <1>5, <1>6
  <2> HIDE DEF smIn
  <2>2. Accepts(slave, smIn, EepromIn(slave))
    BY <1>1, <1>6, <2>1 DEF Accepts, EepromIn, Firmware
  <2>3. QED
    BY <2>2
<1>7. /\ slavelist' = [slavelist EXCEPT ![slave].sm = sent, ![slave].eep_pdi = 1]
      /\ esc' = [esc EXCEPT ![slave].sm = smIn, ![slave].eeprom = EepromIn(slave), ![slave].al = answer]
  BY DEF RequestPreop
<1> HIDE DEF sent, smIn, answer
<1>8. /\ DOMAIN esc' = DOMAIN esc /\ DOMAIN esc'[c] = DOMAIN esc[c]
      /\ esc'[c].adr = esc[c].adr /\ esc'[c].al = answer
      /\ \A s \in DOMAIN esc : s # c => esc'[s] = esc[s]
  BY <1>1, <1>7, RecordOf, Names
<1>9. /\ DOMAIN slavelist' = DOMAIN slavelist /\ DOMAIN slavelist'[c] = DOMAIN slavelist[c]
      /\ slavelist'[c].ids = slavelist[c].ids
      /\ slavelist'[c].configadr = slavelist[c].configadr
      /\ slavelist'[c].eep_pdi = 1
      /\ slavelist'[c].hasdc = slavelist[c].hasdc
      /\ slavelist'[c].topology = slavelist[c].topology
      /\ slavelist'[c].parent = slavelist[c].parent
      /\ slavelist'[c].sm = sent
      /\ \A s \in DOMAIN slavelist : s # c => slavelist'[s] = slavelist[s]
  BY <1>1, <1>7, RecordOf, Names
<1>10. OnlyAt(c)
  BY <1>1, <1>8, <1>9, RecordOf DEF OnlyAt
<1>11. Right(c, 8)'
  <2>0. KindOf(c)' = k
    BY <1>2 DEF KindOf
  <2>1. Addressed(c, 8)'
    BY <1>3, <1>8, <1>9 DEF Right, Addressed, NewAddress, EC_NODEOFFSET
  <2>2. Identified(c, 8)'
    BY <1>3, <1>9, <2>0 DEF Right, Identified
  <2>3. Worded(c, 8)'
    BY DEF Worded
  <2>4. InTree(c, 8)'
    BY <1>2, <1>3, <1>9 DEF Right, InTree
  <2>5. Ready(c, 8)'
    BY <1>2, <1>6, <1>8, <1>9 DEF Ready
  <2>6. QED
    BY <2>1, <2>2, <2>3, <2>4, <2>5 DEF Right
<1>12. SiiIsTrue /\ k.l > 0 => \A n \in 0..1 : slavelist'[c].sm[n] = Firmware(k, n)
  BY <1>5, <1>9
<1>13. QED
  BY <1>3, <1>10, <1>11, <1>12

-----------------------------------------------------------------------------
(* What follows leaves alone what the first part has found: but for the    *)
(* bits of a drive that is mapped anew, the segment stays as it is.        *)
WiringKept ==
  DOMAIN bus' = DOMAIN bus /\ \A f \in DOMAIN bus \ {"pdos"} : bus'[f] = bus[f]

ListKept ==
  /\ DOMAIN slavelist' = DOMAIN slavelist
  /\ \A s \in DOMAIN slavelist :
       /\ DOMAIN slavelist'[s] = DOMAIN slavelist[s]
       /\ \A f \in {"ids", "configadr", "eep_pdi", "parent", "topology"} :
            slavelist'[s][f] = slavelist[s][f]
       /\ s # 0 => slavelist'[s].hasdc = slavelist[s].hasdc

EscKept ==
  /\ DOMAIN esc' = DOMAIN esc
  /\ \A s \in DOMAIN esc :
       /\ DOMAIN esc'[s] = DOMAIN esc[s]
       /\ esc'[s].adr = esc[s].adr /\ esc'[s].al = esc[s].al

(* The segment is the one it was. *)
LEMMA SameSegment ==
  ASSUME IsSegment(bus), WiringKept
  PROVE  /\ IsSegment(bus)' /\ bus'.n = bus.n /\ bus'.kind = bus.kind
         /\ bus'.dc = bus.dc /\ bus'.odd = bus.odd /\ bus'.times = bus.times
         /\ bus'.parent = bus.parent /\ Slaves(bus)' = Slaves(bus)
         /\ \A s \in Slaves(bus) : OpenPorts(bus, s)' = OpenPorts(bus, s)
<1>1. /\ DOMAIN bus = {"n", "parent", "port", "delay", "kind", "off", "dc", "odd",
                       "pdos", "times"}
  BY DEF IsSegment
<1>2. /\ bus'.n = bus.n /\ bus'.kind = bus.kind /\ bus'.dc = bus.dc /\ bus'.odd = bus.odd
      /\ bus'.times = bus.times /\ bus'.parent = bus.parent /\ bus'.port = bus.port
      /\ DOMAIN bus' = DOMAIN bus
  BY <1>1 DEF WiringKept
<1>3. Slaves(bus)' = Slaves(bus)
  BY <1>2 DEF Slaves
<1>4. IsSegment(bus)'
  BY <1>2, <1>3 DEF IsSegment
<1>5. \A s \in Slaves(bus) : OpenPorts(bus, s)' = OpenPorts(bus, s)
  BY <1>2, <1>3 DEF OpenPorts, ChildrenOf
<1>6. QED
  BY <1>2, <1>3, <1>4, <1>5

(* A step that leaves all that alone keeps the invariant. *)
LEMMA LateStep ==
  ASSUME ConfigInv, stage \in Configured, stage' \in Configured, slave' \in Slaves(bus),
         slavecount' = slavecount, WiringKept, ListKept, EscKept
  PROVE  ConfigInv'
<1>0. /\ Shape /\ AllRight /\ IsSegment(bus) /\ DOMAIN esc = Slaves(bus)
      /\ DOMAIN slavelist = 0..bus.n
  BY DEF ConfigInv, Shape
<1>1. /\ IsSegment(bus)' /\ bus'.n = bus.n /\ bus'.kind = bus.kind
      /\ bus'.dc = bus.dc /\ bus'.odd = bus.odd
      /\ bus'.parent = bus.parent /\ Slaves(bus)' = Slaves(bus)
      /\ \A s \in Slaves(bus) : OpenPorts(bus, s)' = OpenPorts(bus, s)
  BY <1>0, SameSegment
<1>2. /\ stage \notin DOMAIN Loop /\ stage \notin DOMAIN Placing /\ stage \notin {"detect", "too many"}
      /\ stage' \notin DOMAIN Loop /\ stage' \notin DOMAIN Placing /\ stage' \notin {"detect", "too many"}
  BY Names DEF Configured
<1>3. slavecount' = bus'.n
  BY <1>0, <1>1, <1>2 DEF Shape
<1>4. (DOMAIN esc = Slaves(bus) /\ \A s \in Slaves(bus) : DOMAIN esc[s] = DOMAIN LeftBehind)'
  BY <1>0, <1>1 DEF EscKept, Shape
<1>5. (/\ DOMAIN slavelist = 0..bus.n
       /\ \A s \in 0..bus.n : /\ DOMAIN slavelist[s] = DOMAIN Cleared
                              /\ slavelist[s].ids \in [1..3 -> Nat])'
  BY <1>0, <1>1 DEF ListKept, Shape
<1>6. Shape'
  BY <1>1, <1>2, <1>3, <1>4, <1>5 DEF Shape
<1>7. ASSUME NEW s \in Slaves(bus) PROVE Right(s, Did(s))'
  <2>1. Did(s) = 8 /\ Did(s)' = 8
    BY <1>2 DEF Did
  <2>2. Right(s, 8)
    BY <1>0, <2>1 DEF AllRight
  <2>3. /\ s \in DOMAIN esc /\ s \in DOMAIN slavelist /\ s # 0
    BY <1>0, SegmentNumbers
  <2>4. /\ esc'[s].adr = esc[s].adr /\ esc'[s].al = esc[s].al
        /\ slavelist'[s].ids = slavelist[s].ids
        /\ slavelist'[s].configadr = slavelist[s].configadr
        /\ slavelist'[s].eep_pdi = slavelist[s].eep_pdi
        /\ slavelist'[s].parent = slavelist[s].parent
        /\ slavelist'[s].topology = slavelist[s].topology
        /\ slavelist'[s].hasdc = slavelist[s].hasdc
    BY <2>3 DEF EscKept, ListKept
  <2>5. KindOf(s)' = KindOf(s)
    BY <1>1 DEF KindOf
  <2>6. Right(s, 8)'
    <3>1. Addressed(s, 8)'
      BY <2>2, <2>4 DEF Right, Addressed, NewAddress, EC_NODEOFFSET
    <3>2. Identified(s, 8)'
      BY <2>2, <2>4, <2>5 DEF Right, Identified
    <3>3. Worded(s, 8)'
      BY DEF Worded
    <3>4. InTree(s, 8)'
      BY <1>1, <2>2, <2>4 DEF Right, InTree
    <3>5. Ready(s, 8)'
      BY <1>1, <2>2, <2>4 DEF Right, Ready
    <3>6. QED
      BY <3>1, <3>2, <3>3, <3>4, <3>5 DEF Right
  <2>7. QED
    BY <2>1, <2>6
<1>8. AllRight'
  BY <1>1, <1>7 DEF AllRight
<1>9. Mailboxes'
  BY <1>2 DEF Mailboxes
<1>10. QED
  BY <1>6, <1>8, <1>9 DEF ConfigInv

(* The next slave, or the next loop. *)
LEMMA SlaveAfter ==
  ASSUME ConfigInv, stage \in Configured, NEW here, NEW there, ForEach(here, there)
  PROVE  /\ slave' \in Slaves(bus) /\ slavecount = bus.n
         /\ stage' \in {here, there}
         /\ (stage' = here /\ slave < bus.n /\ slave' = slave + 1) \/ (stage' = there /\ slave = bus.n)
<1>0. Shape
  BY DEF ConfigInv
<1>1. stage \notin {"detect", "too many"}
  BY DEF Configured
<1>2. slavecount = bus.n
  BY <1>0, <1>1 DEF Shape
<1>3. 1 \in 1..bus.n /\ (slave < bus.n => slave + 1 \in 1..bus.n)
  BY <1>0, SegmentNumbers
<1>4. slave \in Nat /\ slave <= bus.n /\ bus.n \in Nat
  BY <1>0, SegmentNumbers
<1>5. CASE slave < slavecount
  BY <1>2, <1>3, <1>4, <1>5 DEF ForEach, Slaves
<1>6. CASE ~(slave < slavecount)
  BY <1>2, <1>3, <1>4, <1>6 DEF ForEach, Slaves
<1>7. QED
  BY <1>5, <1>6

(* A step that writes other fields of one record. *)
LEMMA OneRecord ==
  ASSUME ConfigInv, NEW c, c = slave, NEW sl,
         DOMAIN sl = DOMAIN slavelist[c],
         \A f \in {"ids", "configadr", "eep_pdi", "parent", "topology", "hasdc"} :
           sl[f] = slavelist[c][f],
         slavelist' = [slavelist EXCEPT ![c] = sl]
  PROVE  ListKept
BY RecordOf, Names DEF ListKept

(* A step that writes nothing of a kind. *)
LEMMA NoChange ==
  ASSUME ConfigInv
  PROVE  /\ bus' = bus => WiringKept
         /\ slavelist' = slavelist => ListKept
         /\ esc' = esc => EscKept
BY DEF WiringKept, ListKept, EscKept

(* The search for the mappings. *)
LEMMA PdoMapKeeps ==
  ASSUME NEW s, NEW sl, NEW single, NEW lost, DOMAIN sl = DOMAIN Cleared
  PROVE  /\ DOMAIN PdoMap(s, sl, single, lost) = DOMAIN sl
         /\ \A f \in {"ids", "configadr", "eep_pdi", "parent", "topology", "hasdc"} :
              PdoMap(s, sl, single, lost)[f] = sl[f]
BY Names DEF PdoMap

(* One attempt, by CoE. *)
LEMMA AttemptKeeps ==
  ASSUME ConfigInv, NEW tried, NEW single, Attempt(tried, single)
  PROVE  ListKept
<1>1. CASE ~tried
  BY <1>1, NoChange DEF Attempt
<1>2. CASE tried
  <2>1. PICK lost : slavelist' = [slavelist EXCEPT ![slave] = PdoMap(slave, @, single, lost)]
    BY <1>2 DEF Attempt
  <2>2. slavelist' = [slavelist EXCEPT ![slave] = PdoMap(slave, slavelist[slave], single, lost)]
    BY <2>1
  <2>3. /\ DOMAIN PdoMap(slave, slavelist[slave], single, lost) = DOMAIN slavelist[slave]
        /\ \A f \in {"ids", "configadr", "eep_pdi", "parent", "topology", "hasdc"} :
             PdoMap(slave, slavelist[slave], single, lost)[f] = slavelist[slave][f]
    BY RecordOf, PdoMapKeeps
  <2>4. QED
    BY <2>2, <2>3, OneRecord
<1>3. QED
  BY <1>1, <1>2

(* Every step of the search. *)
LEMMA MappingsKeep ==
  ASSUME ConfigInv, FindMappingsStep
  PROVE  ConfigInv' /\ stage' \in {"hook", "pdo", "soe", "map", "latch"} /\ bus' = bus
<1>1. CASE MapCA
  <2>1. /\ stage = "coe" /\ stage' = "pdo" /\ bus' = bus /\ esc' = esc /\ slave' = slave
        /\ slavecount' = slavecount
    BY <1>1 DEF MapCA
  <2>2. ListKept
    BY <1>1, AttemptKeeps DEF MapCA
  <2>3. QED
    BY <2>1, <2>2, RecordOf, NoChange, LateStep DEF Configured
<1>2. CASE MapPDOs
  <2>1. /\ stage = "pdo" /\ stage' = "soe" /\ bus' = bus /\ esc' = esc /\ slave' = slave
        /\ slavecount' = slavecount
    BY <1>2 DEF MapPDOs
  <2>2. ListKept
    BY <1>2, AttemptKeeps DEF MapPDOs
  <2>3. QED
    BY <2>1, <2>2, RecordOf, NoChange, LateStep DEF Configured
<1>3. CASE MapIDNs
  <2>1. /\ stage = "soe" /\ ForEach("hook", "map") /\ bus' = bus /\ esc' = esc
        /\ slavecount' = slavecount
    BY <1>3 DEF MapIDNs
  <2>2. stage \in Configured
    BY <2>1 DEF Configured
  <2>3. slave' \in Slaves(bus) /\ stage' \in {"hook", "map"}
    BY <2>1, <2>2, SlaveAfter
  <2>4. ListKept
    <3>1. CASE slavelist' = slavelist
      BY <3>1, NoChange
    <3>2. CASE slavelist' = [slavelist EXCEPT ![slave] = SoeMap(slave, @)]
      <4>1. /\ DOMAIN SoeMap(slave, slavelist[slave]) = DOMAIN slavelist[slave]
            /\ \A f \in {"ids", "configadr", "eep_pdi", "parent", "topology", "hasdc"} :
                 SoeMap(slave, slavelist[slave])[f] = slavelist[slave][f]
        BY RecordOf, Names DEF SoeMap
      <4>2. slavelist' = [slavelist EXCEPT ![slave] = SoeMap(slave, slavelist[slave])]
        BY <3>2
      <4>3. QED
        BY <4>1, <4>2, OneRecord
    <3>3. QED
      BY <1>3, <3>1, <3>2 DEF MapIDNs
  <2>5. stage' \in Configured
    BY <2>3 DEF Configured
  <2>6. QED
    BY <2>1, <2>2, <2>3, <2>4, <2>5, NoChange, LateStep
<1>4. CASE MapSlave
  <2> DEFINE mapped == MapSii(slave, slavelist[slave])
             sl == [mapped EXCEPT !.sm = SwitchSms(mapped)]
  <2>1. /\ stage = "map" /\ ForEach("map", "latch") /\ bus' = bus
        /\ slavecount' = slavecount
    BY <1>4 DEF MapSlave
  <2>2. stage \in Configured
    BY <2>1 DEF Configured
  <2>3. slave' \in Slaves(bus) /\ stage' \in {"map", "latch"}
    BY <2>1, <2>2, SlaveAfter
  <2>4. stage' \in Configured
    BY <2>3 DEF Configured
  <2>5. /\ DOMAIN mapped = DOMAIN slavelist[slave]
        /\ \A f \in {"ids", "configadr", "eep_pdi", "parent", "topology", "hasdc"} :
             mapped[f] = slavelist[slave][f]
    <3>1. \A l : DOMAIN l = DOMAIN Cleared =>
            /\ DOMAIN SiiMap(slave, l) = DOMAIN Cleared
            /\ \A f \in {"ids", "configadr", "eep_pdi", "parent", "topology", "hasdc"} :
                 SiiMap(slave, l)[f] = l[f]
      BY Names DEF SiiMap
    <3>2. \A l : DOMAIN l = DOMAIN Cleared =>
            /\ DOMAIN CopyMapping(slave, l) = DOMAIN Cleared
            /\ \A f \in {"ids", "configadr", "eep_pdi", "parent", "topology", "hasdc"} :
                 CopyMapping(slave, l)[f] = l[f]
      BY Names DEF CopyMapping
    <3>3. QED
      BY <3>1, <3>2, RecordOf DEF MapSii
  <2>6. /\ slavelist' = [slavelist EXCEPT ![slave] = sl]
        /\ esc' = [esc EXCEPT ![slave].sm =
             [n \in 0..3 |-> IF Programs(sl, n) THEN sl.sm[n] ELSE esc[slave].sm[n]]]
    BY <1>4 DEF MapSlave
  <2>7. /\ DOMAIN sl = DOMAIN slavelist[slave]
        /\ \A f \in {"ids", "configadr", "eep_pdi", "parent", "topology", "hasdc"} :
             sl[f] = slavelist[slave][f]
    <3> HIDE DEF mapped
    <3>1. QED
      BY <2>5, RecordOf, Names
  <2> HIDE DEF sl
  <2>8. ListKept
    BY <2>6, <2>7, OneRecord
  <2>9. EscKept
    BY <2>6, RecordOf, Names DEF EscKept
  <2>10. QED
    BY <2>1, <2>2, <2>3, <2>4, <2>8, <2>9, NoChange, LateStep
<1>5. QED
  BY <1>1, <1>2, <1>3, <1>4 DEF FindMappingsStep

(* The hook changes what the drive maps, and nothing else of the segment.  *)
LEMMA HookKeeps ==
  ASSUME ConfigInv, RunHook
  PROVE  ConfigInv' /\ stage' = "coe" /\ WiringKept
<1>1. /\ stage = "hook" /\ stage' = "coe" /\ esc' = esc /\ slavelist' = slavelist
      /\ slave' = slave /\ slavecount' = slavecount
  BY DEF RunHook
<1>2. WiringKept
  <2>1. CASE HasHook(slave)
    <3>1. PICK p : bus' = [bus EXCEPT !.pdos[slave] = p]
      BY <2>1 DEF RunHook, PanasonicSetup
    <3>2. QED
      BY <3>1 DEF WiringKept
  <2>2. CASE ~HasHook(slave)
    BY <2>2, NoChange DEF RunHook
  <2>3. QED
    BY <2>1, <2>2
<1>3. QED
  BY <1>1, <1>2, RecordOf, NoChange, LateStep DEF Configured

(* What ecx_configdc and the pulses write is none of what is kept.         *)
LEMMA OtherFields ==
  ASSUME DOMAIN slavelist' = DOMAIN slavelist,
         \A s \in DOMAIN slavelist : DOMAIN slavelist[s] = DOMAIN Cleared,
         \A s \in DOMAIN slavelist :
           /\ DOMAIN slavelist'[s] = DOMAIN Cleared
           /\ \A f \in DOMAIN Cleared \ {"consumed", "rt", "DCactive", "DCcycle"} :
                slavelist'[s][f] = slavelist[s][f]
  PROVE  ListKept
<1>1. /\ {"ids", "configadr", "eep_pdi", "parent", "topology"}
           \subseteq DOMAIN Cleared \ {"consumed", "rt", "DCactive", "DCcycle"}
      /\ "hasdc" \in DOMAIN Cleared \ {"consumed", "rt", "DCactive", "DCcycle"}
  BY Names
<1>2. QED
  BY <1>1 DEF ListKept

(* Latching the times. *)
LEMMA LatchKeeps ==
  ASSUME ConfigInv, Latch
  PROVE  ConfigInv' /\ stage' = "dc" /\ slave' = 1 /\ slavelist'[0].hasdc = FALSE /\ bus' = bus
<1>1. /\ stage = "latch" /\ slave' = 1 /\ bus' = bus /\ slavecount' = slavecount
      /\ slavelist' = [slavelist EXCEPT ![0].hasdc = FALSE]
      /\ stage' = IF slavecount > 0 THEN "dc" ELSE "sync"
  BY DEF Latch
<1>2. slavecount = bus.n /\ bus.n > 0 /\ 1 \in Slaves(bus) /\ 0 \in 0..bus.n
  <2>1. Shape
    BY DEF ConfigInv
  <2>2. slavecount = bus.n
    BY <1>1, <2>1 DEF Shape
  <2>3. QED
    BY <2>1, <2>2, SegmentNumbers
<1>3. /\ DOMAIN slavelist = 0..bus.n
      /\ \A s \in DOMAIN slavelist : DOMAIN slavelist[s] = DOMAIN Cleared
  BY DEF ConfigInv, Shape
<1>4. ListKept
  BY <1>1, <1>3, Names DEF ListKept
<1>5. EscKept
  <2>1. \A s \in DOMAIN esc : DOMAIN esc[s] = DOMAIN LeftBehind
    BY DEF ConfigInv, Shape
  <2>2. esc' = [s \in DOMAIN esc |->
                 [esc[s] EXCEPT !.stamp = [p \in 0..3 |-> Stamp(bus, s, p)]]]
    BY DEF Latch
  <2>3. QED
    BY <2>1, <2>2, Names DEF EscKept
<1>6. slavelist'[0].hasdc = FALSE
  BY <1>1, <1>2, <1>3, Names
<1>7. stage' = "dc" /\ stage \in Configured /\ stage' \in Configured /\ slave' \in Slaves(bus)
  BY <1>1, <1>2 DEF Configured
<1>8. QED
  BY <1>1, <1>4, <1>5, <1>6, <1>7, NoChange, LateStep

-----------------------------------------------------------------------------
(* The chain of clocks: x is the last clock before slave c, or 0 if there  *)
(* is none.                                                                *)
IsLast(x, c) == x \in {0} \cup DcBefore(c) /\ \A t \in DcBefore(c) : t <= x

(* How far ecx_configdc has come. *)
Reached == IF stage = "dc" THEN slave ELSE bus.n + 1

ChainInv ==
  stage \in {"dc", "sync"} =>
    /\ slavelist[0].hasdc <=> DcBefore(Reached) # {}
    /\ slavelist[0].hasdc => IsLast(prevDCslave, Reached)
    /\ \A s \in bus.dc : s < Reached =>
         /\ IsLast(slavelist[s].DCprevious, s)
         /\ slavelist[slavelist[s].DCprevious].DCnext = s

(* What a slave with clocks changes of the list. *)
LEMMA DcSlaveDoes ==
  ASSUME ConfigInv, DcSlave, slavelist[0].hasdc => prevDCslave \in 1..(slave - 1)
  PROVE  /\ ListKept /\ EscKept
         /\ slavelist'[0].hasdc <=> TRUE
         /\ slavelist'[slave].DCprevious = IF slavelist[0].hasdc THEN prevDCslave ELSE 0
         /\ slavelist'[IF slavelist[0].hasdc THEN prevDCslave ELSE 0].DCnext = slave
         /\ \A s \in 0..bus.n : s # slave => slavelist'[s].DCprevious = slavelist[s].DCprevious
         /\ \A s \in 0..bus.n : s # (IF slavelist[0].hasdc THEN prevDCslave ELSE 0) =>
              slavelist'[s].DCnext = slavelist[s].DCnext
<1> DEFINE rt == esc[slave].stamp
           ports == slavelist[slave].ports
           entry == EntryPort(ports, rt)
           sl == [slavelist[slave] EXCEPT !.rt = rt, !.entry = entry,
                                          !.consumed = ports \ {entry}]
           way == Up(slave)
           par == slavelist[way.parent]
           free == FreePort(par.consumed)
           pport == IF par.topology = 1 THEN par.entry ELSE free
           first == way.child - way.parent <= 1
           pdelay == Delay([sl EXCEPT !.pport = pport], par, first)
           chain == IF slavelist[0].hasdc
                    THEN [slavelist EXCEPT ![prevDCslave].DCnext = slave]
                    ELSE [slavelist EXCEPT ![0].hasdc = TRUE, ![0].DCnext = slave]
           prev == IF slavelist[0].hasdc THEN prevDCslave ELSE 0
           me == [sl EXCEPT !.DCprevious = prev]
           me2 == [me EXCEPT !.pport = pport, !.pdelay = pdelay]
<1>1. \/ slavelist' = [chain EXCEPT ![slave] = me] /\ esc' = esc
      \/ /\ slavelist' = [chain EXCEPT ![way.parent].consumed = par.consumed \ {free},
                                       ![slave] = me2]
         /\ esc' = [esc EXCEPT ![slave].delay = pdelay]
  BY DEF DcSlave
<1>2. /\ DOMAIN slavelist = 0..bus.n /\ DOMAIN esc = Slaves(bus)
      /\ \A s \in DOMAIN slavelist : DOMAIN slavelist[s] = DOMAIN Cleared
      /\ \A s \in DOMAIN esc : DOMAIN esc[s] = DOMAIN LeftBehind
  BY DEF ConfigInv, Shape
<1>3. /\ slave \in 0..bus.n /\ slave # 0 /\ 0 \in 0..bus.n /\ slave \in Slaves(bus) /\ bus.n \in Nat
      /\ prev \in 0..bus.n /\ prev # slave
  <2>1. Shape
    BY DEF ConfigInv
  <2>2. QED
    BY <2>1, SegmentNumbers
<1>4. EscKept
  <2>1. \E d : esc' = esc \/ esc' = [esc EXCEPT ![slave].delay = d]
    BY <1>1
  <2> HIDE DEF rt, ports, entry, sl, way, par, free, pport, first, pdelay, chain, prev, me
  <2>2. QED
    BY <1>2, <1>3, <2>1, Names DEF EscKept
<1>5. PICK m, u, v :
        /\ slavelist' = [chain EXCEPT ![u].consumed = v, ![slave] = m]
           \/ slavelist' = [chain EXCEPT ![slave] = m]
        /\ DOMAIN m = DOMAIN Cleared /\ m.DCprevious = prev
        /\ \A f \in {"ids", "configadr", "eep_pdi", "parent", "topology", "hasdc", "DCnext"} :
             m[f] = slavelist[slave][f]
  <2> HIDE DEF pdelay, chain, way, free, pport, rt, entry, ports, prev, par
  <2>1. /\ DOMAIN me = DOMAIN Cleared /\ me.DCprevious = prev
        /\ \A f \in {"ids", "configadr", "eep_pdi", "parent", "topology", "hasdc", "DCnext"} :
             me[f] = slavelist[slave][f]
    BY <1>2, <1>3, Names
  <2>2. /\ DOMAIN me2 = DOMAIN Cleared /\ me2.DCprevious = prev
        /\ \A f \in {"ids", "configadr", "eep_pdi", "parent", "topology", "hasdc", "DCnext"} :
             me2[f] = slavelist[slave][f]
    <3> HIDE DEF me
    <3>1. QED
      BY <2>1, Names
  <2> HIDE DEF me, me2
  <2>4. CASE slavelist' = [chain EXCEPT ![slave] = me]
    BY <2>1, <2>4
  <2>5. CASE slavelist' = [chain EXCEPT ![way.parent].consumed = par.consumed \ {free},
                                        ![slave] = me2]
    BY <2>2, <2>5
  <2>6. QED
    BY <1>1, <2>4, <2>5
<1>6. /\ DOMAIN chain = 0..bus.n
      /\ \A s \in 0..bus.n :
           /\ DOMAIN chain[s] = DOMAIN Cleared
           /\ \A f \in DOMAIN Cleared \ {"hasdc", "DCnext"} : chain[s][f] = slavelist[s][f]
           /\ s # 0 => chain[s].hasdc = slavelist[s].hasdc
           /\ s # prev => chain[s].DCnext = slavelist[s].DCnext
      /\ chain[0].hasdc <=> TRUE
      /\ chain[prev].DCnext = slave
  <2>1. CASE slavelist[0].hasdc
    BY <1>2, <1>3, <2>1, Names
  <2>2. CASE ~slavelist[0].hasdc
    BY <1>2, <1>3, <2>2, Names
  <2>3. QED
    BY <2>1, <2>2
<1> HIDE DEF chain, prev
<1>7. /\ DOMAIN slavelist' = 0..bus.n /\ slavelist'[slave] = m
      /\ \A s \in 0..bus.n : s # slave =>
           /\ DOMAIN slavelist'[s] = DOMAIN Cleared
           /\ \A f \in DOMAIN Cleared \ {"consumed"} : slavelist'[s][f] = chain[s][f]
  BY <1>3, <1>5, <1>6, Names
<1>8. ListKept
  <2>1. ASSUME NEW s \in 0..bus.n
        PROVE  /\ DOMAIN slavelist'[s] = DOMAIN slavelist[s]
               /\ \A f \in {"ids", "configadr", "eep_pdi", "parent", "topology"} :
                    slavelist'[s][f] = slavelist[s][f]
               /\ s # 0 => slavelist'[s].hasdc = slavelist[s].hasdc
    <3>1. CASE s = slave
      BY <1>2, <1>3, <1>5, <1>7, <3>1
    <3>2. CASE s # slave
      <4>1. /\ {"ids", "configadr", "eep_pdi", "parent", "topology"}
                 \subseteq DOMAIN Cleared \ {"hasdc", "DCnext", "consumed"}
            /\ "hasdc" \in DOMAIN Cleared \ {"consumed"}
        BY Names
      <4>2. /\ DOMAIN slavelist'[s] = DOMAIN slavelist[s]
            /\ \A f \in DOMAIN Cleared \ {"hasdc", "DCnext", "consumed"} :
                 slavelist'[s][f] = slavelist[s][f]
        BY <1>2, <1>6, <1>7, <3>2
      <4>3. s # 0 => slavelist'[s].hasdc = slavelist[s].hasdc
        BY <1>6, <1>7, <3>2, <4>1
      <4>4. QED
        BY <4>1, <4>2, <4>3
    <3>3. QED
      BY <3>1, <3>2
  <2>2. QED
    BY <1>2, <1>7, <2>1 DEF ListKept
<1>9. slavelist'[0].hasdc <=> TRUE
  BY <1>3, <1>6, <1>7, Names
<1>10. slavelist'[slave].DCprevious = prev
  BY <1>5, <1>7
<1>11. slavelist'[prev].DCnext = slave
  BY <1>3, <1>6, <1>7, Names
<1>12. \A s \in 0..bus.n : s # slave => slavelist'[s].DCprevious = slavelist[s].DCprevious
  BY <1>6, <1>7, Names
<1>13. \A s \in 0..bus.n : s # prev => slavelist'[s].DCnext = slavelist[s].DCnext
  BY <1>5, <1>6, <1>7, Names
<1>14. QED
  BY <1>4, <1>8, <1>9, <1>10, <1>11, <1>12, <1>13 DEF prev

(* What a slave without changes of it. *)
LEMMA PlainSlaveDoes ==
  ASSUME ConfigInv, PlainSlave
  PROVE  /\ ListKept /\ esc' = esc
         /\ \A s \in 0..bus.n : \A f \in {"hasdc", "DCprevious", "DCnext"} :
              slavelist'[s][f] = slavelist[s][f]
<1> DEFINE held == Held(slave)
           me == [slavelist EXCEPT ![slave].consumed = slavelist[slave].ports,
                                   ![slave].rt = [p \in 0..3 |-> 0]]
           free == FreePort(me[held].consumed)
<1>1. /\ slavelist' = [me EXCEPT ![held].consumed = @ \ {free}] \/ slavelist' = me
      /\ esc' = esc
  BY DEF PlainSlave
<1>2. /\ DOMAIN slavelist = 0..bus.n
      /\ \A s \in DOMAIN slavelist : DOMAIN slavelist[s] = DOMAIN Cleared
  BY DEF ConfigInv, Shape
<1>3. /\ DOMAIN me = 0..bus.n
      /\ \A s \in 0..bus.n :
           /\ DOMAIN me[s] = DOMAIN Cleared
           /\ \A f \in DOMAIN Cleared \ {"consumed", "rt"} : me[s][f] = slavelist[s][f]
  BY <1>2, Names
<1>4. \E h, v : slavelist' = [me EXCEPT ![h].consumed = v] \/ slavelist' = me
  <2> HIDE DEF held
  <2>1. CASE slavelist' = [me EXCEPT ![held].consumed = @ \ {free}]
    <3> DEFINE v == me[held].consumed \ {free}
    <3>1. slavelist' = [me EXCEPT ![held].consumed = v]
      BY <2>1
    <3>2. QED
      BY <3>1
  <2>2. QED
    BY <1>1, <2>1
<1> HIDE DEF me
<1>5. /\ DOMAIN slavelist' = 0..bus.n
      /\ \A s \in 0..bus.n :
           /\ DOMAIN slavelist'[s] = DOMAIN Cleared
           /\ \A f \in DOMAIN Cleared \ {"consumed", "rt"} : slavelist'[s][f] = slavelist[s][f]
  <2>1. CASE slavelist' = me
    BY <1>3, <2>1
  <2>2. ASSUME NEW h, NEW v, slavelist' = [me EXCEPT ![h].consumed = v]
        PROVE  /\ DOMAIN slavelist' = 0..bus.n
               /\ \A s \in 0..bus.n :
                    /\ DOMAIN slavelist'[s] = DOMAIN Cleared
                    /\ \A f \in DOMAIN Cleared \ {"consumed"} : slavelist'[s][f] = me[s][f]
    BY <1>3, <2>2, Names
  <2>3. QED
    BY <1>3, <1>4, <2>1, <2>2
<1>6. ListKept
  BY <1>2, <1>5, OtherFields
<1>7. QED
  BY <1>1, <1>5, <1>6, Names

(* What a start of pulses changes of it. *)
LEMMA SyncDoes ==
  ASSUME ConfigInv, NEW s, NEW act, NEW cycles, NEW cycle, Sync(s, act, cycles, cycle)
  PROVE  /\ ListKept /\ EscKept
         /\ \A t \in 0..bus.n : \A f \in {"hasdc", "DCprevious", "DCnext"} :
              slavelist'[t][f] = slavelist[t][f]
<1>1. /\ DOMAIN slavelist = 0..bus.n /\ DOMAIN esc = Slaves(bus)
      /\ \A t \in DOMAIN slavelist : DOMAIN slavelist[t] = DOMAIN Cleared
      /\ \A t \in DOMAIN esc : DOMAIN esc[t] = DOMAIN LeftBehind
  BY DEF ConfigInv, Shape
<1>2. slavelist' = [slavelist EXCEPT ![s].DCactive = act, ![s].DCcycle = cycles[1]]
  BY DEF Sync
<1>3. \E start : esc' = [esc EXCEPT ![s].sync = start, ![s].act = act]
  BY DEF Sync
<1>4. EscKept
  BY <1>1, <1>3, Names DEF EscKept
<1>5. /\ DOMAIN slavelist' = 0..bus.n
      /\ \A t \in 0..bus.n :
           /\ DOMAIN slavelist'[t] = DOMAIN Cleared
           /\ \A f \in DOMAIN Cleared \ {"DCactive", "DCcycle"} :
                slavelist'[t][f] = slavelist[t][f]
  BY <1>1, <1>2, Names
<1>6. ListKept
  BY <1>1, <1>5, OtherFields
<1>7. QED
  BY <1>4, <1>5, <1>6, Names

(* The clocks before a slave. *)
LEMMA Clocks ==
  ASSUME Shape
  PROVE  /\ bus.dc \subseteq 1..bus.n /\ bus.n \in Nat /\ slave \in 1..bus.n
         /\ bus.times \subseteq Int
         /\ \A c \in bus.dc : c \in 0..bus.n
BY SegmentNumbers DEF Shape, IsSegment, Slaves

(* The slave ecx_configdc is at has clocks if its record says so. *)
LEMMA HasClocks ==
  ASSUME ConfigInv, stage \in Configured
  PROVE  \A s \in Slaves(bus) : slavelist[s].hasdc <=> s \in bus.dc
<1>1. SUFFICES ASSUME NEW s \in Slaves(bus) PROVE slavelist[s].hasdc <=> s \in bus.dc
  OBVIOUS
<1>2. stage \notin DOMAIN Loop /\ stage \notin DOMAIN Placing
  BY Names DEF Configured
<1>3. Did(s) = 8
  BY <1>2 DEF Did
<1>4. InTree(s, 8)
  BY <1>3 DEF ConfigInv, AllRight, Right
<1>5. slavelist[s].hasdc = (s \in bus.dc)
  BY <1>4 DEF InTree
<1>6. QED
  BY <1>5, Zenon

(* The next slave in ecx_configdc. *)
LEMMA DcNext ==
  ASSUME ConfigInv, stage = "dc", ForEach("dc", "sync"), bus' = bus
  PROVE  /\ Reached' = slave + 1 /\ Reached = slave
         /\ stage' \in {"dc", "sync"} /\ slave' \in Slaves(bus) /\ slavecount = bus.n
<1>1. stage \in Configured
  BY DEF Configured
<1>2. /\ slave' \in Slaves(bus) /\ slavecount = bus.n /\ stage' \in {"dc", "sync"}
      /\ (stage' = "dc" /\ slave < bus.n /\ slave' = slave + 1) \/ (stage' = "sync" /\ slave = bus.n)
  BY <1>1, SlaveAfter
<1>3. QED
  BY <1>2 DEF Reached

(* A slave with clocks is chained to the last one before it. *)
LEMMA DcSlaveKeeps ==
  ASSUME ConfigInv, ChainInv, DcSlave
  PROVE  ConfigInv' /\ ChainInv' /\ bus' = bus
<1>1. /\ stage = "dc" /\ slavelist[slave].hasdc /\ ForEach("dc", "sync")
      /\ bus' = bus /\ slavecount' = slavecount /\ prevDCslave' = slave
  BY DEF DcSlave
<1>2. stage \in Configured
  BY <1>1 DEF Configured
<1>3. /\ Reached' = slave + 1 /\ Reached = slave
      /\ stage' \in {"dc", "sync"} /\ slave' \in Slaves(bus)
  BY <1>1, DcNext
<1>4. /\ bus.dc \subseteq 1..bus.n /\ bus.n \in Nat /\ slave \in 1..bus.n
      /\ \A c \in bus.dc : c \in 0..bus.n
  BY Clocks DEF ConfigInv
<1>5. slave \in bus.dc
  BY <1>1, <1>2, <1>4, HasClocks DEF Slaves
<1> DEFINE prev == IF slavelist[0].hasdc THEN prevDCslave ELSE 0
<1>6. /\ slavelist[0].hasdc <=> DcBefore(slave) # {}
      /\ slavelist[0].hasdc => IsLast(prevDCslave, slave)
      /\ \A s \in bus.dc : s < slave =>
           /\ IsLast(slavelist[s].DCprevious, s)
           /\ slavelist[slavelist[s].DCprevious].DCnext = s
  BY <1>1, <1>3 DEF ChainInv
<1>7. IsLast(prev, slave) /\ (slavelist[0].hasdc => prevDCslave \in 1..(slave - 1))
  BY <1>4, <1>6 DEF IsLast, DcBefore
<1>8. /\ ListKept /\ EscKept
      /\ slavelist'[0].hasdc <=> TRUE
      /\ slavelist'[slave].DCprevious = prev
      /\ slavelist'[prev].DCnext = slave
      /\ \A s \in 0..bus.n : s # slave => slavelist'[s].DCprevious = slavelist[s].DCprevious
      /\ \A s \in 0..bus.n : s # prev => slavelist'[s].DCnext = slavelist[s].DCnext
  BY <1>7, DcSlaveDoes
<1>9. ConfigInv'
  BY <1>1, <1>2, <1>3, <1>8, NoChange, LateStep DEF Configured
<1>10. DcBefore(slave + 1) = DcBefore(slave) \cup {slave}
  BY <1>4, <1>5 DEF DcBefore
<1>11. IsLast(slave, slave + 1)
  BY <1>4, <1>10 DEF IsLast, DcBefore
<1>12. ASSUME NEW s \in bus.dc, s < slave + 1
       PROVE  /\ IsLast(slavelist'[s].DCprevious, s)
              /\ slavelist'[slavelist'[s].DCprevious].DCnext = s
  <2>1. CASE s = slave
    BY <1>7, <1>8, <2>1
  <2>2. CASE s # slave
    <3>1. s < slave /\ s \in 0..bus.n
      BY <1>4, <1>12, <2>2
    <3> DEFINE p == slavelist[s].DCprevious
    <3>2. /\ slavelist'[s].DCprevious = p /\ IsLast(p, s)
          /\ slavelist[p].DCnext = s
      BY <1>6, <1>8, <2>2, <3>1
    <3>3. p \in 0..bus.n /\ p < s
      BY <1>4, <3>1, <3>2 DEF IsLast, DcBefore
    <3>4. s \in DcBefore(slave)
      BY <3>1 DEF DcBefore
    <3>5. s <= prev
      BY <1>7, <3>4 DEF IsLast
    <3>6. prev \in Nat
      BY <1>4, <1>7 DEF IsLast, DcBefore
    <3>7. p # prev
      BY <1>4, <3>1, <3>3, <3>5, <3>6
    <3>8. QED
      BY <1>8, <3>2, <3>3, <3>7
  <2>3. QED
    BY <2>1, <2>2
<1>13. ChainInv'
  BY <1>1, <1>3, <1>8, <1>10, <1>11, <1>12 DEF ChainInv, IsLast, DcBefore
<1>14. QED
  BY <1>1, <1>9, <1>13

(* Nothing else changes the chain. *)
LEMMA ChainStays ==
  ASSUME ConfigInv, ChainInv, stage \in {"dc", "sync"}, bus' = bus, prevDCslave' = prevDCslave,
         DcBefore(Reached') = DcBefore(Reached), Reached' \in Int, stage' \in {"dc", "sync"},
         \A s \in 0..bus.n : \A f \in {"hasdc", "DCprevious", "DCnext"} :
           slavelist'[s][f] = slavelist[s][f]
  PROVE  ChainInv'
<1>1. /\ bus.dc \subseteq 1..bus.n /\ bus.n \in Nat /\ 0 \in 0..bus.n
      /\ \A c \in bus.dc : c \in 0..bus.n
  BY Clocks DEF ConfigInv
<1>2. /\ slavelist[0].hasdc <=> DcBefore(Reached) # {}
      /\ slavelist[0].hasdc => IsLast(prevDCslave, Reached)
      /\ \A s \in bus.dc : s < Reached =>
           /\ IsLast(slavelist[s].DCprevious, s)
           /\ slavelist[slavelist[s].DCprevious].DCnext = s
  BY DEF ChainInv
<1>3. slavelist'[0].hasdc = slavelist[0].hasdc
  BY <1>1
<1>4. ASSUME NEW s \in bus.dc, s < Reached'
      PROVE  /\ IsLast(slavelist'[s].DCprevious, s)
             /\ slavelist'[slavelist'[s].DCprevious].DCnext = s
  <2>1. s \in DcBefore(Reached)
    BY <1>4 DEF DcBefore
  <2>2. s < Reached
    BY <2>1 DEF DcBefore
  <2>3. slavelist'[s].DCprevious = slavelist[s].DCprevious
    BY <1>1
  <2>4. IsLast(slavelist[s].DCprevious, s) /\ slavelist[slavelist[s].DCprevious].DCnext = s
    BY <1>2, <2>2
  <2>5. slavelist[s].DCprevious \in 0..bus.n
    BY <1>1, <2>4 DEF IsLast, DcBefore
  <2>6. QED
    BY <2>3, <2>4, <2>5
<1>5. slavelist'[0].hasdc => IsLast(prevDCslave', Reached')
  BY <1>2, <1>3 DEF IsLast
<1>6. slavelist'[0].hasdc <=> DcBefore(Reached') # {}
  BY <1>2, <1>3
<1>7. QED
  BY <1>4, <1>5, <1>6 DEF ChainInv, IsLast, DcBefore

(* A slave without clocks leaves the chain alone. *)
LEMMA PlainSlaveKeeps ==
  ASSUME ConfigInv, ChainInv, PlainSlave
  PROVE  ConfigInv' /\ ChainInv' /\ bus' = bus
<1>1. /\ stage = "dc" /\ ~slavelist[slave].hasdc /\ ForEach("dc", "sync")
      /\ bus' = bus /\ slavecount' = slavecount /\ prevDCslave' = prevDCslave
  BY DEF PlainSlave
<1>2. stage \in Configured
  BY <1>1 DEF Configured
<1>3. /\ Reached' = slave + 1 /\ Reached = slave
      /\ stage' \in {"dc", "sync"} /\ slave' \in Slaves(bus)
  BY <1>1, DcNext
<1>4. bus.dc \subseteq 1..bus.n /\ bus.n \in Nat /\ slave \in 1..bus.n
  BY Clocks DEF ConfigInv
<1>5. slave \notin bus.dc
  BY <1>1, <1>2, <1>4, HasClocks DEF Slaves
<1>6. /\ ListKept /\ esc' = esc
      /\ \A s \in 0..bus.n : \A f \in {"hasdc", "DCprevious", "DCnext"} :
           slavelist'[s][f] = slavelist[s][f]
  BY PlainSlaveDoes
<1>7. ConfigInv'
  BY <1>1, <1>2, <1>3, <1>6, NoChange, LateStep DEF Configured
<1>8. DcBefore(slave + 1) = DcBefore(slave)
  BY <1>4, <1>5 DEF DcBefore
<1>9. ChainInv'
  BY <1>1, <1>3, <1>4, <1>6, <1>8, ChainStays
<1>10. QED
  BY <1>1, <1>7, <1>9

(* So do the calls for pulses. *)
LEMMA SyncKeeps ==
  ASSUME ConfigInv, ChainInv, NEW s, NEW act, NEW cycles, NEW cycle,
         Sync(s, act, cycles, cycle)
  PROVE  ConfigInv' /\ ChainInv' /\ bus' = bus
<1>1. /\ stage = "sync" /\ stage' = stage /\ slave' = slave /\ bus' = bus /\ slavecount' = slavecount
      /\ prevDCslave' = prevDCslave
  BY DEF Sync
<1>2. stage \in Configured /\ slave \in Slaves(bus)
  BY <1>1, RecordOf DEF Configured
<1>3. /\ ListKept /\ EscKept
      /\ \A t \in 0..bus.n : \A f \in {"hasdc", "DCprevious", "DCnext"} :
           slavelist'[t][f] = slavelist[t][f]
  BY SyncDoes
<1>4. ConfigInv'
  BY <1>1, <1>2, <1>3, NoChange, LateStep
<1>5. Reached' = Reached /\ Reached = bus.n + 1
  BY <1>1 DEF Reached
<1>6. bus.n \in Nat
  BY Clocks DEF ConfigInv
<1>7. ChainInv'
  BY <1>1, <1>3, <1>5, <1>6, ChainStays
<1>8. QED
  BY <1>1, <1>4, <1>7

(* Before the clocks there is no chain. *)
LEMMA NoChain ==
  ASSUME stage' \notin {"dc", "sync"}
  PROVE  ChainInv'
BY DEF ChainInv

-----------------------------------------------------------------------------
(* The first pulses: each was worked out from a time and a cycle.          *)
PulseInv ==
  \A a \in syncs :
    /\ a.at \in Int /\ a.shift \in Int
    /\ a.cycles[1] > 0 =>
         /\ Repeats(a.cycles) \in Nat \ {0}
         /\ a.start = StartTime(a.at, Repeats(a.cycles), a.shift)

(* The first pulse comes a whole number of cycles and the shift after the  *)
(* beginning of time, and later than SyncDelay from now.                   *)
LEMMA StartIs ==
  ASSUME DcConstants, NEW now \in Int, NEW cycle \in Nat, cycle > 0, NEW shift \in Int
  PROVE  /\ \E q \in Int : StartTime(now, cycle, shift) - shift = cycle * q
         /\ 0 < StartTime(now, cycle, shift) - shift - now - SyncDelay
         /\ StartTime(now, cycle, shift) - shift - now - SyncDelay <= cycle
<1> DEFINE a == now + SyncDelay
           q == a \div cycle
<1>1. SyncDelay \in Nat /\ a \in Int
  BY DEF DcConstants
<1>2. /\ a % cycle \in 0..(cycle - 1) /\ q \in Int
      /\ a = cycle * q + (a % cycle)
  BY <1>1, Division
<1>3. StartTime(now, cycle, shift) = q * cycle + cycle + shift
  BY DEF StartTime
<1> HIDE DEF q
<1>4. q * cycle = cycle * q /\ cycle * q \in Int
  BY <1>2, SMTT(20)
<1>5. cycle * q + cycle = cycle * (q + 1) /\ q + 1 \in Int
  BY <1>2, SMTT(20)
<1>6. StartTime(now, cycle, shift) - shift = cycle * q + cycle
  BY <1>3, <1>4
<1>7. \E r \in Int : StartTime(now, cycle, shift) - shift = cycle * r
  BY <1>5, <1>6
<1>8. StartTime(now, cycle, shift) - shift - now - SyncDelay = cycle - (a % cycle)
  BY <1>1, <1>2, <1>4, <1>6
<1>9. QED
  BY <1>2, <1>7, <1>8

(* Two pulses of the same repetition are whole repetitions apart. *)
LEMMA PulsesFit ==
  ASSUME DcConstants, PulseInv
  PROVE  PulsesTogether
<1>1. ASSUME NEW a \in syncs, a.cycles[1] > 0
      PROVE  LET after == a.start - a.shift - a.at - SyncDelay
             IN 0 < after /\ after <= Repeats(a.cycles)
  <2>1. /\ a.at \in Int /\ a.shift \in Int
        /\ Repeats(a.cycles) \in Nat \ {0}
        /\ a.start = StartTime(a.at, Repeats(a.cycles), a.shift)
    BY <1>1 DEF PulseInv
  <2>2. PICK n \in Nat : n = Repeats(a.cycles) /\ n > 0
    BY <2>1
  <2>3. /\ 0 < StartTime(a.at, n, a.shift) - a.shift - a.at - SyncDelay
        /\ StartTime(a.at, n, a.shift) - a.shift - a.at - SyncDelay <= n
    BY <2>1, <2>2, StartIs
  <2>4. QED
    BY <2>1, <2>2, <2>3
<1>2. ASSUME NEW a \in syncs, NEW b \in syncs, a.cycles = b.cycles, a.cycles[1] > 0
      PROVE  ((a.start - a.shift) - (b.start - b.shift)) % Repeats(a.cycles) = 0
  <2>1. /\ a.at \in Int /\ a.shift \in Int
        /\ Repeats(a.cycles) \in Nat \ {0}
        /\ a.start = StartTime(a.at, Repeats(a.cycles), a.shift)
        /\ b.at \in Int /\ b.shift \in Int
        /\ b.start = StartTime(b.at, Repeats(a.cycles), b.shift)
    BY <1>2 DEF PulseInv
  <2>2. PICK n \in Nat : n = Repeats(a.cycles) /\ n > 0
    BY <2>1
  <2>3. PICK p \in Int : a.start - a.shift = n * p
    <3>1. \E p \in Int : StartTime(a.at, n, a.shift) - a.shift = n * p
      BY <2>1, <2>2, StartIs
    <3>2. QED
      BY <2>1, <2>2, <3>1
  <2>4. PICK q \in Int : b.start - b.shift = n * q
    <3>1. \E q \in Int : StartTime(b.at, n, b.shift) - b.shift = n * q
      BY <2>1, <2>2, StartIs
    <3>2. QED
      BY <2>1, <2>2, <3>1
  <2>5. n * p - n * q = n * (p - q) /\ p - q \in Int /\ n * (p - q) \in Int
    BY SMTT(20)
  <2> DEFINE d == n * (p - q)
  <2>6. d % n \in 0..(n - 1) /\ d \div n \in Int /\ d = n * (d \div n) + (d % n)
    BY <2>2, <2>5, Division
  <2>7. n * (p - q) + 0 = n * (d \div n) + (d % n) /\ 0 \in 0..(n - 1)
    <3>1. n * (p - q) + 0 = d
      BY <2>5
    <3> HIDE DEF d
    <3>2. QED
      BY <2>2, <2>6, <3>1
  <2> HIDE DEF d
  <2>8. d % n = 0
    BY <2>2, <2>5, <2>6, <2>7, Remainder
  <2>9. (a.start - a.shift) - (b.start - b.shift) = d
    BY <2>3, <2>4, <2>5 DEF d
  <2>10. QED
    BY <2>2, <2>8, <2>9
<1>3. QED
  BY <1>1, <1>2 DEF PulsesTogether

(* The calls. *)
LEMMA SyncPulses ==
  ASSUME DcConstants, PulseInv, bus.times \subseteq Int, NEW s, NEW act, NEW cycles, NEW cycle,
         Sync(s, act, cycles, cycle),
         cycles[1] > 0 => Repeats(cycles) \in Nat \ {0} /\ cycle = Repeats(cycles)
  PROVE  PulseInv'
<1>1. PICK now \in bus.times, shift \in Shifts :
        syncs' = syncs \cup {[slave |-> s, at |-> now, shift |-> shift, cycles |-> cycles,
                              start |-> StartTime(now, cycle, shift)]}
  BY DEF Sync
<1>2. now \in Int /\ shift \in Int
  BY DEF DcConstants
<1>3. ASSUME NEW a \in syncs'
      PROVE  /\ a.at \in Int /\ a.shift \in Int
             /\ a.cycles[1] > 0 =>
                  /\ Repeats(a.cycles) \in Nat \ {0}
                  /\ a.start = StartTime(a.at, Repeats(a.cycles), a.shift)
  <2>1. CASE a \in syncs
    BY <2>1 DEF PulseInv
  <2>2. CASE a = [slave |-> s, at |-> now, shift |-> shift, cycles |-> cycles,
                  start |-> StartTime(now, cycle, shift)]
    BY <1>2, <2>2
  <2>3. QED
    BY <1>1, <2>1, <2>2
<1>4. QED
  BY <1>3 DEF PulseInv

(* SYNC0 alone repeats with its own cycle. *)
LEMMA Dcsync0Pulses ==
  ASSUME DcConstants, PulseInv, bus.times \subseteq Int, Dcsync0
  PROVE  PulseInv'
<1>1. PICK s \in Slaves(bus), act \in BOOLEAN, c \in Cycles : Sync(s, act, <<c>>, c)
  BY DEF Dcsync0
<1>2. c \in Nat
  BY DEF DcConstants
<1>3. <<c>>[1] = c /\ Repeats(<<c>>) = c
  BY DEF Repeats
<1>4. QED
  BY <1>1, <1>2, <1>3, SyncPulses

(* SYNC0 and SYNC1 repeat together with the true cycle of ecx_dcsync01. *)
LEMMA Dcsync01Pulses ==
  ASSUME DcConstants, PulseInv, bus.times \subseteq Int, Dcsync01
  PROVE  PulseInv'
<1>1. PICK s \in Slaves(bus), act \in BOOLEAN, c0 \in Cycles \ {0}, c1 \in Cycles :
        Sync(s, act, <<c0, c1>>, TrueCycle(c0, c1))
  BY DEF Dcsync01
<1>2. c0 \in Nat /\ c0 > 0 /\ c1 \in Nat
  <2>1. c0 \in Nat /\ c0 # 0 /\ c1 \in Nat
    BY DEF DcConstants
  <2>2. QED
    BY <2>1
<1>3. PICK k \in Int : k = c1 \div c0 /\ c1 = c0 * k + (c1 % c0) /\ c1 % c0 \in 0..(c0 - 1)
  BY <1>2, Division
<1>4. k >= 0
  <2> SUFFICES ASSUME k < 0 PROVE FALSE
    BY <1>3
  <2>1. c0 * k + c0 <= c0 * 0
    BY <1>2, <1>3, Multiples
  <2>2. c0 * 0 = 0 /\ c0 * k \in Int
    BY <1>2
  <2>3. QED
    BY <1>2, <1>3, <2>1, <2>2
<1>5. /\ <<c0, c1>>[1] = c0 /\ Repeats(<<c0, c1>>) = c0 * (k + 1)
      /\ TrueCycle(c0, c1) = (k + 1) * c0
  BY <1>3 DEF Repeats, TrueCycle
<1>6. (k + 1) * c0 = c0 * (k + 1) /\ c0 * (k + 1) = c0 * k + c0 /\ c0 * k \in Int /\ c0 * k >= 0
  BY <1>2, <1>4, SMTT(20)
<1>7. Repeats(<<c0, c1>>) \in Nat \ {0} /\ TrueCycle(c0, c1) = Repeats(<<c0, c1>>)
  BY <1>2, <1>5, <1>6
<1>8. QED
  BY <1>1, <1>7, SyncPulses

-----------------------------------------------------------------------------
(* The chain begins with the first slave. *)
LEMMA LatchChain ==
  ASSUME ConfigInv, Latch
  PROVE  ChainInv'
<1>1. stage' = "dc" /\ slave' = 1 /\ slavelist'[0].hasdc = FALSE /\ bus' = bus
  BY LatchKeeps
<1>2. bus.dc \subseteq 1..bus.n /\ bus.n \in Nat
  BY Clocks DEF ConfigInv
<1>3. Reached' = 1 /\ DcBefore(1)' = {} /\ \A s \in bus.dc : ~(s < 1)
  BY <1>1, <1>2 DEF Reached, DcBefore
<1>4. QED
  BY <1>1, <1>3 DEF ChainInv, DcBefore

(* Everything together is inductive: what ecx_config_init has found so     *)
(* far, the chain so far, and the pulses.                                  *)
BringUpInv == ConfigInv /\ ChainInv /\ PulseInv

(* It holds in the beginning. *)
LEMMA BringUpBegins == BringUpInit => BringUpInv
<1> SUFFICES ASSUME BringUpInit PROVE BringUpInv
  OBVIOUS
<1>1. ConfigInv
  BY SegmentConstants, ConfigBegins DEF BringUpInit
<1>2. ChainInv
  BY DEF BringUpInit, ConfigStart, ChainInv
<1>3. PulseInv
  BY DEF BringUpInit, DcStart, PulseInv
<1>4. QED
  BY <1>1, <1>2, <1>3 DEF BringUpInv

(* The steps of ecx_config_init keep it. *)
LEMMA ConfigInitKeeps ==
  ASSUME ConfigInv, ConfigInitStep
  PROVE  ConfigInv' /\ ChainInv'
<1>1. CASE Detect
  <2>1. stage' \notin {"dc", "sync"}
    BY <1>1 DEF Detect
  <2>2. QED
    BY <1>1, <2>1, DetectKeeps, NoChain
<1>2. CASE SetAddress
  <2>1. stage' \notin {"dc", "sync"}
    BY <1>2 DEF SetAddress, ForEach
  <2>2. QED
    BY <1>2, <2>1, SetAddressKeeps, NoChain
<1>3. CASE FetchMan
  <2>1. stage' \notin {"dc", "sync"}
    BY <1>3 DEF FetchMan, ForEach
  <2>2. /\ FetchAndAsk(<<"man", "id", "rev">>[1], 1, <<"id", "rev", "rxmbx">>[1])
        /\ ForEach(<<"man", "id", "rev">>[1], <<"id", "rev", "mbx">>[1])
    BY <1>3 DEF FetchMan
  <2>3. QED
    BY <2>1, <2>2, ConfigConstants, FetchKeeps, NoChain
<1>4. CASE FetchId
  <2>1. stage' \notin {"dc", "sync"}
    BY <1>4 DEF FetchId, ForEach
  <2>2. /\ FetchAndAsk(<<"man", "id", "rev">>[2], 2, <<"id", "rev", "rxmbx">>[2])
        /\ ForEach(<<"man", "id", "rev">>[2], <<"id", "rev", "mbx">>[2])
    BY <1>4 DEF FetchId
  <2>3. QED
    BY <2>1, <2>2, ConfigConstants, FetchKeeps, NoChain
<1>5. CASE FetchRev
  <2>1. stage' \notin {"dc", "sync"}
    BY <1>5 DEF FetchRev, ForEach
  <2>2. /\ FetchAndAsk(<<"man", "id", "rev">>[3], 3, <<"id", "rev", "rxmbx">>[3])
        /\ ForEach(<<"man", "id", "rev">>[3], <<"id", "rev", "mbx">>[3])
    BY <1>5 DEF FetchRev
  <2>3. QED
    BY <2>1, <2>2, ConfigConstants, FetchKeeps, NoChain
<1>6. CASE FetchMbx
  <2>1. stage' \notin {"dc", "sync"}
    BY <1>6 DEF FetchMbx, ForEach
  <2>2. QED
    BY <1>6, <2>1, ConfigConstants, FetchMbxKeeps, NoChain
<1>7. CASE PlaceSlave
  <2>1. stage' \notin {"dc", "sync"}
    BY <1>7 DEF PlaceSlave
  <2>2. QED
    BY <1>7, <2>1, PlaceKeeps, NoChain
<1>8. CASE ReadSii
  <2>1. stage' \notin {"dc", "sync"}
    BY <1>8 DEF ReadSii
  <2>2. QED
    BY <1>8, <2>1, ConfigConstants, ReadSiiKeeps, NoChain
<1>9. CASE RequestPreop
  <2>1. stage' \notin {"dc", "sync"}
    BY <1>9 DEF RequestPreop, ForEach
  <2>2. QED
    BY <1>9, <2>1, RequestPreopKeeps, NoChain
<1>10. QED
  BY <1>1, <1>2, <1>3, <1>4, <1>5, <1>6, <1>7, <1>8, <1>9 DEF ConfigInitStep

(* So do those of ecx_configdc and the pulses. *)
LEMMA DcKeeps ==
  ASSUME ConfigInv, ChainInv, PulseInv, DcStep
  PROVE  ConfigInv' /\ ChainInv' /\ PulseInv'
<1>1. CASE Latch
  <2>1. syncs' = syncs
    BY <1>1 DEF Latch, dcVars
  <2>2. PulseInv'
    BY <2>1 DEF PulseInv
  <2>3. QED
    BY <1>1, <2>2, LatchKeeps, LatchChain
<1>2. CASE DcSlave
  <2>1. syncs' = syncs
    BY <1>2 DEF DcSlave
  <2>2. PulseInv'
    BY <2>1 DEF PulseInv
  <2>3. QED
    BY <1>2, <2>2, DcSlaveKeeps
<1>3. CASE PlainSlave
  <2>1. syncs' = syncs
    BY <1>3 DEF PlainSlave
  <2>2. PulseInv'
    BY <2>1 DEF PulseInv
  <2>3. QED
    BY <1>3, <2>2, PlainSlaveKeeps
<1>4. bus.times \subseteq Int
  BY Clocks DEF ConfigInv
<1>5. CASE Dcsync0
  <2>1. PICK s \in Slaves(bus), act \in BOOLEAN, c \in Cycles : Sync(s, act, <<c>>, c)
    BY <1>5 DEF Dcsync0
  <2>2. PulseInv'
    BY <1>4, <1>5, DcConstants, Dcsync0Pulses
  <2>3. QED
    BY <2>1, <2>2, SyncKeeps
<1>6. CASE Dcsync01
  <2>1. PICK s \in Slaves(bus), act \in BOOLEAN, c0 \in Cycles \ {0}, c1 \in Cycles :
          Sync(s, act, <<c0, c1>>, TrueCycle(c0, c1))
    BY <1>6 DEF Dcsync01
  <2>2. PulseInv'
    BY <1>4, <1>6, DcConstants, Dcsync01Pulses
  <2>3. QED
    BY <2>1, <2>2, SyncKeeps
<1>7. QED
  BY <1>1, <1>2, <1>3, <1>5, <1>6 DEF DcStep

(* No step at all. *)
LEMMA NothingHappens ==
  ASSUME BringUpInv, UNCHANGED bringUpVars
  PROVE  BringUpInv'
<1>1. /\ bus' = bus /\ esc' = esc /\ slavelist' = slavelist /\ slavecount' = slavecount
      /\ stage' = stage /\ slave' = slave /\ prevDCslave' = prevDCslave /\ syncs' = syncs
  BY DEF bringUpVars, configVars, dcVars
<1>2. ConfigInv'
  <2>1. Shape'
    BY <1>1 DEF BringUpInv, ConfigInv, Shape
  <2>2. AllRight'
    BY <1>1 DEF BringUpInv, ConfigInv, AllRight, Right, Addressed, Identified, Worded, InTree,
                Ready, Did, KindOf
  <2>3. Mailboxes'
    BY <1>1 DEF BringUpInv, ConfigInv, Mailboxes, KindOf
  <2>4. QED
    BY <2>1, <2>2, <2>3 DEF ConfigInv
<1>3. ChainInv'
  BY <1>1 DEF BringUpInv, ChainInv, Reached, IsLast, DcBefore
<1>4. PulseInv'
  BY <1>1 DEF BringUpInv, PulseInv
<1>5. QED
  BY <1>2, <1>3, <1>4 DEF BringUpInv

(* Every step keeps it. *)
LEMMA BringUpSteps == BringUpInv /\ [BringUpNext]_bringUpVars => BringUpInv'
<1> SUFFICES ASSUME BringUpInv, [BringUpNext]_bringUpVars PROVE BringUpInv'
  OBVIOUS
<1>0. ConfigInv /\ ChainInv /\ PulseInv
  BY DEF BringUpInv
<1>1. ASSUME syncs' = syncs PROVE PulseInv'
  BY <1>0, <1>1 DEF PulseInv
<1>2. CASE ConfigInitStep /\ UNCHANGED <<failed, driveVars, dcVars>>
  <2>1. ConfigInv' /\ ChainInv'
    BY <1>0, <1>2, ConfigInitKeeps
  <2>2. PulseInv'
    BY <1>1, <1>2 DEF dcVars
  <2>3. QED
    BY <2>1, <2>2 DEF BringUpInv
<1>3. CASE RunHook /\ UNCHANGED <<failed, dcVars>>
  <2>1. ConfigInv' /\ stage' = "coe"
    BY <1>0, <1>3, HookKeeps
  <2>2. PulseInv'
    BY <1>1, <1>3 DEF dcVars
  <2>3. QED
    BY <2>1, <2>2, NoChain DEF BringUpInv
<1>4. CASE FindMappingsStep /\ UNCHANGED <<driveVars, dcVars>>
  <2>1. ConfigInv' /\ stage' \in {"hook", "pdo", "soe", "map", "latch"}
    BY <1>0, <1>4, MappingsKeep
  <2>2. PulseInv'
    BY <1>1, <1>4 DEF dcVars
  <2>3. QED
    BY <2>1, <2>2, NoChain DEF BringUpInv
<1>5. CASE DcStep /\ UNCHANGED <<failed, driveVars>>
  BY <1>0, <1>5, DcKeeps DEF BringUpInv
<1>6. CASE UNCHANGED bringUpVars
  BY <1>6, NothingHappens
<1>7. QED
  BY <1>2, <1>3, <1>4, <1>5, <1>6 DEF BringUpNext

(* The slaves that are configured. *)
LEMMA KnownAre ==
  ASSUME ConfigInv
  PROVE  /\ Known = {s \in Slaves(bus) : Did(s) = 8}
         /\ Known # {} => slavecount = bus.n /\ \A t \in Slaves(bus) : Did(t) >= 5
<1>1. /\ Shape /\ AllRight
      /\ slavecount = IF stage \in {"detect", "too many"} THEN 0 ELSE bus.n
  BY DEF ConfigInv, Shape
<1>2. bus.n \in Nat /\ Slaves(bus) = 1..bus.n /\ slave \in Slaves(bus)
  BY <1>1, SegmentNumbers
<1>3. CASE stage \in {"detect", "too many"}
  <2>1. \A s : Did(s) = 0
    BY <1>3, Names DEF Did, Configured
  <2>2. 1..slavecount = {}
    <3>1. slavecount = 0
      BY <1>1, <1>3
    <3>2. QED
      BY <3>1
  <2>3. Known = {}
    BY <2>2 DEF Known
  <2>4. QED
    BY <2>1, <2>3
<1>4. CASE stage \notin {"detect", "too many"}
  <2>1. slavecount = bus.n
    BY <1>1, <1>4
  <2>2. \A s \in Slaves(bus) : slavelist[s].eep_pdi = IF Did(s) = 8 THEN 1 ELSE 0
    BY <1>1 DEF AllRight, Right, Ready
  <2>3. Known = {s \in Slaves(bus) : Did(s) = 8}
    BY <1>2, <2>1, <2>2 DEF Known
  <2>4. ASSUME NEW s \in Slaves(bus), Did(s) = 8, NEW t \in Slaves(bus)
        PROVE  Did(t) >= 5
    <3>1. stage \notin DOMAIN Loop
      BY <2>4, Names DEF Did, Loop
    <3>2. QED
      BY <2>4, <3>1, Names DEF Did
  <2>5. QED
    BY <2>1, <2>3, <2>4
<1>5. QED
  BY <1>3, <1>4

(* What holds of a slave that is configured. *)
LEMMA ListFits ==
  ASSUME ConfigInv
  PROVE  ListIsSegment
<1>1. /\ Known = {s \in Slaves(bus) : Did(s) = 8}
      /\ Known # {} => slavecount = bus.n /\ \A t \in Slaves(bus) : Did(t) >= 5
  BY KnownAre
<1>2. /\ Shape /\ \A s \in Slaves(bus) : Right(s, Did(s))
  BY DEF ConfigInv, AllRight
<1>3. bus.n \in Nat /\ Slaves(bus) = 1..bus.n
  BY <1>2, SegmentNumbers
<1>4. Done => Known = Slaves(bus)
  <2>1. Done => \A s \in Slaves(bus) : Did(s) = 8
    BY Names DEF Done, Did, Configured
  <2>2. QED
    BY <1>1, <2>1
<1>5. ASSUME NEW s \in Known
      PROVE  /\ {t \in 1..slavecount : esc[t].adr = slavelist[s].configadr} = {s}
             /\ slavelist[s].ids = KindOf(s).ids
             /\ slavelist[s].parent = bus.parent[s]
  <2>1. s \in Slaves(bus) /\ Right(s, 8) /\ slavecount = bus.n
    BY <1>1, <1>2
  <2>2. slavelist[s].configadr = s + 1000
    BY <2>1 DEF Right, Addressed, NewAddress, EC_NODEOFFSET
  <2>3. \A t \in Slaves(bus) : esc[t].adr = t + 1000
    <3> SUFFICES ASSUME NEW t \in Slaves(bus) PROVE esc[t].adr = t + 1000
      OBVIOUS
    <3>1. Did(t) \in Nat /\ Did(t) >= 5
      BY <1>1, <1>2, SegmentNumbers
    <3>2. Addressed(t, Did(t))
      BY <1>2 DEF Right
    <3>3. QED
      BY <3>1, <3>2 DEF Addressed, NewAddress, EC_NODEOFFSET
  <2>4. {t \in 1..slavecount : esc[t].adr = slavelist[s].configadr} = {s}
    BY <1>3, <2>1, <2>2, <2>3
  <2>5. slavelist[s].ids = KindOf(s).ids
    <3>1. \A i \in 1..3 : slavelist[s].ids[i] = KindOf(s).ids[i]
      BY <2>1 DEF Right, Identified
    <3>2. slavelist[s].ids \in [1..3 -> Nat]
      <4>1. s \in 0..bus.n
        BY <1>2, <2>1, SegmentNumbers
      <4>2. QED
        BY <1>2, <4>1 DEF Shape
    <3>3. KindOf(s).ids \in [1..3 -> Nat]
      BY <1>2, <2>1, ConfigConstants, SegmentNumbers DEF ConfigConstants, KindOf
    <3>4. QED
      BY <3>1, <3>2, <3>3
  <2>6. slavelist[s].parent = bus.parent[s]
    BY <2>1 DEF Right, InTree
  <2>7. QED
    BY <2>4, <2>5, <2>6
<1>6. QED
  BY <1>4, <1>5 DEF ListIsSegment, Listed

(* All that are configured were sent to PRE_OP with the right mailboxes. *)
LEMMA PreopFits ==
  ASSUME ConfigInv, SiiIsTrue
  PROVE  ReachesPreop
<1>1. ASSUME stage \in Configured, NEW s \in Slaves(bus), s \notin bus.odd
      PROVE  esc[s].al = "preop"
  <2>1. Did(s) = 8
    BY <1>1, Names DEF Did, Configured
  <2>2. Ready(s, 8)
    BY <2>1 DEF ConfigInv, AllRight, Right
  <2>3. QED
    BY <1>1, <2>2 DEF Ready
<1>2. QED
  BY <1>1 DEF ReachesPreop, Configured

(* At the end the chain is complete. *)
LEMMA ChainFits ==
  ASSUME ConfigInv, ChainInv
  PROVE  Chained
<1>1. bus.dc \subseteq 1..bus.n /\ bus.n \in Nat
  BY Clocks DEF ConfigInv
<1>2. ASSUME Done, NEW s \in bus.dc
      PROVE  /\ slavelist[s].DCprevious = Max({0} \cup DcBefore(s))
             /\ slavelist[slavelist[s].DCprevious].DCnext = s
  <2>1. stage = "sync" /\ Reached = bus.n + 1
    BY <1>2 DEF Done, Reached
  <2>2. IsLast(slavelist[s].DCprevious, s) /\ slavelist[slavelist[s].DCprevious].DCnext = s
    BY <1>1, <2>1 DEF ChainInv
  <2> DEFINE S == {0} \cup DcBefore(s)
             x == slavelist[s].DCprevious
  <2>3. S \subseteq Nat
    BY <1>1 DEF DcBefore
  <2>4. x \in S /\ \A y \in S : x >= y
    BY <2>2, <2>3 DEF IsLast
  <2> HIDE DEF S, x
  <2>5. \A z \in S : (\A y \in S : z >= y) => z = x
    BY <2>3, <2>4
  <2>6. Max(S) = x
    BY <2>4, <2>5 DEF Max
  <2>7. QED
    BY <2>2, <2>6 DEF S, x
<1>3. QED
  BY <1>2 DEF Chained

(* The inductive invariant of the bring-up. *)
THEOREM BringUpInductive == BringUpSpec => []BringUpInv
BY BringUpBegins, BringUpSteps, PTL DEF BringUpSpec

(* The list is the segment: for every tree and every number of slaves the  *)
(* master knows each slave by its own address and identity and has it hang *)
(* on the right slave (ecx_config_init).                                   *)
THEOREM ListRight == BringUpSpec => []ListIsSegment
<1>1. BringUpInv => ListIsSegment
  BY ListFits DEF BringUpInv
<1>2. QED
  BY <1>1, BringUpInductive, PTL

(* Every slave that can go to PRE_OP is there when ecx_config_init is      *)
(* over, if the SIIs are true.                                             *)
THEOREM PreopReached == SiiIsTrue => (BringUpSpec => []ReachesPreop)
<1> SUFFICES ASSUME SiiIsTrue PROVE BringUpSpec => []ReachesPreop
  OBVIOUS
<1>1. BringUpInv => ReachesPreop
  BY PreopFits DEF BringUpInv
<1>2. QED
  BY <1>1, BringUpInductive, PTL

(* ecx_configdc chains all clocks in the order of the bus, whichever       *)
(* slaves have one.                                                        *)
THEOREM ClocksChained == BringUpSpec => []Chained
<1>1. BringUpInv => Chained
  BY ChainFits DEF BringUpInv
<1>2. QED
  BY <1>1, BringUpInductive, PTL

(* The pulses of ecx_dcsync0 and ecx_dcsync01 fall together, for all       *)
(* cycles, shifts and times.                                               *)
THEOREM PulsesRight == BringUpSpec => []PulsesTogether
<1>1. BringUpInv => PulsesTogether
  BY DcConstants, PulsesFit DEF BringUpInv
<1>2. QED
  BY <1>1, BringUpInductive, PTL
=============================================================================
