----------------------------- MODULE MbxServices -----------------------------
(***************************************************************************)
(* The services over the mailbox of one slave, called one after the other: *)
(* SDO, PDO, FoE, SoE and EoE transfers and the SDO information service,   *)
(* over the mailbox link layer, with the error list of the master.  In a   *)
(* behaviour the calls are those of one family of services.                *)
(***************************************************************************)
EXTENDS SdoTransfer, PdoTransfer, FoeTransfer, SoeTransfer, EoeTransfer, CoeInfo

CONSTANTS
  Family,    \* the families of services
  SdoObj,    \* the objects SDOs are used on
  Room,      \* Room[o]: sizes of the buffer for the value of o
  MaxCalls   \* bound: calls

ASSUME ServicesConstants ==
  /\ Room \in [Obj -> SUBSET Nat]
  /\ MaxCalls \in Nat
  /\ {"emergency", "mailboxError", "abort", "packet", "soe", "info"} \subseteq Error

VARIABLES
  family,    \* the family of services used
  calls      \* calls so far

allVars == <<mbxVars, callVars, serverVars, eoeVars, family, calls>>

Init ==
  /\ MailboxInit /\ hook = FALSE
  /\ CallInit /\ EoeInit
  /\ family \in Family /\ calls = 0

-----------------------------------------------------------------------------
(* A call that writes has a value of its own. *)
NewVal == calls + 1

SdoCalls ==
  \E o \in SdoObj :
     CallWrite(o, NewVal) \/ \E room \in Room[o] : CallRead(o, room)
PdoCalls ==
  RxPDO(NewVal) \/ \E room \in Room["pdo"] : TxPDO(room)
FoeCalls ==
  FoeWrite("file", NewVal) \/ \E room \in Room["file"] : FoeRead("file", room)
SoeCalls ==
  SoeWrite("idn", NewVal) \/ \E room \in Room["idn"] : SoeRead("idn", room)
InfoCalls ==
  ReadODlist \/ (\E o \in SdoObj : ReadODdescription(o) \/ ReadOE(o))
EoeCalls ==
  \/ UNCHANGED eoeVars /\ (EOEgetIp \/ EoePoll \/ EOEsetIp(NewVal))
  \/ EOEsend(NewVal)
  \/ ~hook /\ \E room \in Room["frame"] : EOErecv(room)

Call ==
  \/ /\ \/ family = "sdo" /\ SdoCalls
        \/ family = "pdo" /\ PdoCalls
        \/ family = "foe" /\ FoeCalls
        \/ family = "soe" /\ SoeCalls
        \/ family = "info" /\ InfoCalls
     /\ UNCHANGED eoeVars
  \/ family = "eoe" /\ EoeCalls

Calls == calls < MaxCalls /\ calls' = calls + 1 /\ Call /\ UNCHANGED family

sessionVars == <<family, calls>>

Others == UNCHANGED <<callVars, serverVars, eoeVars, sessionVars>>

Master ==
  \/ (SdoStep \/ PdoStep \/ FoeStep \/ SoeStep \/ InfoStep) /\ UNCHANGED <<eoeVars, sessionVars>>
  \/ (Placed \/ (call.kind # "oe" /\ NotPlaced)) /\ UNCHANGED <<eoeVars, sessionVars>>
  \/ EoeStep /\ UNCHANGED sessionVars
  \/ LinkStep /\ Others

(* The hook for fragments is set up before the first call. *)
SetUp == family = "eoe" /\ calls = 0 /\ EOEdefinehook /\ UNCHANGED sessionVars

(* The caller takes errors from the list between calls. *)
PopError ==
  /\ pc = "returned" /\ Pop
  /\ LinkUnchanged
  /\ UNCHANGED <<masterVars, callVars, eoeVars, sessionVars>>

Timer == Expire /\ Others

Serve ==
  /\ \/ (ServeSdo \/ ServePdo \/ ServeFoe \/ ServeSoe \/ ServeInfo) /\ UNCHANGED eoeVars
     \/ ServeEoe
     \/ Reject /\ UNCHANGED <<serverVars, eoeVars>>
  /\ UNCHANGED <<callVars, sessionVars>>

Frames == family = "eoe" /\ FrameOut /\ UNCHANGED sessionVars

Slave ==
  \/ Serve \/ Frames
  \/ (Take \/ Repeat \/ SendOut \/ Emergency) /\ Others

Next ==
  \/ SetUp \/ Calls \/ PopError
  \/ Master \/ Timer \/ Slave
  \/ Die /\ Others

Spec == Init /\ [][Next]_allVars

(* The caller's thread runs and time passes; the slave, while it is there, *)
(* takes messages, repeats them, and sends when it finds its mailbox empty *)
(* again and again.                                                        *)
Fairness ==
  /\ WF_allVars(Master)
  /\ SF_allVars(Timer)
  /\ WF_allVars(Repeat /\ Others)
  /\ SF_allVars(Serve \/ ((Take \/ SendOut) /\ Others))

FairSpec == Spec /\ Fairness

-----------------------------------------------------------------------------
Returned(kinds) == pc = "returned" /\ call.kind \in kinds

Reads  == {"read", "TxPDO", "FOEread", "SoEread", "EOEgetIp", "ODlist", "od",
           "oe"}
Writes == {"write", "FOEwrite", "SoEwrite", "EOEsetIp"}

(* What a read should bring: the value, cut off by SoE and by the list of  *)
(* objects where the buffer ends; the description of an object is its      *)
(* first part, a PDO what fits a mailbox.                                  *)
Asked ==
  LET v == IF call.kind = "TxPDO" THEN OneMailbox(stored["pdo"])
                                   ELSE stored[call.obj] IN
  IF call.room < Len(v) /\ call.kind \in {"SoEread", "ODlist", "od"}
  THEN SubSeq(v, 1, call.room) ELSE v

(* No fault but those the code makes up for; and no frame of the slave     *)
(* that was taken for an answer because there is no hook for it.           *)
Undisturbed == clean /\ (hook \/ frames = 0)

(* A read that succeeds has put the value of the object it was asked for   *)
(* into the buffer, in order and with no part missing or twice, and a      *)
(* write that succeeds has been executed with every part: after any lost   *)
(* frame the code makes up for, and after an emergency in between.  No     *)
(* read writes behind the end of its buffer: of an upload in segments,     *)
(* where only the first response tells the size, if undisturbed.           *)
ReadIsRight ==
  /\ call.kind \in Reads /\ (Undisturbed \/ call.kind # "read") => Len(buf) <= call.room
  /\ Undisturbed /\ Returned(Reads) /\ wkc > 0 => buf = Asked

WriteIsDone ==
  Undisturbed /\ Returned(Writes) /\ wkc > 0 =>
     stored[call.obj] = Content(call.obj, call.val)

(* Neither makes a call fail: the repeat protocol and the repeated write   *)
(* make up for them.  Only a buffer too small does.                        *)
CallSucceeds ==
  /\ Undisturbed /\ alive /\ Returned(Reads \cup Writes)
  /\ call.kind \in {"read", "TxPDO", "FOEread"} => call.room >= Len(Asked)
  => wkc > 0

(* A frame delivered is a frame that was sent: never a mixture of two, nor *)
(* one with a piece missing or twice.  The hook and ecx_EOErecv deliver    *)
(* those of the slave, the slave those of ecx_EOEsend.                     *)
FramesOut  == {Content("frame", -n) : n \in 0..MaxFrame}
FramesSent == {Content("frame", n) : n \in 0..MaxCalls}
FrameIsRight ==
  /\ rx.got \in FramesOut \cup {<<>>}
  /\ Returned({"EOErecv"}) /\ wkc > 0 => buf \in FramesOut
  /\ family = "eoe" => stored["frame"] \in FramesSent

(* A call comes back while the slave is there. *)
CallReturnsIfAlive == []<>(pc = "returned" \/ ~alive)
=============================================================================
