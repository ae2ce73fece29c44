------------------------------- MODULE CoeInfo -------------------------------
(***************************************************************************)
(* The SDO information service: ecx_readODlist, ecx_readODdescription,     *)
(* ecx_readOEsingle and ecx_readOE of soem/ethercatcoe.c and the server of *)
(* the slave.  The list of objects comes in fragments without further      *)
(* requests; the entries of an object are asked for one after the other.   *)
(***************************************************************************)
EXTENDS MbxCall

CONSTANTS
  EC_MAXODLIST,  \* entries of the list of objects in the master
  MaxRounds      \* fragments ecx_readODlist reads (129 in the code)

ReadODlist == Enter([kind |-> "ODlist", obj |-> "od", room |-> EC_MAXODLIST])
ReadODdescription(o) == Enter([kind |-> "od", obj |-> o, room |-> 1])
ReadOE(o) == Enter([kind |-> "oe", obj |-> o, room |-> NParts[o]])

IsInfo == call.kind \in {"ODlist", "od", "oe"}

InfoRequest ==
  /\ IsInfo /\ At("drain")
  /\ Post([op |-> "info", type |-> call.kind, obj |-> call.obj,
           num |-> IF call.kind = "oe" THEN Len(buf) + 1 ELSE 1], "request")
  /\ sent' = sent

IsInfoAnswer(m) == m.op = "info" /\ m.type = call.kind

(* A fragment of the list, trimmed to the room there is; an error is put   *)
(* on the list for each that is.                                           *)
Trimmed(d) ==
  IF Len(buf) + Len(d) > EC_MAXODLIST THEN SubSeq(d, 1, EC_MAXODLIST - Len(buf)) ELSE d

ListReceived ==
  /\ call.kind = "ODlist" /\ Answered("response") /\ IsInfoAnswer(mbxIn)
  /\ buf' = buf \o Trimmed(mbxIn.data)
  /\ IF Trimmed(mbxIn.data) # mbxIn.data THEN Report("info") ELSE Quiet
  /\ sent' = sent + 1
  /\ IF mbxIn.left > 0 /\ sent + 1 < MaxRounds THEN GoTo("more") ELSE Return(wkc)
  /\ UNCHANGED <<call, toggle>>

MoreOfList ==
  /\ pc = "more"
  /\ StartReceive("running") /\ pc' = "response"
  /\ UNCHANGED <<call, buf, sent, toggle, serverVars>>

(* The description of an object. *)
DescriptionReceived ==
  /\ call.kind = "od" /\ Answered("response") /\ IsInfoAnswer(mbxIn)
  /\ buf' = mbxIn.data
  /\ Return(wkc) /\ Quiet
  /\ UNCHANGED <<call, sent, toggle>>

(* An unexpected response, or none, ends the function; ecx_readOE goes on  *)
(* with the next entry even so, and returns what the last one returned.    *)
NoEntry == [obj |-> "none"]
InfoError(m) == IF m.op = "infoError" THEN "info" ELSE "packet"

LastEntry == Len(buf) + 1 = NParts[call.obj]
EntryDone(r) == IF LastEntry THEN Return(r) ELSE GoTo("entry")

InfoFails ==
  /\ IsInfo
  /\ LET r == IF wkc > 0 THEN 0 ELSE wkc IN
     /\ \/ At("response") /\ (wkc > 0 => ~IsInfoAnswer(mbxIn))
        \/ At("request") /\ wkc <= 0 /\ call.kind = "oe"
     /\ IF wkc > 0 THEN Report(InfoError(mbxIn)) ELSE Quiet
     /\ IF call.kind = "oe"
        THEN buf' = Append(buf, NoEntry) /\ EntryDone(r)
        ELSE buf' = buf /\ Return(r)
  /\ UNCHANGED <<call, sent, toggle>>

EntryReceived ==
  /\ call.kind = "oe" /\ Answered("response") /\ IsInfoAnswer(mbxIn)
  /\ buf' = buf \o mbxIn.data
  /\ EntryDone(wkc) /\ Quiet
  /\ UNCHANGED <<call, sent, toggle>>

(* Each entry empties the mailbox first, as a function of its own does.    *)
NextEntry ==
  /\ pc = "entry"
  /\ StartReceive("expired") /\ pc' = "drain"
  /\ UNCHANGED <<call, buf, sent, toggle, serverVars>>

InfoStep ==
  \/ InfoRequest \/ ListReceived \/ MoreOfList \/ DescriptionReceived
  \/ InfoFails \/ EntryReceived \/ NextEntry

-----------------------------------------------------------------------------
(* The server *)
ServeList ==
  /\ job.op = "info" /\ job.type = "ODlist"
  /\ LET k == job.num - 1
         more == NParts["od"] > (k + 1) * M IN
     RespondAndGoOn([op |-> "info", type |-> "ODlist",
                     left |-> IF more THEN 1 ELSE 0, data |-> Chunk(stored["od"], k)],
                    IF more THEN [op |-> "info", type |-> "ODlist", obj |-> "od",
                                  num |-> job.num + 1]
                            ELSE NoMsg)

ServeDescription ==
  /\ job.op = "info" /\ job.type \in {"od", "oe"}
  /\ Respond([op |-> "info", type |-> job.type, data |-> <<stored[job.obj][job.num]>>])

ServeInfo ==
  /\ \/ ServeList \/ ServeDescription
     \/ job.op = "info" /\ Spoil([op |-> "infoError"])
  /\ UNCHANGED serverVars
=============================================================================
