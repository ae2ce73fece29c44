-------------------------- MODULE MbxTransferProofs --------------------------
(***************************************************************************)
(* The parameters of EoE, over the link layer and the conversation of      *)
(* MbxServicesProofs, for every value of the constants.                    *)
(***************************************************************************)
EXTENDS MbxServicesProofs

(* Ethernet over the mailbox: the IP parameters are read and written by a  *)
(* request and its answer.                                                 *)
IpAsk == [op |-> "eoe", type |-> call.kind,
          data |-> IF call.kind = "EOEsetIp" THEN Content("ip", call.val) ELSE <<>>]
(* The slave has the parameters that were to be set. *)
IpSet == call.kind = "EOEsetIp" => stored["ip"] = Content("ip", call.val)
(* The answer to the request: done, or the parameters the slave has. *)
IpAnswer ==
  IF call.kind = "EOEsetIp" THEN Eoe("ipSet")
  ELSE [op |-> "eoe", type |-> "ip", data |-> stored["ip"]]
(* What a call that succeeded has brought about. *)
IpRight == IF call.kind = "EOEsetIp" THEN IpSet ELSE buf = stored["ip"]
(* The request was made, and the slave has not answered it yet. *)
IpAsked == \E q \in {IpAsk} : Ask("request", "response", q)
(* It was answered: what was to be set is set. *)
IpSent ==
  /\ IpSet
  /\ \E a \in {IpAnswer} : Wait("request", "response", a, NoMsg)
       \/ Delivered("response", a)
(* Where ecx_EOEsetIp or ecx_EOEgetIp and the slave are: the call came     *)
(* back; it looks for old messages; the request is on its way to the       *)
(* slave, or the answer on its way back.                                   *)
IpTalk ==
  \/ pc = "returned" /\ Still /\ wkc = 1 /\ IpRight
  \/ Draining \/ IpAsked \/ IpSent
(* The call, with room for all the parameters. *)
IpCall ==
  /\ call.kind \in {"EOEgetIp", "EOEsetIp"} /\ call.obj = "ip" /\ family = "eoe"
  /\ call.kind = "EOEgetIp" => call.room = NParts["ip"]
  /\ call.kind = "EOEsetIp" => call.val \in Nat

(* The other calls ask for no answer. *)
Casting == pc = "sending" /\ \E q : IsFragment(q) /\ Sending(q)
(* Where the others and the slave are: nothing is asked, or a fragment is  *)
(* being sent.                                                             *)
FrameTalk == (Still /\ Free) \/ Casting
(* The calls of EoE that carry a frame or look into the mailbox. *)
FrameCall == call.kind \in {"poll", "EOEsend", "EOErecv"} /\ family = "eoe"

(* An answer is none of the messages that come unasked; a request is       *)
(* answered, a fragment is not.                                            *)
LEMMA EoeFits == /\ Fit(IpAnswer, IpAnswer) /\ ~IsFragment(IpAnswer)
                 /\ IpCall => IpAsk # NoMsg /\ ~LeftOver(IpAsk)
                 /\ family = "eoe" => \A m : IsFragment(m) =>
                      LeftOver(m) /\ m # NoMsg
<1>1. IpAnswer.op = "eoe" /\ IpAnswer.type # "fragment"
  BY DEF IpAnswer, Eoe
<1>2. IpCall => IpAsk.op = "eoe" /\ IpAsk.type # "fragment" /\ family = "eoe"
  BY DEF IpAsk, IpCall
<1>3. IpCall => IpAsk # NoMsg /\ ~LeftOver(IpAsk)
  BY <1>2 DEF LeftOver, IsFragment, NoMsg
<1>4. family = "eoe" => \A m : IsFragment(m) => LeftOver(m) /\ m # NoMsg
  BY Unlike DEF LeftOver
<1> QED BY <1>1, <1>3, <1>4, Fits1

(* Transports carry the conversation on. *)
LEMMA IpCarried ==
  ASSUME LinkOK, Good, Good', (Transports /\ Others) \/ Frames, IpTalk, IpCall
  PROVE  IpTalk'
<1>0. UNCHANGED <<pc, call, buf, sent, toggle, stored, xfer, family>>
  BY SamePc
<1>1. UNCHANGED <<IpAsk, IpAnswer>> /\ (IpSet' <=> IpSet) /\ (IpRight' <=> IpRight)
  BY <1>0 DEF IpAsk, IpAnswer, IpSet, IpRight
<1>2. CASE pc = "returned" /\ Still /\ wkc = 1 /\ IpRight
  <2>1. link = "done"
    BY <1>2 DEF LinkOK, Places
  <2>2. wkc' = wkc
    BY <2>1, EoeFits, LinkGoes DEF Goes
  <2>3. Still'
    BY <1>2, <2>1, RestCarried DEF Free
  <2> QED BY <1>0, <1>1, <1>2, <2>2, <2>3 DEF IpTalk
<1>3. CASE Draining
  BY <1>0, <1>3, RestCarried DEF Draining, IpTalk
<1>4. CASE IpAsked
  <2>1. IpAsked'
    BY <1>1, <1>4, EoeFits, AskCarried DEF IpAsked
  <2> QED BY <2>1 DEF IpTalk
<1>5. CASE IpSent
  <2>1. IpSent'
    BY <1>1, <1>5, EoeFits, AnswerCarried, DeliveredCarried DEF IpSent
  <2> QED BY <2>1 DEF IpTalk
<1> QED BY <1>2, <1>3, <1>4, <1>5 DEF IpTalk

(* ... and that of a call for a frame. *)
LEMMA FrameCarried ==
  ASSUME LinkOK, Good, Good', (Transports /\ Others) \/ Frames, FrameTalk,
           family = "eoe"
  PROVE  FrameTalk'
<1>0. UNCHANGED <<pc, call, family>>
  BY SamePc
<1>1. CASE Still /\ Free
  BY <1>1, RestCarried DEF FrameTalk
<1>2. CASE Casting
  <2>1. PICK q : IsFragment(q) /\ Sending(q)
    BY <1>2 DEF Casting
  <2>2. Sending(q)' \/ (link' = "done" /\ Still')
    BY <2>1, EoeFits, PostCarried
  <2>3. IsFragment(q)'
    BY <2>1 DEF IsFragment
  <2> QED BY <1>0, <1>2, <2>2, <2>3 DEF FrameTalk, Casting, Free
<1> QED BY <1>1, <1>2 DEF FrameTalk

(* Where the call is tells how far the conversation is. *)
LEMMA IpPlaces ==
  ASSUME LinkOK, IpTalk
  PROVE  /\ At("drain") => Draining
         /\ At("request") => Heard /\ (IpAsked \/ IpSent)
         /\ At("response") => IpSet /\ Delivered("response", IpAnswer)
         /\ pc = "returned" => Still /\ wkc = 1 /\ IpRight
         /\ pc \in {"drain", "request", "response", "returned"}
<1>1. IpAsked => pc \in {"request", "response"}
        /\ (link = "done" => pc = "request" /\ Heard)
  BY Where DEF IpAsked
<1>2. IpSent => /\ pc \in {"request", "response"}
                /\ link = "done" => (pc = "request" /\ Heard)
                     \/ (IpSet /\ Delivered("response", IpAnswer))
  BY Where DEF IpSent
<1> QED BY <1>1, <1>2 DEF IpTalk, Draining, At, Delivered, Come

(* A call for a frame leaves nothing to be answered. *)
LEMMA FramePlaces ==
  ASSUME LinkOK, FrameTalk
  PROVE  /\ link = "done" => Still
         /\ pc # "sending" => Still /\ Free
BY WhereSent DEF FrameTalk, Casting

(* Steps of the calls for the IP parameters.                               *)
LEMMA IpSteps ==
  ASSUME LinkOK, IpCall, IpTalk, calls' # 0, Services \/ EoeStep,
           UNCHANGED <<frames, family>>
  PROVE  LinkOK' /\ IpTalk' /\ call' = call /\ stored' = stored
<1>1. CASE IpRequest
  <2>1. link = "done" /\ Still
    BY <1>1, IpPlaces DEF IpRequest, At, Draining
  <2>2. StartSend(IpAsk) /\ pc' = "request" /\ UNCHANGED <<call, stored, xfer>>
    BY <1>1 DEF IpRequest, Post, IpAsk, serverVars
  <2>4. LinkOK' /\ \E q \in {IpAsk} : Sending(q)'
    <3>1. PICK q : q = IpAsk
      OBVIOUS
    <3> QED BY <3>1, <2>1, <2>2, EoeFits, Posted
  <2>5. IpAsk' = IpAsk
    BY <2>2 DEF IpAsk
  <2>6. IpAsked'
    BY <2>2, <2>4, <2>5 DEF IpAsked, Ask
  <2> QED BY <2>2, <2>4, <2>6 DEF IpTalk
<1>2. CASE Placed
  <2>1. link = "done" /\ StartReceive("running") /\ pc' = "response"
          /\ UNCHANGED <<call, stored, xfer>>
    BY <1>2 DEF Placed, Answered, At, serverVars
  <2>2. IpAsk' = IpAsk /\ IpAnswer' = IpAnswer /\ (IpSet' <=> IpSet)
    BY <2>1 DEF IpAsk, IpAnswer, IpSet
  <2>3. IpAsked \/ IpSent
    BY <1>2, IpPlaces DEF Placed, Answered
  <2>4. pc = "request"
    BY <1>2 DEF Placed, Answered, At
  <2>5. /\ LinkOK'
        /\ \A q : Ask("request", "response", q) => Ask("request", "response", q)'
        /\ \A a : Wait("request", "response", a, NoMsg) =>
             Wait("request", "response", a, NoMsg)'
    BY <2>1, PlacedWaits
  <2>6. IpAsked => IpAsked'
    BY <2>2, <2>5 DEF IpAsked
  <2>7. IpSent => IpSent'
    BY <2>2, <2>4, <2>5 DEF IpSent, Delivered, Come
  <2> QED BY <2>1, <2>3, <2>5, <2>6, <2>7 DEF IpTalk
<1>3. CASE IpResponse
  <2>1. IpSet /\ Delivered("response", IpAnswer)
    BY <1>3, IpPlaces DEF IpResponse
  <2>2. wkc = 1 /\ mbxIn = IpAnswer /\ Still /\ link = "done"
    BY <2>1 DEF Delivered, Come, Heard
  <2>3. IsIpResponse(mbxIn)
    BY <2>2 DEF IsIpResponse, IpAnswer, Eoe
  <2>4. /\ link' = link /\ LinkUnchanged /\ pc' = "returned" /\ wkc' = 1
             /\ UNCHANGED <<call, stored, xfer>>
        /\ call.kind = "EOEgetIp" => buf' = mbxIn.data
    BY <1>3, <2>2, <2>3, Returns DEF IpResponse, Quiet, LinkUnchanged, serverVars
  <2>5. Between
    BY <1>3, <2>2, <2>4, Returns DEF IpResponse, eoeVars
  <2>6. LinkOK' /\ Still'
    BY <2>2, <2>5, Pauses
  <2>7. IpRight'
    BY <2>1, <2>2, <2>4 DEF IpRight, IpSet, IpAnswer, IpCall
  <2> QED BY <2>4, <2>6, <2>7 DEF IpTalk
<1>4. ~NotPlaced
  BY IpPlaces DEF NotPlaced, Heard
<1>5. ~Polled /\ ~EoeSent /\ ~EoeFragmentReceived /\ ~EoeNotReceived
  BY DEF IpCall, Polled, EoeSent, EoeFragmentReceived, EoeNotReceived
<1>6. ~SdoStep /\ ~PdoStep /\ ~FoeStep /\ ~SoeStep /\ ~InfoStep
  BY IpPlaces, Alone DEF IpCall
<1> QED BY <1>1, <1>2, <1>3, <1>4, <1>5, <1>6 DEF Services, EoeStep

(* Steps of the others. *)
LEMMA FrameSteps ==
  ASSUME LinkOK, FrameCall, FrameTalk, calls' # 0, EoeStep,
           UNCHANGED <<frames, family>>
  PROVE  LinkOK' /\ FrameTalk' /\ call'.kind = call.kind /\ stored' = stored
<1>1. CASE Polled \/ EoeNotReceived
  <2>1. link = "done" /\ Still
    BY <1>1, FramePlaces DEF Polled, EoeNotReceived, At
  <2>2. /\ link' = link /\ LinkUnchanged /\ pc' = "returned"
             /\ UNCHANGED <<call, stored, xfer>>
    BY <1>1, Returns DEF Polled, EoeNotReceived, Quiet, LinkUnchanged, serverVars
  <2>3. Between
    BY <2>1, <2>2, Returns
  <2> QED BY <2>1, <2>2, <2>3, Pauses DEF FrameTalk, Free
<1>2. CASE EoeSent
  <2>1. link = "done" /\ Still
    BY <1>2, FramePlaces DEF EoeSent, At
  <2>2. CASE wkc > 0 /\ sent * M < NParts["frame"]
    <3>1. PICK q : q = Fragment(Content("frame", call.val), txframeno, sent)
      OBVIOUS
    <3>2. StartSend(q) /\ pc' = "sending" /\ UNCHANGED <<call, stored>>
            /\ IsFragment(q)
      BY <1>2, <2>2, <3>1 DEF EoeSent, Post, serverVars, IsFragment, Fragment
    <3>3. LinkOK' /\ Sending(q)'
      BY <2>1, <3>2, Unlike, Posted
    <3>4. IsFragment(q)'
      BY <3>2 DEF IsFragment
    <3> QED BY <3>2, <3>3, <3>4 DEF FrameTalk, Casting
  <2>3. CASE ~(wkc > 0 /\ sent * M < NParts["frame"])
    <3>2. /\ link' = link /\ LinkUnchanged /\ pc' = "returned"
               /\ UNCHANGED <<call, stored, xfer>>
      BY <1>2, <2>3, Returns DEF EoeSent, Quiet, LinkUnchanged, serverVars
    <3>3. Between
      BY <2>1, <3>2, Returns
    <3> QED BY <2>1, <3>2, <3>3, Pauses DEF FrameTalk, Free
  <2> QED BY <2>2, <2>3
<1>3. CASE EoeFragmentReceived
  <2>1. link = "done" /\ Still
    BY <1>3, FramePlaces DEF EoeFragmentReceived, Answered, At
  <2>2. call'.kind = call.kind
    <3>1. call = [kind |-> call.kind, room |-> call.room,
            frameno |-> call.frameno] => call'.kind = call.kind
      BY <1>3 DEF EoeFragmentReceived
    <3> QED BY <1>3, <3>1 DEF EoeFragmentReceived
  <2>3. CASE mbxIn.last
    <3>2. /\ link' = link /\ LinkUnchanged /\ pc' = "returned"
               /\ UNCHANGED <<stored, xfer>>
      BY <1>3, <2>3, Returns
        DEF EoeFragmentReceived, Quiet, LinkUnchanged, serverVars
    <3>3. Between
      BY <2>1, <3>2, Returns
    <3> QED BY <2>1, <2>2, <3>2, <3>3, Pauses DEF FrameTalk, Free
  <2>4. CASE ~mbxIn.last
    <3>1. StartReceive("running") /\ pc' = "response" /\ UNCHANGED stored
      BY <1>3, <2>4 DEF EoeFragmentReceived, Answered, At, serverVars
    <3>2. LinkOK' /\ Receiving' /\ Still'
      BY <2>1, <3>1, Waits
    <3> QED BY <2>2, <3>1, <3>2 DEF FrameTalk, Free
  <2> QED BY <2>3, <2>4
<1>4. ~IpRequest /\ ~IpResponse
  BY DEF FrameCall, IpRequest, IpResponse, IsIp
<1> QED BY <1>1, <1>2, <1>3, <1>4 DEF EoeStep
-----------------------------------------------------------------------------
(* The slave takes a fragment sent before. *)
LEMMA EoeAbsorbed ==
  ASSUME LinkOK, family = "eoe", ServeFrame, UNCHANGED <<callVars, sessionVars,
                                                         eoeVars>>,
         IsFragment(job), "ip" \in DOMAIN stored
  PROVE  /\ LinkOK'
         /\ Still => Still'
         /\ \A q : q # NoMsg /\ ~LeftOver(q) /\ Ask("request", "response", q) =>
              Ask("request", "response", q)'
         /\ \A q : Sending(q) => Sending(q)'
         /\ Free' = Free /\ link' = link
         /\ stored'["ip"] = stored["ip"]
<1>0. UNCHANGED <<pc, call, buf, sent, toggle, family, calls, frames>>
  BY ServedSame
<1>1. Absorb /\ LeftOver(job)
  BY DEF ServeFrame, LeftOver
<1>2. LinkOK' /\ (Still => Still') /\ (\A q : ~LeftOver(q) /\ Work(q) => Work(q)')
      /\ (\A q : Sending(q) => Sending(q)')
      /\ Heard' = Heard /\ Listens' = Listens /\ Free' = Free
  BY <1>0, <1>1, Absorbed
<1>3. \A q : q # NoMsg /\ ~LeftOver(q) /\ Ask("request", "response", q) =>
        Ask("request", "response", q)'
  BY <1>0, <1>2 DEF Ask, Either
<1>4. link' = link
  BY <1>1 DEF Absorb, masterVars
<1>5. stored'["ip"] = stored["ip"]
  <2>1. stored' = stored \/ \E g : stored' = [stored EXCEPT !["frame"] = g]
    BY DEF ServeFrame
  <2>2. \A g : [stored EXCEPT !["frame"] = g]["ip"] = stored["ip"]
    BY Zenon
  <2> QED BY <2>1, <2>2
<1> QED BY <1>2, <1>3, <1>4, <1>5

(* The server that was asked nothing serves a fragment of a frame of the   *)
(* master at most.                                                         *)
LEMMA EoeIdle ==
  family = "eoe" /\ JobIdle /\ Serves /\ clean' => ServeFrame /\ IsFragment(job)
<1> SUFFICES ASSUME family = "eoe", JobIdle, Serves, clean' PROVE ServeFrame
  /\ IsFragment(job)
  OBVIOUS
<1>1. IsFragment(job) /\ job.op = "eoe" /\ job.type = "fragment"
  BY ServesWork DEF JobIdle, LeftOver, IsFragment
<1>2. ~Reject
  BY DEF Reject, Spoil
<1>3. ServeEoe
  BY <1>1, <1>2, Unserved DEF Serves, SdoOps
<1> QED BY <1>1, <1>3 DEF ServeEoe, ServeIp, IsEoeJob

(* So a call for a frame is not answered. *)
LEMMA CastServed ==
  ASSUME LinkOK, FrameTalk, family = "eoe", Serves, clean',
           "ip" \in DOMAIN stored, UNCHANGED <<callVars, sessionVars, eoeVars>>
  PROVE  LinkOK' /\ FrameTalk'
<1>0. UNCHANGED <<pc, call, buf, sent, toggle, family, calls, frames>>
  BY ServedSame
<1>1. JobIdle
  BY DEF FrameTalk, Casting, Sending, Still
<1>2. ServeFrame /\ IsFragment(job)
  BY <1>1, EoeIdle
<1>3. /\ LinkOK' /\ (Still => Still') /\ Free' = Free
      /\ \A q : Sending(q) => Sending(q)'
  BY <1>2, EoeAbsorbed
<1>5. Casting => Casting'
  BY <1>0, <1>3 DEF Casting, IsFragment
<1> QED BY <1>3, <1>5 DEF FrameTalk

(* The server answers the request, and then what was to be set is set; the *)
(* parameters it sends stay those it has.                                  *)
LEMMA IpTurnServed ==
  ASSUME LinkOK, IpCall, IpTalk, Serves, clean', "ip" \in DOMAIN stored,
           UNCHANGED <<callVars, sessionVars, eoeVars>>
  PROVE  LinkOK' /\ IpTalk'
<1>0. UNCHANGED <<pc, call, buf, sent, toggle, family, calls, frames>>
  BY ServedSame
<1>j. job # NoMsg
  BY ServesWork
<1>2. CASE JobIdle
  <2>1. ServeFrame /\ IsFragment(job)
    BY <1>2, EoeIdle DEF IpCall
  <2>2. /\ LinkOK' /\ (Still => Still') /\ Free' = Free
        /\ \A q : q # NoMsg /\ ~LeftOver(q) /\ Ask("request", "response", q) =>
             Ask("request", "response", q)'
        /\ stored'["ip"] = stored["ip"] /\ link' = link
    BY <2>1, EoeAbsorbed DEF IpCall
  <2>3. IpAsk' = IpAsk /\ IpAnswer' = IpAnswer /\ (IpSet' <=> IpSet)
          /\ (IpRight' <=> IpRight)
    BY <1>0, <2>2 DEF IpAsk, IpAnswer, IpSet, IpRight
  <2>4. IpAsked => IpAsked'
    BY <2>2, <2>3, EoeFits DEF IpAsked
  <2>5. IpSent => IpSent'
    <3>1. \A a : ~Wait("request", "response", a, NoMsg)
      BY <1>j DEF Wait, Ans
    <3>2. wkc' = wkc /\ mbxIn' = mbxIn
      BY ServesLeave DEF Leaves, masterVars
    <3>3. IpSent => Delivered("response", IpAnswer) /\ IpSet
      BY <3>1 DEF IpSent
    <3>4. Delivered("response", IpAnswer) => Delivered("response", IpAnswer)'
      BY <1>0, <2>2, <2>3, <3>2 DEF Delivered, Come, Heard
    <3> QED BY <2>3, <3>3, <3>4 DEF IpSent
  <2>6. wkc' = wkc
    BY ServesLeave DEF Leaves, masterVars
  <2> QED BY <1>0, <2>2, <2>3, <2>4, <2>5, <2>6 DEF IpTalk, Draining
<1>3. CASE ~JobIdle
  <2>1. IpAsked
    BY <1>3, <1>j DEF IpTalk, Draining, Still, IpSent, Wait, Ans, Delivered
  <2>2. PICK q : q = IpAsk /\ Ask("request", "response", q)
    BY <2>1 DEF IpAsked
  <2>3. job = IpAsk
    BY <1>3, <2>2 DEF Ask, Sending, Still, Work
  <2>4. Respond(IpAnswer) /\ IpSet'
    <3>1. job.op = "eoe" /\ job.type = call.kind
            /\ (call.kind = "EOEsetIp" => job.data = Content("ip", call.val))
      BY <2>3 DEF IpAsk
    <3>2. ~Reject
      BY DEF Reject, Spoil
    <3>3. ServeEoe
      BY <3>1, <3>2, Unserved DEF Serves, SdoOps
    <3>4. ServeIp
      BY <3>1, <3>3 DEF ServeEoe, ServeFrame, IsEoeJob, IpCall
    <3> QED BY <1>0, <3>1, <3>4 DEF ServeIp, IsEoeJob, IpAnswer, IpSet, IpCall
  <2>5. PICK a : a = IpAnswer
    OBVIOUS
  <2>6. LinkOK' /\ Wait("request", "response", a, NoMsg)'
    <3>1. RespondAndGoOn(a, NoMsg)
      BY <2>4, <2>5 DEF Respond
    <3>2. ~LeftOver(job)
      BY <1>3 DEF JobIdle
    <3>3. a # NoMsg /\ ~IsFragment(a)
      BY <2>5, EoeFits DEF Fit
    <3> QED BY <1>0, <2>2, <3>1, <3>2, <3>3, AskServed
  <2>7. IpAnswer' = IpAnswer
    <3>1. CASE call.kind = "EOEsetIp"
      BY <1>0, <3>1 DEF IpAnswer, Eoe
    <3>2. CASE call.kind = "EOEgetIp"
      <4>1. job.op = "eoe" /\ job.type = "EOEgetIp"
        BY <2>3, <3>2 DEF IpAsk
      <4>2. UNCHANGED stored
        <5>1. ~Reject
          BY DEF Reject, Spoil
        <5>2. ServeEoe
          BY <4>1, <5>1, Unserved DEF Serves, SdoOps
        <5> QED BY <4>1, <5>2
            DEF ServeEoe, ServeIp, ServeFrame, IsEoeJob, serverVars
      <4> QED BY <1>0, <3>2, <4>2 DEF IpAnswer
    <3> QED BY <3>1, <3>2 DEF IpCall
  <2> QED BY <2>4, <2>5, <2>6, <2>7 DEF IpTalk, IpSent
<1> QED BY <1>2, <1>3

(* Where nothing of the conversation changes, it stays where it is. *)
LEMMA EoeSteady ==
  ASSUME Steady
  PROVE  (IpTalk => IpTalk') /\ (FrameTalk => FrameTalk')
<1>1. UNCHANGED <<IpAsk, IpAnswer>> /\ (IpSet' <=> IpSet)
        /\ (IpRight' <=> IpRight) /\ Free' = Free
  BY DEF Steady, IpAsk, IpAnswer, IpSet, IpRight, Free, Receiving
<1>2. /\ Still' <=> Still
      /\ \A q : Ask("request", "response", q)' <=> Ask("request", "response", q)
      /\ \A a : Wait("request", "response", a, NoMsg)' <=>
           Wait("request", "response", a, NoMsg)
      /\ \A a : Delivered("response", a)' <=> Delivered("response", a)
  BY LinkSteady
<1>3. \A q : Sending(q) => Sending(q)'
  BY <1>2 DEF Steady, Sending, Unplaced, Running
<1>4. UNCHANGED <<pc, wkc>>
  BY DEF Steady
<1>5. IpTalk => IpTalk'
  BY <1>1, <1>2, <1>4 DEF IpTalk, Draining, IpAsked, IpSent
<1>6. FrameTalk => FrameTalk'
  BY <1>1, <1>2, <1>3, <1>4 DEF FrameTalk, Casting, IsFragment
<1> QED BY <1>5, <1>6

(* What a call has been told before the slave went away is right. *)
IpTold ==
  wkc > 0 => /\ pc = "returned" => IpRight
             /\ At("response") => mbxIn = IpAnswer /\ IpSet

(* What the call has been told follows from the conversation. *)
LEMMA IpTells == LinkOK /\ IpTalk => IpTold
BY IpPlaces DEF Delivered, Come, IpTold

(* A step of the call keeps it, and makes a result of it. *)
LEMMA IpToldStep ==
  ASSUME wkc \in Int, IpCall, IpTold, pc \in {"drain", "request", "response",
           "returned"}, Services \/ EoeStep
  PROVE  IpTold' /\ call' = call /\ stored' = stored
<1>1. IpRequest \/ IpResponse \/ Placed \/ NotPlaced
  BY Alone DEF IpCall, Services, EoeStep, Polled, EoeSent, EoeFragmentReceived,
    EoeNotReceived
<1>2. CASE IpRequest \/ Placed
  BY <1>2, Failing DEF IpRequest, Placed, Fails, IpTold, Post, serverVars
<1>3. CASE IpResponse
  <2>1. CASE wkc > 0
    <3>1. mbxIn = IpAnswer /\ IpSet
      BY <1>3, <2>1 DEF IpResponse, IpTold
    <3>2. IsIpResponse(mbxIn)
      BY <3>1 DEF IsIpResponse, IpAnswer, Eoe
    <3>3. /\ pc' = "returned" /\ UNCHANGED <<call, stored>>
          /\ call.kind = "EOEgetIp" => buf' = mbxIn.data
      BY <1>3, <2>1, <3>2 DEF IpResponse, Return, Quiet, LinkUnchanged, serverVars
    <3> QED BY <3>1, <3>3 DEF IpTold, At, IpRight, IpSet, IpAnswer, IpCall
  <2>2. CASE ~(wkc > 0)
    <3>1. wkc' = wkc /\ call' = call /\ stored' = stored
      BY <1>3, <2>2 DEF IpResponse, Return, Quiet, LinkUnchanged, serverVars
    <3> QED BY <2>2, <3>1 DEF IpTold
  <2> QED BY <2>1, <2>2
<1>4. CASE NotPlaced
  <2>1. wkc' \in Int /\ ~(wkc' > 0) /\ call' = call /\ stored' = stored
    BY <1>4 DEF NotPlaced, Return, Quiet, LinkUnchanged, serverVars
  <2> QED BY <2>1 DEF IpTold
<1> QED BY <1>1, <1>2, <1>3, <1>4
-----------------------------------------------------------------------------
(* Whatever happens, what is on its way carries whole IP parameters.       *)
WholeIp(d) == d \in Values /\ Len(d) = NParts["ip"]
(* A request to set the parameters has all of them. *)
EoeAsked(m) == m = NoMsg \/ (m.op = "eoe"
  /\ (m.type = "EOEsetIp" => WholeIp(m.data)))
(* An answer with the parameters has all of them. *)
EoeAnswered(m) == m.op = "eoe" /\ m.type = "ip" => WholeIp(m.data)
(* The messages everywhere are of these shapes; the values the slave       *)
(* stores are whole.                                                       *)
EoeShape ==
  /\ outbox \in Seq(Own) /\ StoredOK
  /\ EoeAsked(job) /\ EoeAsked(mbxOut.msg) /\ (sm0 # NoMsg => EoeAsked(sm0.msg))
  /\ EoeAnswered(sm1) /\ EoeAnswered(lastOut) /\ EoeAnswered(mbxIn)
(* Where ecx_EOEsetIp and ecx_EOEgetIp may be. *)
IpPcs == {"drain", "request", "response", "returned"}
(* Where the calls may be, whatever happens; the parameters that were read *)
(* have room.                                                              *)
EoeCalled ==
  \/ call.kind = "none" /\ pc = "returned"
  \/ IpCall /\ pc \in IpPcs /\ (call.kind = "EOEgetIp" => Len(buf) <= call.room)
  \/ FrameCall /\ pc \in CASE call.kind = "poll" -> {"drain", "returned"}
                           [] call.kind = "EOEsend" -> {"sending", "returned"}
                           [] call.kind = "EOErecv" -> {"response", "returned"}

(* What comes unasked does not have the parameters. *)
LEMMA NotIp == /\ EoeAnswered(NoMsg) /\ EoeAnswered(Emcy)
                    /\ EoeAnswered(MbxError) /\ EoeAsked(NoMsg)
               /\ \A m : IsFragment(m) => EoeAnswered(m) /\ EoeAsked(m)
<1>1. EoeAnswered(NoMsg) /\ EoeAnswered(Emcy) /\ EoeAnswered(MbxError)
        /\ EoeAsked(NoMsg)
  BY DEF EoeAnswered, EoeAsked, NoMsg, Emcy, MbxError
<1>2. \A m : IsFragment(m) => EoeAnswered(m) /\ EoeAsked(m)
  BY DEF EoeAnswered, EoeAsked, IsFragment
<1> QED BY <1>1, <1>2

(* There are parameters to be set. *)
LEMMA IpObjects == "ip" \in Obj /\ NParts["ip"] \in Nat
BY EoeConstants, MbxCallConstants

(* The fragments of a frame of the slave are its own. *)
LEMMA FramesOwn ==
  ASSUME frames \in Nat, Frames
  PROVE  sm1' \in Own /\ lastOut' \in Own /\ outbox' \in Seq(Own)
<1> DEFINE d == Content("frame", -frames')
           f == [k \in 1..((Len(d) + M - 1) \div M) |-> Fragment(d,
             frames' % FrameNos, k - 1)]
<1>0. /\ frames' = frames + 1 /\ frames \in Nat
      /\ sm1' = f[1] /\ lastOut' = f[1] /\ outbox' = Tail(f)
  BY DEF Frames, FrameOut
<1>1. Len(d) \in Nat \ {0} /\ M \in Nat \ {0}
  BY MbxCallConstants, EoeConstants DEF Content
<1>2. (Len(d) + M - 1) \div M \in Nat \ {0}
  BY <1>1
<1>3. f \in Seq(Own) /\ Len(f) \in Nat \ {0}
  <2>1. \A k \in 1..((Len(d) + M - 1) \div M) : Fragment(d, frames' % FrameNos,
          k - 1) \in Own
    <3>1. TAKE k \in 1..((Len(d) + M - 1) \div M)
    <3>2. k - 1 \in Nat /\ frames' \in Nat /\ frames' % FrameNos \in Nat
      BY <1>0, <1>2, EoeConstants
    <3>4. QED BY <3>2 DEF Own
  <2> HIDE DEF d
  <2> QED BY <1>2, <2>1
<1> HIDE DEF f
<1> QED BY <1>0, <1>3

(* A transport, or a new frame of the slave, only moves messages on, and   *)
(* puts own fragments and emergencies into the mailbox.                    *)
LEMMA EoeMoved ==
  ASSUME (Transports /\ Others) \/ Frames, outbox \in Seq(Own), frames \in Nat
  PROVE  /\ outbox' \in Seq(Own) /\ mbxOut' = mbxOut
         /\ sm0' = sm0 \/ sm0' = NoMsg \/ sm0' = mbxOut
         /\ job' = job \/ job' = NoMsg \/ (sm0 # NoMsg /\ job' = sm0.msg)
         /\ sm1' \in {sm1, NoMsg, lastOut, Emcy} \/ sm1' \in Own
         /\ lastOut' \in {lastOut, Emcy} \/ lastOut' \in Own
         /\ mbxIn' \in {mbxIn, sm1}
<1>1. CASE LinkStep
  BY <1>1 DEF LinkStep, MbxEmpty, MbxWrite, MbxAvail, MbxRead, MbxRepeat, MbxAck,
    MbxAgain, slaveVars
<1>2. CASE Expire
  BY <1>2 DEF Expire, slaveVars
<1>3. CASE Take
  BY <1>3 DEF Take, masterVars
<1>4. CASE Repeat
  BY <1>4 DEF Repeat, masterVars
<1>5. CASE Emergency
  BY <1>5 DEF Emergency, masterVars
<1>6. CASE SendOut
  <2>1. Head(outbox) \in Own /\ Tail(outbox) \in Seq(Own)
    BY <1>6 DEF SendOut
  <2> QED BY <1>6, <2>1 DEF SendOut, masterVars
<1>7. CASE Frames
  <2>1. UNCHANGED <<mbxOut, sm0, job, mbxIn>>
    BY <1>7 DEF Frames, FrameOut, masterVars
  <2> QED BY <1>7, <2>1, FramesOwn
<1> QED BY <1>1, <1>2, <1>3, <1>4, <1>5, <1>6, <1>7 DEF Transports

(* So the shapes stay. *)
LEMMA EoeShapeMoved ==
  ASSUME (Transports /\ Others) \/ Frames, EoeShape, frames \in Nat
  PROVE  EoeShape'
<1>1. UNCHANGED stored
  BY SamePc
<1>2. StoredOK'
  BY <1>1 DEF StoredOK, EoeShape
<1>m. /\ outbox' \in Seq(Own) /\ mbxOut' = mbxOut
      /\ sm0' = sm0 \/ sm0' = NoMsg \/ sm0' = mbxOut
      /\ job' = job \/ job' = NoMsg \/ (sm0 # NoMsg /\ job' = sm0.msg)
      /\ sm1' \in {sm1, NoMsg, lastOut, Emcy} \/ sm1' \in Own
      /\ lastOut' \in {lastOut, Emcy} \/ lastOut' \in Own
      /\ mbxIn' \in {mbxIn, sm1}
  BY EoeMoved DEF EoeShape
<1>3. EoeAsked(job') /\ EoeAsked(mbxOut'.msg)
        /\ (sm0' # NoMsg => EoeAsked(sm0'.msg))
  BY <1>m, NotIp DEF EoeShape
<1>4. \A m \in Own : EoeAnswered(m)
  BY OwnNoise, NotIp
<1>5. EoeAnswered(sm1') /\ EoeAnswered(lastOut') /\ EoeAnswered(mbxIn')
  BY <1>m, <1>4, NotIp DEF EoeShape
<1> QED BY <1>2, <1>3, <1>5, <1>m DEF EoeShape, EoeAsked, EoeAnswered

(* The server keeps the shapes. *)
LEMMA EoeShapeServed ==
  ASSUME EoeShape, Serves, UNCHANGED <<callVars, sessionVars, eoeVars>>
  PROVE  EoeShape'
<1>j. job # NoMsg /\ job.op = "eoe" /\ (job.type = "EOEsetIp" => WholeIp(job.data))
  BY ServesWork DEF EoeShape, EoeAsked
<1>0. ServeIp \/ ServeFrame \/ (Reject /\ UNCHANGED serverVars)
  BY <1>j, Unserved DEF Serves, ServeEoe, SdoOps
<1>1. UNCHANGED <<sm0, outbox, mbxOut, mbxIn>> /\ job' = NoMsg
  BY <1>0 DEF ServeIp, ServeFrame, Absorb, Respond, RespondAndGoOn, Spoil, Reject,
    masterVars
<1>s. StoredOK /\ "ip" \in Obj
  BY IpObjects DEF EoeShape
<1>2. CASE Reject /\ UNCHANGED serverVars
  <2>1. sm1' = MbxError /\ lastOut' = MbxError /\ stored' = stored
    BY <1>2 DEF Reject, Spoil, serverVars
  <2> QED BY <1>1, <2>1, NotIp DEF EoeShape, StoredOK, EoeAsked, EoeAnswered
<1>3. CASE ServeFrame
  <2>1. UNCHANGED <<sm1, lastOut>>
    BY <1>3 DEF ServeFrame, Absorb
  <2>2. stored' = stored \/ \E g : stored' = [stored EXCEPT !["frame"] = g]
    BY <1>3 DEF ServeFrame
  <2>3. StoredOK'
    BY <1>s, <2>2 DEF StoredOK
  <2> QED BY <1>1, <2>1, <2>3, NotIp DEF EoeShape, EoeAsked, EoeAnswered
<1>4. CASE ServeIp
  <2>1. CASE IsEoeJob("EOEsetIp") /\ Respond(Eoe("ipSet"))
               /\ stored' = [stored EXCEPT !["ip"] = job.data]
    <3>1. sm1' = Eoe("ipSet") /\ lastOut' = sm1'
      BY <2>1 DEF Respond, RespondAndGoOn
    <3>2. EoeAnswered(sm1')
      BY <3>1 DEF EoeAnswered, Eoe
    <3>3. WholeIp(job.data)
      BY <1>j, <2>1 DEF IsEoeJob
    <3>4. StoredOK'
      BY <1>s, <2>1, <3>3 DEF StoredOK, WholeIp
    <3> QED BY <1>1, <3>1, <3>2, <3>4, NotIp DEF EoeShape, EoeAsked, EoeAnswered
  <2>2. CASE Respond([op |-> "eoe", type |-> "ip", data |-> stored["ip"]])
               /\ UNCHANGED serverVars
    <3>1. sm1' = [op |-> "eoe", type |-> "ip", data |-> stored["ip"]]
            /\ lastOut' = sm1' /\ stored' = stored
      BY <2>2 DEF Respond, RespondAndGoOn, serverVars
    <3>2. WholeIp(stored["ip"])
      BY <1>s DEF StoredOK, WholeIp
    <3>3. EoeAnswered(sm1')
      BY <3>1, <3>2 DEF EoeAnswered
    <3>4. StoredOK'
      BY <1>s, <3>1 DEF StoredOK
    <3> QED BY <1>1, <3>1, <3>3, <3>4, NotIp DEF EoeShape, EoeAsked, EoeAnswered
  <2> QED BY <1>4, <2>1, <2>2 DEF ServeIp
<1> QED BY <1>0, <1>2, <1>3, <1>4
-----------------------------------------------------------------------------
(* Calls of EoE, one after the other. *)
LEMMA EoeNames ==
  ASSUME EoeCalled
  PROVE  /\ call.kind \in {"none", "EOEgetIp", "EOEsetIp", "poll", "EOEsend",
              "EOErecv"}
         /\ pc \in {"drain", "request", "response", "sending", "returned"}
         /\ FrameCall => pc # "request"
         /\ FrameCall => call.kind \notin {"none", "EOEgetIp", "EOEsetIp"}
BY DEF EoeCalled, IpCall, FrameCall, IpPcs

(* A call of EoE takes no step of another service. *)
LEMMA EoeOnly ==
  ASSUME EoeCalled
  PROVE  ~SdoStep /\ ~PdoStep /\ ~FoeStep /\ ~SoeStep /\ ~InfoStep
<1>1. /\ call.kind \in {"none", "EOEgetIp", "EOEsetIp", "poll", "EOEsend",
           "EOErecv"}
      /\ pc \in {"drain", "request", "response", "sending", "returned"}
  BY EoeNames
<1> QED BY <1>1, Alone

(* Which call it is depends on the parameters only, and it is one at most. *)
LEMMA EoeCallIs ==
  /\ UNCHANGED <<call, family>> =>
       (IpCall' <=> IpCall) /\ (FrameCall' <=> FrameCall)
  /\ ~(IpCall /\ FrameCall) /\ (call.kind = "none" => ~IpCall /\ ~FrameCall)
  /\ UNCHANGED <<call, pc, buf, family>> /\ EoeCalled => EoeCalled'
<1>1. UNCHANGED <<call, family>> =>
        (IpCall' <=> IpCall) /\ (FrameCall' <=> FrameCall)
  BY DEF IpCall, FrameCall
<1>2. ~(IpCall /\ FrameCall) /\ (call.kind = "none" => ~IpCall /\ ~FrameCall)
  BY DEF IpCall, FrameCall
<1>3. UNCHANGED <<call, pc, buf, family>> /\ EoeCalled => EoeCalled'
  BY <1>1 DEF EoeCalled
<1> QED BY <1>1, <1>2, <1>3

(* How a call begins: with a look into the mailbox, or with a fragment.    *)
EoeEnters ==
  /\ IpCall' \/ (FrameCall' /\ call'.kind = "poll")
  /\ pc' = "drain" /\ StartReceive("expired") /\ mbxOut' = mbxOut
(* ... with a fragment of a frame, *)
EoeCasts ==
  /\ FrameCall' /\ call'.kind = "EOEsend" /\ pc' = "sending"
  /\ \E q : IsFragment(q) /\ StartSend(q) /\ mbxOut'.msg = q
(* ... or with waiting for one. *)
EoeListens ==
  /\ FrameCall' /\ call'.kind = "EOErecv" /\ pc' = "response"
  /\ StartReceive("running") /\ mbxOut' = mbxOut

(* One of these is how a call begins. *)
LEMMA EoeBegins ==
  ASSUME Session, family = "eoe", Calls
  PROVE  /\ EoeCalled' /\ Session' /\ pc = "returned" /\ pc' # "returned"
         /\ EoeEnters \/ EoeCasts \/ EoeListens
         /\ UNCHANGED <<stored, frames, family>> /\ calls' # 0 /\ wkc' = 0
         /\ call'.kind # "none" /\ mbxIn' = NoMsg /\ UNCHANGED <<sm0, sm1,
                                                                 slaveVars>>
<1>0. EoeCalls /\ UNCHANGED family /\ calls' = calls + 1
  BY DEF Calls, Call
<1>c. calls \in Nat /\ frames \in Nat /\ NewVal \in Nat /\ calls' \in Nat
        /\ calls' # 0
  BY <1>0 DEF Session, NewVal
<1>1. ASSUME NEW c, Enter(c), UNCHANGED eoeVars,
             \/ c = [kind |-> "EOEsetIp", obj |-> "ip", val |-> NewVal]
             \/ c = [kind |-> "EOEgetIp", obj |-> "ip", room |-> NParts["ip"]]
             \/ c = [kind |-> "poll"]
      PROVE  /\ EoeCalled' /\ pc = "returned" /\ EoeEnters
                  /\ UNCHANGED <<stored, frames>> /\ wkc' = 0
             /\ call'.kind # "none" /\ mbxIn' = NoMsg
                  /\ UNCHANGED <<sm0, sm1, slaveVars>>
             /\ link' = "avail"
  <2>1. /\ call' = c /\ pc = "returned" /\ pc' = "drain" /\ buf' = <<>>
        /\ StartReceive("expired") /\ UNCHANGED <<stored, frames, mbxOut>>
             /\ wkc' = 0 /\ mbxIn' = NoMsg
        /\ UNCHANGED <<sm0, sm1, slaveVars>> /\ link' = "avail"
    BY <1>1 DEF Enter, serverVars, StartReceive, eoeVars
  <2>2. Len(buf') <= NParts["ip"]
    <3>1. Len(<<>>) = 0
      OBVIOUS
    <3> QED BY <2>1, <3>1, IpObjects
  <2>3. IpCall' \/ (FrameCall' /\ call'.kind = "poll")
    BY <1>0, <1>1, <1>c, <2>1 DEF IpCall, FrameCall
  <2>4. IpCall' => (call'.kind = "EOEgetIp" => call'.room = NParts["ip"])
    BY DEF IpCall
  <2>5. call'.kind # "none"
    BY <2>3 DEF IpCall, FrameCall
  <2> QED BY <2>1, <2>2, <2>3, <2>4, <2>5 DEF EoeCalled, EoeEnters, IpPcs
<1>2. ASSUME EOEsend(NewVal)
      PROVE  /\ EoeCalled' /\ pc = "returned" /\ EoeCasts
                  /\ UNCHANGED <<stored, frames>> /\ wkc' = 0
             /\ call'.kind # "none" /\ mbxIn' = NoMsg
                  /\ UNCHANGED <<sm0, sm1, slaveVars>>
  <2>1. PICK q : q = Fragment(Content("frame", NewVal), txframeno', 0)
    OBVIOUS
  <2>2. /\ call'.kind = "EOEsend" /\ pc = "returned" /\ pc' = "sending"
        /\ StartSend(q) /\ UNCHANGED <<stored, frames>>
    BY <1>2, <2>1 DEF EOEsend, serverVars
  <2>3. wkc' = 0 /\ mbxIn' = NoMsg /\ UNCHANGED <<sm0, sm1, slaveVars>>
          /\ mbxOut'.msg = q
    BY <2>2 DEF StartSend
  <2>4. IsFragment(q)
    BY <2>1 DEF IsFragment, Fragment
  <2>5. FrameCall'
    BY <1>0, <2>2 DEF FrameCall
  <2> QED BY <2>2, <2>3, <2>4, <2>5 DEF EoeCalled, EoeCasts
<1>3. ASSUME NEW room, EOErecv(room)
      PROVE  /\ EoeCalled' /\ pc = "returned" /\ EoeListens
                  /\ UNCHANGED <<stored, frames>> /\ wkc' = 0
             /\ call'.kind # "none" /\ mbxIn' = NoMsg
                  /\ UNCHANGED <<sm0, sm1, slaveVars>>
             /\ link' = "avail"
  <2>2. /\ call'.kind = "EOErecv" /\ pc = "returned" /\ pc' = "response"
        /\ StartReceive("running") /\ UNCHANGED <<stored, frames>>
    BY <1>3 DEF EOErecv, serverVars, eoeVars
  <2>3. wkc' = 0 /\ mbxIn' = NoMsg /\ UNCHANGED <<sm0, sm1, slaveVars, mbxOut>>
          /\ link' = "avail"
    BY <2>2 DEF StartReceive
  <2>5. FrameCall'
    BY <1>0, <2>2 DEF FrameCall
  <2> QED BY <2>2, <2>3, <2>5 DEF EoeCalled, EoeListens
<1>4. /\ EoeCalled' /\ pc = "returned" /\ (EoeEnters \/ EoeCasts \/ EoeListens)
      /\ UNCHANGED <<stored, frames>> /\ wkc' = 0
      /\ call'.kind # "none" /\ mbxIn' = NoMsg /\ UNCHANGED <<sm0, sm1, slaveVars>>
  BY <1>0, <1>1, <1>2, <1>3 DEF EoeCalls, EOEsetIp, EOEgetIp, EoePoll
<1>5. Session'
  BY <1>4, <1>c DEF Session, Unheard
<1> QED BY <1>0, <1>4, <1>5, <1>c DEF EoeEnters, EoeCasts, EoeListens

(* A step of a function. *)
LEMMA EoeTurn ==
  ASSUME EoeCalled, EoeShape, EoeStep \/ Services, UNCHANGED family
  PROVE  EoeCalled' /\ EoeShape'
<1>o. ~SdoStep /\ ~PdoStep /\ ~FoeStep /\ ~SoeStep /\ ~InfoStep
  BY EoeOnly
<1>k. /\ FrameCall => pc # "request"
           /\ call.kind \notin {"none", "EOEgetIp", "EOEsetIp"}
      /\ ~(IpCall /\ FrameCall) /\ (call.kind = "none" => ~IpCall /\ ~FrameCall)
  BY EoeNames, EoeCallIs
<1>s. /\ UNCHANGED <<stored, sm0, sm1, lastOut, outbox, job, mbxOut>>
           /\ mbxIn' \in {mbxIn, NoMsg} => EoeShape'
      /\ UNCHANGED <<stored, sm0, sm1, lastOut, outbox, job>>
           /\ EoeAsked(mbxOut'.msg) /\ mbxIn' = NoMsg => EoeShape'
  BY NotIp DEF EoeShape, StoredOK, EoeAsked, EoeAnswered
<1>1. CASE IpRequest
  <2>1. PICK d : d = IF call.kind = "EOEsetIp" THEN Content("ip", call.val)
          ELSE <<>>
    OBVIOUS
  <2>2. /\ mbxOut'.msg = [op |-> "eoe", type |-> call.kind, data |-> d]
        /\ UNCHANGED <<call, buf, stored, sm0, sm1, lastOut, outbox, job>>
             /\ mbxIn' = NoMsg /\ pc' = "request"
    BY <1>1, <2>1 DEF IpRequest, Post, StartSend, serverVars, slaveVars
  <2>3. IpCall
    BY <1>1, <1>k DEF EoeCalled, IpRequest, IsIp, At, IpCall
  <2>4. call.kind = "EOEsetIp" => WholeIp(d)
    BY <2>1, <2>3, ContentIs, IpObjects DEF WholeIp, IpCall
  <2>5. EoeAsked(mbxOut'.msg)
    BY <2>2, <2>4 DEF EoeAsked
  <2>6. IpCall'
    BY <2>2, <2>3, EoeCallIs
  <2>7. call.kind = "EOEgetIp" => Len(buf) <= call.room
    BY <1>k, <2>3 DEF EoeCalled, IpCall
  <2> QED BY <1>s, <2>2, <2>5, <2>6, <2>7 DEF EoeCalled, IpPcs
<1>2. CASE IpResponse \/ Placed \/ NotPlaced
  <2>1. /\ UNCHANGED <<call, stored, sm0, sm1, lastOut, outbox, job, mbxOut>>
        /\ mbxIn' \in {mbxIn, NoMsg} /\ pc' \in {"response", "returned"}
             /\ pc # "returned"
    BY <1>2 DEF IpResponse, Placed, NotPlaced, Return, StartReceive, Quiet,
      LinkUnchanged, serverVars, slaveVars, At, Answered
  <2>2. IpCall
    BY <1>2, <1>k
      DEF EoeCalled, IpResponse, IsIp, Placed, NotPlaced, At, Answered, IpCall
  <2>3. IpCall'
    BY <2>1, <2>2, EoeCallIs
  <2>4. call.kind = "EOEgetIp" => Len(buf) <= call.room /\ call.room = NParts["ip"]
    BY <1>k, <2>2 DEF EoeCalled, IpCall
  <2>5. buf' = buf \/ (buf' = mbxIn.data /\ mbxIn.op = "eoe" /\ mbxIn.type = "ip")
    BY <1>2 DEF IpResponse, IsIpResponse, Placed, NotPlaced
  <2>6. call.kind = "EOEgetIp" => Len(buf') <= call'.room
    <3>1. mbxIn.op = "eoe" /\ mbxIn.type = "ip" => Len(mbxIn.data) = NParts["ip"]
      BY DEF EoeShape, EoeAnswered, WholeIp
    <3> QED BY <2>1, <2>4, <2>5, <3>1, IpObjects
  <2> QED BY <1>s, <2>1, <2>3, <2>6 DEF EoeCalled, IpPcs
<1>3. CASE Polled \/ EoeNotReceived
  <2>1. /\ UNCHANGED <<call, stored, sm0, sm1, lastOut, outbox, job, mbxOut>>
        /\ mbxIn' \in {mbxIn, NoMsg} /\ pc' = "returned"
    BY <1>3
      DEF Polled, EoeNotReceived, Return, Quiet, LinkUnchanged, serverVars,
      slaveVars
  <2>2. FrameCall
    BY <1>3 DEF EoeCalled, Polled, EoeNotReceived, IpCall, FrameCall
  <2>3. FrameCall'
    BY <2>1, <2>2, EoeCallIs
  <2> QED BY <1>s, <2>1, <2>3 DEF EoeCalled, FrameCall
<1>4. CASE EoeSent
  <2>2. FrameCall /\ call' = call /\ pc' \in {"sending", "returned"}
          /\ call.kind = "EOEsend"
    BY <1>4 DEF EoeCalled, EoeSent, IpCall, FrameCall, Post, Return
  <2>3. FrameCall'
    BY <2>2, EoeCallIs
  <2>4. EoeShape'
    <3>1. CASE wkc > 0 /\ sent * M < NParts["frame"]
      <4>1. PICK q : q = Fragment(Content("frame", call.val), txframeno, sent)
        OBVIOUS
      <4>2. UNCHANGED <<stored, sm0, sm1, lastOut, outbox, job>>
              /\ mbxOut'.msg = q /\ mbxIn' = NoMsg
        BY <1>4, <3>1, <4>1 DEF EoeSent, Post, StartSend, serverVars, slaveVars
      <4>3. IsFragment(q)
        BY <4>1 DEF IsFragment, Fragment
      <4> QED BY <1>s, <4>2, <4>3, NotIp
    <3>2. CASE ~(wkc > 0 /\ sent * M < NParts["frame"])
      <4>1. UNCHANGED <<stored, sm0, sm1, lastOut, outbox, job, mbxOut>>
              /\ mbxIn' = NoMsg
        BY <1>4, <3>2
          DEF EoeSent, Return, Quiet, LinkUnchanged, serverVars, slaveVars
      <4> QED BY <1>s, <4>1
    <3> QED BY <3>1, <3>2
  <2> QED BY <2>2, <2>3, <2>4 DEF EoeCalled
<1>5. CASE EoeFragmentReceived
  <2>1. /\ UNCHANGED <<stored, sm0, sm1, lastOut, outbox, job, mbxOut>>
        /\ mbxIn' = NoMsg /\ pc' \in {"response", "returned"}
    BY <1>5 DEF EoeFragmentReceived, Return, StartReceive, Quiet, LinkUnchanged,
      serverVars, slaveVars, Answered, At
  <2>2. FrameCall /\ call.kind = "EOErecv"
    BY <1>5 DEF EoeCalled, EoeFragmentReceived, IpCall, FrameCall
  <2>3. call'.kind = call.kind
    <3>1. EoeStep
      BY <1>5 DEF EoeStep
    <3> QED BY <3>1, EoeKind
  <2>4. FrameCall'
    BY <2>2, <2>3 DEF FrameCall
  <2> QED BY <1>s, <2>1, <2>2, <2>3, <2>4 DEF EoeCalled
<1> QED BY <1>o, <1>1, <1>2, <1>3, <1>4, <1>5 DEF EoeStep, Services

(* The messages and the buffer stay what they are, whatever happens.       *)
LEMMA EoeKeeps ==
  ASSUME Session, family = "eoe", EoeShape, EoeCalled, [Next]_allVars
  PROVE  EoeShape' /\ EoeCalled'
<1>f. family' = family
  BY FamilyStays
<1>p. UNCHANGED <<call, pc, buf>> => EoeCalled'
  BY <1>f, EoeCallIs
<1>q. UNCHANGED <<outbox, stored, job, mbxOut, sm0, sm1, lastOut>>
        /\ mbxIn' \in {mbxIn, NoMsg} => EoeShape'
  BY NotIp DEF EoeShape, StoredOK, EoeAsked, EoeAnswered
<1>1. CASE Calls
  <2>1. UNCHANGED <<outbox, stored, job, sm0, sm1, lastOut>> /\ mbxIn' = NoMsg
    BY <1>1, EoeBegins DEF slaveVars
  <2>2. mbxOut' = mbxOut \/ IsFragment(mbxOut'.msg)
    BY <1>1, EoeBegins DEF EoeEnters, EoeCasts, EoeListens
  <2>3. EoeAsked(mbxOut'.msg)
    BY <2>2, NotIp DEF EoeShape
  <2>4. EoeShape'
    BY <2>1, <2>3, NotIp DEF EoeShape, StoredOK, EoeAsked, EoeAnswered
  <2> QED BY <1>1, <2>4, EoeBegins
<1>2. CASE PopError \/ SetUp
  <2>1. UNCHANGED <<outbox, stored, job, mbxOut, sm0, sm1, lastOut, mbxIn, call,
                    pc, buf>>
    BY <1>2 DEF PopError, SetUp, EOEdefinehook, LinkUnchanged, slaveVars,
      masterVars, callVars, serverVars
  <2> QED BY <1>p, <1>q, <2>1
<1>3. CASE Services \/ EoeStep
  BY <1>3, <1>f, EoeTurn
<1>4. CASE (Transports /\ Others) \/ Frames
  BY <1>4, <1>p, EoeShapeMoved, SamePc DEF Session
<1>5. CASE Serves /\ UNCHANGED <<callVars, sessionVars, eoeVars>>
  BY <1>5, <1>p, EoeShapeServed, ServedSame
<1>7. CASE Die /\ Others
  <2>1. UNCHANGED <<outbox, stored, job, mbxOut, sm0, sm1, lastOut, mbxIn, call,
                    pc, buf>>
    BY <1>7, Aside DEF Die, masterVars
  <2> QED BY <1>p, <1>q, <2>1
<1>8. CASE UNCHANGED allVars
  <2>1. UNCHANGED <<outbox, stored, job, mbxOut, sm0, sm1, lastOut, mbxIn, call,
                    pc, buf>>
    BY <1>8 DEF allVars, mbxVars, slaveVars, masterVars, callVars, serverVars
  <2> QED BY <1>p, <1>q, <2>1
<1> QED BY <1>1, <1>2, <1>3, <1>4, <1>5, <1>7, <1>8, Steps
(* Where a session of EoE is. *)
EoeTalk ==
  \/ call.kind = "none" /\ pc = "returned" /\ Still
  \/ IpCall /\ IpTalk
  \/ FrameCall /\ FrameTalk
(* What a call for the parameters has been told is right. *)
EoeTold == IpCall => IpTold
(* As long as the code makes up for what happens, the link layer and the   *)
(* conversation are in order,                                              *)
EoeGood == Good => LinkOK /\ EoeTalk
(* ... and when the slave is gone, what was told before stays right. *)
EoeDead == Watched /\ ~alive => EoeTold
(* The inductive invariant of EoE. *)
EoeInv == family = "eoe" => Session /\ EoeShape /\ EoeCalled /\ EoeGood /\ EoeDead

(* A call that came back leaves nothing on its way. *)
LEMMA EoeReturned ==
  ASSUME LinkOK, EoeTalk, pc = "returned"
  PROVE  Still
BY IpPlaces, FramePlaces DEF EoeTalk

(* Every step keeps the conversation in order while the slave is there. *)
LEMMA EoeGoesOn ==
  ASSUME EoeInv, family = "eoe", [Next]_allVars, Good, Good'
  PROVE  LinkOK' /\ EoeTalk'
<1>0. LinkOK /\ EoeTalk /\ EoeCalled /\ Session /\ EoeShape /\ family' = family
  BY SessionKept DEF EoeInv, EoeGood
<1>c. UNCHANGED call => (IpCall' <=> IpCall) /\ (FrameCall' <=> FrameCall)
  BY <1>0, EoeCallIs
<1>d. "ip" \in DOMAIN stored
  BY <1>0, IpObjects DEF EoeShape, StoredOK
<1>1. CASE Calls
  <2>0. /\ pc = "returned" /\ pc' # "returned"
             /\ (EoeEnters \/ EoeCasts \/ EoeListens)
        /\ UNCHANGED <<stored, frames, family>> /\ calls' # 0
    BY <1>0, <1>1, EoeBegins
  <2>1. link = "done" /\ Still
    BY <1>0, <2>0, EoeReturned DEF LinkOK, Places
  <2>2. \A t : StartReceive(t) => LinkOK' /\ Receiving' /\ Still'
    BY <1>0, <2>0, <2>1, Waits
  <2>3. CASE EoeEnters
    <3>1. LinkOK' /\ Receiving' /\ Still'
      BY <2>2, <2>3 DEF EoeEnters
    <3> QED BY <2>3, <3>1 DEF EoeTalk, IpTalk, FrameTalk, Draining, Free, EoeEnters
  <2>4. CASE EoeCasts
    <3>1. PICK q : IsFragment(q) /\ StartSend(q)
      BY <2>4 DEF EoeCasts
    <3>2. LinkOK' /\ Sending(q)'
      BY <1>0, <2>0, <2>1, <3>1, Unlike, Posted
    <3>3. IsFragment(q)'
      BY <3>1 DEF IsFragment
    <3> QED BY <2>4, <3>2, <3>3 DEF EoeTalk, FrameTalk, Casting, EoeCasts
  <2>5. CASE EoeListens
    <3>1. LinkOK' /\ Receiving' /\ Still'
      BY <2>2, <2>5 DEF EoeListens
    <3> QED BY <2>5, <3>1 DEF EoeTalk, FrameTalk, Free, EoeListens
  <2> QED BY <2>0, <2>3, <2>4, <2>5
<1>2. CASE PopError
  <2>1. /\ UNCHANGED <<pc, call, buf, sent, stored, wkc>> /\ pc = "returned"
             /\ Between
    <3>1. pc = "returned" /\ link = "done"
      BY <1>0, <1>2 DEF PopError, LinkOK, Places
    <3> QED BY <1>2, <3>1 DEF PopError, LinkUnchanged, masterVars, callVars,
        eoeVars, sessionVars, serverVars, Between, SlaveStays, slaveVars
  <2>2. LinkOK' /\ Still'
    BY <1>0, <2>1, EoeReturned, Pauses
  <2>3. Free'
    BY <2>1 DEF Between, Free
  <2>4. IpCall /\ IpTalk => IpTalk'
    <3>1. IpCall /\ IpTalk => wkc = 1 /\ IpRight
      BY <1>0, <2>1, IpPlaces
    <3>2. IpRight => IpRight'
      BY <2>1 DEF IpRight, IpSet
    <3> QED BY <2>1, <2>2, <3>1, <3>2 DEF IpTalk
  <2>5. FrameTalk'
    BY <2>2, <2>3 DEF FrameTalk
  <2> QED BY <1>0, <1>c, <2>1, <2>2, <2>4, <2>5 DEF EoeTalk
<1>3. CASE (Services /\ UNCHANGED <<eoeVars, sessionVars>>)
             \/ (EoeStep /\ UNCHANGED sessionVars)
  <2>0. UNCHANGED <<frames, family, calls>>
    BY <1>3, EoeTurns DEF eoeVars, sessionVars
  <2>1. pc # "returned" /\ calls' # 0
    BY <1>0, <1>3, <2>0, ServicesTurn, EoeTurns DEF Session
  <2>2. CASE IpCall /\ IpTalk
    BY <1>0, <1>3, <1>c, <2>0, <2>1, <2>2, IpSteps DEF EoeTalk
  <2>3. CASE FrameCall /\ FrameTalk
    <3>1. EoeStep
      <4>1. ~Placed /\ ~NotPlaced
        BY <1>0, <2>3, EoeNames DEF Placed, NotPlaced, At, Answered
      <4>2. ~Services
        BY <1>0, <4>1, EoeOnly DEF Services
      <4> QED BY <1>3, <4>2
    <3>2. LinkOK' /\ FrameTalk' /\ call'.kind = call.kind
      BY <1>0, <2>0, <2>1, <2>3, <3>1, FrameSteps
    <3>3. FrameCall'
      BY <1>0, <2>3, <3>2 DEF FrameCall
    <3> QED BY <3>2, <3>3 DEF EoeTalk
  <2> QED BY <1>0, <2>1, <2>2, <2>3 DEF EoeTalk
<1>4. CASE (Transports /\ Others) \/ Frames
  <2>1. UNCHANGED <<pc, call>>
    BY <1>4, SamePc
  <2>2. LinkOK' /\ (Still /\ Free => Still')
    BY <1>0, <1>4, RestCarried
  <2>3. (IpCall /\ IpTalk => IpTalk') /\ (FrameTalk => FrameTalk')
    BY <1>0, <1>4, IpCarried, FrameCarried
  <2>4. pc = "returned" => Free
    BY <1>0 DEF LinkOK, Places, Free
  <2> QED BY <1>0, <1>c, <2>1, <2>2, <2>3, <2>4 DEF EoeTalk
<1>5. CASE Serves /\ UNCHANGED <<callVars, sessionVars, eoeVars>>
  <2>1. UNCHANGED <<pc, call>>
    BY <1>5, ServedSame
  <2>2. clean'
    BY DEF Good, Watched
  <2>3. Still => LinkOK' /\ Still'
    <3>1. SUFFICES ASSUME Still PROVE LinkOK' /\ Still'
      OBVIOUS
    <3>2. ServeFrame /\ IsFragment(job)
      BY <1>5, <2>2, <3>1, EoeIdle DEF Still
    <3> QED BY <1>0, <1>5, <1>d, <3>1, <3>2, EoeAbsorbed
  <2>4. CASE IpCall /\ IpTalk
    BY <1>0, <1>5, <1>c, <1>d, <2>1, <2>2, <2>4, IpTurnServed DEF EoeTalk
  <2>5. CASE FrameCall /\ FrameTalk
    BY <1>0, <1>5, <1>c, <1>d, <2>1, <2>2, <2>5, CastServed DEF EoeTalk
  <2> QED BY <1>0, <2>1, <2>3, <2>4, <2>5 DEF EoeTalk
<1>6. ~(Die /\ Others)
  BY DEF Die, Good
<1>7. CASE UNCHANGED allVars \/ SetUp
  <2>1. Steady
    <3>1. CASE UNCHANGED allVars
      BY <3>1
        DEF Steady, allVars, mbxVars, slaveVars, masterVars, callVars, serverVars,
        eoeVars
    <3>2. CASE SetUp
      BY <3>2 DEF SetUp, EOEdefinehook, Steady, sessionVars, slaveVars, masterVars,
        callVars, serverVars, eoeVars
    <3> QED BY <1>7, <3>1, <3>2
  <2>2. LinkOK' /\ (Still => Still') /\ (IpTalk => IpTalk')
          /\ (FrameTalk => FrameTalk')
    BY <1>0, <2>1, EoeSteady, LinkSteady
  <2>3. UNCHANGED <<call, pc>>
    BY <2>1 DEF Steady
  <2> QED BY <1>0, <1>c, <2>2, <2>3 DEF EoeTalk
<1> QED BY <1>1, <1>2, <1>3, <1>4, <1>5, <1>6, <1>7, Steps

(* What was told depends on the call only. *)
LEMMA EoeToldStays ==
  UNCHANGED <<pc, call, buf, stored, link, wkc, mbxIn, family>> /\ EoeTold =>
    EoeTold'
<1> SUFFICES ASSUME UNCHANGED <<pc, call, buf, stored, link, wkc, mbxIn,
  family>>, EoeTold PROVE EoeTold'
  OBVIOUS
<1>1. IpTold => IpTold'
  BY DEF IpTold, At, IpRight, IpSet, IpAnswer
<1> QED BY <1>1, EoeCallIs DEF EoeTold

(* Without the slave nothing new is told. *)
LEMMA EoeToldGoesOn ==
  ASSUME EoeInv, family = "eoe", [Next]_allVars, Watched, ~alive
  PROVE  EoeTold'
<1>0. EoeTold /\ EoeCalled /\ Session /\ family' = family
  BY SessionKept DEF EoeInv, EoeDead
<1>c. UNCHANGED call => (IpCall' <=> IpCall) /\ (FrameCall' <=> FrameCall)
  BY <1>0, EoeCallIs
<1>1. CASE Calls
  <2>1. wkc' = 0
    BY <1>0, <1>1, EoeBegins
  <2> QED BY <2>1 DEF EoeTold, IpTold
<1>2. CASE PopError \/ SetUp
  BY <1>0, <1>2, EoeToldStays DEF PopError, SetUp, EOEdefinehook, LinkUnchanged,
    masterVars, callVars, serverVars
<1>3. CASE Services \/ EoeStep
  <2>1. wkc \in Int
    BY <1>0 DEF Session, Unheard
  <2>3. CASE IpCall
    <3>1. IpTold' /\ call' = call
      BY <1>0, <1>3, <2>1, <2>3, IpToldStep, EoeCallIs DEF EoeTold, EoeCalled, IpPcs
    <3> QED BY <3>1 DEF EoeTold
  <2>4. CASE FrameCall
    <3>1. ~Placed /\ ~NotPlaced
      BY <1>0, <2>4, EoeNames DEF Placed, NotPlaced, At, Answered
    <3>2. EoeStep
      BY <1>0, <1>3, <3>1, EoeOnly DEF Services
    <3>3. call'.kind = call.kind
      BY <3>2, EoeKind
    <3> QED BY <1>0, <2>4, <3>3, EoeNames DEF EoeTold, IpCall
  <2>5. CASE call.kind = "none" /\ pc = "returned"
    BY <1>3, <2>5, ServicesTurn, EoeTurns
  <2> QED BY <1>0, <2>3, <2>4, <2>5 DEF EoeCalled
<1>4. CASE (Transports /\ Others) \/ Frames
  <2>1. UNCHANGED <<pc, call, buf, sent, toggle, stored, xfer, family>>
    BY <1>4, SamePc
  <2>2. ~(wkc' > 0) \/ (wkc' = wkc /\ link' = link /\ mbxIn' = mbxIn)
    BY <1>0, <1>4, TransportHears DEF Session
  <2>3. CASE ~(wkc' > 0)
    BY <2>3 DEF EoeTold, IpTold
  <2> QED BY <1>0, <2>1, <2>2, <2>3, EoeToldStays
<1>5. ~Serves
  BY ServesLeave DEF Leaves
<1>6. ~(Die /\ Others)
  BY DEF Die
<1>7. CASE UNCHANGED allVars
  BY <1>0, <1>7, EoeToldStays DEF allVars, mbxVars, masterVars, callVars, serverVars
<1> QED BY <1>1, <1>2, <1>3, <1>4, <1>5, <1>6, <1>7, Steps

(* It holds at the start. *)
LEMMA EoeFirst == Init => EoeInv
<1> SUFFICES ASSUME Init PROVE EoeInv
  OBVIOUS
<1>1. Session /\ LinkOK /\ Still /\ StoredOK /\ call.kind = "none"
        /\ pc = "returned" /\ alive
  BY InitSession
<1>2. sm0 = NoMsg /\ sm1 = NoMsg /\ lastOut = NoMsg /\ job = NoMsg /\ outbox = <<>>
      /\ mbxOut.msg = NoMsg /\ mbxIn = NoMsg
  BY DEF Init, MailboxInit
<1>3. EoeShape
  BY <1>1, <1>2, NotIp DEF EoeShape
<1> QED BY <1>1, <1>3 DEF EoeInv, EoeCalled, EoeGood, EoeDead, EoeTalk

(* Every step keeps it. *)
LEMMA EoeKept == EoeInv /\ [Next]_allVars => EoeInv'
<1> SUFFICES ASSUME EoeInv, [Next]_allVars PROVE EoeInv'
  OBVIOUS
<1>1. family' = family
  BY FamilyStays
<1> SUFFICES ASSUME family = "eoe" PROVE EoeInv'
  BY <1>1 DEF EoeInv
<1>2. Session /\ EoeShape /\ EoeCalled /\ EoeGood /\ EoeDead
  BY DEF EoeInv
<1>3. Before /\ Session' /\ EoeShape' /\ EoeCalled'
  BY <1>2, EoeKeeps, EoeBegins, SessionKept
<1>4. EoeGood'
  <2>1. SUFFICES ASSUME Good' PROVE LinkOK' /\ EoeTalk'
    BY DEF EoeGood
  <2>2. Good
    BY <1>3, <2>1 DEF Before, Good
  <2> QED BY <2>1, <2>2, EoeGoesOn
<1>5. EoeDead'
  <2>1. SUFFICES ASSUME Watched', ~alive' PROVE EoeTold'
    BY DEF EoeDead
  <2>2. Watched
    BY <1>3, <2>1 DEF Before
  <2>3. CASE alive
    <3>1. Die /\ Others
      BY <1>2, <2>1, <2>3, OnlyDies
    <3>2. EoeTold
      BY <1>2, <2>2, <2>3, IpTells, EoeCallIs DEF EoeGood, Good, EoeTalk, EoeTold
    <3>3. UNCHANGED <<pc, call, buf, stored, link, wkc, mbxIn, family>>
      BY <3>1, Aside DEF Die, masterVars
    <3> QED BY <3>2, <3>3, EoeToldStays
  <2>4. CASE ~alive
    BY <2>2, <2>4, EoeToldGoesOn
  <2> QED BY <2>3, <2>4
<1> QED BY <1>3, <1>4, <1>5 DEF EoeInv

(* It implies the properties. *)
LEMMA EoeSuffices ==
  ASSUME EoeInv, family = "eoe"
  PROVE  ReadIsRight /\ WriteIsDone /\ CallSucceeds
<1>0. Session /\ EoeShape /\ EoeCalled /\ EoeGood /\ EoeDead
      /\ call.kind \in {"none", "EOEgetIp", "EOEsetIp", "poll", "EOEsend",
           "EOErecv"}
  BY EoeNames DEF EoeInv
<1>u. Undisturbed => Watched
  BY DEF Undisturbed, Watched
<1>1. call.kind \in {"EOEgetIp", "EOEsetIp"} => IpCall
  BY <1>0 DEF EoeCalled, FrameCall
<1>2. call.kind = "EOEgetIp" => Len(buf) <= call.room
  BY <1>0 DEF EoeCalled, FrameCall
<1>3. ASSUME IpCall, Undisturbed, pc = "returned"
      PROVE  (wkc > 0 => IpRight) /\ (alive => wkc > 0)
  <2>2. CASE ~alive
    BY <1>0, <1>3, <1>u, <2>2 DEF EoeDead, EoeTold, IpTold
  <2>3. CASE alive
    BY <1>0, <1>3, <1>u, <2>3, IpPlaces, EoeCallIs DEF EoeGood, Good, EoeTalk
  <2> QED BY <2>2, <2>3
<1>4. IpCall /\ call.kind = "EOEgetIp" => Asked = stored["ip"]
  BY DEF IpCall, Asked
<1>5. ReadIsRight
  BY <1>0, <1>1, <1>2, <1>3, <1>4 DEF ReadIsRight, Reads, Returned, IpRight
<1>6. WriteIsDone
  BY <1>0, <1>1, <1>3 DEF WriteIsDone, Writes, Returned, IpRight, IpSet, IpCall
<1>7. CallSucceeds
  BY <1>0, <1>1, <1>3 DEF CallSucceeds, Reads, Writes, Returned
<1> QED BY <1>5, <1>6, <1>7

(* In every behaviour of Spec whose calls are those of EoE the invariant   *)
(* holds: for every number and size of frames, number of calls, of faults  *)
(* and of retries.                                                         *)
THEOREM EoeInductive == Spec => []EoeInv
<1> QED
  BY EoeKept, EoeFirst, PTL DEF Spec

(* ecx_EOEgetIp that succeeds has brought the parameters the slave has,    *)
(* and never more than it has room for: after any loss the code makes up   *)
(* for, with frames of the slave and emergencies in between.               *)
THEOREM EoeReadIsRight == Spec => [](family = "eoe" => ReadIsRight)
BY EoeInductive, EoeSuffices, PTL
(* ecx_EOEsetIp that succeeds has set them in the slave. *)
THEOREM EoeWriteIsDone == Spec => [](family = "eoe" => WriteIsDone)
BY EoeInductive, EoeSuffices, PTL
(* Neither fails as long as the slave is there and nothing happens the     *)
(* code does not make up for, whatever fragments come and go in between.   *)
THEOREM EoeCallSucceeds == Spec => [](family = "eoe" => CallSucceeds)
BY EoeInductive, EoeSuffices, PTL
=============================================================================
