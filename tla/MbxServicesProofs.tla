-------------------------- MODULE MbxServicesProofs --------------------------
(***************************************************************************)
(* The services over the mailbox, for every value of their parameters.     *)
(*                                                                         *)
(* The error list: the ring of ErrorList implements the queue of           *)
(* ErrorQueue, and the services use the ring as ErrorList says. Each step  *)
(* of the ring is followed through the sequence of errors in it: a push    *)
(* appends to it, after its head was dropped if the ring was full, and a   *)
(* pop takes its head.                                                     *)
(*                                                                         *)
(* The frames of EoE: none is delivered that was not sent. Whatever        *)
(* fragment is in a mailbox, on its way or repeated is a piece of a frame  *)
(* that was sent, with its number; and as a fragment is only taken if it   *)
(* is the next one of the frame with the number expected, what has been    *)
(* put together is always the beginning of one frame.                      *)
(*                                                                         *)
(* The transfers of SDOs, of PDOs and of the information service: a call   *)
(* that the code can make up for succeeds, what a read delivers is what    *)
(* the slave has, and what a write says it has written is there. First the *)
(* link layer: a message goes from the master to the slave and an answer   *)
(* back, each once, whichever datagram is lost, repeated or late. Then the *)
(* conversation: a request is asked until it was answered, and the answer  *)
(* awaited until it is delivered. Then each service: where a call and its  *)
(* server are in that conversation, and what the call has been told.       *)
(* MbxTransferProofs goes on with the other services.                      *)
(***************************************************************************)
EXTENDS MbxServices, SequenceTheorems, TLAPS

(* A ring: its ends are cells, and every cell holds an error or none. *)
Thing == Error \cup {NoError}
Ring  == [cell : [Cell -> Thing], head : Cell, tail : Cell]

TypeOK == elist \in Ring /\ ecaterror \in BOOLEAN

-----------------------------------------------------------------------------
(* Following goes round the cells. *)
LEMMA FollowingCell ==
  ASSUME NEW i \in Cell
  PROVE  /\ Following(i) \in Cell
         /\ Following(i) # i
BY ErrorListConstants DEF Following, Cell

(* There are at most EC_MAXELIST errors in the ring, each in a cell, and   *)
(* the ring is empty when its ends meet.                                   *)
LEMMA CountBounds ==
  ASSUME NEW l \in Ring
  PROVE  /\ Count(l) \in 0..EC_MAXELIST
         /\ Count(l) = 0 <=> l.head = l.tail
         /\ Displaces(l) <=> Count(l) = EC_MAXELIST
BY ErrorListConstants DEF Count, Displaces, Following, Ring, Cell

(* The cells of the errors are not the head, and the first is the tail.    *)
LEMMA PlaceCell ==
  ASSUME NEW l \in Ring, NEW i \in 1..Count(l)
  PROVE  /\ Place(l, i) \in Cell
         /\ Place(l, i) # l.head
         /\ Place(l, i) = l.tail <=> i = 1
<1>1. /\ l.head \in Int /\ 0 <= l.head /\ l.head <= EC_MAXELIST
      /\ l.tail \in Int /\ 0 <= l.tail /\ l.tail <= EC_MAXELIST
      /\ EC_MAXELIST \in Int
  BY ErrorListConstants DEF Ring, Cell
<1>2. Count(l) \in Int /\ Count(l) <= EC_MAXELIST
  BY CountBounds, ErrorListConstants
<1>3. i \in Int /\ 1 <= i /\ i <= Count(l)
  BY <1>2
<1>4. CASE l.tail + i - 1 > EC_MAXELIST
  BY <1>1, <1>2, <1>3, <1>4 DEF Place, Count, Cell
<1>5. CASE ~(l.tail + i - 1 > EC_MAXELIST)
  BY <1>1, <1>2, <1>3, <1>5 DEF Place, Count, Cell
<1>6. QED
  BY <1>4, <1>5

(* So the listed errors are a sequence.                                    *)
LEMMA ListedSeq ==
  ASSUME NEW l \in Ring
  PROVE  /\ Listed(l) \in Seq(Thing)
         /\ Len(Listed(l)) = Count(l)
         /\ \A i \in 1..Count(l) : Listed(l)[i] = l.cell[Place(l, i)]
<1>1. Count(l) \in Nat
  BY CountBounds, ErrorListConstants
<1>2. \A i \in 1..Count(l) : l.cell[Place(l, i)] \in Thing
  BY PlaceCell DEF Ring
<1>3. Listed(l) \in [1..Count(l) -> Thing]
  BY <1>2 DEF Listed
<1> QED BY <1>1, <1>3 DEF Listed

-----------------------------------------------------------------------------
(* ecx_pusherror with a free cell: the error comes to the end.             *)
LEMMA PushAppends ==
  ASSUME NEW l \in Ring, NEW e \in Error, ~Displaces(l)
  PROVE  /\ Pushed(l, e) \in Ring
         /\ Listed(Pushed(l, e)) = Append(Listed(l), e)
<1> DEFINE p == Pushed(l, e)
<1>1. p \in Ring /\ p.tail = l.tail /\ p.head = Following(l.head)
  BY FollowingCell DEF Pushed, Ring, Thing
<1>2. Count(p) = Count(l) + 1
  <2>1. l.head \in 0..EC_MAXELIST /\ l.tail \in 0..EC_MAXELIST
    BY DEF Ring, Cell
  <2>2. p.tail = l.tail /\ p.head = IF l.head = EC_MAXELIST THEN 0 ELSE l.head + 1
    BY <1>1 DEF Following
  <2>3. p.head # l.tail
    BY <1>1 DEF Displaces
  <2> HIDE DEF p
  <2> QED BY <2>1, <2>2, <2>3, ErrorListConstants DEF Count
<1>3. ASSUME NEW i \in 1..Count(p)
      PROVE  p.cell[Place(p, i)] = IF i = Count(p) THEN e ELSE l.cell[Place(l, i)]
  <2>1. Place(p, i) = Place(l, i)
    BY <1>1 DEF Place
  <2>2. CASE i = Count(p)
    <3>1. Place(l, Count(l) + 1) = l.head
      BY ErrorListConstants DEF Count, Place, Ring, Cell, Displaces, Following
    <3>2. Place(p, i) = l.head
      BY <1>2, <2>1, <2>2, <3>1
    <3> QED BY <2>2, <3>2 DEF Pushed, Ring
  <2>3. CASE i # Count(p)
    <3>1. i \in 1..Count(l)
      BY <1>2, <2>3, CountBounds, ErrorListConstants
    <3>2. Place(l, i) \in Cell \ {l.head}
      BY <3>1, PlaceCell
    <3> QED BY <2>1, <2>3, <3>2 DEF Pushed, Ring
  <2> QED BY <2>2, <2>3
<1>4. Append(Listed(l), e) \in Seq(Thing)
      /\ Len(Append(Listed(l), e)) = Count(l) + 1
      /\ \A i \in 1..Count(l) : Append(Listed(l), e)[i] = Listed(l)[i]
      /\ Append(Listed(l), e)[Count(l) + 1] = e
  BY ListedSeq, AppendProperties DEF Thing
<1>5. \A i \in 1..Count(p) : Listed(p)[i] = Append(Listed(l), e)[i]
  <2> SUFFICES ASSUME NEW i \in 1..Count(p)
               PROVE  Listed(p)[i] = Append(Listed(l), e)[i]
    OBVIOUS
  <2>1. Listed(p)[i] = p.cell[Place(p, i)]
    BY <1>1, ListedSeq
  <2>2. CASE i = Count(p)
    BY <1>2, <1>3, <1>4, <2>1, <2>2
  <2>3. CASE i # Count(p)
    <3>1. i \in 1..Count(l)
      BY <1>2, <2>3, CountBounds, ErrorListConstants
    <3> QED BY <1>3, <1>4, <2>1, <2>3, <3>1, ListedSeq
  <2> QED BY <2>2, <2>3
<1>6. Listed(p) \in Seq(Thing) /\ Len(Listed(p)) = Count(p)
  BY <1>1, ListedSeq
<1> HIDE DEF p
<1>7. Listed(p) = Append(Listed(l), e)
  BY <1>2, <1>4, <1>5, <1>6, SeqEqual
<1> QED BY <1>1, <1>7 DEF p

(* ecx_pusherror in a full ring: the oldest error goes first.              *)
LEMMA PushDisplaces ==
  ASSUME NEW l \in Ring, NEW e \in Error, Displaces(l)
  PROVE  /\ Pushed(l, e) \in Ring
         /\ Listed(Pushed(l, e)) = Append(Tail(Listed(l)), e)
<1> DEFINE p == Pushed(l, e)
<1>1. p \in Ring /\ p.tail = Following(l.tail) /\ p.head = Following(l.head)
  BY FollowingCell DEF Pushed, Ring, Thing
<1>2. Count(p) = EC_MAXELIST /\ Count(l) = EC_MAXELIST
  <2>1. Displaces(p)
    BY <1>1 DEF Displaces
  <2> QED BY <1>1, <2>1, CountBounds
<1>3. ASSUME NEW i \in 1..EC_MAXELIST
      PROVE  p.cell[Place(p, i)] =
               IF i = EC_MAXELIST THEN e ELSE l.cell[Place(l, i + 1)]
  <2>1. CASE i = EC_MAXELIST
    <3>1. Place(p, i) = l.head
      BY <1>1, <2>1, ErrorListConstants, SMTT(30) DEF Place, Ring, Cell, Displaces, Following
    <3> QED BY <2>1, <3>1 DEF Pushed, Ring
  <2>2. CASE i # EC_MAXELIST
    <3>1. Place(p, i) = Place(l, i + 1)
      BY <1>1, <2>2, ErrorListConstants DEF Place, Ring, Cell, Following
    <3>2. i + 1 \in 1..Count(l)
      BY <1>2, <2>2, ErrorListConstants
    <3>3. Place(l, i + 1) \in Cell \ {l.head}
      BY <3>2, PlaceCell
    <3> QED BY <2>2, <3>1, <3>3 DEF Pushed, Ring
  <2> QED BY <2>1, <2>2
<1>4. Listed(l) \in Seq(Thing) /\ Len(Listed(l)) = EC_MAXELIST /\ Listed(l) # <<>>
  BY <1>2, ListedSeq, ErrorListConstants
<1> DEFINE q == Tail(Listed(l))
<1>5. /\ q \in Seq(Thing) /\ Len(q) = EC_MAXELIST - 1
      /\ \A i \in 1..EC_MAXELIST - 1 : q[i] = Listed(l)[i + 1]
  BY <1>4, HeadTailProperties
<1> HIDE DEF q
<1>6. /\ Append(q, e) \in Seq(Thing) /\ Len(Append(q, e)) = EC_MAXELIST
      /\ \A i \in 1..EC_MAXELIST - 1 : Append(q, e)[i] = q[i]
      /\ Append(q, e)[EC_MAXELIST] = e
  BY <1>5, AppendProperties, ErrorListConstants DEF Thing
<1>7. Listed(p) \in Seq(Thing) /\ Len(Listed(p)) = EC_MAXELIST
      /\ \A i \in 1..EC_MAXELIST : Listed(p)[i] = p.cell[Place(p, i)]
  BY <1>1, <1>2, ListedSeq
<1> HIDE DEF p
<1>8. ASSUME NEW i \in 1..EC_MAXELIST
      PROVE  Listed(p)[i] = Append(q, e)[i]
  <2>1. CASE i = EC_MAXELIST
    BY <1>3, <1>6, <1>7, <2>1
  <2>2. CASE i # EC_MAXELIST
    <3>1. i \in 1..EC_MAXELIST - 1 /\ i + 1 \in 1..Count(l)
      BY <1>2, <2>2, ErrorListConstants
    <3>2. Listed(l)[i + 1] = l.cell[Place(l, i + 1)]
      BY <3>1, ListedSeq
    <3> QED BY <1>3, <1>5, <1>6, <1>7, <2>2, <3>1, <3>2
  <2> QED BY <2>1, <2>2
<1>9. Listed(p) = Append(q, e)
  BY <1>6, <1>7, <1>8, SeqEqual
<1> QED BY <1>1, <1>9 DEF p, q

(* ecx_poperror of a list that is not empty takes the oldest error.        *)
LEMMA PopTakes ==
  ASSUME NEW l \in Ring, l.head # l.tail, NEW p,
         p = [l EXCEPT !.cell[l.tail] = NoError, !.tail = Following(@)]
  PROVE  p \in Ring /\ Listed(p) = Tail(Listed(l))
<1>1. p \in Ring /\ p.tail = Following(l.tail) /\ p.head = l.head
  BY FollowingCell DEF Ring, Thing
<1>2. Count(p) = Count(l) - 1 /\ Count(l) \in 1..EC_MAXELIST
  BY <1>1, CountBounds, ErrorListConstants, SMTT(30) DEF Count, Following, Ring, Cell
<1>3. ASSUME NEW i \in 1..Count(l) - 1
      PROVE  p.cell[Place(p, i)] = l.cell[Place(l, i + 1)]
  <2>1. Place(p, i) = Place(l, i + 1)
    BY <1>1, <1>2, ErrorListConstants, SMTT(30) DEF Place, Ring, Cell, Following
  <2>2. i + 1 \in 1..Count(l) /\ i + 1 # 1
    BY <1>2, ErrorListConstants
  <2>3. Place(l, i + 1) \in Cell \ {l.tail}
    BY <2>2, PlaceCell
  <2> QED BY <2>1, <2>3 DEF Ring
<1>4. Listed(l) \in Seq(Thing) /\ Len(Listed(l)) = Count(l) /\ Listed(l) # <<>>
  BY <1>2, ListedSeq, ErrorListConstants
<1> DEFINE q == Tail(Listed(l))
<1>5. /\ q \in Seq(Thing) /\ Len(q) = Count(l) - 1
      /\ \A i \in 1..Count(l) - 1 : q[i] = Listed(l)[i + 1]
  BY <1>4, HeadTailProperties
<1> HIDE DEF q
<1>6. /\ Listed(p) \in Seq(Thing) /\ Len(Listed(p)) = Count(l) - 1
      /\ \A i \in 1..Count(l) - 1 : Listed(p)[i] = p.cell[Place(p, i)]
  BY <1>1, <1>2, ListedSeq
<1>7. ASSUME NEW i \in 1..Count(l) - 1
      PROVE  Listed(p)[i] = q[i]
  <2>1. i + 1 \in 1..Count(l)
    BY <1>2, ErrorListConstants
  <2>2. Listed(l)[i + 1] = l.cell[Place(l, i + 1)]
    BY <2>1, ListedSeq
  <2> QED BY <1>3, <1>5, <1>6, <2>2
<1>8. Listed(p) = q
  BY <1>5, <1>6, <1>7, SeqEqual
<1> QED BY <1>1, <1>8 DEF q

-----------------------------------------------------------------------------
(* The ring starts empty, and every step is one of the queue.              *)
LEMMA InitRefines == ErrInit => TypeOK /\ Queue!Init
<1> SUFFICES ASSUME ErrInit PROVE TypeOK /\ Queue!Init
  OBVIOUS
<1>1. elist \in Ring /\ elist.head = elist.tail
  BY ErrorListConstants DEF ErrInit, Ring, Cell, Thing
<1>2. Count(elist) = 0
  BY <1>1, CountBounds
<1>3. Listed(elist) = <<>>
  BY <1>1, <1>2, ListedSeq, EmptySeq
<1> QED BY <1>1, <1>3 DEF ErrInit, TypeOK, Queue!Init

(* Every step of the ring is one of the queue, or nothing to it.           *)
LEMMA StepRefines == TypeOK /\ [ErrNext]_errVars => TypeOK' /\ [Queue!Next]_(Queue!qVars)
<1> SUFFICES ASSUME TypeOK, [ErrNext]_errVars
             PROVE  TypeOK' /\ [Queue!Next]_(Queue!qVars)
  OBVIOUS
<1> USE DEF TypeOK
<1>1. CASE Pop
  <2>1. CASE elist.head # elist.tail
    <3>1. elist' = [elist EXCEPT !.cell[elist.tail] = NoError, !.tail = Following(@)]
      BY <1>1, <2>1 DEF Pop
    <3>2. elist' \in Ring /\ Listed(elist') = Tail(Listed(elist))
      BY <2>1, <3>1, PopTakes
    <3>3. Listed(elist) # <<>>
      BY <2>1, CountBounds, ListedSeq, EmptySeq
    <3>4. Queue!Take
      BY <1>1, <2>1, <3>2, <3>3 DEF Pop, Queue!Take
    <3> QED BY <1>1, <2>1, <3>2, <3>4 DEF Pop, Queue!Next
  <2>2. CASE elist.head = elist.tail
    <3>1. Listed(elist) = <<>>
      BY <2>2, CountBounds, ListedSeq, EmptySeq
    <3>2. Queue!Take
      BY <1>1, <2>2, <3>1 DEF Pop, Queue!Take
    <3> QED BY <1>1, <2>2, <3>2 DEF Pop, Queue!Next
  <2> QED BY <2>1, <2>2
<1>2. ASSUME NEW e \in Error, Push(e) PROVE TypeOK' /\ Queue!Next
  <2>1. elist' = Pushed(elist, e) /\ ecaterror' = TRUE
    BY <1>2 DEF Push
  <2>2. Len(Listed(elist)) = Count(elist) /\ (Displaces(elist) <=> Count(elist) = EC_MAXELIST)
    BY ListedSeq, CountBounds
  <2>3. elist' \in Ring /\ Listed(elist') = Append(Queue!WithRoom(Listed(elist)), e)
    <3>1. CASE Displaces(elist)
      BY <2>1, <2>2, <3>1, PushDisplaces DEF Queue!WithRoom
    <3>2. CASE ~Displaces(elist)
      BY <2>1, <2>2, <3>2, PushAppends DEF Queue!WithRoom
    <3> QED BY <3>1, <3>2
  <2>4. Queue!Put(e)
    BY <2>1, <2>3 DEF Queue!Put
  <2> QED BY <2>1, <2>3, <2>4 DEF Queue!Next
<1>3. CASE UNCHANGED errVars
  BY <1>3 DEF errVars, Queue!qVars
<1> QED BY <1>1, <1>2, <1>3 DEF ErrNext

(* ErrorsInOrder holds of ecx_pusherror and ecx_poperror for rings of any  *)
(* size: errors leave in the order they came, only the oldest is displaced *)
(* and only in a full list, and the flag agrees with the list.             *)
THEOREM ListImplements == ErrSpec => ErrorsInOrder
<1>1. ErrInit => TypeOK /\ Queue!Init
  BY InitRefines
<1>2. TypeOK /\ [ErrNext]_errVars => TypeOK' /\ [Queue!Next]_(Queue!qVars)
  BY StepRefines
<1> QED BY <1>1, <1>2, PTL DEF ErrSpec, ErrorsInOrder, Queue!Spec

-----------------------------------------------------------------------------
(* A step that reports an error pushes it, and no other touches the list;  *)
(* the functions of the other services leave the hook alone.               *)
Unhooked == UNCHANGED <<hook, rx, call>>

(* ecx_SDOread and ecx_SDOwrite.                                           *)
LEMMA SdoErrors == SdoStep => [ErrNext]_errVars /\ Unhooked
<1> SUFFICES ASSUME SdoStep PROVE [ErrNext]_errVars /\ Unhooked
  OBVIOUS
<1> USE DEF Unhooked, LinkUnchanged, handled, callVars
<1>1. "abort" \in Error /\ "packet" \in Error
  BY ServicesConstants
<1>2. \A m : ErrorOf(m) \in Error
  BY <1>1 DEF ErrorOf
<1>3. CASE Initiate
  BY <1>3 DEF Initiate, Post, StartSend, handled
<1>4. CASE SdoNoResponse
  BY <1>4 DEF SdoNoResponse, Quiet
<1>5. CASE Unexpected
  BY <1>2, <1>5 DEF Unexpected, Report, ErrNext
<1>6. CASE Uploaded
  BY <1>1, <1>6 DEF Uploaded, TooSmall, Report, Quiet, ErrNext
<1>7. CASE UploadBegins
  BY <1>1, <1>7 DEF UploadBegins, TooSmall, Report, Quiet, ErrNext
<1>8. CASE Downloaded
  BY <1>8 DEF Downloaded, Quiet
<1>9. CASE Segment
  BY <1>9 DEF Segment, Post, StartSend, handled
<1>10. CASE SegmentPlaced
  BY <1>10 DEF SegmentPlaced, StartReceive, handled
<1>11. CASE SegmentFails
  BY <1>11 DEF SegmentFails, Quiet
<1>12. CASE SegmentUnexpected
  BY <1>2, <1>12 DEF SegmentUnexpected, Report, ErrNext
<1>13. CASE SegmentUploaded
  BY <1>13 DEF SegmentUploaded, Quiet
<1>14. CASE SegmentDownloaded
  BY <1>14 DEF SegmentDownloaded, Quiet
<1> QED
  BY <1>3, <1>4, <1>5, <1>6, <1>7, <1>8, <1>9, <1>10, <1>11, <1>12, <1>13, <1>14
     DEF SdoStep

(* ecx_RxPDO and ecx_TxPDO.                                                *)
LEMMA PdoErrors == PdoStep => [ErrNext]_errVars /\ Unhooked
<1> SUFFICES ASSUME PdoStep PROVE [ErrNext]_errVars /\ Unhooked
  OBVIOUS
<1> USE DEF Unhooked, LinkUnchanged, handled, callVars
<1>1. "packet" \in Error
  BY ServicesConstants
<1>2. CASE PdoSend \/ PdoSent \/ PdoRequest
  BY <1>2 DEF PdoSend, PdoSent, PdoRequest, Post, StartSend, handled, Quiet
<1>3. CASE PdoReceived
  BY <1>1, <1>3 DEF PdoReceived, Report, Quiet, ErrNext
<1>4. CASE PdoFails
  BY <1>1, <1>4 DEF PdoFails, Report, Quiet, ErrNext
<1> QED
  BY <1>2, <1>3, <1>4 DEF PdoStep

(* ecx_FOEread and ecx_FOEwrite report only to their caller.               *)
LEMMA FoeErrors == FoeStep => UNCHANGED errVars /\ Unhooked
<1> SUFFICES ASSUME FoeStep PROVE UNCHANGED errVars /\ Unhooked
  OBVIOUS
<1> USE DEF Unhooked, LinkUnchanged, handled, callVars
<1>1. CASE FoeRequest
  BY <1>1 DEF FoeRequest, Post, StartSend, handled
<1>2. CASE FoeEnds \/ FoeBusy \/ FoeRefused
  BY <1>2 DEF FoeEnds, FoeBusy, FoeRefused, Quiet
<1>3. CASE FoePacket
  BY <1>3 DEF FoePacket, StartSend, handled
<1>4. CASE FoeAck
  BY <1>4 DEF FoeAck, Post, StartSend, handled, Quiet
<1> QED
  BY <1>1, <1>2, <1>3, <1>4 DEF FoeStep

(* ecx_SoEread and ecx_SoEwrite.                                           *)
LEMMA SoeErrors == SoeStep => [ErrNext]_errVars /\ Unhooked
<1> SUFFICES ASSUME SoeStep PROVE [ErrNext]_errVars /\ Unhooked
  OBVIOUS
<1> USE DEF Unhooked, LinkUnchanged, handled, callVars
<1>1. "packet" \in Error /\ "soe" \in Error
  BY ServicesConstants
<1>2. CASE SoeReadRequest \/ SoeFragment
  BY <1>2 DEF SoeReadRequest, SoeFragment, Post, StartSend, handled
<1>3. CASE SoeFragmentSent
  BY <1>3 DEF SoeFragmentSent, StartEmpty, Quiet, handled
<1>4. CASE SoeEmptied
  BY <1>4 DEF SoeEmptied, StartReceive, Quiet, handled
<1>5. CASE SoeNoResponse
  BY <1>1, <1>5 DEF SoeNoResponse, Report, ErrNext
<1>6. CASE SoeReceived
  BY <1>6 DEF SoeReceived, StartReceive, Quiet, handled
<1>7. CASE SoeWritten
  BY <1>7 DEF SoeWritten, Quiet
<1>8. CASE SoeUnexpected
  BY <1>1, <1>8 DEF SoeUnexpected, Report, ErrNext
<1> QED
  BY <1>2, <1>3, <1>4, <1>5, <1>6, <1>7, <1>8 DEF SoeStep

(* The reading of the object dictionary.                                   *)
LEMMA InfoErrors == InfoStep => [ErrNext]_errVars /\ Unhooked
<1> SUFFICES ASSUME InfoStep PROVE [ErrNext]_errVars /\ Unhooked
  OBVIOUS
<1> USE DEF Unhooked, LinkUnchanged, handled, callVars
<1>1. "packet" \in Error /\ "info" \in Error
  BY ServicesConstants
<1>2. CASE InfoRequest
  BY <1>2 DEF InfoRequest, Post, StartSend, handled
<1>3. CASE ListReceived
  BY <1>1, <1>3 DEF ListReceived, Report, Quiet, ErrNext
<1>4. CASE MoreOfList \/ NextEntry
  BY <1>4 DEF MoreOfList, NextEntry, StartReceive, handled
<1>5. CASE DescriptionReceived \/ EntryReceived
  BY <1>5 DEF DescriptionReceived, EntryReceived, Quiet
<1>6. CASE InfoFails
  <2>1. \A m : InfoError(m) \in Error
    BY <1>1 DEF InfoError
  <2>2. Report(InfoError(mbxIn)) \/ Quiet
    BY <1>6 DEF InfoFails
  <2>3. UNCHANGED call
    BY <1>6 DEF InfoFails
  <2> QED
    BY <2>1, <2>2, <2>3 DEF Report, Quiet, ErrNext
<1> QED
  BY <1>2, <1>3, <1>4, <1>5, <1>6 DEF InfoStep

(* The functions of EoE report nothing to the list.                        *)
LEMMA EoeErrors == EoeStep => UNCHANGED errVars
<1> SUFFICES ASSUME EoeStep PROVE UNCHANGED errVars
  OBVIOUS
<1>1. CASE IpRequest
  BY <1>1 DEF IpRequest, Post, StartSend, handled
<1>2. CASE IpResponse \/ Polled \/ EoeNotReceived
  BY <1>2 DEF IpResponse, Polled, EoeNotReceived, Quiet
<1>3. CASE EoeSent
  BY <1>3 DEF EoeSent, Post, StartSend, handled, Quiet
<1>4. CASE EoeFragmentReceived
  BY <1>4 DEF EoeFragmentReceived, StartReceive, handled, Quiet
<1> QED
  BY <1>1, <1>2, <1>3, <1>4 DEF EoeStep

(* ecx_mbxreceive reports emergencies and mailbox errors, the hook nothing. *)
LEMMA LinkErrors == LinkStep => [ErrNext]_errVars
<1> SUFFICES ASSUME LinkStep PROVE [ErrNext]_errVars
  OBVIOUS
<1>1. "emergency" \in Error /\ "mailboxError" \in Error
  BY ServicesConstants
<1>2. CASE MbxEmpty \/ MbxWrite \/ MbxAvail \/ MbxRepeat \/ MbxAck \/ MbxAgain
  BY <1>2 DEF MbxEmpty, MbxWrite, MbxAvail, MbxRepeat, MbxAck, MbxAgain, handled
<1>3. CASE MbxRead
  <2>1. Handle(sm1) \/ UNCHANGED handled
    BY <1>3 DEF MbxRead
  <2>2. CASE UNCHANGED handled
    BY <2>2 DEF handled
  <2>3. CASE Handle(sm1)
    <3>1. CASE IsError(sm1)
      <4>1. sm1.op \in Error
        <5>1. sm1 = [op |-> "emergency"] \/ sm1 = [op |-> "mailboxError"]
          BY <3>1 DEF IsError, Emcy, MbxError
        <5>2. [op |-> "emergency"].op \in Error /\ [op |-> "mailboxError"].op \in Error
          BY <1>1
        <5>3. QED
          BY <5>1, <5>2
      <4>2. Push(sm1.op)
        BY <2>3, <3>1 DEF Handle
      <4>3. QED
        BY <4>1, <4>2 DEF ErrNext
    <3>2. CASE ~IsError(sm1)
      BY <2>3, <3>2 DEF Handle
    <3>3. QED
      BY <3>1, <3>2
  <2>4. QED
    BY <2>1, <2>2, <2>3
<1> QED
  BY <1>2, <1>3 DEF LinkStep

(* The caller begins another call.                                         *)
LEMMA CallErrors == Call => UNCHANGED <<errVars, hook, rx>>
<1> SUFFICES ASSUME Call PROVE UNCHANGED <<errVars, hook, rx>>
  OBVIOUS
<1>1. \A c : Enter(c) => UNCHANGED <<errVars, hook, rx>>
  BY DEF Enter, StartReceive, handled
<1>2. CASE SdoCalls
  BY <1>1, <1>2 DEF SdoCalls, CallRead, CallWrite
<1>3. CASE PdoCalls \/ FoeCalls \/ SoeCalls
  BY <1>1, <1>3 DEF PdoCalls, FoeCalls, SoeCalls, RxPDO, TxPDO, FoeRead, FoeWrite,
                    SoeRead, SoeWrite
<1>4. CASE InfoCalls
  BY <1>1, <1>4 DEF InfoCalls, ReadODlist, ReadODdescription, ReadOE
<1>5. CASE EoeCalls
  <2>1. CASE EOEgetIp \/ EoePoll \/ EOEsetIp(NewVal)
    BY <1>1, <2>1 DEF EOEgetIp, EoePoll, EOEsetIp
  <2>2. CASE EOEsend(NewVal)
    BY <2>2 DEF EOEsend, StartSend, handled
  <2>3. CASE \E room \in Room["frame"] : EOErecv(room)
    BY <2>3 DEF EOErecv, StartReceive, handled
  <2>4. QED
    BY <1>5, <2>1, <2>2, <2>3 DEF EoeCalls
<1> QED
  BY <1>2, <1>3, <1>4, <1>5 DEF Call

(* The slave does not reach the list of the master.                        *)
LEMMA SlaveErrors == Slave => UNCHANGED errVars /\ Unhooked
<1> SUFFICES ASSUME Slave PROVE UNCHANGED errVars /\ Unhooked
  OBVIOUS
<1>0. UNCHANGED call
  BY DEF Slave, Serve, Frames, FrameOut, Others, callVars
<1> USE <1>0 DEF Unhooked
<1>1. \A m, j : RespondAndGoOn(m, j) => UNCHANGED <<errVars, hook, rx>>
  BY DEF RespondAndGoOn, handled
<1>2. \A m : Respond(m) => UNCHANGED <<errVars, hook, rx>>
  BY <1>1 DEF Respond
<1>3. \A m : Spoil(m) => UNCHANGED <<errVars, hook, rx>>
  BY DEF Spoil, handled
<1>4. Absorb => UNCHANGED <<errVars, hook, rx>>
  BY DEF Absorb, handled
<1>5. CASE ServeSdo
  BY <1>2, <1>5 DEF ServeSdo, ServeUpload, ServeDownload, ServeUploadSegment,
                    ServeDownloadSegment, Refuse
<1>6. CASE ServePdo
  BY <1>2, <1>4, <1>6 DEF ServePdo
<1>7. CASE ServeFoe
  BY <1>2, <1>3, <1>4, <1>7 DEF ServeFoe, ServeFile, ServeAck, ServePacket, ServeBusy,
                                ServeFoeError, SendPacket
<1>8. CASE ServeSoe
  BY <1>1, <1>2, <1>3, <1>4, <1>8 DEF ServeSoe, ServeIdn, ServeFragment, ServeSoeError
<1>9. CASE ServeInfo
  BY <1>1, <1>2, <1>3, <1>9 DEF ServeInfo, ServeList, ServeDescription
<1>10. CASE ServeEoe
  BY <1>2, <1>4, <1>10 DEF ServeEoe, ServeIp, ServeFrame
<1>11. CASE Reject
  BY <1>3, <1>11 DEF Reject
<1>12. CASE Frames
  BY <1>12 DEF Frames, FrameOut, handled
<1>13. CASE Take \/ Repeat \/ SendOut \/ Emergency
  BY <1>13 DEF Take, Repeat, SendOut, Emergency, handled
<1> QED
  BY <1>5, <1>6, <1>7, <1>8, <1>9, <1>10, <1>11, <1>12, <1>13 DEF Slave, Serve

(* Whatever the services do is a step of the ring, or nothing to it.       *)
LEMMA StepErrors == [Next]_allVars => [ErrNext]_errVars
<1> SUFFICES ASSUME [Next]_allVars PROVE [ErrNext]_errVars
  OBVIOUS
<1>1. CASE SetUp
  BY <1>1 DEF SetUp, EOEdefinehook
<1>2. CASE Calls
  BY <1>2, CallErrors DEF Calls
<1>3. CASE PopError
  BY <1>3 DEF PopError, ErrNext
<1>4. CASE Master
  <2>1. CASE Placed \/ NotPlaced
    BY <2>1 DEF Placed, NotPlaced, StartReceive, handled, Quiet
  <2>2. QED
    BY <1>4, <2>1, SdoErrors, PdoErrors, FoeErrors, SoeErrors, InfoErrors, EoeErrors,
       LinkErrors DEF Master
<1>5. CASE Timer
  BY <1>5 DEF Timer, Expire, handled
<1>6. CASE Slave
  BY <1>6, SlaveErrors
<1>7. CASE Die
  BY <1>7 DEF Die, handled
<1>8. CASE UNCHANGED allVars
  BY <1>8 DEF allVars, mbxVars, handled
<1> QED
  BY <1>1, <1>2, <1>3, <1>4, <1>5, <1>6, <1>7, <1>8 DEF Next

(* ErrorsInOrder holds of all services: whatever they report, together     *)
(* with what ecx_mbxreceive reports, leaves the list in the order it came. *)
THEOREM ErrorsStayInOrder == Spec => ErrorsInOrder
<1>1. Init => ErrInit
  BY DEF Init, MailboxInit
<1>2. Spec => ErrSpec
  BY <1>1, StepErrors, PTL DEF Spec, ErrSpec
<1>3. QED
  BY <1>2, ListImplements

-----------------------------------------------------------------------------
(* A frame, in the parts of its value, and its fragments.  f says which    *)
(* value the frame with a number has.                                      *)
FrameParts == NParts["frame"]
Whole(v)   == Content("frame", v)
Part       == [obj : {"frame"}, val : Int, num : Nat]
Starts     == {k \in Nat : k * M < FrameParts}
Valued(f)  == DOMAIN f \subseteq Nat /\ \A n \in DOMAIN f : f[n] \in Int
Pieces(f)  == {Fragment(Whole(f[n]), n, k) : n \in DOMAIN f, k \in Starts}
IsPiece(m, f) == IsFragment(m) => m \in Pieces(f)

(* The hook has put together nothing, or the first r.no fragments of one   *)
(* of the frames; and what it completed was one of them.                   *)
RxState == [no : Nat, size : Nat, frameno : Nat, frame : Seq(Part), got : Seq(Part)]
Puts(r, f) ==
  r.no # 0 => /\ r.frameno \in DOMAIN f /\ r.size = FrameParts /\ r.no \in Starts
              /\ r.frame = SubSeq(Whole(f[r.frameno]), 1, r.no * M)
Got(r, f) == r.got = <<>> \/ \E n \in DOMAIN f : r.got = Whole(f[n])

(* A frame and a fragment have at least one part.                          *)
LEMMA Sizes == FrameParts \in Nat \ {0} /\ M \in Nat \ {0}
  BY MbxCallConstants, EoeConstants DEF FrameParts

(* A frame is a sequence of as many parts as frames have.                  *)
LEMMA WholeType ==
  ASSUME NEW v \in Int
  PROVE  Whole(v) \in Seq(Part) /\ Len(Whole(v)) = FrameParts /\ Whole(v) # <<>>
<1>1. Whole(v) = [i \in 1..FrameParts |-> [obj |-> "frame", val |-> v, num |-> i]]
  BY DEF Whole, Content, FrameParts
<1>2. \A i \in 1..FrameParts : [obj |-> "frame", val |-> v, num |-> i] \in Part
  BY Sizes DEF Part
<1>3. Whole(v) \in [1..FrameParts -> Part]
  BY <1>1, <1>2
<1>4. Whole(v) \in Seq(Part)
  BY <1>3, Sizes, SeqDef
<1>5. Len(Whole(v)) = FrameParts
  BY <1>3, <1>4, Sizes, LenProperties
<1> QED
  BY <1>4, <1>5, Sizes, EmptySeq

(* What was put together and the next piece, behind each other.            *)
LEMMA SubSeqsJoin ==
  ASSUME NEW T, NEW s \in Seq(T), NEW a \in Nat, NEW b \in Nat, a <= b, b <= Len(s)
  PROVE  /\ SubSeq(s, 1, a) \in Seq(T) /\ Len(SubSeq(s, 1, a)) = a
         /\ SubSeq(s, a + 1, b) \in Seq(T) /\ Len(SubSeq(s, a + 1, b)) = b - a
         /\ SubSeq(s, 1, a) \o SubSeq(s, a + 1, b) = SubSeq(s, 1, b)
<1>1. Len(s) \in Nat
  BY LenProperties
<1>2. /\ SubSeq(s, 1, a) \in Seq(T) /\ Len(SubSeq(s, 1, a)) = a
      /\ \A i \in 1..a : SubSeq(s, 1, a)[i] = s[i]
  BY <1>1, SubSeqProperties
<1>3. /\ SubSeq(s, 1, b) \in Seq(T) /\ Len(SubSeq(s, 1, b)) = b
      /\ \A i \in 1..b : SubSeq(s, 1, b)[i] = s[i]
  BY <1>1, SubSeqProperties
<1>4. /\ SubSeq(s, a + 1, b) \in Seq(T) /\ Len(SubSeq(s, a + 1, b)) = b - a
      /\ \A i \in 1..(b - a) : SubSeq(s, a + 1, b)[i] = s[a + i]
  <2>1. a + 1 \in Int /\ b \in Int /\ \A i \in (a + 1)..b : s[i] \in T
    BY <1>1, ElementOfSeq
  <2>2. /\ SubSeq(s, a + 1, b) \in Seq(T)
        /\ Len(SubSeq(s, a + 1, b)) = IF a + 1 <= b THEN b - (a + 1) + 1 ELSE 0
        /\ \A i \in 1..(b - (a + 1) + 1) : SubSeq(s, a + 1, b)[i] = s[(a + 1) + i - 1]
    BY <2>1, SubSeqProperties
  <2>3. b - (a + 1) + 1 = b - a /\ \A i \in Int : (a + 1) + i - 1 = a + i
    OBVIOUS
  <2> QED
    BY <2>2, <2>3
<1> DEFINE x == SubSeq(s, 1, a)
<1> DEFINE y == SubSeq(s, a + 1, b)
<1> DEFINE z == SubSeq(s, 1, b)
<1> HIDE DEF x, y, z
<1>5. /\ x \o y \in Seq(T) /\ Len(x \o y) = b
      /\ \A i \in 1..b : (x \o y)[i] = IF i <= a THEN x[i] ELSE y[i - a]
  <2>1. /\ x \in Seq(T) /\ y \in Seq(T) /\ Len(x) = a /\ Len(y) = b - a
    BY <1>2, <1>4 DEF x, y
  <2> QED
    BY <2>1, ConcatProperties
<1>6. \A i \in 1..b : (x \o y)[i] = z[i]
  <2>1. ASSUME NEW i \in 1..b PROVE (x \o y)[i] = z[i]
    <3>1. z[i] = s[i]
      BY <1>3 DEF z
    <3>2. CASE i <= a
      BY <1>2, <1>5, <3>1, <3>2 DEF x
    <3>3. CASE ~(i <= a)
      <4>1. i - a \in 1..(b - a) /\ a + (i - a) = i
        BY <3>3
      <4> QED
        BY <1>4, <1>5, <3>1, <3>3, <4>1 DEF y
    <3> QED
      BY <3>2, <3>3
  <2> QED
    BY <2>1
<1>7. x \o y = z
  <2>1. z \in Seq(T) /\ Len(z) = b
    BY <1>3 DEF z
  <2> QED
    BY <1>5, <1>6, <2>1, SeqEqual
<1> QED
  BY <1>2, <1>4, <1>7 DEF x, y, z

(* The fragments of a frame are pieces that follow each other.             *)
LEMMA ChunkIs ==
  ASSUME NEW v \in Int, NEW k \in Starts
  PROVE  /\ SubSeq(Whole(v), 1, k * M) \in Seq(Part)
         /\ Len(SubSeq(Whole(v), 1, k * M)) = k * M
         /\ Chunk(Whole(v), k) \in Seq(Part)
         /\ Len(Chunk(Whole(v), k)) \in Nat
         /\ k * M + Len(Chunk(Whole(v), k)) <= FrameParts
         /\ (k + 1) * M < FrameParts =>
              /\ k + 1 \in Starts
              /\ SubSeq(Whole(v), 1, k * M) \o Chunk(Whole(v), k) =
                   SubSeq(Whole(v), 1, (k + 1) * M)
         /\ FrameParts <= (k + 1) * M =>
              SubSeq(Whole(v), 1, k * M) \o Chunk(Whole(v), k) = Whole(v)
<1> DEFINE s == Whole(v)
<1> DEFINE a == k * M
<1> DEFINE c == (k + 1) * M
<1>1. s \in Seq(Part) /\ Len(s) = FrameParts
  BY WholeType
<1>2. k \in Nat /\ a < FrameParts /\ (c < FrameParts => k + 1 \in Starts)
  BY DEF Starts
<1>3. a \in Nat /\ c = a + M
  BY <1>2, Sizes
<1>4. Chunk(s, k) = SubSeq(s, a + 1, IF c < FrameParts THEN c ELSE FrameParts)
  BY <1>1 DEF Chunk
<1> HIDE DEF a, c, s
<1>5. SubSeq(s, 1, FrameParts) = s
  <2>1. /\ SubSeq(s, 1, FrameParts) \in Seq(Part)
        /\ Len(SubSeq(s, 1, FrameParts)) = FrameParts
        /\ \A i \in 1..FrameParts : SubSeq(s, 1, FrameParts)[i] = s[i]
    BY <1>1, Sizes, ElementOfSeq, SubSeqProperties
  <2> QED
    BY <1>1, <2>1, SeqEqual
<1>6. PICK b \in Nat : b = IF c < FrameParts THEN c ELSE FrameParts
  BY <1>3, Sizes
<1>7. a <= b /\ b <= FrameParts /\ a + (b - a) = b /\ b - a \in Nat
  BY <1>2, <1>3, <1>6, Sizes
<1>8. /\ SubSeq(s, 1, a) \in Seq(Part) /\ Len(SubSeq(s, 1, a)) = a
      /\ SubSeq(s, a + 1, b) \in Seq(Part) /\ Len(SubSeq(s, a + 1, b)) = b - a
      /\ SubSeq(s, 1, a) \o SubSeq(s, a + 1, b) = SubSeq(s, 1, b)
  BY <1>1, <1>3, <1>7, SubSeqsJoin
<1>9. /\ SubSeq(s, 1, a) \in Seq(Part) /\ Len(SubSeq(s, 1, a)) = a
      /\ Chunk(s, k) \in Seq(Part) /\ Len(Chunk(s, k)) \in Nat
      /\ a + Len(Chunk(s, k)) <= FrameParts
      /\ SubSeq(s, 1, a) \o Chunk(s, k) = SubSeq(s, 1, b)
  BY <1>4, <1>6, <1>7, <1>8
<1>10. c < FrameParts => SubSeq(s, 1, a) \o Chunk(s, k) = SubSeq(s, 1, c)
  BY <1>6, <1>9
<1>11. FrameParts <= c => SubSeq(s, 1, a) \o Chunk(s, k) = s
  <2>1. FrameParts <= c => b = FrameParts
    BY <1>3, <1>6, Sizes
  <2> QED
    BY <1>5, <1>9, <2>1
<1> QED
  BY <1>2, <1>9, <1>10, <1>11 DEF a, c, s

(* What a fragment of one of the frames says.                              *)
LEMMA PieceIs ==
  ASSUME NEW f, NEW m \in Pieces(f)
  PROVE  \E n \in DOMAIN f, k \in Starts :
           /\ m = Fragment(Whole(f[n]), n, k)
           /\ m.op = "eoe" /\ m.type = "fragment"
           /\ m.no = k /\ m.frameno = n /\ m.data = Chunk(Whole(f[n]), k)
           /\ f[n] \in Int =>
                /\ m.offset = IF k = 0 THEN FrameParts ELSE k * M
                /\ m.last <=> FrameParts <= (k + 1) * M
<1>1. PICK n \in DOMAIN f, k \in Starts : m = Fragment(Whole(f[n]), n, k)
  BY DEF Pieces
<1>2. /\ m.op = "eoe" /\ m.type = "fragment"
      /\ m.no = k /\ m.frameno = n /\ m.data = Chunk(Whole(f[n]), k)
      /\ m.offset = IF k = 0 THEN Len(Whole(f[n])) ELSE k * M
      /\ m.last = (Len(Whole(f[n])) <= (k + 1) * M)
  BY <1>1 DEF Fragment
<1>3. f[n] \in Int => Len(Whole(f[n])) = FrameParts
  BY WholeType
<1> QED
  BY <1>1, <1>2, <1>3

(* ecx_EOEreadfragment appends a fragment for which its buffer has room.   *)
LEMMA JoinedIs ==
  ASSUME NEW no, NEW size \in Nat, NEW frameno, NEW frame, NEW got, NEW r, NEW m,
         r = [no |-> no, size |-> size, frameno |-> frameno, frame |-> frame, got |-> got],
         Len(frame) + Len(m.data) <= size, size <= RxRoom
  PROVE  Joined(r, m) = [no |-> no + 1, size |-> size, frameno |-> frameno,
                         frame |-> frame \o m.data, got |-> got]
<1>1. r.frame = frame /\ r.size = size
  OBVIOUS
<1>2. (IF r.size < RxRoom THEN r.size ELSE RxRoom) = size
  BY <1>1, MailboxConstants
<1>3. Joined(r, m) = [r EXCEPT !.frame = @ \o m.data, !.no = @ + 1]
  BY <1>1, <1>2 DEF Joined
<1> QED
  BY <1>3

(* ecx_EOEreadfragment puts fragments of the same frame together, in       *)
(* order, whatever fragment of whatever frame it is given.                 *)
LEMMA ReadsRight ==
  ASSUME NEW f, Valued(f), NEW r \in RxState, Puts(r, f), Got(r, f),
         NEW m \in Pieces(f), FrameParts <= RxRoom
  PROVE  /\ ReadFragment(r, m) \in RxState
         /\ Puts(ReadFragment(r, m), f) /\ Got(ReadFragment(r, m), f)
<1>1. PICK n \in DOMAIN f, k \in Starts :
        /\ m.no = k /\ m.frameno = n /\ m.data = Chunk(Whole(f[n]), k)
        /\ m.offset = IF k = 0 THEN FrameParts ELSE k * M
        /\ m.last <=> FrameParts <= (k + 1) * M
  BY PieceIs DEF Valued
<1> DEFINE W == Whole(f[n])
<1> DEFINE a == k * M
<1> DEFINE c == (k + 1) * M
<1>2. /\ n \in Nat /\ f[n] \in Int /\ k \in Nat /\ a \in Nat /\ c \in Nat
      /\ k = 0 => a = 0
  BY Sizes DEF Valued, Starts
<1> DEFINE D == Chunk(W, k)
<1>data. m.data = D
  BY <1>1
<1>chunk. /\ SubSeq(W, 1, a) \in Seq(Part) /\ Len(SubSeq(W, 1, a)) = a
          /\ D \in Seq(Part) /\ Len(D) \in Nat
          /\ a + Len(D) <= FrameParts
          /\ c < FrameParts =>
               /\ k + 1 \in Starts
               /\ SubSeq(W, 1, a) \o D = SubSeq(W, 1, c)
          /\ FrameParts <= c => SubSeq(W, 1, a) \o D = W
  <2>1. f[n] \in Int
    BY <1>2
  <2> HIDE DEF W, a, c
  <2> QED
    BY <2>1, ChunkIs DEF W, a, c
<1>4. W \in Seq(Part)
  BY <1>2, WholeType
<1>last. m.last <=> FrameParts <= c
  BY <1>1
<1> HIDE DEF W, a, c, D
<1>3. /\ SubSeq(W, 1, a) \in Seq(Part) /\ Len(SubSeq(W, 1, a)) = a
      /\ m.data \in Seq(Part) /\ Len(m.data) \in Nat
      /\ a + Len(m.data) <= FrameParts
      /\ c < FrameParts =>
           /\ k + 1 \in Starts
           /\ SubSeq(W, 1, a) \o m.data = SubSeq(W, 1, c)
      /\ FrameParts <= c => SubSeq(W, 1, a) \o m.data = W
  BY <1>chunk, <1>data
<1> DEFINE now == Started(r, m)
<1>5. Fresh = [no |-> 0, size |-> 0, frameno |-> 0, frame |-> <<>>, got |-> <<>>]
  BY DEF Fresh
<1>6. <<>> \in Seq(Part)
  BY EmptySeq
<1>7. CASE ~Expects(now, m)
  <2>1. r.got \in Seq(Part)
    BY DEF RxState
  <2>2. Reset(r) = [no |-> 0, size |-> 0, frameno |-> 0, frame |-> <<>>, got |-> r.got]
    BY DEF Reset, Fresh
  <2>3. ReadFragment(r, m) = Reset(r)
    BY <1>7 DEF ReadFragment, Fresh
  <2>4. Reset(r) \in RxState /\ Reset(r).no = 0 /\ Reset(r).got = r.got
    BY <1>6, <2>1, <2>2 DEF RxState
  <2> QED
    BY <2>3, <2>4 DEF Puts, Got
<1>8. CASE Expects(now, m)
  <2>1. /\ now = [no |-> k, size |-> FrameParts, frameno |-> n, frame |-> now.frame,
                 got |-> r.got]
        /\ now.frame = SubSeq(W, 1, a)
    <3>1. CASE k = 0
      <4>1. now = [no |-> 0, size |-> FrameParts, frameno |-> n, frame |-> <<>>,
                  got |-> r.got]
        BY <1>1, <3>1 DEF Started, Fresh
      <4>2. SubSeq(W, 1, a) = <<>>
        <5>1. a = 0
          BY <1>2, <3>1
        <5>2. Len(SubSeq(W, 1, a)) = 0
          BY <1>3, <5>1
        <5> QED
          BY <1>3, <5>2, EmptySeq
      <4>3. now.frame = <<>>
        BY <4>1
      <4>4. now = [no |-> k, size |-> FrameParts, frameno |-> n, frame |-> now.frame,
                   got |-> r.got]
        BY <3>1, <4>1, <4>3
      <4> QED
        BY <4>2, <4>3, <4>4
    <3>2. CASE k # 0
      <4>1. now = r /\ k > 0
        BY <1>1, <1>2, <3>2 DEF Started, Fresh
      <4>2. r.no = k /\ r.frameno = n
        BY <1>1, <1>8, <4>1 DEF Expects
      <4>3. r.size = FrameParts /\ r.frame = SubSeq(W, 1, a)
        BY <3>2, <4>2 DEF Puts, W, a
      <4>4. r = [no |-> r.no, size |-> r.size, frameno |-> r.frameno, frame |-> r.frame,
                 got |-> r.got]
        BY DEF RxState
      <4> QED
        BY <4>1, <4>2, <4>3, <4>4
    <3> QED
      BY <3>1, <3>2
  <2> HIDE DEF now
  <2> DEFINE out == [no |-> k + 1, size |-> FrameParts, frameno |-> n,
                     frame |-> now.frame \o m.data, got |-> r.got]
  <2>2. Joined(now, m) = out
    <3>1. Len(now.frame) + Len(m.data) <= FrameParts /\ FrameParts \in Nat
      BY <1>3, <2>1, Sizes
    <3>2. now = [no |-> k, size |-> FrameParts, frameno |-> n, frame |-> now.frame,
                 got |-> r.got]
      BY <2>1
    <3> QED
      BY <3>1, <3>2, JoinedIs
  <2>3. ReadFragment(r, m) = IF m.last THEN [Fresh EXCEPT !.got = out.frame] ELSE out
    BY <1>8, <2>2 DEF ReadFragment, Fresh, now
  <2>4. CASE m.last
    <3>1. now.frame \o m.data = W
      BY <1>last, <1>3, <2>1, <2>4
    <3>2. ReadFragment(r, m) = [no |-> 0, size |-> 0, frameno |-> 0, frame |-> <<>>,
                                got |-> W]
      BY <2>3, <2>4, <3>1 DEF Fresh
    <3> QED
      BY <1>4, <1>6, <3>2 DEF RxState, Puts, Got, W
  <2>5. CASE ~m.last
    <3>0. ~(FrameParts <= c)
      BY <1>last, <2>5
    <3>c. c < FrameParts
      BY <1>2, <3>0, Sizes
    <3>1. k + 1 \in Starts /\ now.frame \o m.data = SubSeq(W, 1, c)
      BY <1>3, <2>1, <3>c
    <3>2. k + 1 \in Nat /\ SubSeq(W, 1, c) \in Seq(Part)
      <4>1. k + 1 \in Nat /\ k + 1 \in Starts /\ f[n] \in Int
        BY <1>2, <3>1
      <4>2. SubSeq(Whole(f[n]), 1, (k + 1) * M) \in Seq(Part)
        BY <4>1, ChunkIs
      <4> QED
        BY <4>1, <4>2 DEF W, c
    <3>3. ReadFragment(r, m) = [no |-> k + 1, size |-> FrameParts, frameno |-> n,
                                frame |-> SubSeq(W, 1, c), got |-> r.got]
      BY <2>3, <2>5, <3>1
    <3>4. r.got \in Seq(Part)
      BY DEF RxState
    <3> QED
      BY <1>2, <3>1, <3>2, <3>3, <3>4, Sizes DEF RxState, Puts, Got, W, c
  <2> QED
    BY <2>4, <2>5
<1> QED
  BY <1>7, <1>8

-----------------------------------------------------------------------------
(* The frames the slave has sent: their values are below 0.                *)
OutFrames(k) == [n \in 1..k |-> -n]
Out == OutFrames(frames)

(* Fragments of the slave in the mailbox, waiting, and read. *)
Carried ==
  /\ IsPiece(sm1, Out) /\ IsPiece(lastOut, Out) /\ IsPiece(mbxIn, Out)
  /\ outbox \in Seq(Pieces(Out))

Hooked == rx \in RxState /\ Puts(rx, Out) /\ Got(rx, Out)

(* What ecx_EOErecv has received so far, and in the end. *)
Received ==
  call.kind = "EOErecv" =>
    /\ call = [kind |-> "EOErecv", room |-> call.room, frameno |-> call.frameno]
    /\ call.room \in Nat /\ pc \in {"response", "returned"}
    /\ pc = "response" /\ sent = 0 => buf = <<>>
    /\ pc = "response" /\ sent # 0 =>
         /\ call.frameno \in 1..frames /\ FrameParts <= call.room /\ sent \in Starts
         /\ buf = SubSeq(Whole(-call.frameno), 1, sent * M)
    /\ pc = "returned" /\ wkc > 0 => \E n \in 1..frames : buf = Whole(-n)

SlaveFrames ==
  /\ frames \in 0..MaxFrame
  /\ Carried /\ Hooked
  /\ pc = "returned" => link = "done"
  /\ Received

(* In the family of EoE: the fragments of the master, and what the slave   *)
(* makes of them.                                                          *)
EoeOps   == {"none", "eoe"}
EoeKinds == {"none", "EOEgetIp", "EOEsetIp", "poll", "EOEsend", "EOErecv"}
EoePlaces == {"drain", "request", "response", "sending", "returned"}

Carries(g) ==
  /\ call.kind = "EOEsend" => g[txframeno] = call.val
  /\ IsPiece(mbxOut.msg, g) /\ (sm0 # NoMsg => IsPiece(sm0.msg, g)) /\ IsPiece(job, g)
  /\ xfer.kind = "eoe" => Puts(xfer.rx, g)

MasterFrames ==
  /\ pc \in EoePlaces /\ call.kind \in EoeKinds
  /\ mbxOut = [cnt |-> mbxOut.cnt, msg |-> mbxOut.msg] /\ mbxOut.msg.op \in EoeOps
  /\ sm0 # NoMsg => sm0.msg.op \in EoeOps
  /\ job.op \in EoeOps
  /\ xfer.kind \in EoeOps
  /\ xfer.kind = "eoe" => xfer.rx \in RxState /\ xfer.rx.got = <<>>
  /\ stored = [o \in Obj |-> stored[o]]
  /\ \E v \in 0..calls : stored["frame"] = Whole(v)
  /\ txframeno \in 0..calls
  /\ call.kind = "EOEsend" => txframeno # 0 /\ sent \in Nat
  /\ \E g \in [1..txframeno -> 0..calls] : Carries(g)

(* In the other families there are no frames. *)
NoFrames == ~hook /\ rx.got = <<>> /\ call.kind # "EOErecv"

FrameInv ==
  /\ calls \in 0..MaxCalls
  /\ IF family = "eoe" THEN SlaveFrames /\ MasterFrames ELSE NoFrames

(* The numbers of frames have not come round yet, and the hook has room    *)
(* for a frame.  Both are needed: sixteen frames later, what was lost of   *)
(* one frame may be made up for with pieces of another; and a frame larger *)
(* than the buffer is delivered without its end.                           *)
FewFrames == MaxFrame < FrameNos /\ MaxCalls < FrameNos /\ FrameParts <= RxRoom

(* A number below the modulus is itself.                                   *)
LEMMA SmallMod ==
  ASSUME NEW x \in Nat, NEW y \in Nat \ {0}, x < y
  PROVE  x % y = x
  OBVIOUS

(* A frame more does not change what the others are.                       *)
LEMMA MoreFrames ==
  ASSUME NEW f, NEW g, DOMAIN f \subseteq DOMAIN g, \A n \in DOMAIN f : g[n] = f[n]
  PROVE  /\ Pieces(f) \subseteq Pieces(g)
         /\ \A m : IsPiece(m, f) => IsPiece(m, g)
         /\ \A r : Puts(r, f) => Puts(r, g)
         /\ \A r : Got(r, f) => Got(r, g)
<1>1. Pieces(f) \subseteq Pieces(g)
  <2>1. ASSUME NEW m \in Pieces(f) PROVE m \in Pieces(g)
    <3>1. PICK n \in DOMAIN f, k \in Starts : m = Fragment(Whole(f[n]), n, k)
      BY DEF Pieces
    <3>2. n \in DOMAIN g /\ g[n] = f[n]
      BY <3>1
    <3>3. m = Fragment(Whole(g[n]), n, k)
      BY <3>1, <3>2
    <3> QED
      BY <3>2, <3>3 DEF Pieces
  <2> QED
    BY <2>1
<1>2. \A m : IsPiece(m, f) => IsPiece(m, g)
  BY <1>1 DEF IsPiece
<1>3. \A r : Puts(r, f) => Puts(r, g)
  BY DEF Puts
<1>4. \A r : Got(r, f) => Got(r, g)
  <2>1. ASSUME NEW r, Got(r, f) PROVE Got(r, g)
    <3>1. CASE r.got = <<>>
      BY <3>1 DEF Got
    <3>2. ASSUME NEW n \in DOMAIN f, r.got = Whole(f[n]) PROVE Got(r, g)
      BY <3>2 DEF Got
    <3> QED
      BY <2>1, <3>1, <3>2 DEF Got
  <2> QED
    BY <2>1
<1> QED
  BY <1>1, <1>2, <1>3, <1>4

(* The frames of the slave, as a function. *)
LEMMA OutIs ==
  ASSUME frames \in 0..MaxFrame
  PROVE  /\ DOMAIN Out = 1..frames /\ \A n \in 1..frames : Out[n] = -n
         /\ Valued(Out)
  BY EoeConstants DEF Out, OutFrames, Valued

(* The property follows.                                                   *)
LEMMA InvSuffices == FrameInv => FrameIsRight
<1> SUFFICES ASSUME FrameInv PROVE FrameIsRight
  OBVIOUS
<1>1. CASE family = "eoe"
  <2>1. \A n \in 1..frames : Whole(-n) \in FramesOut
    BY <1>1, EoeConstants DEF FrameInv, SlaveFrames, FramesOut, Whole
  <2>2. rx.got \in FramesOut \cup {<<>>}
    <3>1. CASE rx.got = <<>>
      BY <3>1
    <3>2. ASSUME NEW n \in DOMAIN Out, rx.got = Whole(Out[n])
          PROVE  rx.got \in FramesOut
      <4>1. n \in 1..frames /\ Out[n] = -n
        BY <1>1, OutIs DEF FrameInv, SlaveFrames
      <4> QED
        BY <2>1, <3>2, <4>1
    <3> QED
      BY <1>1, <3>1, <3>2 DEF FrameInv, SlaveFrames, Hooked, Got
  <2>3. Returned({"EOErecv"}) /\ wkc > 0 => buf \in FramesOut
    BY <1>1, <2>1 DEF FrameInv, SlaveFrames, Received, Returned
  <2>4. stored["frame"] \in FramesSent
    <3>1. calls \in 0..MaxCalls /\ MaxCalls \in Nat
      BY ServicesConstants DEF FrameInv
    <3>2. 0..calls \subseteq 0..MaxCalls
      BY <3>1
    <3>3. \A v \in 0..MaxCalls : Whole(v) \in FramesSent
      BY DEF FramesSent, Whole
    <3>4. \E v \in 0..calls : stored["frame"] = Whole(v)
      BY <1>1 DEF FrameInv, MasterFrames
    <3> QED
      BY <3>2, <3>3, <3>4
  <2> QED
    BY <2>2, <2>3, <2>4 DEF FrameIsRight
<1>2. CASE family # "eoe"
  BY <1>2 DEF FrameInv, NoFrames, FrameIsRight, Returned
<1> QED
  BY <1>1, <1>2

(* At the start there are none.                                            *)
LEMMA InitFrames == Init => FrameInv
<1> SUFFICES ASSUME Init PROVE FrameInv
  OBVIOUS
<1> USE DEF Init, MailboxInit, CallInit, EoeInit
<1>1. ~IsFragment(NoMsg)
  BY DEF IsFragment, NoMsg
<1>2. <<>> \in Seq(Pieces(Out)) /\ <<>> \in Seq(Part)
  BY EmptySeq
<1>3. Carried
  BY <1>1, <1>2 DEF Carried, IsPiece
<1>4. Hooked
  BY <1>2 DEF Hooked, Puts, Got, RxState, Fresh
<1>5. SlaveFrames
  BY <1>3, <1>4, EoeConstants DEF SlaveFrames, Received
<1>6. Carries([n \in 1..0 |-> 0])
  BY <1>1 DEF Carries, IsPiece, NoXfer, NoMsg
<1>7. [n \in 1..0 |-> 0] \in [1..txframeno -> 0..calls]
  OBVIOUS
<1>8. stored["frame"] = Whole(0) /\ stored = [o \in Obj |-> stored[o]]
  BY EoeConstants DEF Whole
<1>9. MasterFrames
  <2>1. call.kind = "none" /\ pc = "returned" /\ xfer.kind = "none"
    BY DEF NoXfer
  <2>2. mbxOut = [cnt |-> mbxOut.cnt, msg |-> mbxOut.msg] /\ mbxOut.msg.op = "none"
    BY DEF NoMsg
  <2>3. sm0 = NoMsg /\ job.op = "none"
    BY DEF NoMsg
  <2>4. calls = 0 /\ txframeno = 0
    OBVIOUS
  <2>7. MaxCalls \in Nat
    BY ServicesConstants
  <2>5. \E v \in 0..calls : stored["frame"] = Whole(v)
    BY <1>8, <2>4
  <2>6. \E g \in [1..txframeno -> 0..calls] : Carries(g)
    BY <1>6, <1>7
  <2> HIDE DEF Init, MailboxInit, CallInit, EoeInit
  <2>8. calls \in 0..MaxCalls /\ txframeno \in 0..calls
    BY <2>4, <2>7
  <2> QED
    BY <1>8, <2>1, <2>2, <2>3, <2>4, <2>5, <2>6, <2>8 
       DEF MasterFrames, EoePlaces, EoeKinds, EoeOps
<1>10. NoFrames
  BY DEF NoFrames, Fresh
<1>11. calls = 0 /\ MaxCalls \in Nat
  BY ServicesConstants
<1> HIDE DEF Init, MailboxInit, CallInit, EoeInit
<1> QED
  BY <1>5, <1>9, <1>10, <1>11 DEF FrameInv

-----------------------------------------------------------------------------
(* The other families.                                                     *)
LEMMA LinkUnhooked == LinkStep /\ ~hook => UNCHANGED <<hook, rx>>
<1> SUFFICES ASSUME LinkStep, ~hook PROVE UNCHANGED <<hook, rx>>
  OBVIOUS
<1>1. CASE MbxEmpty \/ MbxWrite \/ MbxAvail \/ MbxRepeat \/ MbxAck \/ MbxAgain
  BY <1>1 DEF MbxEmpty, MbxWrite, MbxAvail, MbxRepeat, MbxAck, MbxAgain, handled
<1>2. CASE MbxRead
  <2>1. Handle(sm1) \/ UNCHANGED handled
    BY <1>2 DEF MbxRead
  <2> QED
    BY <2>1 DEF Handle, handled
<1> QED
  BY <1>1, <1>2 DEF LinkStep

(* ecx_EOErecv is only called in the family of EoE.                        *)
LEMMA CallElsewhere == Call /\ family # "eoe" => call'.kind # "EOErecv"
<1> SUFFICES ASSUME Call, family # "eoe" PROVE call'.kind # "EOErecv"
  OBVIOUS
<1>1. \A c : Enter(c) => call' = c
  BY DEF Enter
<1>2. CASE SdoCalls
  <2>1. \A o, room : CallRead(o, room) => call'.kind = "read"
    BY <1>1 DEF CallRead
  <2>2. \A o, v : CallWrite(o, v) => call'.kind = "write"
    BY <1>1 DEF CallWrite
  <2> QED
    BY <1>2, <2>1, <2>2 DEF SdoCalls
<1>3. CASE PdoCalls
  <2>1. \A room : TxPDO(room) => call'.kind = "TxPDO"
    BY <1>1 DEF TxPDO
  <2>2. \A v : RxPDO(v) => call'.kind = "RxPDO"
    BY <1>1 DEF RxPDO
  <2> QED
    BY <1>3, <2>1, <2>2 DEF PdoCalls
<1>4. CASE FoeCalls
  <2>1. \A f, room : FoeRead(f, room) => call'.kind = "FOEread"
    BY <1>1 DEF FoeRead
  <2>2. \A f, v : FoeWrite(f, v) => call'.kind = "FOEwrite"
    BY <1>1 DEF FoeWrite
  <2> QED
    BY <1>4, <2>1, <2>2 DEF FoeCalls
<1>5. CASE SoeCalls
  <2>1. \A i, room : SoeRead(i, room) => call'.kind = "SoEread"
    BY <1>1 DEF SoeRead
  <2>2. \A i, v : SoeWrite(i, v) => call'.kind = "SoEwrite"
    BY <1>1 DEF SoeWrite
  <2> QED
    BY <1>5, <2>1, <2>2 DEF SoeCalls
<1>6. CASE InfoCalls
  <2>1. ReadODlist => call'.kind = "ODlist"
    BY <1>1 DEF ReadODlist
  <2>2. \A o : ReadODdescription(o) => call'.kind = "od"
    BY <1>1 DEF ReadODdescription
  <2>3. \A o : ReadOE(o) => call'.kind = "oe"
    BY <1>1 DEF ReadOE
  <2> QED
    BY <1>6, <2>1, <2>2, <2>3 DEF InfoCalls
<1> QED
  BY <1>2, <1>3, <1>4, <1>5, <1>6 DEF Call

(* A step is a call, or leaves their number alone.                        *)
LEMMA Counted == [Next]_allVars /\ calls \in 0..MaxCalls =>
                   family' = family /\ calls' \in 0..MaxCalls /\ calls' \in {calls, calls + 1}
<1> SUFFICES ASSUME [Next]_allVars, calls \in 0..MaxCalls
             PROVE  family' = family /\ calls' \in 0..MaxCalls /\ calls' \in {calls, calls + 1}
  OBVIOUS
<1>1. CASE Calls
  <2>1. family' = family /\ calls < MaxCalls /\ calls' = calls + 1
    BY <1>1 DEF Calls
  <2>2. MaxCalls \in Nat
    BY ServicesConstants
  <2> QED
    BY <2>1, <2>2
<1>2. CASE ~Calls
  <2>1. UNCHANGED sessionVars
    BY <1>2 DEF Next, SetUp, PopError, Master, Timer, Slave, Serve, Frames, Others,
                sessionVars, allVars
  <2> QED
    BY <2>1 DEF sessionVars
<1> QED
  BY <1>1, <1>2

(* In the other families there are no frames, and no step brings one.      *)
LEMMA Elsewhere == FrameInv /\ family # "eoe" /\ [Next]_allVars => NoFrames'
<1> SUFFICES ASSUME NoFrames, family # "eoe", [Next]_allVars PROVE NoFrames'
  BY DEF FrameInv
<1> SUFFICES hook' = hook /\ rx' = rx /\ call'.kind # "EOErecv"
  BY DEF NoFrames
<1>0. call' = call => call'.kind # "EOErecv"
  BY DEF NoFrames
<1>1. ~SetUp
  BY DEF SetUp
<1>2. CASE Calls
  BY <1>2, CallErrors, CallElsewhere DEF Calls
<1>3. CASE PopError
  BY <1>0, <1>3 DEF PopError, LinkUnchanged, callVars
<1>4. CASE Master
  <2>1. CASE SdoStep \/ PdoStep \/ FoeStep \/ SoeStep \/ InfoStep
    BY <1>0, <2>1, SdoErrors, PdoErrors, FoeErrors, SoeErrors, InfoErrors DEF Unhooked
  <2>2. CASE Placed \/ NotPlaced
    BY <1>0, <2>2 DEF Placed, NotPlaced, StartReceive, handled, Quiet, LinkUnchanged
  <2>3. CASE IpRequest \/ IpResponse \/ Polled
    BY <1>0, <2>3 DEF IpRequest, IpResponse, Polled, Post, StartSend, handled, Quiet,
                      LinkUnchanged
  <2>4. CASE EoeSent
    BY <1>0, <2>4 DEF EoeSent, Post, StartSend, handled, Quiet, LinkUnchanged
  <2>5. ~EoeFragmentReceived /\ ~EoeNotReceived
    BY DEF NoFrames, EoeFragmentReceived, EoeNotReceived
  <2>6. CASE LinkStep /\ Others
    BY <1>0, <2>6, LinkUnhooked DEF NoFrames, Others, callVars
  <2> QED
    BY <1>4, <2>1, <2>2, <2>3, <2>4, <2>5, <2>6 DEF Master, EoeStep
<1>5. CASE Timer
  BY <1>0, <1>5 DEF Timer, Expire, handled, Others, callVars
<1>6. CASE Slave
  BY <1>0, <1>6, SlaveErrors DEF Unhooked
<1>7. CASE Die /\ Others
  BY <1>0, <1>7 DEF Die, handled, Others, callVars
<1>8. CASE UNCHANGED allVars
  BY <1>0, <1>8 DEF allVars, mbxVars, handled, callVars
<1> QED
  BY <1>1, <1>2, <1>3, <1>4, <1>5, <1>6, <1>7, <1>8 DEF Next

(* In the family of EoE, none of the other services' functions runs.       *)
LEMMA OnlyEoe ==
  ASSUME MasterFrames, family = "eoe"
  PROVE  /\ ~SdoStep /\ ~PdoStep /\ ~FoeStep /\ ~SoeStep /\ ~InfoStep
         /\ ~ServeSdo /\ ~ServePdo /\ ~ServeFoe /\ ~ServeSoe /\ ~ServeInfo
<1>1. /\ pc \in {"drain", "request", "response", "sending", "returned"}
      /\ call.kind \in {"none", "EOEgetIp", "EOEsetIp", "poll", "EOEsend", "EOErecv"}
      /\ job.op \in {"none", "eoe"}
  BY DEF MasterFrames, EoePlaces, EoeKinds, EoeOps
<1>2. ~SdoStep
  BY <1>1 DEF SdoStep, Initiate, SdoNoResponse, Unexpected, Uploaded, UploadBegins,
              Downloaded, Segment, SegmentPlaced, SegmentFails, SegmentUnexpected,
              SegmentUploaded, SegmentDownloaded, IsSdo, Answered, At
<1>3. ~PdoStep
  BY <1>1 DEF PdoStep, PdoSend, PdoSent, PdoRequest, PdoReceived, PdoFails
<1>4. ~FoeStep
  BY <1>1 DEF FoeStep, FoeRequest, FoeEnds, FoePacket, FoeAck, FoeBusy, FoeRefused, IsFoe
<1>5. ~SoeStep
  BY <1>1 DEF SoeStep, SoeReadRequest, SoeFragment, SoeFragmentSent, SoeEmptied,
              SoeNoResponse, SoeReceived, SoeWritten, SoeUnexpected, IsSoe, Answered, At
<1>6. ~InfoStep
  BY <1>1 DEF InfoStep, InfoRequest, ListReceived, MoreOfList, DescriptionReceived,
              InfoFails, EntryReceived, NextEntry, IsInfo
<1>7. ~ServeSdo /\ ~ServePdo /\ ~ServeFoe
  BY <1>1 DEF ServeSdo, ServeUpload, ServeDownload, ServeUploadSegment,
              ServeDownloadSegment, Refuse, ServePdo, ServeFoe, ServeFile, ServeAck,
              ServePacket, ServeBusy, ServeFoeError, IsFoeJob, Acknowledged, NextPacket
<1>8. ~ServeSoe /\ ~ServeInfo
  BY <1>1 DEF ServeSoe, ServeIdn, ServeFragment, ServeSoeError, IsSoeOf, ServeInfo,
              ServeList, ServeDescription
<1> QED
  BY <1>2, <1>3, <1>4, <1>5, <1>6, <1>7, <1>8

-----------------------------------------------------------------------------
(* The family of EoE: what the parts of a step leave alone.                *)
LEMMA SendIs ==
  ASSUME NEW m, StartSend(m)
  PROVE  /\ UNCHANGED <<sm0, sm1, lastOut, outbox, rx, job>> /\ mbxIn' = NoMsg
         /\ mbxOut' = [cnt |-> mbxOut'.cnt, msg |-> mbxOut'.msg] /\ mbxOut'.msg = m
  BY DEF StartSend, slaveVars, handled

(* ecx_mbxreceive begins with an empty buffer.                             *)
LEMMA ReceiveIs ==
  ASSUME NEW t, StartReceive(t)
  PROVE  /\ UNCHANGED <<sm0, sm1, lastOut, outbox, rx, job, mbxOut>> /\ mbxIn' = NoMsg
  BY DEF StartReceive, slaveVars, handled

(* A request is placed and the function goes on to another place.          *)
LEMMA PostIs ==
  ASSUME NEW m, NEW p, Post(m, p)
  PROVE  /\ UNCHANGED <<sm0, sm1, lastOut, outbox, rx, job>> /\ mbxIn' = NoMsg
         /\ mbxOut' = [cnt |-> mbxOut'.cnt, msg |-> mbxOut'.msg] /\ mbxOut'.msg = m
         /\ pc' = p /\ UNCHANGED <<call, stored, xfer>>
  BY SendIs DEF Post, serverVars

(* A function returns, and leaves the slave and the hook alone.            *)
LEMMA ReturnIs ==
  ASSUME NEW r, Return(r), Quiet
  PROVE  /\ UNCHANGED <<sm0, sm1, lastOut, outbox, rx, job, mbxOut, stored, xfer, link>>
         /\ mbxIn' = NoMsg /\ pc' = "returned" /\ wkc' = r
  BY DEF Return, Quiet, LinkUnchanged, slaveVars, serverVars

(* A function begins by emptying the mailbox.                              *)
LEMMA EnterIs ==
  ASSUME NEW c, Enter(c)
  PROVE  /\ UNCHANGED <<sm0, sm1, lastOut, outbox, rx, job, mbxOut, stored, xfer>>
         /\ mbxIn' = NoMsg /\ pc' = "drain" /\ call' = c /\ pc = "returned"
  BY ReceiveIs DEF Enter, serverVars

(* The fragments of the slave do not change but by being read.             *)
LEMMA StillCarried ==
  ASSUME Carried, Hooked, frames' = frames, rx' = rx,
         sm1' \in {sm1, lastOut} \/ ~IsFragment(sm1'),
         lastOut' = lastOut \/ ~IsFragment(lastOut'),
         outbox' = outbox, mbxIn' \in {mbxIn, NoMsg}
  PROVE  Carried' /\ Hooked'
<1>1. Out' = Out
  BY DEF Out
<1>2. ~IsFragment(NoMsg)
  BY DEF IsFragment, NoMsg
<1>3. IsPiece(sm1', Out) /\ IsPiece(lastOut', Out) /\ IsPiece(mbxIn', Out)
  BY <1>2 DEF Carried, IsPiece
<1> QED
  BY <1>1, <1>3 DEF Carried, Hooked

(* What has been received does not change while the function does not.     *)
LEMMA StillReceived ==
  ASSUME Received, UNCHANGED <<pc, call, buf, sent, frames>>, pc = "returned" => wkc' = wkc
  PROVE  Received'
  BY DEF Received

(* A step of the master or the slave that does not start a frame: what is  *)
(* on its way is what was, or what the master sends, a piece of a frame.   *)
LEMMA StillSent ==
  ASSUME MasterFrames, calls' \in 0..MaxCalls, calls \in Nat, calls' \in {calls, calls + 1},
         txframeno' = txframeno, xfer' = xfer,
         stored' = stored \/ (/\ stored' = [o \in Obj |-> stored'[o]]
                              /\ stored'["frame"] = stored["frame"]),
         pc' \in EoePlaces, call'.kind \in EoeKinds,
         call'.kind = "EOEsend" => call' = call /\ sent' \in Nat,
         mbxOut' = [cnt |-> mbxOut'.cnt, msg |-> mbxOut'.msg], mbxOut'.msg.op \in EoeOps,
         \A g \in [1..txframeno -> 0..calls] : Carries(g) => IsPiece(mbxOut'.msg, g),
         sm0' \in {sm0, NoMsg, mbxOut},
         job' \in {job, NoMsg} \/ (sm0 # NoMsg /\ job' = sm0.msg)
  PROVE  MasterFrames'
<1>1. PICK g \in [1..txframeno -> 0..calls] : Carries(g)
  BY DEF MasterFrames
<1>2. NoMsg.op = "none" /\ ~IsFragment(NoMsg)
  BY DEF NoMsg, IsFragment
<1>3. 0..calls \subseteq 0..calls'
  OBVIOUS
<1>4. g \in [1..txframeno' -> 0..calls']
  BY <1>1, <1>3
<1>5. Carries(g)'
  <2>1. call'.kind = "EOEsend" => g[txframeno'] = call'.val
    BY <1>1 DEF Carries
  <2>2. IsPiece(mbxOut'.msg, g) /\ IsPiece(mbxOut.msg, g)
    BY <1>1 DEF Carries
  <2>3. sm0' # NoMsg => IsPiece(sm0'.msg, g)
    BY <1>1, <2>2 DEF Carries
  <2>4. IsPiece(job', g)
    BY <1>1, <1>2 DEF Carries, IsPiece
  <2>5. xfer'.kind = "eoe" => Puts(xfer'.rx, g)
    BY <1>1 DEF Carries
  <2> QED
    BY <2>1, <2>2, <2>3, <2>4, <2>5 DEF Carries
<1>6. \E h \in [1..txframeno' -> 0..calls'] : Carries(h)'
  BY <1>4, <1>5
<1>7. sm0' # NoMsg => sm0'.msg.op \in EoeOps
  BY DEF MasterFrames
<1>8. job'.op \in EoeOps
  BY <1>2 DEF MasterFrames, EoeOps
<1>9. stored' = [o \in Obj |-> stored'[o]] /\ \E v \in 0..calls' : stored'["frame"] = Whole(v)
  BY <1>3 DEF MasterFrames
<1>10. txframeno' \in 0..calls'
  BY <1>3 DEF MasterFrames
<1>11. call'.kind = "EOEsend" => txframeno' # 0 /\ sent' \in Nat
  BY DEF MasterFrames
<1>12. /\ xfer'.kind \in EoeOps
       /\ xfer'.kind = "eoe" => xfer'.rx \in RxState /\ xfer'.rx.got = <<>>
  BY DEF MasterFrames
<1> QED
  BY <1>6, <1>7, <1>8, <1>9, <1>10, <1>11, <1>12 DEF MasterFrames

-----------------------------------------------------------------------------
(* The functions.  Those that do not receive a frame leave the fragments   *)
(* of the slave alone, and what they send, if anything, is not a fragment, *)
(* but for ecx_EOEsend.                                                    *)
LEMMA NoFrameReceived ==
  ASSUME SlaveFrames, UNCHANGED <<sm1, lastOut, outbox, rx, frames>>, mbxIn' = NoMsg,
         pc' = "returned" => link' = "done", call'.kind # "EOErecv"
  PROVE  SlaveFrames'
<1>1. Carried' /\ Hooked'
  BY StillCarried DEF SlaveFrames
<1>2. Received'
  BY DEF Received
<1> QED
  BY <1>1, <1>2 DEF SlaveFrames

(* Nor does a function that sends no frame change the master's fragments.  *)
LEMMA NoFrameSent ==
  ASSUME MasterFrames, calls \in Nat, calls' \in 0..MaxCalls, calls' \in {calls, calls + 1},
         UNCHANGED <<sm0, job, stored, xfer, txframeno>>,
         mbxOut' = mbxOut
           \/ (/\ mbxOut' = [cnt |-> mbxOut'.cnt, msg |-> mbxOut'.msg]
               /\ mbxOut'.msg.op = "eoe" /\ ~IsFragment(mbxOut'.msg)),
         pc' \in EoePlaces, call'.kind \in EoeKinds,
         call'.kind = "EOEsend" => call' = call /\ sent' = sent
  PROVE  MasterFrames'
<1>1. /\ mbxOut' = [cnt |-> mbxOut'.cnt, msg |-> mbxOut'.msg] /\ mbxOut'.msg.op \in EoeOps
      /\ \A g \in [1..txframeno -> 0..calls] : Carries(g) => IsPiece(mbxOut'.msg, g)
  BY DEF MasterFrames, Carries, IsPiece, EoeOps
<1>2. call'.kind = "EOEsend" => call' = call /\ sent' \in Nat
  BY DEF MasterFrames
<1> QED
  BY <1>1, <1>2, StillSent

(* ecx_EOEgetIp, ecx_EOEsetIp and the polling of the mailbox.              *)
LEMMA IpFunctions ==
  ASSUME SlaveFrames, MasterFrames, calls \in Nat,
         calls' \in 0..MaxCalls, calls' \in {calls, calls + 1}, UNCHANGED eoeVars,
         IpRequest \/ IpResponse \/ Polled \/ Placed \/ NotPlaced
  PROVE  SlaveFrames' /\ MasterFrames'
<1>0. txframeno' = txframeno /\ frames' = frames
  BY DEF eoeVars
<1>1. pc = "request" => call.kind # "EOErecv"
  BY DEF SlaveFrames, Received
<1>2. call.kind \in EoeKinds
  BY DEF MasterFrames
<1>3. CASE IpRequest
  <2>1. PICK m : Post(m, "request") /\ m.op = "eoe" /\ m.type = call.kind
    <3>1. \A d : /\ [op |-> "eoe", type |-> call.kind, data |-> d].op = "eoe"
                 /\ [op |-> "eoe", type |-> call.kind, data |-> d].type = call.kind
      OBVIOUS
    <3> QED
      BY <1>3, <3>1 DEF IpRequest
  <2>2. call.kind \in {"EOEsetIp", "EOEgetIp"}
    BY <1>3 DEF IpRequest, IsIp
  <2>3. ~IsFragment(m)
    BY <2>1, <2>2 DEF IsFragment
  <2>4. pc' \in EoePlaces /\ pc' # "returned" /\ call' = call
    BY <2>1, PostIs DEF EoePlaces
  <2> QED
    BY <1>0, <1>2, <2>1, <2>2, <2>3, <2>4, PostIs, NoFrameReceived, NoFrameSent
<1>4. CASE IpResponse \/ Polled
  <2>1. PICK r : Return(r)
    BY <1>4 DEF IpResponse, Polled
  <2>2. Quiet /\ call' = call /\ call.kind \in {"EOEsetIp", "EOEgetIp", "poll"} /\ link = "done"
    BY <1>4 DEF IpResponse, Polled, IsIp, At
  <2>3. pc' \in EoePlaces
    BY <2>1, <2>2, ReturnIs DEF EoePlaces
  <2> QED
    BY <1>0, <1>2, <2>1, <2>2, <2>3, ReturnIs, NoFrameReceived, NoFrameSent
<1>5. CASE Placed
  <2>1. StartReceive("running") /\ UNCHANGED <<call, sent, stored, xfer>>
    BY <1>5 DEF Placed, serverVars
  <2>2. call.kind # "EOErecv" /\ pc' = "response" /\ pc' \in EoePlaces
    BY <1>1, <1>5 DEF Placed, Answered, At, EoePlaces
  <2> QED
    BY <1>0, <1>2, <2>1, <2>2, ReceiveIs, NoFrameReceived, NoFrameSent
<1>6. CASE NotPlaced
  <2>1. Return(wkc) /\ Quiet /\ UNCHANGED <<call, sent>> /\ link = "done"
    BY <1>6 DEF NotPlaced, At
  <2>2. call.kind # "EOErecv"
    BY <1>1, <1>6 DEF NotPlaced, At
  <2>3. pc' \in EoePlaces
    BY <2>1, ReturnIs DEF EoePlaces
  <2> QED
    BY <1>0, <1>2, <2>1, <2>2, <2>3, ReturnIs, NoFrameReceived, NoFrameSent
<1> QED
  BY <1>3, <1>4, <1>5, <1>6

(* They begin.                                                             *)
LEMMA IpCalls ==
  ASSUME SlaveFrames, MasterFrames, calls \in Nat,
         calls' \in 0..MaxCalls, calls' \in {calls, calls + 1}, UNCHANGED eoeVars,
         EOEgetIp \/ EoePoll \/ EOEsetIp(NewVal)
  PROVE  SlaveFrames' /\ MasterFrames'
<1>1. PICK c : Enter(c) /\ c.kind \in {"EOEgetIp", "EOEsetIp", "poll"}
  BY DEF EOEgetIp, EoePoll, EOEsetIp
<1>2. /\ UNCHANGED <<sm0, sm1, lastOut, outbox, rx, job, mbxOut, stored, xfer>>
      /\ mbxIn' = NoMsg /\ pc' = "drain" /\ call' = c
  BY <1>1, EnterIs
<1>3. pc' \in EoePlaces /\ call'.kind \in EoeKinds
  BY <1>1, <1>2 DEF EoePlaces, EoeKinds
<1> QED
  BY <1>1, <1>2, <1>3, NoFrameReceived, NoFrameSent DEF eoeVars

(* ecx_EOEsend: the fragments of a frame in their order, with one number.  *)
LEMMA FrameBegins ==
  ASSUME FewFrames, SlaveFrames, MasterFrames, calls \in Nat, calls' \in 0..MaxCalls,
         calls' = calls + 1, EOEsend(NewVal)
  PROVE  SlaveFrames' /\ MasterFrames'
<1> DEFINE n == txframeno + 1
<1> DEFINE m == Fragment(Whole(calls + 1), n, 0)
<1>1. PICK g \in [1..txframeno -> 0..calls] : Carries(g)
  BY DEF MasterFrames
<1>2. txframeno \in 0..calls /\ n \in 1..calls'
  BY DEF MasterFrames
<1>3. txframeno' = n
  <2>1. n < FrameNos /\ n \in Nat /\ FrameNos \in Nat \ {0}
    BY <1>2, EoeConstants, ServicesConstants DEF FewFrames
  <2>2. txframeno' = n % FrameNos
    BY DEF EOEsend
  <2> QED
    BY <2>1, <2>2, SmallMod
<1>4. /\ pc = "returned" /\ pc' = "sending" /\ UNCHANGED <<stored, xfer, frames>>
      /\ call' = [kind |-> "EOEsend", obj |-> "frame", val |-> calls + 1] /\ sent' = 1
  BY DEF EOEsend, serverVars, NewVal
<1>5. StartSend(m)
  BY <1>3 DEF EOEsend, NewVal, Whole
<1>6. /\ UNCHANGED <<sm0, sm1, lastOut, outbox, rx, job>> /\ mbxIn' = NoMsg
      /\ mbxOut' = [cnt |-> mbxOut'.cnt, msg |-> mbxOut'.msg] /\ mbxOut'.msg = m
  <2> HIDE DEF m
  <2> QED
    BY <1>5, SendIs
<1>7. SlaveFrames'
  BY <1>4, <1>6, NoFrameReceived
<1>8. PICK h \in [1..n -> 0..calls'] :
        /\ h[n] = calls + 1 /\ n \in DOMAIN h
        /\ DOMAIN g \subseteq DOMAIN h /\ \A i \in DOMAIN g : h[i] = g[i]
  <2> DEFINE f == [i \in 1..n |-> IF i <= txframeno THEN g[i] ELSE calls + 1]
  <2>1. /\ f \in [1..n -> 0..calls'] /\ f[n] = calls + 1 /\ n \in DOMAIN f
        /\ DOMAIN g \subseteq DOMAIN f /\ \A i \in DOMAIN g : f[i] = g[i]
    BY <1>1, <1>2
  <2> HIDE DEF f, n
  <2> QED
    BY <2>1
<1>9. m \in Pieces(h)
  <2>1. 0 \in Starts
    BY Sizes DEF Starts
  <2>2. m = Fragment(Whole(h[n]), n, 0)
    BY <1>8
  <2> HIDE DEF m, n
  <2> QED
    BY <1>8, <2>1, <2>2 DEF Pieces
<1>10. /\ \A x : IsPiece(x, g) => IsPiece(x, h)
       /\ \A r : Puts(r, g) => Puts(r, h)
  BY <1>8, MoreFrames
<1>11. Carries(h)'
  <2> HIDE DEF m, n
  <2>1. h[txframeno'] = call'.val
    BY <1>3, <1>4, <1>8
  <2>2. IsPiece(mbxOut'.msg, h)
    BY <1>6, <1>9 DEF IsPiece
  <2>3. /\ sm0' # NoMsg => IsPiece(sm0'.msg, h)
        /\ IsPiece(job', h)
        /\ xfer'.kind = "eoe" => Puts(xfer'.rx, h)
    BY <1>1, <1>4, <1>6, <1>10 DEF Carries
  <2> QED
    BY <2>1, <2>2, <2>3 DEF Carries
<1>12. m.op = "eoe"
  BY DEF Fragment
<1> HIDE DEF m
<1>13. txframeno' \in 0..calls' /\ txframeno' # 0 /\ sent' \in Nat
  BY <1>2, <1>3, <1>4
<1>14. \E f \in [1..txframeno' -> 0..calls'] : Carries(f)'
  BY <1>3, <1>8, <1>11
<1>15. \E v \in 0..calls' : stored'["frame"] = Whole(v)
  BY <1>4 DEF MasterFrames
<1>16. pc' \in EoePlaces /\ call'.kind \in EoeKinds /\ mbxOut'.msg.op \in EoeOps
  BY <1>4, <1>6, <1>12 DEF EoePlaces, EoeKinds, EoeOps
<1> QED
  BY <1>4, <1>6, <1>7, <1>13, <1>14, <1>15, <1>16 DEF MasterFrames

(* ecx_EOEsend sends the next piece of the same frame, or returns.         *)
LEMMA FrameGoesOn ==
  ASSUME SlaveFrames, MasterFrames, calls \in 0..MaxCalls, calls' = calls, EoeSent
  PROVE  SlaveFrames' /\ MasterFrames'
<1>1. /\ call.kind = "EOEsend" /\ link = "done" /\ calls \in Nat
      /\ txframeno' = txframeno /\ frames' = frames
  BY DEF EoeSent, At, eoeVars
<1>2. CASE wkc > 0 /\ sent * M < FrameParts
  <2> DEFINE m == Fragment(Whole(call.val), txframeno, sent)
  <2>1. Post(m, "sending") /\ sent' = sent + 1
    BY <1>2 DEF EoeSent, Whole, FrameParts
  <2>2. m.op = "eoe"
    BY DEF Fragment
  <2>3. sent \in Starts /\ txframeno \in Nat \ {0}
    BY <1>1, <1>2 DEF MasterFrames, Starts
  <2>4. \A g \in [1..txframeno -> 0..calls] : Carries(g) => IsPiece(m, g)
    <3>1. ASSUME NEW g \in [1..txframeno -> 0..calls], Carries(g) PROVE IsPiece(m, g)
      <4>1. g[txframeno] = call.val /\ txframeno \in DOMAIN g
        BY <1>1, <2>3, <3>1 DEF Carries
      <4>2. m = Fragment(Whole(g[txframeno]), txframeno, sent)
        BY <4>1
      <4> HIDE DEF m
      <4> QED
        BY <2>3, <4>1, <4>2 DEF IsPiece, Pieces
    <3> QED
      BY <3>1
  <2> HIDE DEF m
  <2>5. /\ UNCHANGED <<sm0, sm1, lastOut, outbox, rx, job>> /\ mbxIn' = NoMsg
        /\ mbxOut' = [cnt |-> mbxOut'.cnt, msg |-> mbxOut'.msg] /\ mbxOut'.msg = m
        /\ pc' = "sending" /\ UNCHANGED <<call, stored, xfer>>
    BY <2>1, PostIs
  <2>6. SlaveFrames'
    BY <1>1, <2>5, NoFrameReceived
  <2>7. /\ pc' \in EoePlaces /\ call'.kind \in EoeKinds /\ sent' \in Nat
        /\ mbxOut'.msg.op \in EoeOps
    BY <1>1, <2>1, <2>2, <2>5 DEF EoePlaces, EoeKinds, EoeOps, MasterFrames
  <2> QED
    BY <1>1, <2>4, <2>5, <2>6, <2>7, StillSent
<1>3. CASE ~(wkc > 0 /\ sent * M < FrameParts)
  <2>1. Return(wkc) /\ Quiet /\ UNCHANGED <<call, sent>>
    BY <1>3 DEF EoeSent, FrameParts
  <2>2. /\ UNCHANGED <<sm0, sm1, lastOut, outbox, rx, job, mbxOut, stored, xfer, link>>
        /\ mbxIn' = NoMsg /\ pc' = "returned" /\ pc' \in EoePlaces
    BY <2>1, ReturnIs DEF EoePlaces
  <2>3. call'.kind \in EoeKinds
    BY <2>1 DEF MasterFrames
  <2> QED
    BY <1>1, <2>1, <2>2, <2>3, NoFrameReceived, NoFrameSent
<1> QED
  BY <1>2, <1>3

-----------------------------------------------------------------------------
(* ecx_EOErecv: a fragment that goes on with the frame is the next of it.  *)
LEMMA ReceiveBegins ==
  ASSUME SlaveFrames, MasterFrames, calls \in Nat, calls' \in 0..MaxCalls,
         calls' \in {calls, calls + 1}, NEW room \in Room["frame"], EOErecv(room)
  PROVE  SlaveFrames' /\ MasterFrames'
<1>1. room \in Nat
  BY EoeConstants, ServicesConstants
<1>2. /\ call' = [kind |-> "EOErecv", room |-> room, frameno |-> 0]
      /\ buf' = <<>> /\ sent' = 0 /\ pc' = "response" /\ pc = "returned"
      /\ UNCHANGED <<stored, xfer, txframeno, frames>>
  BY DEF EOErecv, serverVars, eoeVars
<1>3. UNCHANGED <<sm0, sm1, lastOut, outbox, rx, job, mbxOut>> /\ mbxIn' = NoMsg
  BY ReceiveIs DEF EOErecv
<1>4. Carried' /\ Hooked'
  BY <1>2, <1>3, StillCarried DEF SlaveFrames
<1>5. Received'
  BY <1>1, <1>2 DEF Received
<1>6. SlaveFrames'
  BY <1>2, <1>4, <1>5 DEF SlaveFrames
<1>7. pc' \in EoePlaces /\ call'.kind \in EoeKinds /\ call'.kind # "EOEsend"
  BY <1>2 DEF EoePlaces, EoeKinds
<1> QED
  BY <1>2, <1>3, <1>6, <1>7, NoFrameSent

(* ecx_EOErecv returns without a frame.                                    *)
LEMMA NotReceived ==
  ASSUME SlaveFrames, MasterFrames, calls \in Nat, calls' = calls, calls \in 0..MaxCalls,
         EoeNotReceived
  PROVE  SlaveFrames' /\ MasterFrames'
<1>1. /\ call.kind = "EOErecv" /\ UNCHANGED <<call, buf, sent, txframeno, frames>>
      /\ link = "done"
  BY DEF EoeNotReceived, eoeVars, At
<1>2. Return(IF wkc > 0 THEN INVALID_RX_DATA ELSE wkc) /\ Quiet
  BY DEF EoeNotReceived
<1>3. /\ UNCHANGED <<sm0, sm1, lastOut, outbox, rx, job, mbxOut, stored, xfer, link>>
      /\ mbxIn' = NoMsg /\ pc' = "returned"
      /\ wkc' = IF wkc > 0 THEN INVALID_RX_DATA ELSE wkc
  BY <1>2, ReturnIs
<1>4. ~(wkc' > 0)
  BY <1>3 DEF INVALID_RX_DATA
<1>5. Carried' /\ Hooked'
  BY <1>1, <1>3, StillCarried DEF SlaveFrames
<1>6. Received'
  BY <1>1, <1>3, <1>4 DEF SlaveFrames, Received
<1>7. SlaveFrames'
  BY <1>1, <1>3, <1>5, <1>6 DEF SlaveFrames
<1>8. pc' \in EoePlaces /\ call'.kind \in EoeKinds /\ call'.kind # "EOEsend"
  BY <1>1, <1>3 DEF EoePlaces, EoeKinds
<1> QED
  BY <1>1, <1>3, <1>7, <1>8, NoFrameSent

(* The fragment ecx_EOErecv takes is the next piece of the frame it is at. *)
LEMMA NextPieceIs ==
  ASSUME SlaveFrames, call.kind = "EOErecv", pc = "response",
         IsFragment(mbxIn), GoesOnWith(mbxIn)
  PROVE  \E n \in 1..frames, k \in Starts :
           /\ k = sent /\ buf = SubSeq(Whole(-n), 1, k * M) /\ FrameParts <= call.room
           /\ mbxIn.frameno = n /\ (sent # 0 => call.frameno = n)
           /\ mbxIn.data = Chunk(Whole(-n), k)
           /\ mbxIn.last <=> FrameParts <= (k + 1) * M
<1>1. mbxIn \in Pieces(Out)
  BY DEF SlaveFrames, Carried, IsPiece
<1>2. DOMAIN Out = 1..frames /\ Valued(Out) /\ \A n \in 1..frames : Out[n] = -n
  BY OutIs DEF SlaveFrames
<1>3. PICK n \in DOMAIN Out, k \in Starts :
        /\ mbxIn.no = k /\ mbxIn.frameno = n /\ mbxIn.data = Chunk(Whole(Out[n]), k)
        /\ mbxIn.offset = IF k = 0 THEN FrameParts ELSE k * M
        /\ mbxIn.last <=> FrameParts <= (k + 1) * M
  BY <1>1, <1>2, PieceIs DEF Valued
<1>4. n \in 1..frames /\ Out[n] = -n /\ frames \in Nat
  BY <1>2, <1>3, EoeConstants DEF SlaveFrames
<1>5. -n \in Int
  BY <1>4
<1>6. CASE sent = 0
  <2>1. k = 0 /\ FrameParts <= call.room
    BY <1>3, <1>6 DEF GoesOnWith
  <2>2. buf = <<>>
    BY <1>6 DEF SlaveFrames, Received
  <2>3. SubSeq(Whole(-n), 1, k * M) = <<>>
    <3>1. k * M = 0
      BY <2>1, Sizes
    <3>2. /\ SubSeq(Whole(-n), 1, k * M) \in Seq(Part)
          /\ Len(SubSeq(Whole(-n), 1, k * M)) = 0
      BY <1>5, <3>1, ChunkIs
    <3> QED
      BY <3>2, EmptySeq
  <2> QED
    BY <1>3, <1>4, <1>6, <2>1, <2>2, <2>3
<1>7. CASE sent # 0
  <2>1. /\ call.frameno \in 1..frames /\ FrameParts <= call.room /\ sent \in Starts
        /\ buf = SubSeq(Whole(-call.frameno), 1, sent * M)
    BY <1>7 DEF SlaveFrames, Received
  <2>2. mbxIn.frameno = call.frameno /\ mbxIn.offset = Len(buf) /\ (mbxIn.no = sent \/ mbxIn.no = 0)
    BY <1>7 DEF GoesOnWith
  <2>3. n = call.frameno
    BY <1>3, <2>2
  <2>4. k = sent
    <3>1. Len(buf) = sent * M
      BY <1>5, <2>1, <2>3, ChunkIs
    <3>2. sent * M < FrameParts
      BY <2>1 DEF Starts
    <3>3. CASE k = 0
      <4>1. FrameParts = sent * M
        BY <1>3, <2>2, <3>1, <3>3
      <4> QED
        BY <3>2, <4>1, Sizes
    <3> QED
      BY <1>3, <2>2, <3>3
  <2> QED
    BY <1>3, <1>4, <1>7, <2>1, <2>3, <2>4
<1> QED
  BY <1>6, <1>7

(* ecx_EOErecv appends it, and waits for more or returns the frame.        *)
LEMMA FragmentReceived ==
  ASSUME SlaveFrames, MasterFrames, calls \in Nat, calls' = calls, calls \in 0..MaxCalls,
         EoeFragmentReceived
  PROVE  SlaveFrames' /\ MasterFrames'
<1>1. /\ call.kind = "EOErecv" /\ pc = "response" /\ link = "done"
      /\ IsFragment(mbxIn) /\ GoesOnWith(mbxIn)
      /\ UNCHANGED <<txframeno, frames>>
  BY DEF EoeFragmentReceived, Answered, At, eoeVars
<1>2. PICK n \in 1..frames, k \in Starts :
        /\ k = sent /\ buf = SubSeq(Whole(-n), 1, k * M) /\ FrameParts <= call.room
        /\ mbxIn.frameno = n /\ (sent # 0 => call.frameno = n)
        /\ mbxIn.data = Chunk(Whole(-n), k)
        /\ mbxIn.last <=> FrameParts <= (k + 1) * M
  BY <1>1, NextPieceIs
<1> DEFINE W == Whole(-n)
<1> DEFINE c == (k + 1) * M
<1>3. -n \in Int /\ k \in Nat /\ c \in Nat /\ call.room \in Nat
  BY <1>1, EoeConstants, Sizes DEF SlaveFrames, Received, Starts
<1>4. /\ Len(buf) = k * M /\ Len(mbxIn.data) \in Nat /\ k * M + Len(mbxIn.data) <= FrameParts
      /\ c < FrameParts => k + 1 \in Starts /\ buf \o mbxIn.data = SubSeq(W, 1, c)
      /\ FrameParts <= c => buf \o mbxIn.data = W
  <2>1. -n \in Int
    BY <1>3
  <2> HIDE DEF W, c
  <2>2. buf = SubSeq(W, 1, k * M) /\ mbxIn.data = Chunk(W, k)
    BY <1>2 DEF W
  <2>3. /\ Len(SubSeq(W, 1, k * M)) = k * M
        /\ Len(Chunk(W, k)) \in Nat /\ k * M + Len(Chunk(W, k)) <= FrameParts
        /\ c < FrameParts => k + 1 \in Starts
                               /\ SubSeq(W, 1, k * M) \o Chunk(W, k) = SubSeq(W, 1, c)
        /\ FrameParts <= c => SubSeq(W, 1, k * M) \o Chunk(W, k) = W
    BY <2>1, ChunkIs DEF W, c
  <2> QED
    BY <2>2, <2>3
<1>5. Len(buf) + Len(mbxIn.data) <= call.room
  <2>1. \A x \in Int : x <= FrameParts => x <= call.room
    BY <1>2, <1>3, Sizes
  <2>2. Len(buf) + Len(mbxIn.data) \in Int
    BY <1>3, <1>4, Sizes
  <2> QED
    BY <1>4, <2>1, <2>2
<1>6. buf' = buf \o mbxIn.data /\ sent' = k + 1
  BY <1>2, <1>5 DEF EoeFragmentReceived
<1>7. call' = [kind |-> "EOErecv", room |-> call.room, frameno |-> n]
  <2>1. call = [kind |-> "EOErecv", room |-> call.room, frameno |-> call.frameno]
    BY <1>1 DEF SlaveFrames, Received
  <2>2. call' = IF sent = 0 THEN [call EXCEPT !.frameno = n] ELSE call
    BY <1>2 DEF EoeFragmentReceived
  <2>3. \A r, f : [[kind |-> "EOErecv", room |-> r, frameno |-> f] EXCEPT !.frameno = n]
                    = [kind |-> "EOErecv", room |-> r, frameno |-> n]
    OBVIOUS
  <2>4. [call EXCEPT !.frameno = n] = [kind |-> "EOErecv", room |-> call.room, frameno |-> n]
    BY <2>1, <2>3
  <2> QED
    BY <1>2, <2>1, <2>2, <2>4
<1>8. /\ call'.kind = "EOErecv" /\ call'.room = call.room /\ call'.frameno = n
      /\ call' = [kind |-> "EOErecv", room |-> call'.room, frameno |-> call'.frameno]
  BY <1>7
<1> HIDE DEF W, c
<1>9. CASE mbxIn.last
  <2>1. Return(wkc) /\ Quiet
    BY <1>9 DEF EoeFragmentReceived
  <2>2. /\ UNCHANGED <<sm0, sm1, lastOut, outbox, rx, job, mbxOut, stored, xfer, link>>
        /\ mbxIn' = NoMsg /\ pc' = "returned"
    BY <2>1, ReturnIs
  <2>3. Carried' /\ Hooked'
    BY <1>1, <2>2, StillCarried DEF SlaveFrames
  <2>4. buf' = Whole(-n)
    BY <1>2, <1>4, <1>6, <1>9 DEF W, c
  <2>5. \E i \in 1..frames' : buf' = Whole(-i)
    BY <1>1, <2>4
  <2>6. Received'
    BY <1>3, <1>8, <2>2, <2>5 DEF Received
  <2>7. SlaveFrames'
    BY <1>1, <2>2, <2>3, <2>6 DEF SlaveFrames
  <2>8. pc' \in EoePlaces /\ call'.kind \in EoeKinds /\ call'.kind # "EOEsend"
    BY <1>8, <2>2 DEF EoePlaces, EoeKinds
  <2> QED
    BY <1>1, <2>2, <2>7, <2>8, NoFrameSent
<1>10. CASE ~mbxIn.last
  <2>1. StartReceive("running") /\ UNCHANGED <<pc, stored, xfer>>
    BY <1>10 DEF EoeFragmentReceived, serverVars
  <2>2. UNCHANGED <<sm0, sm1, lastOut, outbox, rx, job, mbxOut>> /\ mbxIn' = NoMsg
    BY <2>1, ReceiveIs
  <2>3. Carried' /\ Hooked'
    BY <1>1, <2>2, StillCarried DEF SlaveFrames
  <2>4. c < FrameParts
    BY <1>2, <1>3, <1>10, Sizes DEF c
  <2>5. /\ sent' # 0 /\ sent' \in Starts /\ n \in 1..frames'
        /\ buf' = SubSeq(Whole(-n), 1, sent' * M)
    <3>1. sent' = k + 1 /\ sent' # 0 /\ frames' = frames
      BY <1>1, <1>3, <1>6
    <3>2. k + 1 \in Starts /\ buf' = SubSeq(W, 1, (k + 1) * M)
      BY <1>4, <1>6, <2>4 DEF c
    <3> QED
      BY <3>1, <3>2 DEF W
  <2>6. Received'
    BY <1>1, <1>2, <1>3, <1>8, <2>1, <2>5 DEF Received
  <2>7. SlaveFrames'
    BY <1>1, <2>1, <2>3, <2>6 DEF SlaveFrames
  <2>8. pc' \in EoePlaces /\ call'.kind \in EoeKinds /\ call'.kind # "EOEsend"
    BY <1>1, <1>8, <2>1 DEF EoePlaces, EoeKinds
  <2> QED
    BY <1>1, <2>1, <2>2, <2>7, <2>8, NoFrameSent
<1> QED
  BY <1>9, <1>10

-----------------------------------------------------------------------------
(* Steps of the link and of the slave, with no function and no server.     *)
LEMMA OtherSent ==
  ASSUME MasterFrames, calls \in 0..MaxCalls, calls \in Nat, calls' = calls,
         UNCHANGED <<callVars, serverVars, eoeVars, mbxOut>>,
         sm0' \in {sm0, NoMsg, mbxOut},
         job' \in {job, NoMsg} \/ (sm0 # NoMsg /\ job' = sm0.msg)
  PROVE  MasterFrames'
<1>1. /\ UNCHANGED <<pc, call, sent, stored, xfer, txframeno>>
  BY DEF callVars, serverVars, eoeVars
<1>2. /\ pc' \in EoePlaces /\ call'.kind \in EoeKinds
      /\ call'.kind = "EOEsend" => call' = call /\ sent' \in Nat
      /\ mbxOut' = [cnt |-> mbxOut'.cnt, msg |-> mbxOut'.msg] /\ mbxOut'.msg.op \in EoeOps
  BY <1>1 DEF MasterFrames
<1>3. \A g \in [1..txframeno -> 0..calls] : Carries(g) => IsPiece(mbxOut'.msg, g)
  BY DEF Carries
<1> QED
  BY <1>1, <1>2, <1>3, StillSent

(* Messages are handed on or lost, and none becomes another fragment.      *)
LEMMA OtherCarried ==
  ASSUME SlaveFrames, UNCHANGED <<callVars, eoeVars, rx, outbox>>,
         pc = "returned" => UNCHANGED <<link, wkc>>,
         sm1' \in {sm1, lastOut} \/ ~IsFragment(sm1'),
         lastOut' = lastOut \/ ~IsFragment(lastOut'),
         mbxIn' \in {mbxIn, NoMsg}
  PROVE  SlaveFrames'
<1>1. UNCHANGED <<pc, call, buf, sent, frames>>
  BY DEF callVars, eoeVars
<1>2. Carried' /\ Hooked'
  BY <1>1, StillCarried DEF SlaveFrames
<1>3. Received'
  BY <1>1, StillReceived DEF SlaveFrames
<1> QED
  BY <1>1, <1>2, <1>3 DEF SlaveFrames

(* The datagrams of the link, the timer and the slave's sync managers.     *)
LEMMA MessagesGo ==
  ASSUME SlaveFrames, MasterFrames, calls \in 0..MaxCalls, calls \in Nat, Others,
         \/ MbxEmpty \/ MbxWrite \/ MbxAvail \/ MbxRepeat \/ MbxAck \/ MbxAgain
         \/ Expire \/ Take \/ Repeat \/ Emergency \/ Die
  PROVE  SlaveFrames' /\ MasterFrames'
<1>1. UNCHANGED <<callVars, serverVars, eoeVars>> /\ calls' = calls
  BY DEF Others, sessionVars
<1>2. pc = "returned" => link = "done"
  BY DEF SlaveFrames
<1>3. ~IsFragment(Emcy)
  BY DEF IsFragment, Emcy
<1>4. CASE MbxEmpty \/ MbxAvail \/ MbxRepeat \/ MbxAck \/ MbxAgain
  <2>1. link # "done" /\ UNCHANGED <<sm0, sm1, lastOut, outbox, job, rx, mbxIn, mbxOut>>
    BY <1>4 DEF MbxEmpty, MbxAvail, MbxRepeat, MbxAck, MbxAgain, slaveVars, handled
  <2> QED
    BY <1>1, <1>2, <2>1, OtherCarried, OtherSent
<1>5. CASE MbxWrite
  <2>1. /\ link # "done" /\ UNCHANGED <<sm1, lastOut, outbox, job, rx, mbxIn, mbxOut>>
        /\ sm0' \in {sm0, mbxOut}
    BY <1>5 DEF MbxWrite, slaveVars, handled
  <2> QED
    BY <1>1, <1>2, <2>1, OtherCarried, OtherSent
<1>6. CASE Expire
  <2>1. link # "done" /\ UNCHANGED <<sm0, sm1, lastOut, outbox, job, rx, mbxIn, mbxOut>>
    BY <1>6 DEF Expire, slaveVars, handled
  <2> QED
    BY <1>1, <1>2, <2>1, OtherCarried, OtherSent
<1>7. CASE Take
  <2>1. /\ UNCHANGED <<sm1, lastOut, outbox, rx, mbxIn, mbxOut, link, wkc>>
        /\ sm0 # NoMsg /\ sm0' = NoMsg /\ job' \in {NoMsg, sm0.msg}
    BY <1>7 DEF Take, masterVars, handled
  <2> QED
    BY <1>1, <2>1, OtherCarried, OtherSent
<1>8. CASE Repeat
  <2>1. /\ UNCHANGED <<sm0, lastOut, outbox, job, rx, mbxIn, mbxOut, link, wkc>>
        /\ sm1' = lastOut
    BY <1>8 DEF Repeat, masterVars, handled
  <2> QED
    BY <1>1, <2>1, OtherCarried, OtherSent
<1>9. CASE Emergency
  <2>1. /\ UNCHANGED <<sm0, outbox, job, rx, mbxIn, mbxOut, link, wkc>>
        /\ sm1' = Emcy /\ lastOut' = Emcy
    BY <1>9 DEF Emergency, masterVars, handled
  <2> QED
    BY <1>1, <1>3, <2>1, OtherCarried, OtherSent
<1>10. CASE Die
  <2>1. UNCHANGED <<sm0, sm1, lastOut, outbox, job, rx, mbxIn, mbxOut, link, wkc>>
    BY <1>10 DEF Die, masterVars, handled
  <2> QED
    BY <1>1, <2>1, OtherCarried, OtherSent
<1> QED
  BY <1>4, <1>5, <1>6, <1>7, <1>8, <1>9, <1>10

(* The hook, called by ecx_mbxreceive with what it has read.               *)
LEMMA HookReads ==
  ASSUME FewFrames, SlaveFrames, MasterFrames, calls \in 0..MaxCalls, calls \in Nat,
         Others, MbxRead
  PROVE  SlaveFrames' /\ MasterFrames'
<1>1. UNCHANGED <<callVars, serverVars, eoeVars>> /\ calls' = calls
  BY DEF Others, sessionVars
<1>2. /\ link = "read" /\ UNCHANGED <<sm0, lastOut, outbox, job, mbxOut>>
      /\ sm1' \in {sm1, NoMsg} /\ mbxIn' \in {sm1, mbxIn}
      /\ Handle(sm1) \/ UNCHANGED handled
  BY DEF MbxRead, slaveVars
<1>3. pc # "returned"
  BY <1>2 DEF SlaveFrames
<1>4. UNCHANGED <<pc, call, buf, sent, frames>>
  BY <1>1 DEF callVars, eoeVars
<1>5. Out' = Out /\ Valued(Out)
  BY <1>4, OutIs DEF Out, SlaveFrames
<1>6. Carried'
  <2>1. ~IsFragment(NoMsg)
    BY DEF IsFragment, NoMsg
  <2>2. IsPiece(sm1', Out) /\ IsPiece(mbxIn', Out)
    BY <1>2, <2>1 DEF SlaveFrames, Carried, IsPiece
  <2> QED
    BY <1>2, <1>5, <2>2 DEF SlaveFrames, Carried
<1>7. Hooked'
  <2>1. CASE rx' = rx
    BY <1>5, <2>1 DEF SlaveFrames, Hooked
  <2>2. CASE rx' # rx
    <3>1. IsFragment(sm1) /\ rx' = ReadFragment(rx, sm1)
      BY <1>2, <2>2 DEF Handle, handled
    <3>2. sm1 \in Pieces(Out)
      BY <3>1 DEF SlaveFrames, Carried, IsPiece
    <3>3. rx \in RxState /\ Puts(rx, Out) /\ Got(rx, Out) /\ FrameParts <= RxRoom
      BY DEF SlaveFrames, Hooked, FewFrames
    <3>4. rx' \in RxState /\ Puts(rx', Out) /\ Got(rx', Out)
      BY <1>5, <3>1, <3>2, <3>3, ReadsRight
    <3> QED
      BY <1>5, <3>4 DEF Hooked
  <2> QED
    BY <2>1, <2>2
<1>8. Received'
  BY <1>3, <1>4, StillReceived DEF SlaveFrames
<1>9. SlaveFrames'
  BY <1>3, <1>4, <1>6, <1>7, <1>8 DEF SlaveFrames
<1>10. MasterFrames'
  BY <1>1, <1>2, OtherSent
<1> QED
  BY <1>9, <1>10

(* The slave sends the next fragment of its frame.                         *)
LEMMA FragmentOut ==
  ASSUME SlaveFrames, MasterFrames, calls \in 0..MaxCalls, calls \in Nat, Others, SendOut
  PROVE  SlaveFrames' /\ MasterFrames'
<1>1. UNCHANGED <<callVars, serverVars, eoeVars>> /\ calls' = calls
  BY DEF Others, sessionVars
<1>2. /\ UNCHANGED <<sm0, job, rx, mbxIn, mbxOut, link, wkc>> /\ outbox # <<>>
      /\ sm1' = Head(outbox) /\ lastOut' = Head(outbox) /\ outbox' = Tail(outbox)
  BY DEF SendOut, masterVars, handled
<1>3. UNCHANGED <<pc, call, buf, sent, frames>>
  BY <1>1 DEF callVars, eoeVars
<1>4. Head(outbox) \in Pieces(Out) /\ Tail(outbox) \in Seq(Pieces(Out))
  <2>1. outbox \in Seq(Pieces(Out))
    BY DEF SlaveFrames, Carried
  <2> QED
    BY <1>2, <2>1, HeadTailProperties
<1>5. Out' = Out
  BY <1>3 DEF Out
<1>6. Carried' /\ Hooked'
  BY <1>2, <1>4, <1>5 DEF SlaveFrames, Carried, Hooked, IsPiece
<1>7. Received'
  BY <1>2, <1>3, StillReceived DEF SlaveFrames
<1>8. SlaveFrames'
  BY <1>2, <1>3, <1>6, <1>7 DEF SlaveFrames
<1>9. MasterFrames'
  BY <1>1, <1>2, OtherSent
<1> QED
  BY <1>8, <1>9

-----------------------------------------------------------------------------
(* The slave sends a frame, in fragments.                                  *)
LEMMA Fragments ==
  ASSUME NEW f, NEW n \in DOMAIN f
  PROVE  LET s == [k \in 1..((FrameParts + M - 1) \div M) |->
                      Fragment(Whole(f[n]), n, k - 1)]
         IN s \in Seq(Pieces(f)) /\ s # <<>> /\ s[1] = Head(s)
<1> DEFINE N == (FrameParts + M - 1) \div M
<1> DEFINE s == [k \in 1..N |-> Fragment(Whole(f[n]), n, k - 1)]
<1>1. FrameParts + M - 1 \in Nat /\ M <= FrameParts + M - 1
  BY Sizes
<1>2. N \in Nat /\ N * M <= FrameParts + M - 1 /\ FrameParts + M - 1 < (N + 1) * M
  BY <1>1, Sizes
<1>3. N # 0
  BY <1>1, <1>2, Sizes
<1> HIDE DEF N
<1>4. \A k \in 1..N : k - 1 \in Starts
  <2>1. ASSUME NEW k \in 1..N PROVE k - 1 \in Starts
    <3>1. k - 1 \in Nat /\ k \in Nat /\ N - k \in Nat
      BY <1>2
    <3>2. (N - k) * M >= 0 /\ (N - k) * M = N * M - k * M
      BY <1>2, <3>1, Sizes
    <3>3. (k - 1) * M = k * M - M
      BY <3>1, Sizes
    <3>4. k * M \in Nat /\ N * M \in Nat
      BY <1>2, <3>1, Sizes
    <3>5. (k - 1) * M < FrameParts
      BY <1>2, <3>2, <3>3, <3>4, Sizes
    <3> QED
      BY <3>1, <3>5 DEF Starts
  <2> QED
    BY <2>1
<1>5. \A k \in 1..N : Fragment(Whole(f[n]), n, k - 1) \in Pieces(f)
  BY <1>4 DEF Pieces
<1>6. s \in [1..N -> Pieces(f)]
  BY <1>5
<1> HIDE DEF s
<1>7. s \in Seq(Pieces(f)) /\ Len(s) = N
  BY <1>2, <1>6, SeqDef, LenProperties
<1>8. s # <<>>
  BY <1>3, <1>7, EmptySeq
<1>9. s[1] = Head(s)
  BY <1>7, <1>8, HeadTailProperties
<1> QED
  BY <1>7, <1>8, <1>9 DEF s, N

(* The slave sends a frame of its own, with the next number.               *)
LEMMA FrameStarts ==
  ASSUME FewFrames, SlaveFrames, MasterFrames, calls \in 0..MaxCalls, calls \in Nat,
         calls' = calls, FrameOut
  PROVE  SlaveFrames' /\ MasterFrames'
<1>1. /\ UNCHANGED <<sm0, job, rx, mbxIn, mbxOut, link, wkc>>
      /\ UNCHANGED <<pc, call, buf, sent, stored, xfer, txframeno>>
      /\ frames' = frames + 1 /\ frames < MaxFrame
  BY DEF FrameOut, masterVars, handled, callVars, serverVars
<1>2. frames' \in 0..MaxFrame /\ frames' \in 1..frames' /\ frames \in Nat /\ frames' \in Nat
  BY <1>1, EoeConstants DEF SlaveFrames
<1>3. frames' % FrameNos = frames'
  <2>1. frames' < FrameNos /\ FrameNos \in Nat \ {0}
    BY <1>2, EoeConstants DEF FewFrames
  <2> QED
    BY <1>2, <2>1, SmallMod
<1>4. DOMAIN Out = 1..frames /\ \A n \in 1..frames : Out[n] = -n
  BY OutIs DEF SlaveFrames
<1>5. Out' = OutFrames(frames') /\ frames' \in DOMAIN Out' /\ Out'[frames'] = -frames'
  BY <1>2 DEF Out, OutFrames
<1>6. DOMAIN Out \subseteq DOMAIN Out' /\ \A n \in DOMAIN Out : Out'[n] = Out[n]
  BY <1>1, <1>2, <1>4 DEF Out, OutFrames
<1> DEFINE s == [k \in 1..((FrameParts + M - 1) \div M) |->
                    Fragment(Whole(Out'[frames']), frames', k - 1)]
<1>7. sm1' = s[1] /\ lastOut' = s[1] /\ outbox' = Tail(s)
  <2>1. Whole(-frames') = Content("frame", -frames') /\ Len(Whole(-frames')) = FrameParts
    BY <1>2, WholeType DEF Whole
  <2> QED
    BY <1>3, <1>5, <2>1 DEF FrameOut
<1>8. s \in Seq(Pieces(Out')) /\ s # <<>> /\ s[1] = Head(s)
  BY <1>5, Fragments
<1> HIDE DEF s
<1>9. Head(s) \in Pieces(Out') /\ Tail(s) \in Seq(Pieces(Out'))
  BY <1>8, HeadTailProperties
<1>10. /\ \A m : IsPiece(m, Out) => IsPiece(m, Out')
       /\ \A r : Puts(r, Out) => Puts(r, Out')
       /\ \A r : Got(r, Out) => Got(r, Out')
  BY <1>6, MoreFrames
<1>11. Carried'
  <2>1. IsPiece(sm1', Out') /\ IsPiece(lastOut', Out') /\ outbox' \in Seq(Pieces(Out'))
    BY <1>7, <1>8, <1>9 DEF IsPiece
  <2>2. IsPiece(mbxIn', Out')
    BY <1>1, <1>10 DEF SlaveFrames, Carried
  <2> QED
    BY <2>1, <2>2 DEF Carried
<1>12. Hooked'
  BY <1>1, <1>10 DEF SlaveFrames, Hooked
<1>13. Received'
  <2>1. 1..frames \subseteq 1..frames'
    BY <1>1, <1>2
  <2> QED
    BY <1>1, <2>1 DEF SlaveFrames, Received
<1>14. SlaveFrames'
  BY <1>1, <1>2, <1>11, <1>12, <1>13 DEF SlaveFrames
<1>15. /\ pc' \in EoePlaces /\ call'.kind \in EoeKinds
       /\ call'.kind = "EOEsend" => call' = call /\ sent' \in Nat
       /\ mbxOut' = [cnt |-> mbxOut'.cnt, msg |-> mbxOut'.msg] /\ mbxOut'.msg.op \in EoeOps
  BY <1>1 DEF MasterFrames
<1>16. \A g \in [1..txframeno -> 0..calls] : Carries(g) => IsPiece(mbxOut'.msg, g)
  BY <1>1 DEF Carries
<1> QED
  BY <1>1, <1>14, <1>15, <1>16, StillSent

(* The server keeps the IP parameters and puts frames together.            *)
LEMMA AnswerIs ==
  ASSUME NEW m, Respond(m) \/ Spoil(m)
  PROVE  /\ UNCHANGED <<sm0, outbox, rx, mbxIn, mbxOut, link, wkc>>
         /\ sm1' = m /\ lastOut' = m /\ job' = NoMsg
  BY DEF Respond, RespondAndGoOn, Spoil, masterVars, handled

(* It answers about its IP parameters, or refuses.                         *)
LEMMA IpServed ==
  ASSUME SlaveFrames, MasterFrames, calls \in 0..MaxCalls, calls \in Nat, calls' = calls,
         UNCHANGED <<callVars, eoeVars>>,
         ServeIp \/ (Reject /\ UNCHANGED serverVars)
  PROVE  SlaveFrames' /\ MasterFrames'
<1>1. PICK m : (Respond(m) \/ Spoil(m)) /\ ~IsFragment(m)
  <2>1. ~IsFragment(MbxError) /\ ~IsFragment(Eoe("ipSet"))
    BY DEF IsFragment, MbxError, Eoe
  <2>2. \A d : ~IsFragment([op |-> "eoe", type |-> "ip", data |-> d])
    BY DEF IsFragment
  <2> QED
    BY <2>1, <2>2 DEF ServeIp, Reject
<1>2. /\ UNCHANGED <<sm0, outbox, rx, mbxIn, mbxOut, link, wkc>>
      /\ sm1' = m /\ lastOut' = m /\ job' = NoMsg
  BY <1>1, AnswerIs
<1>3. SlaveFrames'
  BY <1>1, <1>2, OtherCarried
<1>4. xfer' = xfer
  BY DEF ServeIp, serverVars
<1>5. stored' = stored \/ (/\ stored' = [o \in Obj |-> stored'[o]]
                           /\ stored'["frame"] = stored["frame"])
  <2>1. CASE UNCHANGED serverVars
    BY <2>1 DEF serverVars
  <2>2. CASE ~UNCHANGED serverVars
    <3>1. stored' = [stored EXCEPT !["ip"] = job.data]
      BY <2>2 DEF ServeIp
    <3>2. stored = [o \in Obj |-> stored[o]] /\ "frame" \in Obj
      BY EoeConstants DEF MasterFrames
    <3> QED
      BY <3>1, <3>2
  <2> QED
    BY <2>1, <2>2
<1>6. UNCHANGED <<pc, call, sent, txframeno>>
  BY DEF callVars, eoeVars
<1>7. /\ pc' \in EoePlaces /\ call'.kind \in EoeKinds
      /\ call'.kind = "EOEsend" => call' = call /\ sent' \in Nat
      /\ mbxOut' = [cnt |-> mbxOut'.cnt, msg |-> mbxOut'.msg] /\ mbxOut'.msg.op \in EoeOps
  BY <1>2, <1>6 DEF MasterFrames
<1>8. \A g \in [1..txframeno -> 0..calls] : Carries(g) => IsPiece(mbxOut'.msg, g)
  BY <1>2 DEF Carries
<1>9. MasterFrames'
  BY <1>2, <1>4, <1>5, <1>6, <1>7, <1>8, StillSent
<1> QED
  BY <1>3, <1>9

(* It takes a fragment, and keeps a frame that is complete.                *)
LEMMA FrameServed ==
  ASSUME FewFrames, SlaveFrames, MasterFrames, calls \in 0..MaxCalls, calls \in Nat,
         calls' = calls, UNCHANGED <<callVars, eoeVars>>, ServeFrame
  PROVE  SlaveFrames' /\ MasterFrames'
<1> DEFINE in == IF xfer.kind = "eoe" THEN xfer.rx ELSE Fresh
<1> DEFINE r == ReadFragment(in, job)
<1>1. PICK g \in [1..txframeno -> 0..calls] : Carries(g)
  BY DEF MasterFrames
<1>2. /\ UNCHANGED <<sm0, sm1, lastOut, outbox, rx, mbxIn, mbxOut, link, wkc>>
      /\ job' = NoMsg /\ IsFragment(job)
  BY DEF ServeFrame, Absorb, masterVars, handled, IsEoeJob, IsFragment
<1>3. UNCHANGED <<pc, call, sent, txframeno>>
  BY DEF callVars, eoeVars
<1>4. SlaveFrames'
  BY <1>2, OtherCarried
<1>5. txframeno \in Nat /\ DOMAIN g = 1..txframeno /\ Valued(g)
  <2>1. txframeno \in Nat
    BY DEF MasterFrames
  <2> QED
    BY <1>1, <2>1 DEF Valued
<1>6. job \in Pieces(g)
  BY <1>1, <1>2 DEF Carries, IsPiece
<1>7. in \in RxState /\ in.got = <<>> /\ Puts(in, g) /\ Got(in, g)
  <2>1. CASE xfer.kind = "eoe"
    BY <1>1, <2>1 DEF MasterFrames, Carries, Got
  <2>2. CASE xfer.kind # "eoe"
    <3>1. <<>> \in Seq(Part)
      BY EmptySeq
    <3> QED
      BY <2>2, <3>1 DEF RxState, Puts, Got, Fresh
  <2> QED
    BY <2>1, <2>2
<1>8. FrameParts <= RxRoom
  BY DEF FewFrames
<1>9. r \in RxState /\ Puts(r, g) /\ Got(r, g)
  <2> HIDE DEF in
  <2> QED
    BY <1>5, <1>6, <1>7, <1>8, ReadsRight
<1>10. /\ r.got = <<>> => xfer' = [kind |-> "eoe", rx |-> r] /\ stored' = stored
       /\ r.got # <<>> => xfer' = NoXfer /\ stored' = [stored EXCEPT !["frame"] = r.got]
  BY DEF ServeFrame
<1> HIDE DEF r
<1>11. stored = [o \in Obj |-> stored[o]] /\ "frame" \in Obj
  BY EoeConstants DEF MasterFrames
<1>12. \E v \in 0..calls : stored["frame"] = Whole(v)
  BY DEF MasterFrames
<1>13. /\ stored' = [o \in Obj |-> stored'[o]]
       /\ \E v \in 0..calls' : stored'["frame"] = Whole(v)
  <2>1. CASE r.got = <<>>
    BY <1>10, <1>11, <1>12, <2>1
  <2>2. CASE r.got # <<>>
    <3>1. PICK n \in DOMAIN g : r.got = Whole(g[n])
      BY <1>9, <2>2 DEF Got
    <3>2. g[n] \in 0..calls
      BY <1>1, <3>1
    <3>3. stored' = [stored EXCEPT !["frame"] = r.got]
      BY <1>10, <2>2
    <3>4. stored' = [o \in Obj |-> stored'[o]] /\ stored'["frame"] = r.got
      BY <1>11, <3>3
    <3> QED
      BY <3>1, <3>2, <3>4
  <2> QED
    BY <2>1, <2>2
<1>14. /\ xfer'.kind \in EoeOps
       /\ xfer'.kind = "eoe" => xfer'.rx = r /\ r.got = <<>>
  BY <1>10 DEF NoXfer, EoeOps
<1>15. ~IsFragment(NoMsg) /\ NoMsg.op \in EoeOps
  BY DEF IsFragment, NoMsg, EoeOps
<1>16. Carries(g)'
  BY <1>1, <1>2, <1>3, <1>9, <1>14, <1>15 DEF Carries, IsPiece
<1>17. \E h \in [1..txframeno' -> 0..calls'] : Carries(h)'
  BY <1>1, <1>3, <1>16
<1>18. xfer'.kind = "eoe" => xfer'.rx \in RxState /\ xfer'.rx.got = <<>>
  BY <1>9, <1>14
<1>19. /\ pc' \in EoePlaces /\ call'.kind \in EoeKinds
       /\ mbxOut' = [cnt |-> mbxOut'.cnt, msg |-> mbxOut'.msg] /\ mbxOut'.msg.op \in EoeOps
       /\ sm0' # NoMsg => sm0'.msg.op \in EoeOps
       /\ job'.op \in EoeOps
       /\ txframeno' \in 0..calls'
       /\ call'.kind = "EOEsend" => txframeno' # 0 /\ sent' \in Nat
  BY <1>2, <1>3, <1>15 DEF MasterFrames
<1>20. MasterFrames'
  BY <1>13, <1>14, <1>17, <1>18, <1>19 DEF MasterFrames
<1> QED
  BY <1>4, <1>20

-----------------------------------------------------------------------------
(* Every step keeps the invariant.                                         *)
LEMMA StepFrames == FewFrames /\ FrameInv /\ [Next]_allVars => FrameInv'
<1> SUFFICES ASSUME FewFrames, FrameInv, [Next]_allVars PROVE FrameInv'
  OBVIOUS
<1>1. /\ calls \in 0..MaxCalls /\ calls' \in 0..MaxCalls /\ calls' \in {calls, calls + 1}
      /\ family' = family
  BY Counted DEF FrameInv
<1>2. calls \in Nat
  BY <1>1
<1>3. CASE family # "eoe"
  BY <1>1, <1>3, Elsewhere DEF FrameInv
<1>4. CASE family = "eoe"
  <2>1. SlaveFrames /\ MasterFrames
    BY <1>4 DEF FrameInv
  <2>2. /\ ~SdoStep /\ ~PdoStep /\ ~FoeStep /\ ~SoeStep /\ ~InfoStep
        /\ ~ServeSdo /\ ~ServePdo /\ ~ServeFoe /\ ~ServeSoe /\ ~ServeInfo
    BY <1>4, <2>1, OnlyEoe
  <2> USE <1>1, <1>2, <2>1
  <2> SUFFICES SlaveFrames' /\ MasterFrames'
    BY <1>4 DEF FrameInv
  <2>3. CASE SetUp
    <3>1. /\ UNCHANGED <<callVars, serverVars, eoeVars, sm0, sm1, lastOut, outbox, job>>
          /\ UNCHANGED <<rx, mbxIn, mbxOut, link, wkc>> /\ calls' = calls
      BY <2>3 DEF SetUp, EOEdefinehook, slaveVars, masterVars, sessionVars
    <3> QED
      BY <3>1, OtherCarried, OtherSent
  <2>4. CASE Calls
    <3>1. Call /\ calls' = calls + 1
      BY <2>4 DEF Calls
    <3>2. EoeCalls
      BY <1>4, <3>1 DEF Call
    <3>3. CASE UNCHANGED eoeVars /\ (EOEgetIp \/ EoePoll \/ EOEsetIp(NewVal))
      BY <3>3, IpCalls
    <3>4. CASE EOEsend(NewVal)
      BY <3>1, <3>4, FrameBegins
    <3>5. CASE \E room \in Room["frame"] : EOErecv(room)
      BY <3>5, ReceiveBegins
    <3> QED
      BY <3>2, <3>3, <3>4, <3>5 DEF EoeCalls
  <2>5. CASE PopError
    <3>1. /\ UNCHANGED <<callVars, serverVars, eoeVars, sm0, sm1, lastOut, outbox, job>>
          /\ UNCHANGED <<rx, mbxIn, mbxOut, link, wkc>> /\ calls' = calls
      BY <2>5 DEF PopError, LinkUnchanged, slaveVars, masterVars, sessionVars
    <3> QED
      BY <3>1, OtherCarried, OtherSent
  <2>6. CASE Master
    <3>1. CASE (Placed \/ NotPlaced) /\ UNCHANGED eoeVars
      BY <3>1, IpFunctions
    <3>2. CASE EoeStep /\ UNCHANGED sessionVars
      <4>1. calls' = calls
        BY <3>2 DEF sessionVars
      <4>2. CASE IpRequest \/ IpResponse \/ Polled
        <5>1. UNCHANGED eoeVars
          BY <4>2 DEF IpRequest, IpResponse, Polled, eoeVars
        <5> QED
          BY <4>2, <5>1, IpFunctions
      <4> QED
        BY <3>2, <4>1, <4>2, FrameGoesOn, FragmentReceived, NotReceived DEF EoeStep
    <3>3. CASE LinkStep /\ Others
      BY <3>3, MessagesGo, HookReads DEF LinkStep
    <3> QED
      BY <2>2, <2>6, <3>1, <3>2, <3>3 DEF Master
  <2>7. CASE Timer
    BY <2>7, MessagesGo DEF Timer
  <2>8. CASE Slave
    <3>1. CASE Serve
      <4>1. UNCHANGED callVars /\ calls' = calls
        BY <3>1 DEF Serve, sessionVars
      <4>2. CASE ServeEoe
        BY <4>1, <4>2, IpServed, FrameServed DEF ServeEoe
      <4>3. CASE Reject /\ UNCHANGED <<serverVars, eoeVars>>
        BY <4>1, <4>3, IpServed
      <4> QED
        BY <2>2, <3>1, <4>2, <4>3 DEF Serve
    <3>2. CASE Frames
      <4>1. FrameOut /\ calls' = calls
        BY <3>2 DEF Frames, sessionVars
      <4> QED
        BY <4>1, FrameStarts
    <3>3. CASE (Take \/ Repeat \/ Emergency) /\ Others
      BY <3>3, MessagesGo
    <3>4. CASE SendOut /\ Others
      BY <3>4, FragmentOut
    <3> QED
      BY <2>8, <3>1, <3>2, <3>3, <3>4 DEF Slave
  <2>9. CASE Die /\ Others
    BY <2>9, MessagesGo
  <2>10. CASE UNCHANGED allVars
    <3>1. /\ UNCHANGED <<callVars, serverVars, eoeVars, sm0, sm1, lastOut, outbox, job>>
          /\ UNCHANGED <<rx, mbxIn, mbxOut, link, wkc>> /\ calls' = calls
      BY <2>10 DEF allVars, mbxVars, slaveVars, masterVars, handled
    <3> QED
      BY <3>1, OtherCarried, OtherSent
  <2> QED
    BY <2>3, <2>4, <2>5, <2>6, <2>7, <2>8, <2>9, <2>10 DEF Next
<1> QED
  BY <1>3, <1>4

(* FrameInv is an inductive invariant of the services: what is on its way  *)
(* in fragments, either way, is in pieces of frames that were sent, and    *)
(* what the hook, the server and ecx_EOErecv have put together so far is   *)
(* the beginning of one of them; while the numbers of frames do not come   *)
(* round, and the buffer of the hook has room for a frame.                 *)
THEOREM FramesInductive == ASSUME FewFrames PROVE Spec => []FrameInv
<1>1. FrameInv /\ [Next]_allVars => FrameInv'
  BY StepFrames
<1> QED
  BY <1>1, InitFrames, PTL DEF Spec

(* FrameIsRight: ecx_EOEreadfragment and ecx_EOErecv deliver frames the    *)
(* slave has sent, and the slave is delivered frames ecx_EOEsend has sent, *)
(* whatever datagrams are lost, repeated or late: never a mixture of two,  *)
(* nor one with a piece missing or twice.                                  *)
THEOREM FramesAreRight == ASSUME FewFrames PROVE Spec => []FrameIsRight
BY FramesInductive, InvSuffices, PTL

-----------------------------------------------------------------------------
(* Nothing happened that the code does not make up for; and the slave is   *)
(* there.                                                                  *)
Watched == clean /\ (hook \/ frames = 0 \/ calls = 0)
(* ... and the slave is still there. *)
Good == Watched /\ alive

(* Messages that come unasked, and those to the slave it does not answer.  *)
Noise(m) == m = Emcy \/ IsFragment(m)
(* Messages to the slave which it takes and answers nothing to: a PDO, a   *)
(* fragment of a frame of EoE, a fragment of a SoE write that is not the   *)
(* last, an acknowledgement of FoE.                                        *)
LeftOver(m) ==
  \/ family = "pdo" /\ m.op = "RxPDO"
  \/ family = "eoe" /\ IsFragment(m)
  \/ family = "soe" /\ IsSoeOf(m, "write") /\ m.incomplete
  \/ family = "foe" /\ m.op = "foe" /\ m.type = "ack"

(* ecx_mbxreceive is in progress. *)
Receiving == link \in {"avail", "read", "repeat", "ack", "again"}
(* ecx_mbxsend is in progress, with a message that is not placed yet. *)
Unplaced == link \in {"empty", "write"} /\ mbxOut.msg # NoMsg

(* The function of the mailbox has come to its end with a success; it      *)
(* waits for a message.                                                    *)
Heard == link = "done" /\ wkc = 1
(* ecx_mbxreceive is in progress, and its time is not over. *)
Listens == Receiving /\ Running

(* The slave has nothing to answer. *)
JobIdle == job = NoMsg \/ LeftOver(job)
(* In the slave's mailbox there is no request. *)
Sm0Idle == sm0 = NoMsg \/ LeftOver(sm0.msg)
(* In the mailbox of the answers there is none but what comes unasked; nor *)
(* will one be repeated.                                                   *)
Sm1Idle ==
  /\ sm1 = NoMsg \/ Noise(sm1)
  /\ link \in {"read", "repeat"} \/ repeatReq # repeatAck => Noise(lastOut)
(* Nothing is on its way: no request to the slave, no answer to the        *)
(* master.                                                                 *)
Still == Sm0Idle /\ JobIdle /\ Sm1Idle
(* And the slave has nothing at all to take. *)
Silent == sm0 = NoMsg /\ job = NoMsg /\ Sm1Idle
(* No message is being sent. *)
Free == link = "done" \/ Receiving

(* The request q is to be placed; the slave has it; the slave has answered *)
(* it with a, is busy with j since, and a is in the mailbox or to be       *)
(* repeated.                                                               *)
Sending(q) == Unplaced /\ Running /\ mbxOut.msg = q /\ Still
(* The slave has the request q, in its mailbox or taken. *)
Work(q) ==
  /\ \/ sm0 # NoMsg /\ sm0.msg = q /\ JobIdle
     \/ sm0 = NoMsg /\ job = q
  /\ Sm1Idle
(* The slave has answered with a, and has j to do next: the answer is in   *)
(* the mailbox, or it was lost when it was read and the request to repeat  *)
(* it is under way.                                                        *)
Ans(a, j) ==
  /\ sm0 = NoMsg /\ job = j /\ lastOut = a
  /\ \/ sm1 = a /\ (repeatReq = repeatAck \/ link = "ack")
     \/ /\ sm1 = NoMsg /\ j = NoMsg
        /\ \/ link = "repeat" /\ wkc = NOFRAME /\ repeatReq = repeatAck
           \/ link = "ack" /\ repeatReq # repeatAck

(* The counters of the messages: each is the one after the one before.     *)
Counters ==
  /\ mbx_cnt \in 0..MaxCnt /\ lastCnt \in 0..MaxCnt
  /\ Unplaced => mbxOut.cnt = mbx_cnt
  /\ IF Unplaced
     THEN IF sm0 = NoMsg THEN mbx_cnt = NextCnt(lastCnt)
          ELSE sm0.cnt = NextCnt(lastCnt) /\ mbx_cnt = NextCnt(sm0.cnt)
     ELSE IF sm0 = NoMsg THEN mbx_cnt = lastCnt
          ELSE sm0.cnt = NextCnt(lastCnt) /\ mbx_cnt = sm0.cnt

(* The mailbox functions, and what the slave sends unasked. *)
Places ==
  /\ Receiving \/ link \in {"done", "empty", "write"}
  /\ mbxOut = [cnt |-> mbxOut.cnt, msg |-> mbxOut.msg]
  /\ link = "write" => sm0 = NoMsg /\ mbxOut.msg # NoMsg
  /\ link \in {"read", "repeat", "ack"} => smRep = repeatReq
  /\ sm1 # NoMsg => sm1 = lastOut
  /\ link # "done" => calls # 0 /\ pc # "returned"
  /\ Unplaced => Running /\ Sm0Idle /\ JobIdle
  /\ repeatReq \in BOOLEAN /\ repeatAck \in BOOLEAN
(* The fragments the slave sends of frames of its own. *)
Own == {Fragment(Content("frame", -n), b, k) : n \in Nat, b \in Nat, k \in Nat}
(* What the slave sends unasked are fragments of its frames, and there is  *)
(* none as long as it sent no frame.                                       *)
Unasked ==
  /\ outbox \in Seq(Own) /\ frames \in Nat
  /\ frames = 0 => outbox = <<>> /\ ~IsFragment(sm1) /\ ~IsFragment(lastOut)

(* The invariant of the link layer. *)
LinkOK == Places /\ Unasked /\ Counters
-----------------------------------------------------------------------------
(* A step of the link layer, of a timer, or of the slave with no request.  *)
Link == (LinkStep \/ Expire \/ Take \/ Repeat \/ SendOut \/ Emergency) /\ Others

(* What a step does to the requests: nothing; the slave takes one out of   *)
(* its mailbox; or the one to be placed is placed.                         *)
Moves ==
  \/ UNCHANGED <<sm0, job>>
  \/ sm0 # NoMsg /\ job = NoMsg /\ sm0' = NoMsg /\ job' = sm0.msg
  \/ Unplaced /\ sm0 = NoMsg /\ sm0' = mbxOut /\ job' = job /\ Heard'

(* What becomes of what is on its way. *)
Goes(q, a, j) ==
  /\ Moves
  /\ Still /\ Free => Still' /\ Free'
  /\ Sending(q) => Sending(q)' \/ (Heard' /\ Work(q)')
  /\ link = "done" => link' = "done" /\ wkc' = wkc /\ mbxIn' = mbxIn
  /\ Listens /\ Work(q) => Listens' /\ Work(q)'
  /\ Heard /\ Work(q) => Work(q)'
  /\ Heard /\ Ans(a, j) => Ans(a, j)'
  /\ Listens /\ Ans(a, j) =>
       \/ Listens' /\ Ans(a, j)'
       \/ Heard' /\ mbxIn' = a /\ sm0' = NoMsg /\ job' = j /\ Sm1Idle'
  /\ Still /\ link = "empty" /\ Running /\ mbxOut.msg = NoMsg =>
       /\ Still' /\ mbxOut'.msg = NoMsg
       /\ (link' = "empty" /\ Running') \/ (Heard' /\ sm0' = NoMsg)

(* Messages of different kinds are different. *)
LEMMA Unlike == /\ Emcy # NoMsg /\ MbxError # NoMsg /\ Emcy # MbxError
                /\ \A m : IsFragment(m) => m # NoMsg /\ m # MbxError /\ m # Emcy
                /\ \A c, m : [cnt |-> c, msg |-> m] # NoMsg
                /\ \A m : LeftOver(m) => m # NoMsg /\ Unanswered(m)
                /\ ~Noise(NoMsg) /\ ~Noise(MbxError)
<1>1. Emcy # NoMsg /\ MbxError # NoMsg /\ Emcy # MbxError
  BY DEF Emcy, MbxError, NoMsg
<1>2. \A m : IsFragment(m) => m # NoMsg /\ m # MbxError /\ m # Emcy
  BY DEF IsFragment, Emcy, MbxError, NoMsg
<1>3. \A c, m : [cnt |-> c, msg |-> m] # NoMsg
  BY DEF NoMsg
<1>4. \A m : LeftOver(m) => m # NoMsg /\ Unanswered(m)
  <2>1. TAKE m
  <2>2. LeftOver(m) => Unanswered(m)
    BY Zenon DEF LeftOver, Unanswered, IsSoeOf
  <2>3. LeftOver(m) => m.op # "none"
    BY DEF LeftOver, IsFragment, IsSoeOf
  <2> QED BY <2>2, <2>3 DEF NoMsg
<1> QED BY <1>1, <1>2, <1>3, <1>4 DEF Noise

(* What comes unasked while a call is in progress is handled by            *)
(* ecx_mbxreceive: an emergency always, a fragment as the hook is          *)
(* installed.                                                              *)
LEMMA Handled ==
  ASSUME LinkOK, Good, link # "done", Noise(sm1)
  PROVE  IsHandled(sm1)
<1>1. calls # 0
  BY DEF LinkOK, Places
<1>2. hook \/ frames = 0
  BY <1>1, Zenon DEF Good, Watched
<1>3. CASE sm1 = Emcy
  BY <1>3, Zenon DEF IsHandled, IsError
<1>4. CASE IsFragment(sm1)
  <2>1. frames # 0
    BY <1>4, Zenon DEF LinkOK, Unasked
  <2> QED BY <2>1, <1>2, <1>4, Zenon DEF IsHandled
<1> QED BY <1>3, <1>4, Zenon DEF Noise

(* The counter of the mailbox goes round its values, and never stays. *)
LEMMA Counting ==
  /\ \A c \in 0..MaxCnt : NextCnt(c) \in 0..MaxCnt /\ NextCnt(c) # c
  /\ 0 \in 0..MaxCnt
BY MailboxConstants DEF NextCnt

(* The parameters of the lemmas: a request, its answer, what comes next.   *)
Fit(q, a) == q # NoMsg /\ a # NoMsg /\ a # MbxError /\ ~Noise(a)

(* What the actions of the link layer leave alone is theirs to say; this   *)
(* is what the others do not touch.                                        *)
LEMMA Aside ==
  Others => UNCHANGED <<pc, call, buf, sent, toggle, stored, xfer, txframeno,
                        frames, family, calls>>
BY DEF Others, callVars, serverVars, eoeVars, sessionVars

(* Asking whether the mailbox of the slave is empty. *)
LEMMA MbxEmptyGoes ==
  ASSUME LinkOK, Good, Good', MbxEmpty, Others, NEW q, NEW a, NEW j, Fit(q, a)
  PROVE  LinkOK' /\ Goes(q, a, j)
<1>0. /\ link = "empty"
      /\ UNCHANGED <<sm0, sm1, job, lastOut, repeatReq, repeatAck, mbxOut, mbx_cnt,
                     outbox, lastCnt, timer, smRep, mbxIn>>
      /\ UNCHANGED <<calls, pc, family, frames>>
  BY Aside DEF MbxEmpty, slaveVars, handled
<1>1. /\ link' \in {"empty", "write", "done"}
      /\ link' = "write" => sm0 = NoMsg /\ mbxOut.msg # NoMsg
      /\ Running /\ mbxOut.msg # NoMsg => link' \in {"empty", "write"}
      /\ mbxOut.msg = NoMsg /\ link' = "done" /\ Running => wkc' = 1 /\ sm0 = NoMsg
      /\ mbxOut.msg = NoMsg /\ Running => link' \in {"empty", "done"}
  <2>1. PICK o \in Outcome :
             /\ link' = IF ~(WkcOf(o, TRUE) > 0 /\ sm0 = NoMsg) THEN GoOn("empty")
                        ELSE IF mbxOut.msg = NoMsg THEN "done" ELSE "write"
             /\ wkc' = IF ~(WkcOf(o, TRUE) > 0 /\ sm0 = NoMsg) THEN 0
                       ELSE IF mbxOut.msg = NoMsg THEN 1 ELSE wkc
    BY DEF MbxEmpty
  <2>2. CASE WkcOf(o, TRUE) > 0 /\ sm0 = NoMsg
    BY <2>1, <2>2
  <2>3. CASE ~(WkcOf(o, TRUE) > 0 /\ sm0 = NoMsg)
    BY <2>1, <2>3 DEF GoOn
  <2> QED BY <2>2, <2>3
<1>a. Running' = Running
  BY <1>0 DEF Running
<1>b. \A m : LeftOver(m)' <=> LeftOver(m)
  BY <1>0 DEF LeftOver
<1>c. Unplaced => Running
  BY DEF LinkOK, Places
<1>2. Places'
  BY <1>0, <1>1, <1>a, <1>b
    DEF LinkOK, Places, Receiving, Unplaced, Sm0Idle, JobIdle
<1>3. Unasked'
  BY <1>0 DEF LinkOK, Unasked
<1>4. Counters'
  BY <1>0, <1>1, <1>c DEF LinkOK, Counters, Unplaced
<1>5. /\ Sm1Idle => Sm1Idle' 
      /\ Sm0Idle => Sm0Idle'
      /\ JobIdle => JobIdle'
  BY <1>0, <1>1, <1>b DEF Sm1Idle, Sm0Idle, JobIdle
<1>6. Unplaced => Unplaced'
  BY <1>0, <1>1, <1>c DEF Unplaced
<1>7. Sending(q) => Sending(q)'
  BY <1>0, <1>a, <1>5, <1>6 DEF Sending, Still
<1>8. ~Free /\ ~Listens /\ ~Heard
  BY <1>0 DEF Free, Listens, Heard, Receiving
<1>9. Still /\ link = "empty" /\ Running /\ mbxOut.msg = NoMsg =>
       /\ Still' /\ mbxOut'.msg = NoMsg
       /\ (link' = "empty" /\ Running') \/ (Heard' /\ sm0' = NoMsg)
  BY <1>0, <1>1, <1>a, <1>5 DEF Still, Heard
<1> QED BY <1>0, <1>2, <1>3, <1>4, <1>7, <1>8, <1>9 DEF LinkOK, Goes, Moves

(* Writing a message into it: a frame lost on the way out is sent again,   *)
(* and at the last of the attempts none is lost.                           *)
LEMMA MbxWriteGoes ==
  ASSUME LinkOK, Good, Good', MbxWrite, Others, NEW q, NEW a, NEW j, Fit(q, a)
  PROVE  LinkOK' /\ Goes(q, a, j)
<1>0. /\ link = "write"
      /\ UNCHANGED <<sm1, job, lastOut, repeatReq, repeatAck, mbxOut, mbx_cnt,
                     outbox, lastCnt, timer, smRep, mbxIn>>
      /\ UNCHANGED <<calls, pc, family, frames>>
  BY Aside DEF MbxWrite, slaveVars, handled
<1>1. sm0 = NoMsg /\ mbxOut.msg # NoMsg /\ Unplaced /\ Running
  BY <1>0 DEF LinkOK, Places, Unplaced
<1>2. \/ sm0' = mbxOut /\ link' = "done" /\ wkc' = 1
      \/ sm0' = sm0 /\ link' = link /\ wkc' = wkc
  <2>1. PICK o \in Outcome :
       /\ clean' = (clean /\ (o = "back"
            \/ (o = "lostOut" /\ tries + 1 < MaxTries)))
       /\ sm0' = IF Reaches(o) /\ sm0 = NoMsg THEN mbxOut ELSE sm0
       /\ IF WkcOf(o, sm0 = NoMsg) = NOFRAME /\ tries + 1 < MaxTries
          THEN tries' = tries + 1 /\ UNCHANGED <<link, wkc>>
          ELSE tries' = 0 /\ link' = "done" /\ wkc' = WkcOf(o, sm0 = NoMsg)
    BY DEF MbxWrite
  <2>2. clean' /\ alive
    BY DEF Good, Watched
  <2>3. CASE o = "back"
    BY <1>1, <2>1, <2>2, <2>3 DEF Reaches, WkcOf, NOFRAME
  <2>4. CASE o # "back"
    <3>1. o = "lostOut" /\ tries + 1 < MaxTries
      BY <2>1, <2>2, <2>4
    <3> QED BY <1>1, <2>1, <2>4, <3>1 DEF Reaches, WkcOf, NOFRAME
  <2> QED BY <2>3, <2>4
<1>a. Running' = Running
  BY <1>0 DEF Running
<1>b. \A m : LeftOver(m)' <=> LeftOver(m)
  BY <1>0 DEF LeftOver
<1>c. mbxOut # NoMsg
  BY Unlike DEF LinkOK, Places
<1>d. mbxOut.cnt = mbx_cnt /\ mbx_cnt = NextCnt(lastCnt) /\ JobIdle
  BY <1>1, Zenon DEF LinkOK, Counters, Places
<1>2a. Places'
  BY <1>0, <1>1, <1>2, <1>a, <1>b
    DEF LinkOK, Places, Receiving, Unplaced, Sm0Idle, JobIdle
<1>3. Unasked'
  BY <1>0 DEF LinkOK, Unasked
<1>4. Counters'
  BY <1>0, <1>1, <1>2, <1>c, <1>d DEF LinkOK, Counters, Unplaced
<1>5. Sm1Idle => Sm1Idle' 
  BY <1>0, <1>2 DEF Sm1Idle, Noise
<1>6. JobIdle => JobIdle'
  BY <1>0, <1>b DEF JobIdle
<1>7. Sending(q) => Sending(q)' \/ (Heard' /\ Work(q)')
  <2>1. CASE sm0' = mbxOut /\ link' = "done" /\ wkc' = 1
    BY <2>1, <1>c, <1>5, <1>6 DEF Sending, Still, Heard, Work
  <2>2. CASE sm0' = sm0 /\ link' = link /\ wkc' = wkc
    BY <2>2, <1>0, <1>1, <1>5, <1>6, <1>a DEF Sending, Still, Unplaced, Sm0Idle
  <2> QED BY <1>2, <2>1, <2>2
<1>8. ~Free /\ ~Listens /\ ~Heard /\ link # "empty" /\ link # "done"
  BY <1>0 DEF Free, Listens, Heard, Receiving
<1>9. Moves
  BY <1>0, <1>1, <1>2 DEF Moves, Heard
<1> QED BY <1>2a, <1>3, <1>4, <1>7, <1>8, <1>9 DEF LinkOK, Goes

(* Asking whether there is an answer. *)
LEMMA MbxAvailGoes ==
  ASSUME LinkOK, Good, Good', MbxAvail, Others, NEW q, NEW a, NEW j, Fit(q, a)
  PROVE  LinkOK' /\ Goes(q, a, j)
<1>0. /\ link = "avail"
      /\ UNCHANGED <<sm0, sm1, job, lastOut, repeatReq, repeatAck, mbxOut, mbx_cnt,
                     outbox, lastCnt, timer, mbxIn>>
      /\ UNCHANGED <<calls, pc, family, frames>>
  BY Aside DEF MbxAvail, slaveVars, handled
<1>1. /\ link' \in {"avail", "read", "done"}
      /\ link' = "read" => sm1 # NoMsg /\ smRep' = repeatReq
      /\ Running => link' # "done"
  <2>1. PICK o \in Outcome :
       /\ smRep' = IF WkcOf(o, TRUE) > 0 THEN repeatReq ELSE FALSE
       /\ link' = IF WkcOf(o, TRUE) > 0 /\ sm1 # NoMsg THEN "read"
            ELSE GoOn("avail")
    BY DEF MbxAvail
  <2>2. CASE WkcOf(o, TRUE) > 0 /\ sm1 # NoMsg
    BY <2>1, <2>2
  <2>3. CASE ~(WkcOf(o, TRUE) > 0 /\ sm1 # NoMsg)
    BY <2>1, <2>3 DEF GoOn
  <2> QED BY <2>2, <2>3
<1>a. Running' = Running
  BY <1>0 DEF Running
<1>b. \A m : LeftOver(m)' <=> LeftOver(m)
  BY <1>0 DEF LeftOver
<1>c. Receiving /\ (Running => Receiving') /\ (Receiving' \/ link' = "done")
  BY <1>0, <1>1 DEF Receiving
<1>d. sm1 # NoMsg => sm1 = lastOut
  BY DEF LinkOK, Places
<1>2. Places'
  BY <1>0, <1>1, <1>a, <1>b
    DEF LinkOK, Places, Receiving, Unplaced, Sm0Idle, JobIdle
<1>3. Unasked'
  BY <1>0 DEF LinkOK, Unasked
<1>4. Counters'
  BY <1>0, <1>1 DEF LinkOK, Counters, Unplaced
<1>5. /\ Sm1Idle => Sm1Idle' 
      /\ Sm0Idle => Sm0Idle'
      /\ JobIdle => JobIdle'
  BY <1>0, <1>1, <1>b, <1>d DEF Sm1Idle, Sm0Idle, JobIdle, Noise
<1>6. Still /\ Free => Still' /\ Free'
  BY <1>5, <1>c DEF Still, Free
<1>7. Listens /\ Work(q) => Listens' /\ Work(q)'
  BY <1>0, <1>5, <1>a, <1>c DEF Listens, Work
<1>8. Listens /\ Ans(a, j) => Listens' /\ Ans(a, j)'
  BY <1>0, <1>1, <1>a, <1>c DEF Listens, Ans
<1>9. ~Unplaced /\ link # "done" /\ link # "empty" /\ ~Heard
  BY <1>0 DEF Unplaced, Heard
<1> QED BY <1>0, <1>2, <1>3, <1>4, <1>6, <1>7, <1>8, <1>9
    DEF LinkOK, Goes, Moves, Sending

(* Asking so after an unasked message was handled. *)
LEMMA MbxAgainGoes ==
  ASSUME LinkOK, Good, Good', MbxAgain, Others, NEW q, NEW a, NEW j, Fit(q, a)
  PROVE  LinkOK' /\ Goes(q, a, j)
<1>0. /\ link = "again"
      /\ UNCHANGED <<sm0, sm1, job, lastOut, repeatReq, repeatAck, mbxOut, mbx_cnt,
                     outbox, lastCnt, timer, mbxIn>>
      /\ UNCHANGED <<calls, pc, family, frames>>
  BY Aside DEF MbxAgain, slaveVars, handled
<1>1. /\ link' \in {"again", "read", "done"}
      /\ link' = "read" => sm1 # NoMsg /\ smRep' = repeatReq
      /\ Running => link' # "done"
  BY DEF MbxAgain
<1>a. Running' = Running
  BY <1>0 DEF Running
<1>b. \A m : LeftOver(m)' <=> LeftOver(m)
  BY <1>0 DEF LeftOver
<1>c. Receiving /\ (Running => Receiving') /\ (Receiving' \/ link' = "done")
  BY <1>0, <1>1 DEF Receiving
<1>d. sm1 # NoMsg => sm1 = lastOut
  BY DEF LinkOK, Places
<1>2. Places'
  BY <1>0, <1>1, <1>a, <1>b
    DEF LinkOK, Places, Receiving, Unplaced, Sm0Idle, JobIdle
<1>3. Unasked'
  BY <1>0 DEF LinkOK, Unasked
<1>4. Counters'
  BY <1>0, <1>1 DEF LinkOK, Counters, Unplaced
<1>5. /\ Sm1Idle => Sm1Idle' 
      /\ Sm0Idle => Sm0Idle'
      /\ JobIdle => JobIdle'
  BY <1>0, <1>1, <1>b, <1>d DEF Sm1Idle, Sm0Idle, JobIdle, Noise
<1>6. Still /\ Free => Still' /\ Free'
  BY <1>5, <1>c DEF Still, Free
<1>7. Listens /\ Work(q) => Listens' /\ Work(q)'
  BY <1>0, <1>5, <1>a, <1>c DEF Listens, Work
<1>8. Listens /\ Ans(a, j) => Listens' /\ Ans(a, j)'
  BY <1>0, <1>1, <1>a, <1>c DEF Listens, Ans
<1>9. ~Unplaced /\ link # "done" /\ link # "empty" /\ ~Heard
  BY <1>0 DEF Unplaced, Heard
<1> QED BY <1>0, <1>2, <1>3, <1>4, <1>6, <1>7, <1>8, <1>9
    DEF LinkOK, Goes, Moves, Sending

(* Reading the answer: it is read, or it was lost on the way back and is   *)
(* to be repeated, or what came unasked was handled.                       *)
LEMMA MbxReadGoes ==
  ASSUME LinkOK, Good, Good', MbxRead, Others, NEW q, NEW a, NEW j, Fit(q, a)
  PROVE  LinkOK' /\ Goes(q, a, j)
<1>0. /\ link = "read"
      /\ UNCHANGED <<sm0, job, lastOut, repeatReq, repeatAck, mbxOut, mbx_cnt,
                     outbox, lastCnt, timer, smRep>>
      /\ UNCHANGED <<calls, pc, family, frames>>
  BY Aside DEF MbxRead, slaveVars
<1>1. \/ /\ sm1 # NoMsg /\ sm1' = NoMsg /\ mbxIn' = sm1
         /\ IF IsHandled(sm1) THEN wkc' = 0 /\ link' = IF Running THEN "read"
              ELSE "done"
            ELSE wkc' = 1 /\ link' = "done"
      \/ sm1' = sm1 /\ link' = "repeat" /\ mbxIn' = mbxIn
      \/ /\ sm1' = NoMsg /\ link' = "repeat" /\ mbxIn' = mbxIn
         /\ wkc' = NOFRAME /\ job = NoMsg
  <2>1. PICK o \in Outcome :
       LET r == WkcOf(o, sm1 # NoMsg) IN
       /\ sm1' = IF Reaches(o) THEN NoMsg ELSE sm1
       /\ mbxIn' = IF r > 0 THEN sm1 ELSE mbxIn
       /\ wkc' = IF r > 0 /\ IsHandled(sm1) THEN 0 ELSE r
       /\ link' = IF r <= 0 THEN "repeat"
                  ELSE IF IsHandled(sm1) /\ Running THEN "read" ELSE "done"
       /\ clean' = (clean /\ ~(o = "lostBack" /\ More))
    BY DEF MbxRead
  <2>2. clean' /\ alive
    BY DEF Good, Watched
  <2>3. CASE o = "back" /\ sm1 # NoMsg
    BY <2>1, <2>2, <2>3 DEF Reaches, WkcOf
  <2>4. CASE o = "back" /\ sm1 = NoMsg
    BY <2>1, <2>2, <2>4 DEF Reaches, WkcOf
  <2>5. CASE o = "lostOut"
    BY <2>1, <2>2, <2>5 DEF Reaches, WkcOf, NOFRAME
  <2>6. CASE o = "lostBack"
    <3>1. ~More
      BY <2>1, <2>2, <2>6
    <3> QED BY <2>1, <2>2, <2>6, <3>1 DEF Reaches, WkcOf, NOFRAME, More
  <2> QED BY <2>3, <2>4, <2>5, <2>6 DEF Outcome
<1>a. Running' = Running
  BY <1>0 DEF Running
<1>b. \A m : LeftOver(m)' <=> LeftOver(m)
  BY <1>0 DEF LeftOver
<1>c. sm1 # NoMsg => sm1 = lastOut
  BY DEF LinkOK, Places
<1>d. Noise(sm1) => IsHandled(sm1)
  BY <1>0, Handled
<1>e. sm1' = NoMsg \/ sm1' = sm1
  BY <1>1
<1>2. Places'
  BY <1>0, <1>1, <1>a, <1>b
    DEF LinkOK, Places, Receiving, Unplaced, Sm0Idle, JobIdle
<1>3. Unasked'
  <2>1. ~IsFragment(NoMsg)
    BY Unlike
  <2> QED BY <1>0, <1>e, <2>1 DEF LinkOK, Unasked
<1>4. Counters'
  BY <1>0, <1>1 DEF LinkOK, Counters, Unplaced
<1>5. /\ Sm1Idle => Sm1Idle'
      /\ Sm0Idle => Sm0Idle'
      /\ JobIdle => JobIdle'
  BY <1>0, <1>e, <1>b DEF Sm1Idle, Sm0Idle, JobIdle, Noise
<1>5a. Receiving' \/ link' = "done"
  BY <1>1 DEF Receiving
<1>6. Still /\ Free => Still' /\ Free'
  BY <1>5, <1>5a DEF Still, Free
<1>7. Listens /\ Work(q) => Listens' /\ Work(q)'
  <2>1. Listens /\ Work(q) => Receiving'
    <3>1. Work(q) /\ sm1 # NoMsg => IsHandled(sm1)
      BY <1>d DEF Work, Sm1Idle
    <3> QED BY <1>1, <3>1 DEF Listens, Receiving
  <2> QED BY <1>0, <1>5, <1>a, <2>1 DEF Listens, Work
<1>8. Listens /\ Ans(a, j) =>
       \/ Listens' /\ Ans(a, j)'
       \/ Heard' /\ mbxIn' = a /\ sm0' = NoMsg /\ job' = j /\ Sm1Idle'
  <2> SUFFICES ASSUME Listens, Ans(a, j)
               PROVE  \/ Listens' /\ Ans(a, j)'
                      \/ Heard' /\ mbxIn' = a /\ sm0' = NoMsg /\ job' = j
                           /\ Sm1Idle'
    OBVIOUS
  <2>1. sm1 = a /\ repeatReq = repeatAck /\ sm0 = NoMsg /\ job = j /\ lastOut = a
    BY <1>0 DEF Ans
  <2>2. a # NoMsg /\ ~IsHandled(a)
    BY DEF Fit, IsHandled, IsError, Noise
  <2>3. CASE sm1' = NoMsg /\ mbxIn' = sm1 /\ wkc' = 1 /\ link' = "done"
    BY <1>0, <2>1, <2>3 DEF Heard, Sm1Idle
  <2>4. CASE sm1' = sm1 /\ link' = "repeat"
    BY <1>0, <1>a, <2>1, <2>4 DEF Listens, Receiving, Ans
  <2>5. CASE sm1' = NoMsg /\ link' = "repeat" /\ wkc' = NOFRAME /\ job = NoMsg
    BY <1>0, <1>a, <2>1, <2>5 DEF Listens, Receiving, Ans
  <2> QED BY <1>1, <2>1, <2>2, <2>3, <2>4, <2>5
<1>9. ~Unplaced /\ link # "done" /\ link # "empty" /\ ~Heard
  BY <1>0 DEF Unplaced, Heard
<1> QED BY <1>0, <1>2, <1>3, <1>4, <1>6, <1>7, <1>8, <1>9
    DEF LinkOK, Goes, Moves, Sending

(* Asking the slave to repeat the answer. *)
LEMMA MbxRepeatGoes ==
  ASSUME LinkOK, Good, Good', MbxRepeat, Others, NEW q, NEW a, NEW j, Fit(q, a)
  PROVE  LinkOK' /\ Goes(q, a, j)
<1>0. /\ link = "repeat" /\ link' = "ack"
      /\ UNCHANGED <<sm0, sm1, job, lastOut, repeatAck, mbxOut, mbx_cnt, outbox,
                     lastCnt, timer, mbxIn, wkc>>
      /\ UNCHANGED <<calls, pc, family, frames>>
  BY Aside DEF MbxRepeat, slaveVars, handled
<1>1. smRep' = ~smRep /\ repeatReq' = smRep'
  BY DEF MbxRepeat, Good, Watched, Reaches
<1>1a. repeatReq \in BOOLEAN /\ repeatAck \in BOOLEAN /\ repeatReq' = ~repeatReq
  BY <1>0, <1>1 DEF LinkOK, Places
<1>a. Running' = Running
  BY <1>0 DEF Running
<1>b. \A m : LeftOver(m)' <=> LeftOver(m)
  BY <1>0 DEF LeftOver
<1>2. Places'
  BY <1>0, <1>1, <1>1a, <1>a, <1>b
    DEF LinkOK, Places, Receiving, Unplaced, Sm0Idle, JobIdle
<1>3. Unasked'
  BY <1>0 DEF LinkOK, Unasked
<1>4. Counters'
  BY <1>0, <1>1 DEF LinkOK, Counters, Unplaced
<1>5. /\ Sm1Idle => Sm1Idle'
      /\ Sm0Idle => Sm0Idle'
      /\ JobIdle => JobIdle'
  BY <1>0, <1>b DEF Sm1Idle, Sm0Idle, JobIdle, Noise
<1>c. Receiving /\ Receiving'
  BY <1>0 DEF Receiving
<1>6. Still /\ Free => Still' /\ Free'
  BY <1>5, <1>c DEF Still, Free
<1>7. Listens /\ Work(q) => Listens' /\ Work(q)'
  BY <1>0, <1>5, <1>a, <1>c DEF Listens, Work
<1>8. Listens /\ Ans(a, j) => Listens' /\ Ans(a, j)'
  BY <1>0, <1>1, <1>1a, <1>a, <1>c DEF Listens, Ans
<1>9. ~Unplaced /\ link # "done" /\ link # "empty" /\ ~Heard
  BY <1>0 DEF Unplaced, Heard
<1> QED BY <1>0, <1>2, <1>3, <1>4, <1>6, <1>7, <1>8, <1>9
    DEF LinkOK, Goes, Moves, Sending

(* Waiting until the slave has done so. *)
LEMMA MbxAckGoes ==
  ASSUME LinkOK, Good, Good', MbxAck, Others, NEW q, NEW a, NEW j, Fit(q, a)
  PROVE  LinkOK' /\ Goes(q, a, j)
<1>0. /\ link = "ack"
      /\ UNCHANGED <<sm0, sm1, job, lastOut, repeatReq, repeatAck, mbxOut, mbx_cnt,
                     outbox, lastCnt, timer, smRep, mbxIn, wkc>>
      /\ UNCHANGED <<calls, pc, family, frames>>
  BY Aside DEF MbxAck, slaveVars, handled
<1>1. /\ link' \in {"ack", "again"}
      /\ Running /\ link' = "again" => repeatAck = repeatReq
  <2>1. smRep = repeatReq
    BY <1>0 DEF LinkOK, Places
  <2> QED BY <2>1 DEF MbxAck
<1>a. Running' = Running
  BY <1>0 DEF Running
<1>b. \A m : LeftOver(m)' <=> LeftOver(m)
  BY <1>0 DEF LeftOver
<1>2. Places'
  BY <1>0, <1>1, <1>a, <1>b
    DEF LinkOK, Places, Receiving, Unplaced, Sm0Idle, JobIdle
<1>3. Unasked'
  BY <1>0 DEF LinkOK, Unasked
<1>4. Counters'
  BY <1>0, <1>1 DEF LinkOK, Counters, Unplaced
<1>5. /\ Sm1Idle => Sm1Idle'
      /\ Sm0Idle => Sm0Idle'
      /\ JobIdle => JobIdle'
  BY <1>0, <1>1, <1>b DEF Sm1Idle, Sm0Idle, JobIdle, Noise
<1>c. Receiving /\ Receiving'
  BY <1>0, <1>1 DEF Receiving
<1>6. Still /\ Free => Still' /\ Free'
  BY <1>5, <1>c DEF Still, Free
<1>7. Listens /\ Work(q) => Listens' /\ Work(q)'
  BY <1>0, <1>5, <1>a, <1>c DEF Listens, Work
<1>8. Listens /\ Ans(a, j) => Listens' /\ Ans(a, j)'
  BY <1>0, <1>1, <1>a, <1>c DEF Listens, Ans
<1>9. ~Unplaced /\ link # "done" /\ link # "empty" /\ ~Heard
  BY <1>0 DEF Unplaced, Heard
<1> QED BY <1>0, <1>2, <1>3, <1>4, <1>6, <1>7, <1>8, <1>9
    DEF LinkOK, Goes, Moves, Sending

(* A timer ends: never that of a call that can still succeed, as Good      *)
(* says.                                                                   *)
LEMMA ExpireGoes ==
  ASSUME LinkOK, Good, Good', Expire, Others, NEW q, NEW a, NEW j, Fit(q, a)
  PROVE  LinkOK' /\ Goes(q, a, j)
<1>0. /\ link # "done" /\ InVain
      /\ UNCHANGED <<sm0, sm1, job, lastOut, repeatReq, repeatAck, mbxOut, mbx_cnt,
                     outbox, lastCnt, smRep, mbxIn, link, wkc>>
      /\ UNCHANGED <<calls, pc, family, frames>>
  BY Aside DEF Expire, slaveVars, handled, Good, Watched
<1>1. AtRest /\ (\/ link = "empty" /\ sm0 # NoMsg
                 \/ link = "ack" /\ repeatReq # smRep
                 \/ link \in {"avail", "read", "again"} /\ sm1 = NoMsg)
  BY <1>0, Zenon DEF InVain, Good
<1>2. link = "ack" => repeatReq = smRep
  BY DEF LinkOK, Places
<1>3. JobIdle => ~(link = "empty" /\ sm0 # NoMsg)
  <2>1. job # NoMsg /\ JobIdle => Unanswered(job)
    BY Unlike, Zenon DEF JobIdle
  <2> QED BY <1>1, <2>1, Zenon DEF AtRest, More
<1>4. ~Unplaced
  <2>1. Unplaced => JobIdle
    BY DEF LinkOK, Places
  <2> QED BY <1>1, <1>3, <2>1 DEF Unplaced
<1>b. \A m : LeftOver(m)' <=> LeftOver(m)
  BY <1>0 DEF LeftOver
<1>c. Receiving' = Receiving
  BY <1>0 DEF Receiving
<1>5. Places'
  BY <1>0, <1>4 DEF LinkOK, Places, Receiving, Unplaced
<1>6. Unasked'
  BY <1>0 DEF LinkOK, Unasked
<1>7. Counters'
  BY <1>0, <1>1 DEF LinkOK, Counters, Unplaced
<1>8. /\ Sm1Idle => Sm1Idle'
      /\ Sm0Idle => Sm0Idle'
      /\ JobIdle => JobIdle'
  BY <1>0, <1>b DEF Sm1Idle, Sm0Idle, JobIdle, Noise
<1>9. Still /\ Free => Still' /\ Free'
  BY <1>0, <1>8, <1>c DEF Still, Free
<1>10. ~(Listens /\ Work(q))
  <2> SUFFICES ASSUME Listens, Work(q) PROVE FALSE
    OBVIOUS
  <2>1. sm1 = NoMsg
    BY <1>1, <1>2 DEF Listens, Receiving
  <2>2. job = NoMsg /\ sm0 = NoMsg
    BY <1>1, <2>1, Zenon DEF AtRest, More
  <2>3. q # NoMsg
    BY DEF Fit
  <2> QED BY <2>2, <2>3, Zenon DEF Work
<1>11. ~(Listens /\ Ans(a, j))
  <2> SUFFICES ASSUME Listens, Ans(a, j) PROVE FALSE
    OBVIOUS
  <2>1. sm1 = NoMsg /\ link \in {"avail", "read", "again"}
    BY <1>1, <1>2 DEF Listens, Receiving
  <2>2. a # NoMsg
    BY DEF Fit
  <2> QED BY <2>1, <2>2 DEF Ans
<1>12. ~Heard
  BY <1>0 DEF Heard
<1>13. ~(Still /\ link = "empty" /\ Running /\ mbxOut.msg = NoMsg)
  BY <1>1, <1>3 DEF Still
<1> QED BY <1>0, <1>4, <1>5, <1>6, <1>7, <1>9, <1>10, <1>11, <1>12, <1>13
    DEF LinkOK, Goes, Moves, Sending

(* The slave takes a request out of its mailbox. *)
LEMMA TakeGoes ==
  ASSUME LinkOK, Good, Good', Take, Others, NEW q, NEW a, NEW j, Fit(q, a)
  PROVE  LinkOK' /\ Goes(q, a, j)
<1>0. /\ sm0 # NoMsg /\ job = NoMsg /\ sm0' = NoMsg /\ lastCnt' = sm0.cnt
      /\ job' = IF sm0.cnt = lastCnt THEN NoMsg ELSE sm0.msg
      /\ UNCHANGED <<sm1, lastOut, repeatReq, repeatAck, mbxOut, mbx_cnt, outbox,
                     smRep, mbxIn, link, wkc, timer>>
      /\ UNCHANGED <<calls, pc, family, frames>>
  BY Aside DEF Take, masterVars, handled
<1>1. /\ sm0.cnt = NextCnt(lastCnt) /\ lastCnt \in 0..MaxCnt
      /\ mbx_cnt \in 0..MaxCnt
      /\ Unplaced => mbx_cnt = NextCnt(sm0.cnt) /\ mbxOut.cnt = mbx_cnt
      /\ ~Unplaced => mbx_cnt = sm0.cnt
  BY <1>0, Zenon DEF LinkOK, Counters
<1>2. job' = sm0.msg /\ sm0.cnt \in 0..MaxCnt
  BY <1>0, <1>1, Counting
<1>a. Running' = Running /\ Unplaced' = Unplaced /\ Receiving' = Receiving
  BY <1>0 DEF Running, Unplaced, Receiving
<1>b. \A m : LeftOver(m)' <=> LeftOver(m)
  BY <1>0 DEF LeftOver
<1>c. (sm0 # NoMsg)' = FALSE
  BY <1>0
<1>8. /\ Sm1Idle => Sm1Idle'
      /\ Sm0Idle => Sm0Idle' /\ JobIdle'
  BY <1>0, <1>2, <1>b DEF Sm1Idle, Sm0Idle, JobIdle, Noise
<1>5. Places'
  BY <1>0, <1>8, <1>a DEF LinkOK, Places
<1>6. Unasked'
  BY <1>0 DEF LinkOK, Unasked
<1>7. Counters'
  BY <1>0, <1>1, <1>2, <1>a DEF Counters
<1>9. Still => Still'
  BY <1>8 DEF Still
<1>10. Still /\ Free => Still' /\ Free'
  BY <1>0, <1>9, <1>a DEF Free
<1>11. Sending(q) => Sending(q)'
  BY <1>0, <1>9, <1>a DEF Sending
<1>12. Work(q) => Work(q)'
  <2>1. q # NoMsg
    BY DEF Fit
  <2> QED BY <1>0, <1>2, <1>8, <2>1 DEF Work
<1>13. ~Ans(a, j)
  BY <1>0 DEF Ans
<1>14. Heard' = Heard /\ Listens' = Listens
  BY <1>0, <1>a DEF Heard, Listens
<1>15. Still /\ link = "empty" /\ Running /\ mbxOut.msg = NoMsg =>
          Still' /\ mbxOut'.msg = NoMsg /\ link' = "empty" /\ Running'
  BY <1>0, <1>9, <1>a
<1> QED BY <1>0, <1>2, <1>5, <1>6, <1>7, <1>10, <1>11, <1>12, <1>13, <1>14,
    <1>15 DEF LinkOK, Goes, Moves

(* The slave puts its last message into the mailbox again. *)
LEMMA RepeatGoes ==
  ASSUME LinkOK, Good, Good', Repeat, Others, NEW q, NEW a, NEW j, Fit(q, a)
  PROVE  LinkOK' /\ Goes(q, a, j)
<1>0. /\ repeatReq # repeatAck /\ repeatAck' = repeatReq /\ sm1' = lastOut
      /\ UNCHANGED <<sm0, job, lastCnt, lastOut, repeatReq, mbxOut, mbx_cnt,
                     outbox, smRep, mbxIn, link, wkc, timer>>
      /\ UNCHANGED <<calls, pc, family, frames>>
  BY Aside DEF Repeat, masterVars, handled
<1>a. Running' = Running /\ Unplaced' = Unplaced /\ Receiving' = Receiving
  BY <1>0 DEF Running, Unplaced, Receiving
<1>b. \A m : LeftOver(m)' <=> LeftOver(m)
  BY <1>0 DEF LeftOver
<1>8. /\ Sm1Idle => Sm1Idle'
      /\ Sm0Idle => Sm0Idle'
      /\ JobIdle => JobIdle'
  BY <1>0, <1>b DEF Sm1Idle, Sm0Idle, JobIdle, Noise
<1>5. Places'
  BY <1>0, <1>8, <1>a DEF LinkOK, Places
<1>6. Unasked'
  BY <1>0 DEF LinkOK, Unasked
<1>7. Counters'
  BY <1>0, <1>a DEF LinkOK, Counters
<1>9. Still => Still'
  BY <1>8 DEF Still
<1>10. Still /\ Free => Still' /\ Free'
  BY <1>0, <1>9, <1>a DEF Free
<1>11. Sending(q) => Sending(q)'
  BY <1>0, <1>9, <1>a DEF Sending
<1>12. Work(q) => Work(q)'
  BY <1>0, <1>8 DEF Work
<1>13. Ans(a, j) => Ans(a, j)'
  BY <1>0 DEF Ans
<1>14. Heard' = Heard /\ Listens' = Listens
  BY <1>0, <1>a DEF Heard, Listens
<1>15. Still /\ link = "empty" /\ Running /\ mbxOut.msg = NoMsg =>
          Still' /\ mbxOut'.msg = NoMsg /\ link' = "empty" /\ Running'
  BY <1>0, <1>9, <1>a
<1> QED BY <1>0, <1>5, <1>6, <1>7, <1>10, <1>11, <1>12, <1>13, <1>14, <1>15
    DEF LinkOK, Goes, Moves

(* The slave puts a message of its own into the mailbox. *)
PutUnasked ==
  /\ CanPut /\ ~Overtakes /\ Noise(sm1') /\ sm1' # NoMsg /\ lastOut' = sm1'
  /\ UNCHANGED <<sm0, job, lastCnt, repeatReq, repeatAck, mbxOut, mbx_cnt, smRep,
                 mbxIn, link, wkc, timer>>
  /\ UNCHANGED <<calls, pc, family>>

(* Something that comes unasked is put into the empty mailbox. *)
LEMMA PutGoes ==
  ASSUME LinkOK, PutUnasked, Unasked', NEW q, NEW a, NEW j, Fit(q, a)
  PROVE  LinkOK' /\ Goes(q, a, j)
<1>0. /\ CanPut /\ ~Overtakes /\ Noise(sm1') /\ sm1' # NoMsg /\ lastOut' = sm1'
      /\ UNCHANGED <<sm0, job, lastCnt, repeatReq, repeatAck, mbxOut, mbx_cnt,
                     smRep, mbxIn, link, wkc, timer>>
      /\ UNCHANGED <<calls, pc, family>>
  BY DEF PutUnasked
<1>1. sm1 = NoMsg /\ repeatReq = repeatAck
  BY <1>0, Zenon DEF CanPut
<1>a. Running' = Running /\ Unplaced' = Unplaced /\ Receiving' = Receiving
  BY <1>0 DEF Running, Unplaced, Receiving
<1>b. \A m : LeftOver(m)' <=> LeftOver(m)
  BY <1>0 DEF LeftOver
<1>8. /\ Sm1Idle => Sm1Idle'
      /\ Sm0Idle => Sm0Idle'
      /\ JobIdle => JobIdle'
  BY <1>0, <1>b DEF Sm1Idle, Sm0Idle, JobIdle, Noise
<1>5. Places'
  BY <1>0, <1>8, <1>a DEF LinkOK, Places
<1>7. Counters'
  BY <1>0, <1>a DEF LinkOK, Counters
<1>9. Still => Still'
  BY <1>8 DEF Still
<1>10. Still /\ Free => Still' /\ Free'
  BY <1>0, <1>9, <1>a DEF Free
<1>11. Sending(q) => Sending(q)'
  BY <1>0, <1>9, <1>a DEF Sending
<1>12. Work(q) => Work(q)'
  BY <1>0, <1>8 DEF Work
<1>13. ~Ans(a, j)
  <2>1. a # NoMsg
    BY DEF Fit
  <2> QED BY <1>0, <1>1, <2>1 DEF Ans, Overtakes
<1>14. Heard' = Heard /\ Listens' = Listens
  BY <1>0, <1>a DEF Heard, Listens
<1>15. Still /\ link = "empty" /\ Running /\ mbxOut.msg = NoMsg =>
          Still' /\ mbxOut'.msg = NoMsg /\ link' = "empty" /\ Running'
  BY <1>0, <1>9, <1>a
<1> QED BY <1>0, <1>5, <1>7, <1>10, <1>11, <1>12, <1>13, <1>14, <1>15
    DEF LinkOK, Goes, Moves

(* Own fragments come unasked. *)
LEMMA OwnNoise == \A m \in Own : IsFragment(m)
BY DEF Own, Fragment, IsFragment

(* The slave puts a fragment of its own frame into the mailbox. *)
LEMMA SendOutGoes ==
  ASSUME LinkOK, Good, Good', SendOut, Others, NEW q, NEW a, NEW j, Fit(q, a)
  PROVE  LinkOK' /\ Goes(q, a, j)
<1>0. /\ outbox # <<>> /\ outbox' = Tail(outbox) /\ sm1' = Head(outbox)
           /\ frames' = frames
      /\ outbox \in Seq(Own) /\ frames \in Nat /\ frames # 0
  BY Aside DEF SendOut, LinkOK, Unasked
<1>1. Head(outbox) \in Own /\ Tail(outbox) \in Seq(Own)
  BY <1>0
<1>2. IsFragment(sm1')
  BY <1>0, <1>1, OwnNoise
<1>3. PutUnasked
  <2>1. ~Overtakes
    BY Zenon DEF SendOut, Good, Watched
  <2>2. Noise(sm1') /\ sm1' # NoMsg
    BY <1>2, Unlike, Zenon DEF Noise
  <2> QED BY <2>1, <2>2, Aside DEF PutUnasked, SendOut, masterVars, handled
<1>4. Unasked'
  BY <1>0, <1>1 DEF Unasked
<1> QED BY <1>3, <1>4, PutGoes

(* The slave puts an emergency into it. *)
LEMMA EmergencyGoes ==
  ASSUME LinkOK, Good, Good', Emergency, Others, NEW q, NEW a, NEW j, Fit(q, a)
  PROVE  LinkOK' /\ Goes(q, a, j)
<1>1. sm1' = Emcy /\ lastOut' = Emcy /\ frames' = frames /\ outbox' = outbox
  BY Aside DEF Emergency
<1>2. ~IsFragment(Emcy)
  BY Unlike
<1>3. PutUnasked
  <2>1. ~Overtakes
    BY Zenon DEF Emergency, Good, Watched
  <2>2. Noise(sm1') /\ sm1' # NoMsg
    BY <1>1, Unlike, Zenon DEF Noise
  <2> QED BY <2>1, <2>2, Aside DEF PutUnasked, Emergency, masterVars, handled
<1>4. Unasked'
  BY <1>1, <1>2 DEF LinkOK, Unasked
<1> QED BY <1>3, <1>4, PutGoes

(* The slave has a frame to send. *)
LEMMA FramesGoes ==
  ASSUME LinkOK, Good, Good', Frames, NEW q, NEW a, NEW j, Fit(q, a)
  PROVE  LinkOK' /\ Goes(q, a, j)
<1> DEFINE d == Content("frame", -frames')
           f == [k \in 1..((Len(d) + M - 1) \div M) |-> Fragment(d,
             frames' % FrameNos, k - 1)]
<1>0. /\ frames' = frames + 1 /\ frames \in Nat
      /\ sm1' = f[1] /\ lastOut' = f[1] /\ outbox' = Tail(f)
  BY DEF Frames, FrameOut, LinkOK, Unasked
<1>1. Len(d) \in Nat \ {0} /\ M \in Nat \ {0}
  BY MbxCallConstants, EoeConstants DEF Content
<1>2. (Len(d) + M - 1) \div M \in Nat \ {0}
  BY <1>1
<1>3. f \in Seq(Own) /\ Len(f) \in Nat \ {0}
  <2>1. \A k \in 1..((Len(d) + M - 1) \div M) : Fragment(d, frames' % FrameNos,
          k - 1) \in Own
    <3>1. TAKE k \in 1..((Len(d) + M - 1) \div M)
    <3>2. k - 1 \in Nat /\ frames' \in Nat /\ frames' % FrameNos \in Nat
      BY <1>0, <1>2, EoeConstants
    <3>4. QED BY <3>2 DEF Own
  <2> HIDE DEF d
  <2> QED BY <1>2, <2>1
<1> HIDE DEF f
<1>4. f[1] \in Own /\ Tail(f) \in Seq(Own)
  BY <1>3
<1>5. IsFragment(sm1')
  BY <1>0, <1>4, OwnNoise
<1>6. PutUnasked
  <2>1. ~Overtakes
    BY Zenon DEF Frames, FrameOut, Good, Watched
  <2>2. Noise(sm1') /\ sm1' # NoMsg
    BY <1>5, Unlike, Zenon DEF Noise
  <2>3. lastOut' = sm1'
    BY <1>0
  <2> QED BY <2>1, <2>2, <2>3
      DEF PutUnasked, Frames, FrameOut, masterVars, handled, callVars, sessionVars
<1>7. Unasked'
  BY <1>0, <1>4 DEF Unasked
<1> QED BY <1>6, <1>7, PutGoes

(* Any step of the link layer, of a timer, or of the slave with no request *)
Transports == LinkStep \/ Expire \/ Take \/ Repeat \/ SendOut \/ Emergency

(* Every step of the link layer, and every one of the slave that serves no *)
(* request, keeps the invariant, and does to what is on its way only what  *)
(* Goes says.                                                              *)
LEMMA LinkGoes ==
  ASSUME LinkOK, Good, Good', (Transports /\ Others) \/ Frames, NEW q, NEW a,
           NEW j, Fit(q, a)
  PROVE  LinkOK' /\ Goes(q, a, j)
<1>1. CASE Frames
  BY <1>1, FramesGoes
<1>2. CASE Transports /\ Others
  BY <1>2, MbxEmptyGoes, MbxWriteGoes, MbxAvailGoes, MbxReadGoes, MbxRepeatGoes,
    MbxAckGoes, MbxAgainGoes, ExpireGoes, TakeGoes, RepeatGoes, SendOutGoes,
    EmergencyGoes DEF Transports, LinkStep
<1> QED BY <1>1, <1>2
-----------------------------------------------------------------------------
(* A request q is on its way: placed by p1, its answer awaited by p2.  The *)
(* answer a is on its way back; it has come.                               *)
Either(p1, p2) == (pc = p1 /\ Heard) \/ (pc = p2 /\ Listens)
(* The request q was made: it is to be placed, while the call is at p1, or *)
(* the slave has it, while the call is at p1 or p2.                        *)
Ask(p1, p2, q) == (pc = p1 /\ Sending(q)) \/ (Either(p1, p2) /\ Work(q))
(* The request was answered with a, and the slave has j to do next; the    *)
(* call is at p1 or p2.                                                    *)
Wait(p1, p2, a, j) == Either(p1, p2) /\ Ans(a, j)
(* The answer a was received, at p2. *)
Come(p2, a) == pc = p2 /\ Heard /\ mbxIn = a
(* ... and nothing else is on its way. *)
Delivered(p2, a) == Come(p2, a) /\ Still

(* The invariant of the link layer is kept; where nothing is on its way,   *)
(* nothing comes on its way.                                               *)
LEMMA RestCarried ==
  ASSUME LinkOK, Good, Good', (Transports /\ Others) \/ Frames
  PROVE  LinkOK' /\ (Still /\ Free => Still' /\ Free')
<1>1. \E q : Fit(q, q)
  <2>1. Fit([op |-> "any"], [op |-> "any"])
    BY DEF Fit, Noise, IsFragment, Emcy, MbxError, NoMsg
  <2> QED BY <2>1
<1> QED BY <1>1, LinkGoes DEF Goes

(* The link layer leaves the call alone. *)
LEMMA SamePc == (Transports /\ Others) \/ Frames =>
  UNCHANGED <<pc, call, buf, sent, toggle, stored, xfer, txframeno, family, calls>>
BY Aside DEF Frames, FrameOut, callVars, serverVars, sessionVars

(* A request that was made stays made, and none is lost. *)
LEMMA AskCarried ==
  ASSUME LinkOK, Good, Good', (Transports /\ Others) \/ Frames,
         NEW p1, NEW p2, NEW q, q # NoMsg, Ask(p1, p2, q)
  PROVE  Ask(p1, p2, q)'
<1>1. \E a : Fit(q, a)
  <2>1. Fit(q, [op |-> "any"])
    BY DEF Fit, Noise, IsFragment, Emcy, MbxError, NoMsg
  <2> QED BY <2>1
<1>2. PICK a : Goes(q, a, NoMsg)
  BY <1>1, LinkGoes
<1>3. pc' = pc
  BY SamePc
<1>4. Heard => Heard'
  BY <1>2 DEF Goes, Heard
<1> QED BY <1>2, <1>3, <1>4 DEF Goes, Ask, Either

(* An answer is on its way until it is received. *)
LEMMA WaitCarried ==
  ASSUME LinkOK, Good, Good', (Transports /\ Others) \/ Frames,
         NEW p1, NEW p2, NEW a, NEW j, Fit(a, a), Wait(p1, p2, a, j)
  PROVE  \/ Wait(p1, p2, a, j)'
         \/ Come(p2, a)' /\ sm0' = NoMsg /\ job' = j /\ Sm1Idle'
<1>2. Goes(a, a, j)
  BY LinkGoes
<1>3. pc' = pc
  BY SamePc
<1>4. Heard => Heard'
  BY <1>2 DEF Goes, Heard
<1> QED BY <1>2, <1>3, <1>4 DEF Goes, Wait, Either, Come

(* If the slave had nothing more to do, nothing else is on its way when    *)
(* the answer is received.                                                 *)
LEMMA AnswerCarried ==
  ASSUME LinkOK, Good, Good', (Transports /\ Others) \/ Frames,
         NEW p1, NEW p2, NEW a, Fit(a, a), Wait(p1, p2, a, NoMsg)
  PROVE  Wait(p1, p2, a, NoMsg)' \/ Delivered(p2, a)'
<1>1. CASE Wait(p1, p2, a, NoMsg)'
  BY <1>1
<1>2. CASE Come(p2, a)' /\ sm0' = NoMsg /\ job' = NoMsg /\ Sm1Idle'
  BY <1>2 DEF Delivered, Still, Sm0Idle, JobIdle
<1> QED BY <1>1, <1>2, WaitCarried

(* What was received stays received until the call goes on. *)
LEMMA ComeCarried ==
  ASSUME LinkOK, Good, Good', (Transports /\ Others) \/ Frames, NEW p2, NEW a,
           Come(p2, a)
  PROVE  Come(p2, a)'
<1>1. \E q : Fit(q, q)
  <2>1. Fit([op |-> "any"], [op |-> "any"])
    BY DEF Fit, Noise, IsFragment, Emcy, MbxError, NoMsg
  <2> QED BY <2>1
<1>2. link = "done" => link' = "done" /\ wkc' = wkc /\ mbxIn' = mbxIn
  BY <1>1, LinkGoes DEF Goes
<1> QED BY <1>2, SamePc DEF Come, Heard

(* The same, with nothing else on its way. *)
LEMMA DeliveredCarried ==
  ASSUME LinkOK, Good, Good', (Transports /\ Others) \/ Frames, NEW p2, NEW a,
           Delivered(p2, a)
  PROVE  Delivered(p2, a)'
<1>1. Come(p2, a)'
  BY ComeCarried DEF Delivered
<1>2. Still'
  BY RestCarried DEF Delivered, Come, Heard, Free
<1> QED BY <1>1, <1>2 DEF Delivered

-----------------------------------------------------------------------------
(* The steps of the master between the functions of the mailbox.           *)
SlaveStays == UNCHANGED <<sm0, sm1, repeatReq, slaveVars, family, frames>>

(* The call goes on without a message: what is on its way stays so. *)
LEMMA Stays ==
  ASSUME SlaveStays, link = "done" \/ Receiving,
           link' \in {"done", "avail", "empty"}
  PROVE  /\ Still => Still'
         /\ \A q : Work(q) => Work(q)'
         /\ link = "done" => \A a, j : Ans(a, j) => Ans(a, j)'
<1>1. UNCHANGED <<sm0, sm1, repeatReq, lastOut, repeatAck, job, family>>
  BY DEF SlaveStays, slaveVars
<1>2. \A m : LeftOver(m)' <=> LeftOver(m)
  BY <1>1 DEF LeftOver
<1>3. Sm1Idle => Sm1Idle'
  BY <1>1 DEF Sm1Idle, Noise
<1>4. (Sm0Idle => Sm0Idle') /\ (JobIdle => JobIdle')
  BY <1>1, <1>2 DEF Sm0Idle, JobIdle
<1>5. Still => Still'
  BY <1>3, <1>4 DEF Still
<1>6. \A q : Work(q) => Work(q)'
  BY <1>1, <1>3, <1>4 DEF Work
<1>7. link = "done" => \A a, j : Ans(a, j) => Ans(a, j)'
  BY <1>1 DEF Ans
<1> QED BY <1>5, <1>6, <1>7

(* The call sends a message, when nothing is on its way. *)
LEMMA Posted ==
  ASSUME LinkOK, link = "done", Still, NEW m, m # NoMsg, StartSend(m),
           frames' = frames,
         family' = family, pc' # "returned", calls' # 0
  PROVE  LinkOK' /\ Sending(m)'
<1>0. /\ UNCHANGED <<sm0, sm1, repeatReq, lastOut, repeatAck, job, outbox, lastCnt,
                     family, frames>>
      /\ link' = "empty" /\ timer' = "running" /\ smRep' = FALSE
      /\ mbx_cnt' = NextCnt(mbx_cnt) /\ mbxOut' = [cnt |-> mbx_cnt', msg |-> m]
  BY DEF StartSend, slaveVars
<1>1. Still'
  BY <1>0, Stays DEF SlaveStays, slaveVars, StartSend
<1>2. Unplaced' /\ Running' /\ ~Unplaced /\ ~Receiving'
  BY <1>0 DEF Unplaced, Running, Receiving
<1>3. Places'
  BY <1>0, <1>1, <1>2 DEF LinkOK, Places, Still
<1>4. Unasked'
  BY <1>0 DEF LinkOK, Unasked
<1>5. Counters'
  <2>1. mbx_cnt \in 0..MaxCnt /\ mbx_cnt' \in 0..MaxCnt
    BY <1>0, Counting DEF LinkOK, Counters
  <2> QED BY <1>0, <1>2, <2>1 DEF LinkOK, Counters
<1> QED BY <1>0, <1>1, <1>2, <1>3, <1>4, <1>5 DEF LinkOK, Sending

(* The call waits for a message. *)
LEMMA Waits ==
  ASSUME LinkOK, link = "done", NEW t, StartReceive(t), frames' = frames,
         family' = family, pc' # "returned", calls' # 0
  PROVE  /\ LinkOK'
         /\ Receiving' /\ (t = "running" => Listens')
         /\ Still => Still'
         /\ \A q : Work(q) => Work(q)'
         /\ \A a, j : Ans(a, j) => Ans(a, j)'
<1>0. /\ UNCHANGED <<sm0, sm1, repeatReq, lastOut, repeatAck, job, outbox, lastCnt,
                     family, frames, mbxOut, mbx_cnt>>
      /\ link' = "avail" /\ timer' = t /\ smRep' = FALSE
  BY DEF StartReceive, slaveVars
<1>1. Receiving' /\ ~Unplaced' /\ ~Unplaced
  BY <1>0 DEF Receiving, Unplaced
<1>2. Places'
  BY <1>0, <1>1 DEF LinkOK, Places
<1>3. Unasked'
  BY <1>0 DEF LinkOK, Unasked
<1>4. Counters'
  BY <1>0, <1>1 DEF LinkOK, Counters
<1>5. t = "running" => Listens'
  BY <1>0, <1>1 DEF Listens, Running
<1>6. SlaveStays
  BY DEF SlaveStays, StartReceive
<1> QED BY <1>0, <1>1, <1>2, <1>3, <1>4, <1>5, <1>6, Stays DEF LinkOK

(* Between two functions, or at the end of the call. *)
Between ==
  /\ SlaveStays /\ link = "done" /\ link' = "done"
  /\ UNCHANGED <<mbxOut, mbx_cnt>>

(* The call goes on with neither. *)
LEMMA Pauses ==
  ASSUME LinkOK, Between
  PROVE  /\ LinkOK'
         /\ Still => Still'
         /\ \A q : Work(q) => Work(q)'
         /\ \A a, j : Ans(a, j) => Ans(a, j)'
<1>0. /\ UNCHANGED <<sm0, sm1, repeatReq, lastOut, repeatAck, job, outbox, lastCnt,
                     family, frames, mbxOut, mbx_cnt>>
      /\ link' = "done" /\ link = "done"
  BY DEF Between, SlaveStays, slaveVars
<1>1. ~Unplaced' /\ ~Unplaced /\ ~Receiving'
  BY <1>0 DEF Unplaced, Receiving
<1>2. Places'
  BY <1>0, <1>1 DEF LinkOK, Places
<1>3. Unasked'
  BY <1>0 DEF LinkOK, Unasked
<1>4. Counters'
  BY <1>0, <1>1 DEF LinkOK, Counters
<1> QED BY <1>0, <1>2, <1>3, <1>4, Stays DEF LinkOK, Between

(* What a call that returns, or goes on, leaves alone. *)
LEMMA Returns ==
  /\ \A r : Return(r) => link' = link /\ wkc' = r /\ pc' = "returned"
  /\ \A p : GoTo(p) => link' = link /\ wkc' = wkc /\ pc' = p /\ mbxIn' = mbxIn
  /\ link = "done" /\ link' = link /\ UNCHANGED <<family, frames>>
       /\ LinkUnchanged =>
       Between /\ stored' = stored /\ xfer' = xfer /\ hook' = hook
         /\ clean' = clean /\ alive' = alive
BY DEF Return, GoTo, masterVars, LinkUnchanged, Between, SlaveStays, slaveVars,
  serverVars

-----------------------------------------------------------------------------
(* The slave answers the request, or is done with what it does not answer. *)
LEMMA Responded ==
  ASSUME LinkOK, Heard \/ Listens, NEW m, NEW j, RespondAndGoOn(m, j), m # NoMsg,
           ~IsFragment(m),
         NEW q, Work(q), ~LeftOver(job), UNCHANGED <<family, frames, calls, pc>>
  PROVE  LinkOK' /\ Ans(m, j)' /\ job = q /\ sm0 = NoMsg /\ Heard' = Heard
           /\ Listens' = Listens
<1>0. /\ sm1' = m /\ lastOut' = m /\ job' = j /\ job # NoMsg
           /\ repeatReq = repeatAck
      /\ UNCHANGED <<sm0, repeatReq, repeatAck, outbox, lastCnt, mbxOut, mbx_cnt,
                     link, timer, smRep, wkc>>
  BY DEF RespondAndGoOn, CanPut, masterVars
<1>1. job = q /\ sm0 = NoMsg
  BY <1>0 DEF Work, JobIdle
<1>2. ~Unplaced /\ ~Unplaced' /\ Receiving' = Receiving
  BY <1>0 DEF Heard, Listens, Receiving, Unplaced
<1>3. Places'
  BY <1>0, <1>1, <1>2 DEF LinkOK, Places
<1>4. Unasked'
  BY <1>0 DEF LinkOK, Unasked
<1>5. Counters'
  BY <1>0, <1>1, <1>2 DEF LinkOK, Counters
<1>6. Ans(m, j)'
  BY <1>0, <1>1 DEF Ans
<1>7. Heard' = Heard /\ Listens' = Listens
  BY <1>0, <1>2 DEF Heard, Listens, Running
<1> QED BY <1>1, <1>3, <1>4, <1>5, <1>6, <1>7 DEF LinkOK

(* The slave takes a message it answers nothing to. *)
LEMMA Absorbed ==
  ASSUME LinkOK, Absorb, LeftOver(job), UNCHANGED <<family, frames, calls, pc>>
  PROVE  /\ LinkOK'
         /\ Still => Still'
         /\ \A q : ~LeftOver(q) /\ Work(q) => Work(q)'
         /\ \A q : Sending(q) => Sending(q)'
         /\ Heard' = Heard /\ Listens' = Listens /\ Free' = Free
<1>0. /\ job' = NoMsg
      /\ UNCHANGED <<sm0, sm1, lastOut, repeatReq, repeatAck, outbox, lastCnt,
                     mbxOut, mbx_cnt, link, timer, smRep, wkc>>
      /\ UNCHANGED <<family, frames, calls, pc>>
  BY DEF Absorb, masterVars
<1>b. \A m : LeftOver(m)' <=> LeftOver(m)
  BY <1>0 DEF LeftOver
<1>2. Unplaced = Unplaced' /\ Receiving' = Receiving /\ Running' = Running
  BY <1>0 DEF Receiving, Unplaced, Running
<1>1. (Sm0Idle => Sm0Idle') /\ JobIdle' /\ (Sm1Idle => Sm1Idle')
  BY <1>0, <1>b DEF Sm0Idle, JobIdle, Sm1Idle, Noise
<1>3. Places'
  BY <1>0, <1>1, <1>2 DEF LinkOK, Places
<1>4. Unasked'
  BY <1>0 DEF LinkOK, Unasked
<1>5. Counters'
  BY <1>0, <1>2 DEF LinkOK, Counters
<1>6. Still => Still'
  BY <1>1 DEF Still
<1>7. \A q : ~LeftOver(q) /\ Work(q) => Work(q)'
  BY <1>0, <1>1 DEF Work
<1>8. \A q : Sending(q) => Sending(q)'
  BY <1>0, <1>2, <1>6 DEF Sending
<1>9. Heard' = Heard /\ Listens' = Listens /\ Free' = Free
  BY <1>0, <1>2 DEF Heard, Listens, Free
<1> QED BY <1>3, <1>4, <1>5, <1>6, <1>7, <1>8, <1>9 DEF LinkOK

(* When nothing is asked, there is nothing to answer. *)
LEMMA Unanswering ==
  ASSUME NEW q, NEW a, NEW m, NEW j, RespondAndGoOn(m, j), ~LeftOver(job), a # NoMsg
  PROVE  ~Still /\ ~Sending(q) /\ ~Ans(a, NoMsg)
<1>1. job # NoMsg /\ sm1 = NoMsg /\ repeatReq = repeatAck
  BY DEF RespondAndGoOn, CanPut
<1> QED BY <1>1 DEF Still, Sending, JobIdle, Ans
-----------------------------------------------------------------------------
(* Sessions: calls of one family of services, one after the other.         *)

(* Something was received only where a function has come to its end.       *)
Unheard ==
  /\ wkc \in Int
  /\ wkc > 0 => link = "done" \/ (link = "empty" /\ mbxOut.msg = NoMsg)
(* What always holds of the calls: none in progress before the first; the  *)
(* slave hears nothing once it is gone.                                    *)
Session ==
  /\ calls \in Nat /\ frames \in Nat
  /\ calls = 0 => call.kind = "none"
  /\ call.kind = "none" => pc = "returned"
  /\ Unheard

(* A step of a call, made of the function of the mailbox that has ended. *)
Services == SdoStep \/ PdoStep \/ FoeStep \/ SoeStep \/ InfoStep \/ Placed
  \/ NotPlaced
(* A step of the slave that serves a request. *)
Serves ==
  \/ ServeSdo \/ ServePdo \/ ServeFoe \/ ServeSoe \/ ServeInfo \/ ServeEoe
  \/ Reject /\ UNCHANGED serverVars

(* What a step of a service leaves alone, and where it goes on.            *)
Turns ==
  /\ UNCHANGED <<hook, clean, alive, stored, xfer>>
  /\ wkc \in Int => wkc' \in Int
  /\ wkc' > 0 => link' = "done"

(* A step of the master between two functions of the mailbox.              *)
LEMMA TurnIs ==
  /\ \A m, p : Post(m, p) => Turns /\ pc' = p
  /\ \A m : StartSend(m) /\ UNCHANGED serverVars => Turns
  /\ \A t : StartReceive(t) /\ UNCHANGED serverVars => Turns
  /\ link = "done" /\ Quiet =>
       (\A r : Return(r) /\ (wkc \in Int => r \in Int) => Turns /\ pc' = "returned")
                               /\ (\A p : GoTo(p) => Turns /\ pc' = p)
  /\ link = "done" => \A e : Report(e) =>
       (\A r : Return(r) /\ (wkc \in Int => r \in Int) => Turns /\ pc' = "returned")
                               /\ (\A p : GoTo(p) => Turns /\ pc' = p)
<1> USE DEF Turns, serverVars
<1>1. \A m : StartSend(m) /\ UNCHANGED serverVars => Turns
  BY DEF StartSend, slaveVars, handled
<1>2. \A m, p : Post(m, p) => Turns /\ pc' = p
  BY DEF Post, StartSend, slaveVars, handled
<1>3. \A t : StartReceive(t) /\ UNCHANGED serverVars => Turns
  BY DEF StartReceive, slaveVars, handled
<1>4. LinkUnchanged => UNCHANGED <<hook, clean, alive, stored, xfer>>
  BY DEF LinkUnchanged, slaveVars
<1>5. link = "done" => /\ \A r : Return(r) =>
                            link' = "done" /\ pc' = "returned" /\ wkc' = r
                       /\ \A p : GoTo(p) => link' = "done" /\ pc' = p /\ wkc' = wkc
  BY DEF Return, GoTo, masterVars
<1>6. Quiet => LinkUnchanged
  BY DEF Quiet
<1>7. \A e : Report(e) => LinkUnchanged
  BY DEF Report
<1>8. ASSUME link = "done", LinkUnchanged, NEW r, Return(r),
               wkc \in Int => r \in Int
      PROVE  Turns /\ pc' = "returned"
  <2>1. link' = "done" /\ pc' = "returned" /\ wkc' = r
    BY <1>8, <1>5
  <2> QED BY <1>8, <1>4, <2>1
<1>9. link = "done" /\ LinkUnchanged => (\A p : GoTo(p) => Turns /\ pc' = p)
  BY <1>4, <1>5
<1> HIDE DEF Turns
<1> QED BY <1>1, <1>2, <1>3, <1>6, <1>7, <1>8, <1>9

(* Where a call of the SDO service can be. *)
SdoPlaces == {"request", "response", "segment", "segmentSent", "segmentResponse",
  "returned"}
(* Each step of a SDO call goes on, sends or receives, and leaves what is  *)
(* the slave's alone.                                                      *)
LEMMA SdoTurns == SdoStep => Turns /\ pc' \in SdoPlaces /\ pc # "returned"
<1> SUFFICES ASSUME SdoStep PROVE Turns /\ pc' \in SdoPlaces /\ pc # "returned"
  OBVIOUS
<1> USE TurnIs DEF SdoPlaces, At, Answered
<1>1. CASE Initiate
  BY <1>1 DEF Initiate
<1>2. CASE SdoNoResponse \/ Unexpected
  BY <1>2 DEF SdoNoResponse, Unexpected
<1>3. CASE Uploaded \/ UploadBegins
  BY <1>3 DEF Uploaded, UploadBegins, TooSmall
<1>4. CASE Downloaded \/ SegmentDownloaded
  BY <1>4 DEF Downloaded, SegmentDownloaded
<1>5. CASE Segment
  BY <1>5 DEF Segment
<1>6. CASE SegmentPlaced
  BY <1>6 DEF SegmentPlaced
<1>7. CASE SegmentFails \/ SegmentUnexpected \/ SegmentUploaded
  BY <1>7 DEF SegmentFails, SegmentUnexpected, SegmentUploaded
<1> QED BY <1>1, <1>2, <1>3, <1>4, <1>5, <1>6, <1>7 DEF SdoStep

(* So do those between sending and receiving. *)
LEMMA PlacedTurns == Placed \/ NotPlaced =>
                       Turns /\ pc' \in {"response", "returned"}
                         /\ pc # "returned" /\ call' = call
BY TurnIs DEF Placed, NotPlaced, At, Answered

(* So do those of a PDO call. *)
LEMMA PdoTurns == PdoStep => Turns /\ pc' \in {"sending", "request", "returned"}
  /\ pc # "returned"
<1> USE TurnIs DEF At, Answered
<1>1. PdoSend \/ PdoRequest =>
        Turns /\ pc' \in {"sending", "request", "returned"} /\ pc # "returned"
  BY DEF PdoSend, PdoRequest
<1>2. PdoSent \/ PdoReceived \/ PdoFails =>
        Turns /\ pc' = "returned" /\ pc # "returned"
  BY DEF PdoSent, PdoReceived, PdoFails
<1> QED BY <1>1, <1>2 DEF PdoStep

(* So do those of FoE. *)
LEMMA FoeTurns == FoeStep => Turns /\ pc' \in {"request", "last", "returned"}
  /\ pc # "returned"
<1> USE TurnIs DEF At, Answered
<1>1. FoeRequest \/ FoePacket \/ FoeAck =>
        Turns /\ pc' \in {"request", "last", "returned"} /\ pc # "returned"
  BY DEF FoeRequest, FoePacket, FoeAck
<1>e. \A m : FoeError(m) \in Int
  BY DEF FoeError, PACKET_ERROR, FOE_ERROR, FOE_BUF2SMALL, FOE_PACKETNUMBER
<1>2. FoeEnds \/ FoeBusy \/ FoeRefused =>
        Turns /\ pc' = "returned" /\ pc # "returned"
  BY <1>e DEF FoeEnds, FoeBusy, FoeRefused
<1> QED BY <1>1, <1>2 DEF FoeStep

(* Where a call of SoE can be. *)
SoePlaces == {"request", "response", "fragmentSent", "emptied", "fragment",
  "early", "returned"}
(* A SoE write also empties the mailbox between its fragments. *)
SoeTurn ==
  \/ Turns
  \/ UNCHANGED <<hook, clean, alive, stored, xfer, wkc>> /\ link' = "empty"
       /\ mbxOut'.msg = NoMsg
(* So do those of SoE. *)
LEMMA SoeTurns == SoeStep => SoeTurn /\ pc' \in SoePlaces /\ pc # "returned"
<1> SUFFICES ASSUME SoeStep PROVE SoeTurn /\ pc' \in SoePlaces /\ pc # "returned"
  OBVIOUS
<1> USE TurnIs DEF At, Answered, SoePlaces, SoeTurn
<1>1. CASE SoeReadRequest \/ SoeFragment
  BY <1>1 DEF SoeReadRequest, SoeFragment
<1>2. CASE SoeFragmentSent /\ ~(wkc > 0)
  BY <1>2 DEF SoeFragmentSent
<1>3. CASE SoeFragmentSent /\ wkc > 0
  <2>1. link' = "empty" /\ mbxOut' = [mbxOut EXCEPT !.msg = NoMsg]
          /\ pc' = "emptied" /\ pc # "returned"
        /\ UNCHANGED <<hook, clean, alive, stored, xfer, wkc>>
    BY <1>3 DEF SoeFragmentSent, StartEmpty, slaveVars, handled, serverVars
  <2> QED BY <2>1
<1>4. CASE SoeEmptied
  BY <1>4 DEF SoeEmptied
<1>5. CASE SoeNoResponse \/ SoeWritten \/ SoeUnexpected
  BY <1>5 DEF SoeNoResponse, SoeWritten, SoeUnexpected
<1>6. CASE SoeReceived
  BY <1>6 DEF SoeReceived
<1> QED BY <1>1, <1>2, <1>3, <1>4, <1>5, <1>6 DEF SoeStep

(* So do those of the SDO information service. *)
LEMMA InfoTurns == InfoStep =>
  Turns /\ pc' \in {"drain", "request", "response", "more", "entry", "returned"}
                                /\ pc # "returned"
<1> SUFFICES ASSUME InfoStep
             PROVE  Turns /\ pc' \in {"drain", "request", "response", "more",
                      "entry", "returned"}
                    /\ pc # "returned"
  OBVIOUS
<1> USE TurnIs DEF At, Answered
<1>1. CASE InfoRequest
  BY <1>1 DEF InfoRequest
<1>2. CASE ListReceived \/ DescriptionReceived
  BY <1>2 DEF ListReceived, DescriptionReceived
<1>3. CASE MoreOfList \/ NextEntry
  BY <1>3 DEF MoreOfList, NextEntry
<1>4. CASE InfoFails
  BY <1>4 DEF InfoFails, EntryDone
<1>5. CASE EntryReceived
  BY <1>5 DEF EntryReceived, EntryDone
<1> QED BY <1>1, <1>2, <1>3, <1>4, <1>5 DEF InfoStep

(* So do those of EoE. *)
LEMMA EoeTurns == EoeStep => Turns
  /\ pc' \in {"request", "sending", "response", "returned"} /\ pc # "returned"
                               /\ frames' = frames
<1> SUFFICES ASSUME EoeStep
             PROVE  Turns /\ pc' \in {"request", "sending", "response",
                      "returned"} /\ pc # "returned"
                    /\ frames' = frames
  OBVIOUS
<1> USE TurnIs DEF At, Answered, eoeVars
<1>1. CASE IpRequest
  BY <1>1 DEF IpRequest
<1>2. CASE IpResponse \/ Polled \/ EoeNotReceived
  BY <1>2 DEF IpResponse, Polled, EoeNotReceived, INVALID_RX_DATA
<1>3. CASE EoeSent
  BY <1>3 DEF EoeSent
<1>4. CASE EoeFragmentReceived
  BY <1>4 DEF EoeFragmentReceived
<1> QED BY <1>1, <1>2, <1>3, <1>4 DEF EoeStep

(* Which services run, and which requests the server answers.              *)
LEMMA Alone ==
  /\ call.kind \notin {"read", "write"}
       /\ pc \notin {"segment", "segmentSent", "segmentResponse"} => ~SdoStep
  /\ call.kind \notin {"RxPDO", "TxPDO"} => ~PdoStep
  /\ call.kind \notin {"FOEread", "FOEwrite"} => ~FoeStep
  /\ call.kind \notin {"SoEread", "SoEwrite"}
       /\ pc \notin {"fragmentSent", "emptied"} => ~SoeStep
  /\ call.kind \notin {"ODlist", "od", "oe"} /\ pc \notin {"more", "entry"} =>
       ~InfoStep
  /\ call.kind \notin {"EOEgetIp", "EOEsetIp", "poll", "EOEsend", "EOErecv"} =>
       ~EoeStep
<1>2. call.kind \notin {"read", "write"}
        /\ pc \notin {"segment", "segmentSent", "segmentResponse"} => ~SdoStep
  BY DEF SdoStep, Initiate, SdoNoResponse, Unexpected, Uploaded, UploadBegins,
              Downloaded, Segment, SegmentPlaced, SegmentFails, SegmentUnexpected,
              SegmentUploaded, SegmentDownloaded, IsSdo, Answered, At
<1>3. call.kind \notin {"RxPDO", "TxPDO"} => ~PdoStep
  BY DEF PdoStep, PdoSend, PdoSent, PdoRequest, PdoReceived, PdoFails
<1>4. call.kind \notin {"FOEread", "FOEwrite"} => ~FoeStep
  BY DEF FoeStep, FoeRequest, FoeEnds, FoePacket, FoeAck, FoeBusy, FoeRefused, IsFoe
<1>5. call.kind \notin {"SoEread", "SoEwrite"}
        /\ pc \notin {"fragmentSent", "emptied"} => ~SoeStep
  BY DEF SoeStep, SoeReadRequest, SoeFragment, SoeFragmentSent, SoeEmptied,
              SoeNoResponse, SoeReceived, SoeWritten, SoeUnexpected, IsSoe,
              Answered, At
<1>6. call.kind \notin {"ODlist", "od", "oe"} /\ pc \notin {"more", "entry"} =>
        ~InfoStep
  BY DEF InfoStep, InfoRequest, ListReceived, MoreOfList, DescriptionReceived,
              InfoFails, EntryReceived, NextEntry, IsInfo
<1>7. call.kind \notin {"EOEgetIp", "EOEsetIp", "poll", "EOEsend", "EOErecv"} =>
        ~EoeStep
  BY DEF EoeStep, IpRequest, IpResponse, Polled, EoeSent, EoeFragmentReceived,
    EoeNotReceived, IsIp
<1> QED BY <1>2, <1>3, <1>4, <1>5, <1>6, <1>7

(* The requests of the SDO service. *)
SdoOps == {"upload", "download", "uploadSegment", "downloadSegment"}
(* A request is served only by its own service. *)
LEMMA Unserved ==
  /\ job.op \notin SdoOps => ~ServeSdo
  /\ job.op \notin {"RxPDO", "TxPDOrequest"} => ~ServePdo
  /\ job.op # "foe" => ~ServeFoe
  /\ job.op # "soe" => ~ServeSoe
  /\ job.op # "info" => ~ServeInfo
  /\ job.op # "eoe" => ~ServeEoe
<1>1. job.op \notin SdoOps => ~ServeSdo
  BY DEF SdoOps, ServeSdo, ServeUpload, ServeDownload, ServeUploadSegment,
    ServeDownloadSegment, Refuse
<1>2. job.op \notin {"RxPDO", "TxPDOrequest"} => ~ServePdo
  BY DEF ServePdo
<1>3. job.op # "foe" => ~ServeFoe
  BY DEF ServeFoe, ServeFile, ServeAck, ServePacket, ServeBusy, ServeFoeError,
    IsFoeJob, Acknowledged, NextPacket
<1>4. job.op # "soe" => ~ServeSoe
  BY DEF ServeSoe, ServeIdn, ServeFragment, ServeSoeError, IsSoeOf
<1>5. job.op # "info" => ~ServeInfo
  BY DEF ServeInfo, ServeList, ServeDescription
<1>6. job.op # "eoe" => ~ServeEoe
  BY DEF ServeEoe, ServeIp, ServeFrame, IsEoeJob
<1> QED BY <1>1, <1>2, <1>3, <1>4, <1>5, <1>6
-----------------------------------------------------------------------------
(* The link layer hears nothing of a slave that is not there.              *)
LEMMA LinkCounts == LinkStep /\ wkc \in Int => wkc' \in Int
<1> SUFFICES ASSUME LinkStep, wkc \in Int PROVE wkc' \in Int
  OBVIOUS
<1>0. \A o, x : WkcOf(o, x) \in Int
  BY DEF WkcOf, NOFRAME
<1>1. MbxEmpty => wkc' \in {0, 1, wkc}
  BY DEF MbxEmpty
<1>2. MbxAvail => \E o, x : wkc' \in {wkc, TIMEOUT, WkcOf(o, x)}
  BY DEF MbxAvail
<1>3. MbxRead => \E o, x : wkc' \in {0, WkcOf(o, x)}
  BY DEF MbxRead
<1>4. MbxWrite => \E o, x : wkc' \in {wkc, WkcOf(o, x)}
  BY DEF MbxWrite
<1>5. MbxRepeat \/ MbxAck \/ MbxAgain => wkc' = wkc
  BY DEF MbxRepeat, MbxAck, MbxAgain
<1>6. TIMEOUT \in Int
  BY DEF TIMEOUT
<1> QED BY <1>0, <1>1, <1>2, <1>3, <1>4, <1>5, <1>6 DEF LinkStep

(* A slave that is gone neither takes nor answers: what the link layer     *)
(* then has is no success.                                                 *)
LEMMA LinkHears ==
  ASSUME LinkStep, Unheard
  PROVE  /\ Unheard'
         /\ ~alive => ~(wkc' > 0)
         /\ alive' = alive /\ link # "done" /\ (clean' => clean)
         /\ job' = job
<1>i. wkc \in Int /\ wkc' \in Int
  BY LinkCounts DEF Unheard
<1>u. wkc > 0 => link = "done" \/ (link = "empty" /\ mbxOut.msg = NoMsg)
  BY DEF Unheard
<1>g. SUFFICES /\ wkc' > 0 =>
                    link' = "done" \/ (link' = "empty" /\ mbxOut'.msg = NoMsg)
               /\ ~alive => ~(wkc' > 0)
               /\ alive' = alive /\ link # "done" /\ (clean' => clean)
               /\ job' = job
  BY <1>i DEF Unheard
<1> USE <1>u DEF NOFRAME, TIMEOUT, WkcOf, slaveVars
<1>1. CASE MbxEmpty
  <2>1. PICK o \in Outcome :
          LET empty == WkcOf(o, TRUE) > 0 /\ sm0 = NoMsg
              alone == mbxOut.msg = NoMsg
          IN /\ link' = IF ~empty THEN GoOn("empty")
                        ELSE IF alone THEN "done" ELSE "write"
             /\ wkc' = IF ~empty THEN 0 ELSE IF alone THEN 1 ELSE wkc
    BY <1>1 DEF MbxEmpty
  <2>2. alive' = alive /\ link = "empty" /\ clean' = clean /\ job' = job
          /\ mbxOut' = mbxOut
    BY <1>1 DEF MbxEmpty
  <2>3. CASE WkcOf(o, TRUE) > 0 /\ sm0 = NoMsg
    <3>1. alive
      BY <2>3
    <3>2. mbxOut.msg = NoMsg => link' = "done"
      BY <2>1, <2>3
    <3>3. mbxOut.msg # NoMsg => wkc' = wkc
      BY <2>1, <2>3
    <3>4. mbxOut.msg # NoMsg => ~(wkc > 0)
      BY <2>2
    <3> QED BY <2>2, <3>1, <3>2, <3>3, <3>4
  <2>4. CASE ~(WkcOf(o, TRUE) > 0 /\ sm0 = NoMsg)
    <3>1. wkc' = 0
      BY <2>1, <2>4
    <3> QED BY <2>2, <3>1
  <2> QED BY <2>3, <2>4
<1>2. CASE MbxWrite
  <2>1. PICK o \in Outcome : 
       LET r == WkcOf(o, sm0 = NoMsg) IN
       /\ clean' = (clean /\ (o = "back"
            \/ (o = "lostOut" /\ tries + 1 < MaxTries)))
       /\ IF r = NOFRAME /\ tries + 1 < MaxTries
          THEN tries' = tries + 1 /\ UNCHANGED <<link, wkc>>
          ELSE tries' = 0 /\ link' = "done" /\ wkc' = r
    BY <1>2 DEF MbxWrite
  <2>2. alive' = alive /\ link = "write" /\ job' = job
    BY <1>2 DEF MbxWrite
  <2>3. clean' => clean
    BY <2>1, Zenon
  <2>4. CASE UNCHANGED <<link, wkc>>
    BY <2>2, <2>3, <2>4
  <2>5. CASE link' = "done" /\ wkc' = WkcOf(o, sm0 = NoMsg)
    <3>1. ~alive => ~(wkc' > 0)
      BY <2>5
    <3> QED BY <2>2, <2>3, <2>5, <3>1
  <2> QED BY <2>1, <2>4, <2>5
<1>3. CASE MbxAvail
  <2>1. PICK o \in Outcome : 
       LET r == WkcOf(o, TRUE)
           available == r > 0 /\ sm1 # NoMsg IN
       wkc' = IF available THEN wkc ELSE IF r > 0 THEN TIMEOUT ELSE r
    BY <1>3 DEF MbxAvail
  <2>2. alive' = alive /\ link = "avail" /\ clean' = clean /\ job' = job
    BY <1>3 DEF MbxAvail
  <2>3. wkc' = wkc \/ ~(wkc' > 0)
    BY <2>1
  <2>4. ~alive => ~(WkcOf(o, TRUE) > 0)
    OBVIOUS
  <2>5. ~alive => ~(wkc' > 0)
    BY <2>1, <2>4, <2>2
  <2> QED BY <2>2, <2>3, <2>5
<1>4. CASE MbxRead
  <2>1. PICK o \in Outcome : 
       LET r == WkcOf(o, sm1 # NoMsg) IN
       /\ wkc' = IF r > 0 /\ IsHandled(sm1) THEN 0 ELSE r
       /\ link' = IF r <= 0 THEN "repeat"
                  ELSE IF IsHandled(sm1) /\ Running THEN "read" ELSE "done"
       /\ clean' = (clean /\ ~(o = "lostBack" /\ More))
    BY <1>4 DEF MbxRead
  <2>2. alive' = alive /\ link = "read" /\ job' = job
    BY <1>4 DEF MbxRead
  <2>3. clean' => clean
    BY <2>1, Zenon
  <2>4. CASE WkcOf(o, sm1 # NoMsg) > 0
    <3>1. wkc' = 0 \/ link' = "done"
      <4>1. CASE IsHandled(sm1)
        BY <2>1, <2>4, <4>1
      <4>2. CASE ~IsHandled(sm1)
        BY <2>1, <2>4, <4>2
      <4> QED BY <4>1, <4>2
    <3> QED BY <2>2, <2>3, <2>4, <3>1
  <2>5. CASE ~(WkcOf(o, sm1 # NoMsg) > 0)
    <3>1. wkc' = WkcOf(o, sm1 # NoMsg)
      BY <2>1, <2>5
    <3> QED BY <2>2, <2>3, <2>5, <3>1
  <2> QED BY <2>4, <2>5
<1>5. CASE MbxRepeat
  BY <1>5 DEF MbxRepeat
<1>6. CASE MbxAck \/ MbxAgain
  BY <1>6 DEF MbxAck, MbxAgain
<1> QED BY <1>1, <1>2, <1>3, <1>4, <1>5, <1>6 DEF LinkStep

(* The slave's server leaves the master alone.                             *)
Leaves ==
  /\ UNCHANGED <<masterVars, mbxOut, hook, alive>> /\ alive
  /\ clean' => clean
(* Serving a request leaves the master alone. *)
LEMMA ServesLeave == Serves => Leaves
<1> SUFFICES ASSUME Serves PROVE Leaves
  OBVIOUS
<1> USE DEF Leaves
<1>1. \A m, j : RespondAndGoOn(m, j) => Leaves
  BY DEF RespondAndGoOn, CanPut, handled
<1>2. \A m : Respond(m) => Leaves
  BY <1>1 DEF Respond
<1>3. \A m : Spoil(m) => Leaves
  BY DEF Spoil, CanPut, handled
<1>4. Absorb => Leaves
  BY DEF Absorb, handled
<1> HIDE DEF Leaves
<1>5. CASE ServeSdo
  BY <1>2, <1>5 DEF ServeSdo, ServeUpload, ServeDownload, ServeUploadSegment,
                    ServeDownloadSegment, Refuse
<1>6. CASE ServePdo
  BY <1>2, <1>4, <1>6 DEF ServePdo
<1>7. CASE ServeFoe
  BY <1>2, <1>3, <1>4, <1>7
    DEF ServeFoe, ServeFile, ServeAck, ServePacket, ServeBusy,
                                ServeFoeError, SendPacket
<1>8. CASE ServeSoe
  BY <1>1, <1>2, <1>3, <1>4, <1>8
    DEF ServeSoe, ServeIdn, ServeFragment, ServeSoeError
<1>9. CASE ServeInfo
  BY <1>1, <1>2, <1>3, <1>9 DEF ServeInfo, ServeList, ServeDescription
<1>10. CASE ServeEoe
  BY <1>2, <1>4, <1>10 DEF ServeEoe, ServeIp, ServeFrame
<1>11. CASE Reject
  BY <1>3, <1>11 DEF Reject
<1> QED
  BY <1>5, <1>6, <1>7, <1>8, <1>9, <1>10, <1>11 DEF Serves

(* A call begins.                                                          *)
LEMMA CallTurns == Call => Turns /\ pc = "returned" /\ frames' = frames
<1> SUFFICES ASSUME Call PROVE Turns /\ pc = "returned" /\ frames' = frames
  OBVIOUS
<1>1. \A c : Enter(c) => Turns /\ pc = "returned"
  BY TurnIs DEF Enter
<1>f. CASE UNCHANGED eoeVars /\ \E c : Enter(c)
  BY <1>1, <1>f DEF eoeVars
<1>2. SdoCalls \/ PdoCalls \/ FoeCalls \/ SoeCalls => \E c : Enter(c)
  BY DEF SdoCalls, CallRead, CallWrite, PdoCalls, FoeCalls, SoeCalls, RxPDO, TxPDO,
    FoeRead, FoeWrite,
                    SoeRead, SoeWrite
<1>4. InfoCalls => \E c : Enter(c)
  BY DEF InfoCalls, ReadODlist, ReadODdescription, ReadOE
<1>5. CASE EoeCalls
  <2>1. CASE UNCHANGED eoeVars /\ (EOEgetIp \/ EoePoll \/ EOEsetIp(NewVal))
    BY <1>f, <2>1 DEF EOEgetIp, EoePoll, EOEsetIp
  <2>2. CASE EOEsend(NewVal)
    BY <2>2, TurnIs DEF EOEsend
  <2>3. CASE \E room \in Room["frame"] : EOErecv(room)
    BY <2>3, TurnIs DEF EOErecv, eoeVars
  <2>4. QED
    BY <1>5, <2>1, <2>2, <2>3 DEF EoeCalls
<1> QED
  BY <1>f, <1>2, <1>4, <1>5 DEF Call

(* The kinds of steps.                                                     *)
LEMMA Steps == [Next]_allVars =>
  \/ Calls \/ SetUp \/ PopError
  \/ Services /\ UNCHANGED <<eoeVars, sessionVars>>
  \/ EoeStep /\ UNCHANGED sessionVars
  \/ (Transports /\ Others) \/ Frames
  \/ Serves /\ UNCHANGED <<callVars, sessionVars, eoeVars>>
  \/ Die /\ Others
  \/ UNCHANGED allVars
<1>1. Master => \/ Services /\ UNCHANGED <<eoeVars, sessionVars>>
                \/ EoeStep /\ UNCHANGED sessionVars
                \/ LinkStep /\ Others
  BY DEF Master, Services
<1>2. Slave => \/ Serves /\ UNCHANGED <<callVars, sessionVars, eoeVars>>
               \/ Frames
               \/ (Take \/ Repeat \/ SendOut \/ Emergency) /\ Others
  <2>1. Serve => Serves /\ UNCHANGED <<callVars, sessionVars, eoeVars>>
    BY DEF Serve, Serves, ServeEoe
  <2> QED BY <2>1 DEF Slave
<1>3. Timer => Expire /\ Others
  BY DEF Timer
<1> QED BY <1>1, <1>2, <1>3 DEF Next, Transports

(* A step of a call, of whatever service. *)
LEMMA ServicesTurn == Services => SoeTurn /\ pc # "returned"
BY SdoTurns, PdoTurns, FoeTurns, SoeTurns, InfoTurns, PlacedTurns
  DEF Services, SoeTurn

(* A function of EoE goes on with its call.                                *)
LEMMA EoeKind == EoeStep => call'.kind = call.kind
<1>1. IpRequest \/ IpResponse \/ Polled \/ EoeSent \/ EoeNotReceived => call' = call
  BY DEF IpRequest, IpResponse, Polled, EoeSent, EoeNotReceived, Post
<1>2. EoeFragmentReceived => call' = call
        \/ call' = [call EXCEPT !.frameno = mbxIn.frameno]
  BY DEF EoeFragmentReceived
<1>3. \A x : [call EXCEPT !.frameno = x].kind = call.kind
  OBVIOUS
<1> QED BY <1>1, <1>2, <1>3 DEF EoeStep

(* What transports leaves alone.                                           *)
LEMMA TransportHears ==
  ASSUME (Transports /\ Others) \/ Frames, Unheard
  PROVE  /\ Unheard'
         /\ ~alive => ~(wkc' > 0) \/ (wkc' = wkc /\ link' = link /\ mbxIn' = mbxIn)
         /\ alive' = alive /\ hook' = hook /\ (clean' => clean)
         /\ frames \in Nat => frames' \in Nat /\ (frames' = 0 => frames = 0)
         /\ UNCHANGED <<pc, call, buf, sent, toggle, stored, xfer, family, calls>>
<1>0. UNCHANGED <<pc, call, buf, sent, toggle, stored, xfer, family, calls>>
  BY SamePc
<1>1. CASE LinkStep /\ Others
  <2>1. hook' = hook
    BY <1>1 DEF LinkStep, MbxEmpty, MbxWrite, MbxAvail, MbxRead, MbxRepeat, MbxAck,
      MbxAgain, handled, Handle
  <2>2. frames' = frames
    BY <1>1, Aside
  <2> QED BY <1>0, <1>1, <2>1, <2>2, LinkHears
<1>2. CASE (Expire \/ Take \/ Repeat \/ SendOut \/ Emergency) /\ Others
  <2>1. UNCHANGED <<wkc, link, mbxIn, alive, hook, mbxOut>> /\ (clean' => clean)
    <3>1. Expire => UNCHANGED <<wkc, link, mbxIn, alive, hook, mbxOut>>
            /\ (clean' => clean)
      BY DEF Expire, handled, slaveVars
    <3>2. Take \/ Repeat => UNCHANGED <<wkc, link, mbxIn, alive, hook, mbxOut>>
            /\ (clean' => clean)
      BY DEF Take, Repeat, masterVars, handled
    <3>3. SendOut \/ Emergency =>
            UNCHANGED <<wkc, link, mbxIn, alive, hook, mbxOut>>
      BY DEF SendOut, Emergency, masterVars, handled
    <3>4. SendOut \/ Emergency => (clean' => clean)
      BY Zenon DEF SendOut, Emergency
    <3> QED BY <1>2, <3>1, <3>2, <3>3, <3>4
  <2>2. frames' = frames
    BY <1>2, Aside
  <2> QED BY <1>0, <2>1, <2>2 DEF Unheard
<1>3. CASE Frames
  <2>1. UNCHANGED <<wkc, link, mbxIn, alive, hook, mbxOut>> /\ (clean' => clean)
          /\ frames' = frames + 1
    BY <1>3 DEF Frames, FrameOut, masterVars, handled
  <2> QED BY <1>0, <2>1 DEF Unheard
<1> QED BY <1>1, <1>2, <1>3 DEF Transports

(* Nothing makes up for what happened, and the slave does not come back.   *)
Before ==
  /\ Watched' => Watched
  /\ ~alive => ~alive'
(* What always holds of the calls is kept by every step. *)
LEMMA SessionKept ==
  ASSUME Session, [Next]_allVars
  PROVE  Before /\ (~Calls => Session') /\ calls' \in Nat /\ frames' \in Nat
           /\ Unheard' /\ family' = family
<1> USE DEF Session, Before, Watched
<1>1. CASE Calls
  <2>1. Turns /\ frames' = frames /\ calls' = calls + 1 /\ family' = family
    BY <1>1, CallTurns DEF Calls
  <2> QED BY <1>1, <2>1 DEF Turns, Unheard
<1>2. CASE SetUp
  <2>1. /\ UNCHANGED <<masterVars, mbxOut, alive, clean, callVars, eoeVars, family,
                       calls>> /\ calls = 0
    BY <1>2 DEF SetUp, EOEdefinehook, sessionVars, slaveVars
  <2> QED BY <2>1 DEF Unheard, masterVars, eoeVars, callVars
<1>3. CASE PopError
  <2>1. /\ UNCHANGED <<masterVars, mbxOut, alive, clean, callVars, eoeVars, family,
                       calls, hook>>
    BY <1>3 DEF PopError, LinkUnchanged, slaveVars, sessionVars
  <2> QED BY <2>1 DEF Unheard, masterVars, eoeVars, callVars
<1>4. CASE Services /\ UNCHANGED <<eoeVars, sessionVars>>
  <2>1. SoeTurn /\ call' = call /\ pc # "returned"
          /\ UNCHANGED <<frames, calls, family>>
    BY <1>4, ServicesTurn, SdoErrors, PdoErrors, FoeErrors, SoeErrors, InfoErrors,
      PlacedTurns
       DEF Services, Unhooked, eoeVars, sessionVars
  <2> QED BY <2>1 DEF SoeTurn, Turns, Unheard
<1>5. CASE EoeStep /\ UNCHANGED sessionVars
  <2>1. Turns /\ pc # "returned" /\ UNCHANGED <<frames, calls, family>>
    BY <1>5, EoeTurns DEF sessionVars
  <2>2. call.kind # "none" /\ calls # 0
    BY <2>1
  <2>3. call'.kind = call.kind
    BY <1>5, EoeKind
  <2>4. Unheard' /\ Before
    BY <2>1 DEF Turns, Unheard
  <2> QED BY <2>1, <2>2, <2>3, <2>4
<1>6. CASE (Transports /\ Others) \/ Frames
  BY <1>6, TransportHears
<1>7. CASE Serves /\ UNCHANGED <<callVars, sessionVars, eoeVars>>
  BY <1>7, ServesLeave
    DEF Leaves, masterVars, Unheard, callVars, sessionVars, eoeVars
<1>8. CASE Die /\ Others
  BY <1>8, Aside DEF Die, masterVars, handled, Unheard
<1>9. CASE UNCHANGED allVars
  BY <1>9
    DEF allVars, mbxVars, masterVars, slaveVars, handled, callVars, eoeVars, Unheard
<1> QED BY <1>1, <1>2, <1>3, <1>4, <1>5, <1>6, <1>7, <1>8, <1>9, Steps
-----------------------------------------------------------------------------
(* Values: sequences of parts. *)
ValuePart == [obj : Obj, val : Nat, num : Nat]
(* The values of the objects. *)
Values == Seq(ValuePart)
(* What follows the first n parts of v. *)
Rest(v, n) == SubSeq(v, n + 1, Len(v))

(* A content has as many parts as its object, each with its number. *)
LEMMA ContentIs ==
  ASSUME NEW o \in Obj, NEW n \in Nat
  PROVE  /\ Content(o, n) \in Values /\ Len(Content(o, n)) = NParts[o]
              /\ NParts[o] \in Nat
         /\ \A i \in 1..NParts[o] : Content(o, n)[i] = [obj |-> o, val |-> n,
              num |-> i]
<1>1. NParts[o] \in Nat
  BY MbxCallConstants
<1>2. \A i \in 1..NParts[o] : [obj |-> o, val |-> n, num |-> i] \in ValuePart
  BY <1>1 DEF ValuePart
<1> QED BY <1>1, <1>2 DEF Content, Values

(* The first of what follows, and what follows that. *)
LEMMA RestIs ==
  ASSUME NEW v \in Values, NEW n \in 0..(Len(v) - 1)
  PROVE  /\ Rest(v, n) \in Values /\ Len(Rest(v, n)) = Len(v) - n
         /\ Head(Rest(v, n)) = v[n + 1]
         /\ Tail(Rest(v, n)) = Rest(v, n + 1)
         /\ v[n + 1] \in ValuePart
<1>1. Len(v) \in Nat /\ n + 1 \in 1..Len(v) /\ n \in Nat
  BY DEF Values
<1>2. \A i \in 1..Len(v) : v[i] \in ValuePart
  BY DEF Values
<1>3. Rest(v, n) \in Values /\ Len(Rest(v, n)) = Len(v) - n
      /\ \A i \in 1..(Len(v) - n) : Rest(v, n)[i] = v[n + i]
  <2>1. \A i \in (n + 1)..Len(v) : v[i] \in ValuePart
    BY <1>1, <1>2
  <2>2. /\ SubSeq(v, n + 1, Len(v)) \in Seq(ValuePart)
        /\ Len(SubSeq(v, n + 1, Len(v))) = Len(v) - (n + 1) + 1
        /\ \A i \in 1..(Len(v) - (n + 1) + 1) : SubSeq(v, n + 1,
             Len(v))[i] = v[(n + 1) + i - 1]
    BY <1>1, SubSeqProperties DEF Values
  <2> QED BY <1>1, <2>2 DEF Rest, Values
<1>4. Head(Rest(v, n)) = v[n + 1] /\ Tail(Rest(v, n)) = Rest(v, n + 1)
  <2>1. n + 1 \in 1..Len(v) /\ Len(v) \in (n + 1)..Len(v) /\ v \in Seq(ValuePart)
    BY <1>1 DEF Values
  <2> QED BY <2>1, HeadTailOfSubSeq DEF Rest
<1> QED BY <1>1, <1>2, <1>3, <1>4

(* The first n parts, and one more. *)
LEMMA FirstIs ==
  ASSUME NEW v \in Values, NEW n \in 0..Len(v)
  PROVE  /\ SubSeq(v, 1, n) \in Values /\ Len(SubSeq(v, 1, n)) = n
         /\ \A i \in 1..n : SubSeq(v, 1, n)[i] = v[i]
         /\ n < Len(v) => Append(SubSeq(v, 1, n), v[n + 1]) = SubSeq(v, 1, n + 1)
         /\ n = Len(v) => SubSeq(v, 1, n) = v
<1>1. Len(v) \in Nat /\ n \in Nat /\ n <= Len(v)
        /\ \A i \in 1..Len(v) : v[i] \in ValuePart
  BY DEF Values
<1>2. \A k \in 0..Len(v) : /\ SubSeq(v, 1, k) \in Values /\ Len(SubSeq(v, 1, k)) = k
                           /\ \A i \in 1..k : SubSeq(v, 1, k)[i] = v[i]
  <2>1. TAKE k \in 0..Len(v)
  <2>2. /\ SubSeq(v, 1, k) \in Seq(ValuePart)
        /\ Len(SubSeq(v, 1, k)) = k - 1 + 1
        /\ \A i \in 1..(k - 1 + 1) : SubSeq(v, 1, k)[i] = v[1 + i - 1]
    <3>1. CASE k = 0
      BY <3>1
    <3>2. CASE k # 0
      BY <1>1, <3>2, SubSeqProperties DEF Values
    <3> QED BY <3>1, <3>2
  <2> QED BY <1>1, <2>2 DEF Values
<1>3. n < Len(v) => Append(SubSeq(v, 1, n), v[n + 1]) = SubSeq(v, 1, n + 1)
  <2> SUFFICES ASSUME n < Len(v) PROVE Append(SubSeq(v, 1, n),
    v[n + 1]) = SubSeq(v, 1, n + 1)
    OBVIOUS
  <2>1. n + 1 \in 0..Len(v) /\ n \in 0..Len(v) /\ v[n + 1] \in ValuePart
    BY <1>1
  <2>a. DEFINE s == SubSeq(v, 1, n)
               t == SubSeq(v, 1, n + 1)
  <2>2. s \in Seq(ValuePart) /\ Len(s) = n /\ \A i \in 1..n : s[i] = v[i]
    BY <1>2, <2>1 DEF Values
  <2>3. t \in Seq(ValuePart) /\ Len(t) = n + 1 /\ \A i \in 1..(n + 1) : t[i] = v[i]
    BY <1>2, <2>1 DEF Values
  <2> HIDE DEF s, t
  <2>4. Append(s, v[n + 1]) \in Seq(ValuePart) /\ Len(Append(s, v[n + 1])) = n + 1
        /\ \A i \in 1..(n + 1) : Append(s, v[n + 1])[i] = v[i]
    BY <1>1, <2>1, <2>2
  <2>5. Append(s, v[n + 1]) = t
    BY <2>3, <2>4, SeqEqual
  <2> QED BY <2>5 DEF s, t
<1>4. n = Len(v) => SubSeq(v, 1, n) = v
  <2>1. Len(v) \in 0..Len(v)
    BY <1>1
  <2>2. SubSeq(v, 1, Len(v)) \in Seq(ValuePart)
          /\ Len(SubSeq(v, 1, Len(v))) = Len(v)
        /\ \A i \in 1..Len(v) : SubSeq(v, 1, Len(v))[i] = v[i]
    BY <1>2, <2>1 DEF Values
  <2>3. SubSeq(v, 1, Len(v)) = v
    BY <2>2, SeqEqual DEF Values
  <2> QED BY <2>3
<1> QED BY <1>1, <1>2, <1>3, <1>4

(* What is asked for, and what is stored, when each has its value. *)
Value == stored[call.obj]
(* What a write writes. *)
New == Content(call.obj, call.val)
(* The slave holds a whole value of every object. *)
StoredOK ==
  /\ DOMAIN stored = Obj
  /\ \A o \in Obj \ {"frame"} :
       stored[o] \in Values /\ (o # "pdo" => Len(stored[o]) = NParts[o])
-----------------------------------------------------------------------------
(* SDO upload *)
UpRequest == [op |-> "upload", obj |-> call.obj]
(* The answer to the request of a read: all of it, or its first part with  *)
(* its size.                                                               *)
UpFirst ==
  IF Len(Value) = 1
  THEN [op |-> "uploaded", obj |-> call.obj, part |-> Value[1]]
  ELSE [op |-> "uploadBegins", obj |-> call.obj, part |-> Value[1],
    size |-> Len(Value)]
(* The request of the next segment, *)
SegmentRequest == [op |-> "uploadSegment", toggle |-> toggle]
(* and its answer. *)
UpSegment == [op |-> "segmentUploaded", part |-> Value[Len(buf) + 1],
              last |-> Len(buf) + 1 = Len(Value)]

(* The server has sent n parts. *)
UpTo(n, t) ==
  xfer = IF n = Len(Value) THEN NoXfer
         ELSE [kind |-> "upload", left |-> Rest(Value, n), toggle |-> t]

(* The read has returned: with the value, or because the buffer is too     *)
(* small for it.                                                           *)
ReadReturned ==
  /\ pc = "returned" /\ Still /\ Len(buf) <= call.room
  /\ IF wkc > 0 THEN wkc = 1 /\ buf = Value ELSE call.room < Len(Value)
(* The call empties the mailbox of the answers before it begins. *)
Draining == pc = "drain" /\ Still /\ Free
(* Nothing was received yet. *)
Fresh0 == buf = <<>> /\ toggle = FALSE
(* The first request was made, *)
FirstAsked == \E q \in {UpRequest} : Ask("request", "response", q)
(* and answered; the transfer, if there is more, has begun. *)
FirstSent ==
  /\ UpTo(1, FALSE)
  /\ \E a \in {UpFirst} : Wait("request", "response", a, NoMsg)
       \/ Delivered("response", a)
(* A part was received, and not all. *)
Uploading ==
  /\ buf = SubSeq(Value, 1, Len(buf)) /\ Len(buf) \in 1..(Len(Value) - 1)
  /\ Len(Value) <= call.room /\ toggle \in BOOLEAN
(* The next segment is to be requested, *)
SegmentNext == pc = "segment" /\ link = "done" /\ Still /\ UpTo(Len(buf), toggle)
(* was requested, *)
SegmentAsked ==
  /\ UpTo(Len(buf), toggle)
  /\ \E q \in {SegmentRequest} : Ask("segmentSent", "segmentResponse", q)
(* and answered: the transfer is one ahead of the buffer. *)
SegmentSent ==
  /\ UpTo(Len(buf) + 1, ~toggle)
  /\ \E a \in {UpSegment} :
       Wait("segmentSent", "segmentResponse", a, NoMsg)
         \/ Delivered("segmentResponse", a)

(* The conversation of a read. *)
ReadTalk ==
  \/ ReadReturned
  \/ Fresh0 /\ (Draining \/ FirstAsked \/ FirstSent)
  \/ Uploading /\ (SegmentNext \/ SegmentAsked \/ SegmentSent)

(* The parameters of the calls. *)
SdoObjects == SdoObj \subseteq Obj \ {"frame", "pdo"}
  /\ \A o \in SdoObj : NParts[o] > 0
(* A read is in progress, or was the last. *)
ReadCall ==
  /\ call.kind = "read" /\ call.obj \in SdoObj /\ call.room \in Nat
  /\ family = "sdo"

(* An object the SDO service reads has a value of at least one part. *)
LEMMA ValueIs ==
  ASSUME SdoObjects, StoredOK, call.obj \in SdoObj
  PROVE  Value \in Values /\ Len(Value) = NParts[call.obj]
           /\ Len(Value) \in Nat \ {0}
         /\ call.obj \in Obj /\ \A i \in 1..Len(Value) : Value[i] \in ValuePart
BY MbxCallConstants DEF SdoObjects, StoredOK, Value, Values

(* The SDO service and its information service answer all they take. *)
LEMMA NoLeftOvers == family \in {"sdo", "info"} => \A m : ~LeftOver(m)
BY DEF LeftOver

(* What is asked and answered is neither noise nor a mailbox error. *)
LEMMA Fits1 ==
  \A m : /\ m.op \notin {"none", "emergency", "mailboxError", "eoe"} =>
              Fit(m, m) /\ m # NoMsg /\ ~IsFragment(m)
         /\ m.op = "eoe" /\ m.type # "fragment" =>
              Fit(m, m) /\ m # NoMsg /\ ~IsFragment(m)
BY DEF Fit, Noise, IsFragment, Emcy, MbxError, NoMsg

(* The requests and answers of a read are such as the link layer's lemmas  *)
(* ask for.                                                                *)
LEMMA ReadFits == /\ Fit(UpFirst, UpFirst) /\ UpRequest # NoMsg
                  /\ Fit(UpSegment, UpSegment) /\ SegmentRequest # NoMsg
                  /\ ~IsFragment(UpFirst) /\ ~IsFragment(UpSegment)
<1>1. UpFirst.op \in {"uploaded", "uploadBegins"} /\ UpRequest.op = "upload"
      /\ UpSegment.op = "segmentUploaded" /\ SegmentRequest.op = "uploadSegment"
  BY DEF UpFirst, UpRequest, UpSegment, SegmentRequest
<1> QED BY <1>1, Fits1

(* Link layer, timers, the slave's own messages *)
LEMMA ReadCarried ==
  ASSUME LinkOK, Good, Good', (Transports /\ Others) \/ Frames, ReadTalk
  PROVE  ReadTalk'
<1>0. UNCHANGED <<pc, call, buf, sent, toggle, stored, xfer, family>>
  BY SamePc
<1>1. Value' = Value /\ UpRequest' = UpRequest /\ UpFirst' = UpFirst
        /\ UpSegment' = UpSegment
      /\ SegmentRequest' = SegmentRequest
  BY <1>0 DEF Value, UpRequest, UpFirst, UpSegment, SegmentRequest
<1>2. /\ UpTo(1, FALSE)' = UpTo(1, FALSE)
           /\ UpTo(Len(buf), toggle)' = UpTo(Len(buf), toggle)
      /\ UpTo(Len(buf) + 1, ~toggle)' = UpTo(Len(buf) + 1, ~toggle)
  BY <1>0, <1>1 DEF UpTo
<1>3. Uploading' = Uploading /\ Fresh0' = Fresh0
  BY <1>0, <1>1 DEF Uploading, Fresh0
<1>4. link = "done" => link' = "done" /\ wkc' = wkc
  BY ReadFits, LinkGoes DEF Goes
<1>5. CASE ReadReturned
  <2>1. Places
    BY DEF LinkOK
  <2>2. link = "done"
    BY <2>1, <1>5 DEF Places, ReadReturned
  <2>3. Still'
    BY <2>2, <1>5, RestCarried DEF ReadReturned, Free
  <2> QED BY <1>0, <1>1, <1>4, <1>5, <2>2, <2>3 DEF ReadReturned, ReadTalk
<1>6. CASE Draining /\ Fresh0
  BY <1>0, <1>3, <1>6, RestCarried DEF Draining, ReadTalk
<1>7. CASE FirstAsked /\ Fresh0
  BY <1>1, <1>3, <1>7, ReadFits, AskCarried DEF FirstAsked, ReadTalk
<1>8. CASE FirstSent /\ Fresh0
  BY <1>1, <1>2, <1>3, <1>8, ReadFits, AnswerCarried, DeliveredCarried
    DEF FirstSent, ReadTalk
<1>9. CASE SegmentNext /\ Uploading
  BY <1>0, <1>2, <1>3, <1>4, <1>9, RestCarried DEF SegmentNext, Free, ReadTalk
<1>10. CASE SegmentAsked /\ Uploading
  BY <1>1, <1>2, <1>3, <1>10, ReadFits, AskCarried DEF SegmentAsked, ReadTalk
<1>11. CASE SegmentSent /\ Uploading
  BY <1>1, <1>2, <1>3, <1>11, ReadFits, AnswerCarried, DeliveredCarried
    DEF SegmentSent, ReadTalk
<1> QED BY <1>5, <1>6, <1>7, <1>8, <1>9, <1>10, <1>11 DEF ReadTalk

(* Where the call is tells what it has asked. *)
LEMMA ReadPlaces ==
  ASSUME LinkOK, ReadTalk
  PROVE  /\ At("drain") => Fresh0 /\ Draining
         /\ At("request") => Heard /\ Fresh0 /\ (FirstAsked \/ FirstSent)
         /\ At("response") => Fresh0 /\ UpTo(1, FALSE)
              /\ Delivered("response", UpFirst)
         /\ pc = "segment" => Uploading /\ SegmentNext
         /\ At("segmentSent") => Heard /\ Uploading /\ (SegmentAsked \/ SegmentSent)
         /\ At("segmentResponse") =>
              Uploading /\ UpTo(Len(buf) + 1, ~toggle)
                /\ Delivered("segmentResponse", UpSegment)
         /\ pc \notin {"emptied", "fragmentSent", "early", "last", "sending",
              "more", "entry", "fragment"}
<1>1. \A p1, p2, q : Ask(p1, p2, q) /\ link = "done" => pc = p1 /\ Heard
  BY DEF Ask, Either, Sending, Unplaced, Listens, Receiving
<1>2. \A p1, p2, a, j : Wait(p1, p2, a, j) /\ link = "done" => pc = p1 /\ Heard
  BY DEF Wait, Either, Listens, Receiving
<1>3. \A p1, p2, q : Ask(p1, p2, q) => pc \in {p1, p2}
  BY DEF Ask, Either
<1>4. \A p1, p2, a, j : Wait(p1, p2, a, j) => pc \in {p1, p2}
  BY DEF Wait, Either
<1>5. \A p, a : Delivered(p, a) => pc = p /\ Heard
  BY DEF Delivered, Come
<1>6. FirstAsked => pc \in {"request", "response"}
        /\ (link = "done" => pc = "request" /\ Heard)
  BY <1>1, <1>3 DEF FirstAsked
<1>7. FirstSent => /\ pc \in {"request", "response"} /\ UpTo(1, FALSE)
                   /\ link = "done" => \/ pc = "request" /\ Heard
                                       \/ pc = "response"
                                            /\ Delivered("response", UpFirst)
  BY <1>2, <1>4, <1>5 DEF FirstSent
<1>8. SegmentAsked => pc \in {"segmentSent", "segmentResponse"}
        /\ (link = "done" => pc = "segmentSent" /\ Heard)
  BY <1>1, <1>3 DEF SegmentAsked
<1>9. SegmentSent => /\ pc \in {"segmentSent", "segmentResponse"}
                          /\ UpTo(Len(buf) + 1, ~toggle)
                     /\ link = "done" => \/ pc = "segmentSent" /\ Heard
                                         \/ pc = "segmentResponse"
                                              /\ Delivered("segmentResponse",
                                                   UpSegment)
  BY <1>2, <1>4, <1>5 DEF SegmentSent
<1>10. (ReadReturned => pc = "returned") /\ (Draining => pc = "drain")
         /\ (SegmentNext => pc = "segment")
  BY DEF ReadReturned, Draining, SegmentNext
<1> QED BY <1>6, <1>7, <1>8, <1>9, <1>10 DEF ReadTalk, At

(* The request has been placed: the call waits for the answer. *)
LEMMA PlacedWaits ==
  ASSUME LinkOK, link = "done", StartReceive("running"), frames' = frames,
           family' = family,
         calls' # 0, NEW p1, NEW p2, pc' = p2, p2 # "returned"
  PROVE  /\ LinkOK'
         /\ \A q : Ask(p1, p2, q) => Ask(p1, p2, q)'
         /\ \A a, j : Wait(p1, p2, a, j) => Wait(p1, p2, a, j)'
<1>1. \A q : Ask(p1, p2, q) => Work(q)
  BY DEF Ask, Sending, Unplaced
<1>2. \A a, j : Wait(p1, p2, a, j) => Ans(a, j)
  BY DEF Wait
<1>3. /\ LinkOK' /\ Listens'
      /\ \A q : Work(q) => Work(q)'
      /\ \A a, j : Ans(a, j) => Ans(a, j)'
  BY Waits
<1> QED BY <1>1, <1>2, <1>3 DEF Ask, Wait, Either

(* Steps of the call that do not end it. *)
LEMMA ReadSteps ==
  ASSUME SdoObjects, LinkOK, StoredOK, ReadCall, ReadTalk, calls' # 0,
         \/ Initiate \/ Placed \/ Segment \/ SegmentPlaced,
         UNCHANGED <<frames, family>>
  PROVE  LinkOK' /\ StoredOK' /\ ReadTalk' /\ call' = call
<1>1. CASE Initiate
  <2>1. Fresh0 /\ Still /\ link = "done"
    BY <1>1, ReadPlaces DEF Initiate, At, Draining
  <2>2. /\ StartSend(UpRequest) /\ pc' = "request"
        /\ UNCHANGED <<call, buf, toggle, stored, xfer>>
    BY <1>1 DEF Initiate, Post, UpRequest, serverVars, ReadCall
  <2>3. LinkOK' /\ Sending(UpRequest)'
    <3>1. PICK q : q = UpRequest
      OBVIOUS
    <3>2. UpRequest' = q
      BY <2>2, <3>1 DEF UpRequest
    <3>3. LinkOK' /\ Sending(q)'
      BY <2>1, <2>2, <3>1, ReadFits, Posted
    <3> QED BY <3>2, <3>3 DEF Sending
  <2>4. FirstAsked' /\ Fresh0'
    BY <2>1, <2>2, <2>3 DEF FirstAsked, Ask, Fresh0, Sending, UpRequest
  <2> QED BY <2>2, <2>3, <2>4 DEF ReadTalk, StoredOK
<1>2. CASE Placed
  <2>1. Fresh0 /\ (FirstAsked \/ FirstSent) /\ Heard
    BY <1>2, ReadPlaces DEF Placed, Answered
  <2>2. /\ StartReceive("running") /\ pc' = "response" /\ link = "done"
             /\ pc = "request"
        /\ UNCHANGED <<call, buf, toggle, stored, xfer>>
    BY <1>2 DEF Placed, Answered, At, serverVars
  <2>3. /\ LinkOK'
        /\ \A q : Ask("request", "response", q) => Ask("request", "response", q)'
        /\ \A a, j : Wait("request", "response", a, j) =>
             Wait("request", "response", a, j)'
    BY <2>2, PlacedWaits
  <2>4. Fresh0' /\ UpRequest' = UpRequest /\ UpFirst' = UpFirst
          /\ UpTo(1, FALSE)' = UpTo(1, FALSE)
    BY <2>1, <2>2 DEF Fresh0, UpRequest, UpFirst, Value, UpTo
  <2>5. ~Delivered("response", UpFirst)
    BY <2>2 DEF Delivered, Come
  <2>6. FirstAsked' \/ FirstSent'
    BY <2>1, <2>3, <2>4, <2>5 DEF FirstAsked, FirstSent
  <2> QED BY <2>2, <2>3, <2>4, <2>6 DEF ReadTalk, StoredOK
<1>3. CASE Segment
  <2>1. Uploading /\ Still /\ link = "done" /\ UpTo(Len(buf), toggle)
    BY <1>3, ReadPlaces DEF Segment, SegmentNext
  <2>2. /\ StartSend(SegmentRequest) /\ pc' = "segmentSent"
        /\ UNCHANGED <<call, buf, toggle, stored, xfer>>
    BY <1>3 DEF Segment, Post, SegmentRequest, serverVars, ReadCall
  <2>3. PICK q : q = SegmentRequest
    OBVIOUS
  <2>4. SegmentRequest' = q
    BY <2>2, <2>3 DEF SegmentRequest
  <2>5. LinkOK' /\ Sending(q)'
    BY <2>1, <2>2, <2>3, ReadFits, Posted
  <2>6. SegmentAsked' /\ Uploading'
    BY <2>1, <2>2, <2>4, <2>5 DEF SegmentAsked, Ask, Uploading, UpTo, Value
  <2> QED BY <2>2, <2>5, <2>6 DEF ReadTalk, StoredOK
<1>4. CASE SegmentPlaced
  <2>1. Uploading /\ (SegmentAsked \/ SegmentSent) /\ Heard
    BY <1>4, ReadPlaces DEF SegmentPlaced, Answered
  <2>2. /\ StartReceive("running") /\ pc' = "segmentResponse" /\ link = "done"
             /\ pc = "segmentSent"
        /\ UNCHANGED <<call, buf, toggle, stored, xfer>>
    BY <1>4 DEF SegmentPlaced, Answered, At, serverVars
  <2>3. /\ LinkOK'
        /\ \A q : Ask("segmentSent", "segmentResponse", q) =>
             Ask("segmentSent", "segmentResponse", q)'
        /\ \A a, j : Wait("segmentSent", "segmentResponse", a, j) =>
             Wait("segmentSent", "segmentResponse", a, j)'
    BY <2>2, PlacedWaits
  <2>4. Uploading' /\ SegmentRequest' = SegmentRequest /\ UpSegment' = UpSegment
        /\ UpTo(Len(buf), toggle)' = UpTo(Len(buf), toggle)
        /\ UpTo(Len(buf) + 1, ~toggle)' = UpTo(Len(buf) + 1, ~toggle)
    BY <2>1, <2>2 DEF Uploading, SegmentRequest, UpSegment, Value, UpTo
  <2>5. ~Delivered("segmentResponse", UpSegment)
    BY <2>2 DEF Delivered, Come
  <2>6. SegmentAsked' \/ SegmentSent'
    BY <2>1, <2>3, <2>4, <2>5 DEF SegmentAsked, SegmentSent
  <2> QED BY <2>2, <2>3, <2>4, <2>6 DEF ReadTalk, StoredOK
<1> QED BY <1>1, <1>2, <1>3, <1>4

(* The answers the call takes. *)
LEMMA ReadAnswers ==
  ASSUME SdoObjects, LinkOK, StoredOK, ReadCall, ReadTalk,
         SdoStep \/ NotPlaced, ~Initiate, ~Segment, ~SegmentPlaced,
         UNCHANGED <<frames, family>>
  PROVE  LinkOK' /\ StoredOK' /\ ReadTalk' /\ call' = call
<1>0. Value \in Values /\ Len(Value) \in Nat \ {0}
        /\ \A i \in 1..Len(Value) : Value[i] \in ValuePart
  BY ValueIs DEF ReadCall
<1>a. Len(Value) \in Nat \ {0} /\ call.room \in Nat
  BY <1>0 DEF ReadCall
<1>1. ~NotPlaced /\ ~SdoNoResponse /\ ~SegmentFails
  <2>1. At("request") \/ At("segmentSent") => wkc = 1
    BY ReadPlaces, Zenon DEF Heard
  <2>2. At("response") \/ At("segmentResponse") => wkc = 1
    BY ReadPlaces, Zenon DEF Heard, Delivered, Come
  <2> QED BY <2>1, <2>2 DEF NotPlaced, SdoNoResponse, SegmentFails
<1>2. ~Downloaded /\ ~SegmentDownloaded
  BY DEF Downloaded, SegmentDownloaded, ReadCall
<1>3. Answered("response") =>
        mbxIn = UpFirst /\ Fresh0 /\ UpTo(1, FALSE) /\ Still /\ link = "done"
          /\ wkc = 1 /\ Accepted(mbxIn)
  <2>1. Answered("response") =>
          mbxIn = UpFirst /\ Fresh0 /\ UpTo(1, FALSE) /\ Still /\ link = "done"
            /\ wkc = 1
    BY ReadPlaces DEF Answered, Delivered, Come, Heard
  <2>2. mbxIn = UpFirst => Accepted(mbxIn)
    BY DEF Accepted, UpFirst, ReadCall, Response
  <2> QED BY <2>1, <2>2
<1>4. Answered("segmentResponse") =>
         mbxIn = UpSegment /\ Uploading /\ UpTo(Len(buf) + 1, ~toggle) /\ Still
           /\ link = "done" /\ wkc = 1
  BY ReadPlaces DEF Answered, Delivered, Come, Heard
<1>5. ~Unexpected /\ ~SegmentUnexpected
  <2>1. ~Unexpected
    BY <1>3, Zenon DEF Unexpected
  <2>2. UpSegment.op = SegmentOp(call.kind)
    BY DEF UpSegment, SegmentOp, ReadCall
  <2>3. ~SegmentUnexpected
    BY <1>4, <2>2, Zenon DEF SegmentUnexpected
  <2> QED BY <2>1, <2>3
<1>6. ASSUME Uploaded \/ UploadBegins, TooSmall
      PROVE  link' = "done" /\ LinkUnchanged /\ pc' = "returned" /\ wkc' = 0
               /\ buf' = buf
  BY <1>3, <1>6, Returns DEF TooSmall, Report, Uploaded, UploadBegins
<1>7. CASE Uploaded
  <2>1. mbxIn = UpFirst /\ Fresh0 /\ Still /\ link = "done" /\ wkc = 1
          /\ call' = call
    BY <1>3, <1>7 DEF Uploaded
  <2>2. Len(Value) = 1 /\ mbxIn.op = "uploaded" /\ mbxIn.part = Value[1]
    BY <2>1, <1>7 DEF Uploaded, UpFirst
  <2>3. CASE call.room >= 1
    <3>1. buf' = <<Value[1]>> /\ Return(1) /\ LinkUnchanged
      BY <1>7, <2>1, <2>2, <2>3 DEF Uploaded, Quiet
    <3>2. link' = "done" /\ wkc' = 1 /\ pc' = "returned" /\ Between
            /\ stored' = stored
      BY <2>1, <3>1, Returns
    <3>3. buf' = Value
      <4>1. <<Value[1]>> = Value
        BY <1>0, <2>2 DEF Values
      <4> QED BY <3>1, <4>1
    <3>4. LinkOK' /\ Still'
      BY <2>1, <3>2, Pauses
    <3>5. Value' = Value
      BY <2>1, <3>2 DEF Value
    <3>6. ReadReturned'
      <4>1. Len(buf') = 1 /\ Len(buf') <= call'.room /\ buf' = Value'
        BY <2>1, <2>2, <2>3, <3>3, <3>5
      <4> QED BY <3>2, <3>4, <4>1 DEF ReadReturned
    <3> QED BY <2>1, <3>2, <3>4, <3>6 DEF ReadTalk, StoredOK
  <2>4. CASE ~(call.room >= 1)
    <3>1. TooSmall
      BY <1>7, <2>2, <2>4 DEF Uploaded
    <3>2. link' = "done" /\ LinkUnchanged /\ pc' = "returned" /\ wkc' = 0
            /\ buf' = buf
      BY <1>6, <1>7, <3>1
    <3>3. Between /\ stored' = stored
      BY <2>1, <3>2, Returns
    <3>4. LinkOK' /\ Still'
      BY <2>1, <3>3, Pauses
    <3>5. Len(buf) = 0 /\ call.room \in Nat
      BY <2>1 DEF Fresh0, ReadCall
    <3> QED BY <2>1, <2>2, <2>4, <3>2, <3>3, <3>4, <3>5
        DEF ReadTalk, ReadReturned, StoredOK, Value
  <2> QED BY <2>3, <2>4
<1>8. CASE UploadBegins
  <2>1. mbxIn = UpFirst /\ Fresh0 /\ Still /\ link = "done" /\ wkc = 1
          /\ call' = call /\ UpTo(1, FALSE)
        /\ toggle' = toggle
    BY <1>3, <1>8 DEF UploadBegins
  <2>2. Len(Value) # 1 /\ mbxIn.size = Len(Value) /\ mbxIn.part = Value[1]
    BY <2>1, <1>8 DEF UploadBegins, UpFirst
  <2>3. CASE Fits(mbxIn)
    <3>1. buf' = <<Value[1]>> /\ GoTo("segment") /\ LinkUnchanged
      BY <1>8, <2>1, <2>2, <2>3 DEF UploadBegins, Quiet
    <3>2. link' = "done" /\ pc' = "segment" /\ Between /\ stored' = stored
            /\ xfer' = xfer
      BY <2>1, <3>1, Returns
    <3>3. LinkOK' /\ Still'
      BY <2>1, <3>2, Pauses
    <3>4. buf' = SubSeq(Value, 1, Len(buf')) /\ Len(buf') = 1
      <4>1. SubSeq(Value, 1, 1) \in Seq(ValuePart)
              /\ Len(SubSeq(Value, 1, 1)) = 1 /\ SubSeq(Value, 1, 1)[1] = Value[1]
        BY <1>0, FirstIs DEF Values
      <4>2. <<Value[1]>> \in Seq(ValuePart)
        BY <1>0
      <4>3. <<Value[1]>> = SubSeq(Value, 1, 1)
        BY <4>1, <4>2, SeqEqual
      <4> QED BY <3>1, <4>3
    <3>5. Len(Value) <= call.room
      BY <2>2, <2>3 DEF Fits
    <3>6. Value' = Value
      BY <2>1, <3>2 DEF Value
    <3>7. Uploading'
      <4>1. toggle' = FALSE /\ Len(buf') \in 1..(Len(Value) - 1)
        <5>1. toggle' = FALSE /\ Len(buf') = 1 /\ Len(Value) # 1
          BY <2>1, <2>2, <3>4 DEF Fresh0
        <5>2. \A n \in Nat \ {0} : n # 1 => 1 \in 1..(n - 1)
          OBVIOUS
        <5> QED BY <1>a, <5>1, <5>2
      <4> QED BY <2>1, <3>4, <3>5, <3>6, <4>1 DEF Uploading
    <3>8. UpTo(Len(buf), toggle)'
      BY <2>1, <3>2, <3>4, <3>6 DEF UpTo, Fresh0
    <3> QED BY <2>1, <3>2, <3>3, <3>7, <3>8 DEF ReadTalk, SegmentNext, StoredOK
  <2>4. CASE ~Fits(mbxIn)
    <3>1. TooSmall
      BY <1>8, <2>2, <2>4 DEF UploadBegins
    <3>2. link' = "done" /\ LinkUnchanged /\ pc' = "returned" /\ wkc' = 0
            /\ buf' = buf
      BY <1>6, <1>8, <3>1
    <3>3. Between /\ stored' = stored
      BY <2>1, <3>2, Returns
    <3>4. LinkOK' /\ Still'
      BY <2>1, <3>3, Pauses
    <3>5. Len(buf) = 0 /\ call.room \in Nat /\ call.room < Len(Value)
      BY <1>0, <2>1, <2>2, <2>4 DEF Fresh0, ReadCall, Fits
    <3> QED BY <2>1, <2>2, <3>2, <3>3, <3>4, <3>5
        DEF ReadTalk, ReadReturned, StoredOK, Value
  <2> QED BY <2>3, <2>4
<1>9. CASE SegmentUploaded
  <2>1. mbxIn = UpSegment /\ Uploading /\ UpTo(Len(buf) + 1, ~toggle) /\ Still
          /\ link = "done" /\ wkc = 1
        /\ call' = call
    BY <1>4, <1>9 DEF SegmentUploaded
  <2>2. /\ buf' = Append(buf, Value[Len(buf) + 1]) /\ toggle' = ~toggle
             /\ LinkUnchanged
        /\ IF Len(buf) + 1 = Len(Value) THEN Return(1) ELSE GoTo("segment")
    BY <1>9, <2>1 DEF SegmentUploaded, Copied, Toggled, Quiet, UpSegment
  <2>3. link' = "done" /\ Between /\ stored' = stored /\ xfer' = xfer
    BY <2>1, <2>2, Returns
  <2>4. LinkOK' /\ Still'
    BY <2>1, <2>3, Pauses
  <2>5. Len(buf) \in 0..Len(Value) /\ Len(buf) < Len(Value)
          /\ Len(buf) + 1 \in 0..Len(Value)
    BY <1>0, <2>1 DEF Uploading
  <2>6. buf' = SubSeq(Value, 1, Len(buf) + 1) /\ Len(buf') = Len(buf) + 1
    <3>1. PICK n \in 0..Len(Value) : n = Len(buf)
      BY <2>5
    <3>2. Append(SubSeq(Value, 1, n), Value[n + 1]) = SubSeq(Value, 1, n + 1)
      BY <1>0, <2>5, <3>1, FirstIs
    <3>3. Len(SubSeq(Value, 1, n + 1)) = n + 1
      BY <1>0, <2>5, <3>1, FirstIs
    <3> QED BY <2>1, <2>2, <3>1, <3>2, <3>3 DEF Uploading
  <2>7. Value' = Value
    BY <2>1, <2>3 DEF Value
  <2>8. CASE Len(buf) + 1 = Len(Value)
    <3>1. buf' = Value
      <4>1. SubSeq(Value, 1, Len(Value)) = Value
        BY <1>0, SubSeqFull DEF Values
      <4> QED BY <4>1, <2>6, <2>8
    <3>2. wkc' = 1 /\ pc' = "returned"
      BY <2>2, <2>8, Returns
    <3> QED BY <2>1, <2>3, <2>4, <2>7, <2>8, <3>1, <3>2, <1>0
        DEF ReadTalk, ReadReturned, Uploading, StoredOK
  <2>9. CASE Len(buf) + 1 # Len(Value)
    <3>1. pc' = "segment"
      BY <2>2, <2>9, Returns
    <3>2. Uploading'
      BY <1>0, <2>1, <2>2, <2>5, <2>6, <2>7, <2>9 DEF Uploading
    <3>3. UpTo(Len(buf), toggle)'
      BY <2>1, <2>2, <2>3, <2>6, <2>7 DEF UpTo
    <3> QED BY <2>1, <2>3, <2>4, <3>1, <3>2, <3>3
        DEF ReadTalk, SegmentNext, StoredOK
  <2> QED BY <2>8, <2>9
<1> QED BY <1>1, <1>2, <1>5, <1>7, <1>8, <1>9 DEF SdoStep

(* A request that is asked is what the server works on, if it answers. *)
LEMMA AskServed ==
  ASSUME LinkOK, NEW p1, NEW p2, NEW q, Ask(p1, p2, q), NEW m, NEW j,
           RespondAndGoOn(m, j),
         ~LeftOver(job), m # NoMsg, ~IsFragment(m), UNCHANGED <<pc, family, frames,
                                                                calls>>
  PROVE  job = q /\ LinkOK' /\ Wait(p1, p2, m, j)'
<1>1. ~Sending(q)
  BY Unlike, Unanswering
<1>2. Either(p1, p2) /\ Work(q)
  BY <1>1 DEF Ask
<1>3. Heard \/ Listens
  BY <1>2 DEF Either
<1>4. LinkOK' /\ Ans(m, j)' /\ job = q /\ Heard' = Heard /\ Listens' = Listens
  BY <1>2, <1>3, Responded
<1> QED BY <1>2, <1>4 DEF Wait, Either

(* The slave answers every request of the SDO service. *)
LEMMA SdoAnswers ==
  ServeSdo => \E m : RespondAndGoOn(m, NoMsg) /\ m # NoMsg /\ ~IsFragment(m)
BY DEF ServeSdo, ServeUpload, ServeDownload, ServeUploadSegment,
  ServeDownloadSegment, Refuse,
       Respond, Abort, NoMsg, IsFragment

(* The slave leaves the call alone. *)
LEMMA ServedSame == UNCHANGED <<callVars, sessionVars, eoeVars>> =>
                      UNCHANGED <<pc, call, buf, sent, toggle, family, calls,
                                  frames>>
BY DEF callVars, sessionVars, eoeVars

(* The slave serves what a read requests, and answers with the next part. *)
LEMMA ReadServed ==
  ASSUME SdoObjects, LinkOK, StoredOK, ReadCall, ReadTalk, ServeSdo,
         UNCHANGED <<callVars, sessionVars, eoeVars>>
  PROVE  LinkOK' /\ StoredOK' /\ ReadTalk'
<1>0. Value \in Values /\ Len(Value) \in Nat \ {0}
        /\ \A i \in 1..Len(Value) : Value[i] \in ValuePart
  BY ValueIs DEF ReadCall
<1>a. UNCHANGED <<pc, call, buf, sent, toggle, family, calls, frames>>
  BY ServedSame
<1>b. ~LeftOver(job)
  BY NoLeftOvers DEF ReadCall
<1>1. PICK m : RespondAndGoOn(m, NoMsg) /\ m # NoMsg /\ ~IsFragment(m)
  BY SdoAnswers
<1>2. ~Still /\ \A a : a # NoMsg => ~Ans(a, NoMsg)
  BY <1>1, <1>b, Unanswering, Unlike
<1>3. ~ReadReturned /\ ~Draining /\ ~FirstSent /\ ~SegmentNext /\ ~SegmentSent
  BY <1>2, ReadFits DEF ReadReturned, Draining, FirstSent, SegmentNext,
    SegmentSent, Wait, Delivered, Fit
<1>4. CASE FirstAsked /\ Fresh0
  <2>1. PICK q : q = UpRequest /\ Ask("request", "response", q)
    BY <1>4 DEF FirstAsked
  <2>2. job = UpRequest
    BY <2>1, <1>1, <1>a, <1>b, AskServed
  <2>3. ServeUpload
    BY <2>2 DEF ServeSdo, ServeDownload, ServeUploadSegment, ServeDownloadSegment,
      Refuse, UpRequest
  <2>4. /\ RespondAndGoOn(UpFirst, NoMsg) /\ stored' = stored
        /\ xfer' = IF Len(Value) = 1 THEN NoXfer
                   ELSE [kind |-> "upload", left |-> Tail(Value), toggle |-> FALSE]
    BY <2>2, <2>3 DEF ServeUpload, UpRequest, UpFirst, Value, Respond
  <2>5. PICK a : a = UpFirst
    OBVIOUS
  <2>6. LinkOK' /\ Wait("request", "response", a, NoMsg)'
    BY <2>1, <2>4, <2>5, <1>a, <1>b, ReadFits, AskServed DEF Fit
  <2>7. Tail(Value) = Rest(Value, 1)
    <3>1. Rest(Value, 0) = Value
      BY <1>0, SubSeqFull DEF Rest, Values
    <3>2. 0 \in 0..(Len(Value) - 1)
      BY <1>0
    <3> QED BY <1>0, <3>1, <3>2, RestIs
  <2>8. Value' = Value /\ UpFirst' = a
    BY <2>4, <2>5, <1>a DEF Value, UpFirst
  <2>9. UpTo(1, FALSE)'
    BY <2>4, <2>7, <2>8 DEF UpTo
  <2> QED BY <1>4, <1>a, <2>4, <2>6, <2>8, <2>9
      DEF ReadTalk, FirstSent, Fresh0, StoredOK
<1>5. CASE SegmentAsked /\ Uploading
  <2>1. PICK q : q = SegmentRequest /\ Ask("segmentSent", "segmentResponse", q)
    BY <1>5 DEF SegmentAsked
  <2>2. job = SegmentRequest
    BY <2>1, <1>1, <1>a, <1>b, AskServed
  <2>n. PICK n \in 1..(Len(Value) - 1) : n = Len(buf)
    BY <1>5 DEF Uploading
  <2>m. n # Len(Value) /\ n \in 0..(Len(Value) - 1) /\ Len(Value) \in Nat
    BY <1>0
  <2>3. xfer = [kind |-> "upload", left |-> Rest(Value, n), toggle |-> toggle]
    BY <1>5, <2>n, <2>m DEF SegmentAsked, UpTo
  <2>4. Expected("upload")
    BY <2>2, <2>3 DEF Expected, SegmentRequest
  <2>5. ServeUploadSegment
    BY <2>2, <2>4 DEF ServeSdo, ServeDownload, ServeUpload, ServeDownloadSegment,
      Refuse, SegmentRequest
  <2>6. Head(Rest(Value, n)) = Value[n + 1]
          /\ Len(Rest(Value, n)) = Len(Value) - n
               /\ Tail(Rest(Value, n)) = Rest(Value, n + 1)
    BY <1>0, <2>m, RestIs
  <2>7. Len(xfer.left) = 1 <=> n + 1 = Len(Value)
    <3>1. Len(xfer.left) = Len(Value) - n
      BY <2>3, <2>6
    <3> QED BY <2>m, <3>1
  <2>8. RespondAndGoOn(UpSegment, NoMsg) /\ stored' = stored
    BY <2>3, <2>5, <2>6, <2>7, <2>n DEF ServeUploadSegment, UpSegment, Respond
  <2>9. xfer' = IF n + 1 = Len(Value) THEN NoXfer
                ELSE [kind |-> "upload", left |-> Rest(Value, n + 1),
                  toggle |-> ~toggle]
    <3>1. xfer' = IF Len(xfer.left) = 1 THEN NoXfer
                  ELSE [xfer EXCEPT !.left = Tail(@), !.toggle = ~@]
      BY <2>5 DEF ServeUploadSegment
    <3>2. CASE n + 1 = Len(Value)
      BY <2>7, <3>1, <3>2
    <3>3. CASE n + 1 # Len(Value)
      <4>1. xfer' = [xfer EXCEPT !.left = Tail(@), !.toggle = ~@]
        BY <2>7, <3>1, <3>3
      <4>2. xfer' = [kind |-> "upload", left |-> Tail(Rest(Value, n)),
              toggle |-> ~toggle]
        BY <2>3, <4>1
      <4> QED BY <2>6, <3>3, <4>2
    <3> QED BY <3>2, <3>3
  <2>10. PICK a : a = UpSegment
    OBVIOUS
  <2>11. LinkOK' /\ Wait("segmentSent", "segmentResponse", a, NoMsg)'
    BY <2>1, <2>8, <2>10, <1>a, <1>b, ReadFits, AskServed DEF Fit
  <2>12. Value' = Value /\ UpSegment' = a
    BY <2>8, <2>10, <1>a DEF Value, UpSegment
  <2>13. UpTo(Len(buf) + 1, ~toggle)'
    BY <1>a, <2>9, <2>12, <2>n DEF UpTo
  <2>14. Uploading'
    BY <1>5, <1>a, <2>12 DEF Uploading
  <2> QED BY <2>8, <2>11, <2>12, <2>13, <2>14 DEF ReadTalk, SegmentSent, StoredOK
<1> QED BY <1>3, <1>4, <1>5 DEF ReadTalk
-----------------------------------------------------------------------------
(* SDO download *)
Stored == stored[call.obj] = New
(* The part of the new value that is sent, *)
DownPart == [obj |-> call.obj, val |-> call.val, num |-> sent]
(* in the first request *)
DownRequest == [op |-> "download", obj |-> call.obj, part |-> DownPart,
  last |-> NParts[call.obj] = 1]
(* with its answer, *)
DownAnswer == [op |-> "downloaded", obj |-> call.obj]
(* or in the next segment *)
DownSegment == [op |-> "downloadSegment", toggle |-> toggle, part |-> DownPart,
                last |-> sent = NParts[call.obj]]
(* with its answer. *)
SegmentDone == [op |-> "segmentDownloaded"]

(* The server has received n parts. *)
DownTo(n, t) ==
  IF n = NParts[call.obj] THEN xfer = NoXfer /\ Stored
  ELSE xfer = [kind |-> "download", obj |-> call.obj,
    parts |-> SubSeq(New, 1, n), toggle |-> t]

(* The write has returned, and the value is stored. *)
WriteReturned == pc = "returned" /\ Still /\ wkc = 1 /\ Stored
(* The first request was made, *)
DownAsked == \E q \in {DownRequest} : Ask("request", "response", q)
(* and answered: its part is with the slave. *)
DownDone ==
  /\ DownTo(1, FALSE)
  /\ \E a \in {DownAnswer} : Wait("request", "response", a, NoMsg)
       \/ Delivered("response", a)
(* The next segment is to be sent, *)
PartNext ==
  /\ pc = "segment" /\ link = "done" /\ Still
  /\ DownTo(sent, toggle) /\ sent \in 1..(NParts[call.obj] - 1)
(* was sent, *)
PartAsked ==
  /\ DownTo(sent - 1, toggle) /\ sent \in 2..NParts[call.obj]
  /\ \E q \in {DownSegment} : Ask("segmentSent", "segmentResponse", q)
(* and answered: its part is with the slave. *)
PartDone ==
  /\ DownTo(sent, ~toggle) /\ sent \in 2..NParts[call.obj]
  /\ \E a \in {SegmentDone} :
       Wait("segmentSent", "segmentResponse", a, NoMsg)
         \/ Delivered("segmentResponse", a)

(* The conversation of a write. *)
WriteTalk ==
  \/ WriteReturned
  \/ Draining /\ sent = 0 /\ toggle = FALSE
  \/ sent = 1 /\ toggle = FALSE /\ (DownAsked \/ DownDone)
  \/ toggle \in BOOLEAN /\ (PartNext \/ PartAsked \/ PartDone)

(* A write is in progress, or was the last. *)
WriteCall ==
  /\ call.kind = "write" /\ call.obj \in SdoObj /\ call.val \in Nat
  /\ family = "sdo"

(* The requests and answers of a write are such as the link layer's lemmas *)
(* ask for.                                                                *)
LEMMA WriteFits == /\ Fit(DownAnswer, DownAnswer) /\ DownRequest # NoMsg
                   /\ Fit(SegmentDone, SegmentDone) /\ DownSegment # NoMsg
                   /\ ~IsFragment(DownAnswer) /\ ~IsFragment(SegmentDone)
<1>1. DownAnswer.op = "downloaded" /\ DownRequest.op = "download"
      /\ SegmentDone.op = "segmentDownloaded" /\ DownSegment.op = "downloadSegment"
  BY DEF DownAnswer, DownRequest, SegmentDone, DownSegment
<1> QED BY <1>1, Fits1

(* The new value, part by part. *)
LEMMA NewIs ==
  ASSUME SdoObjects, WriteCall
  PROVE  /\ New \in Values /\ Len(New) = NParts[call.obj]
              /\ NParts[call.obj] \in Nat \ {0}
         /\ call.obj \in Obj \ {"frame", "pdo"}
         /\ \A i \in 1..NParts[call.obj] : New[i] = [obj |-> call.obj,
              val |-> call.val, num |-> i]
<1>1. call.obj \in Obj \ {"frame", "pdo"} /\ NParts[call.obj] > 0
  BY DEF SdoObjects, WriteCall
<1> QED BY <1>1, ContentIs DEF New, WriteCall

(* The conversation of a write goes on as the link layer does. *)
LEMMA WriteCarried ==
  ASSUME LinkOK, Good, Good', (Transports /\ Others) \/ Frames, WriteTalk
  PROVE  WriteTalk'
<1>0. UNCHANGED <<pc, call, buf, sent, toggle, stored, xfer, family>>
  BY SamePc
<1>1. Stored' = Stored /\ New' = New /\ DownPart' = DownPart
  BY <1>0 DEF Stored, New, DownPart
<1>1a. DownRequest' = DownRequest /\ DownAnswer' = DownAnswer
         /\ DownSegment' = DownSegment
       /\ SegmentDone' = SegmentDone
  BY <1>0, <1>1 DEF DownRequest, DownAnswer, DownSegment, SegmentDone
<1>2. /\ DownTo(1, FALSE)' = DownTo(1, FALSE)
           /\ DownTo(sent, toggle)' = DownTo(sent, toggle)
      /\ DownTo(sent - 1, toggle)' = DownTo(sent - 1, toggle)
      /\ DownTo(sent, ~toggle)' = DownTo(sent, ~toggle)
  BY <1>0, <1>1 DEF DownTo
<1>4. link = "done" => link' = "done" /\ wkc' = wkc
  BY WriteFits, LinkGoes DEF Goes
<1>5. CASE WriteReturned
  <2>1. Places
    BY DEF LinkOK
  <2>2. link = "done"
    BY <2>1, <1>5 DEF Places, WriteReturned
  <2>3. Still'
    BY <2>2, <1>5, RestCarried DEF WriteReturned, Free
  <2> QED BY <1>0, <1>1, <1>4, <1>5, <2>2, <2>3 DEF WriteReturned, WriteTalk
<1>6. CASE Draining /\ sent = 0 /\ toggle = FALSE
  BY <1>0, <1>6, RestCarried DEF Draining, WriteTalk
<1>7. CASE DownAsked /\ sent = 1 /\ toggle = FALSE
  <2>1. DownAsked'
    BY <1>1a, <1>7, WriteFits, AskCarried DEF DownAsked
  <2> QED BY <1>0, <1>7, <2>1 DEF WriteTalk
<1>8. CASE DownDone /\ sent = 1 /\ toggle = FALSE
  <2>1. DownDone'
    BY <1>1a, <1>2, <1>8, WriteFits, AnswerCarried, DeliveredCarried DEF DownDone
  <2> QED BY <1>0, <1>8, <2>1 DEF WriteTalk
<1>9. CASE PartNext /\ toggle \in BOOLEAN
  <2>1. PartNext'
    BY <1>0, <1>2, <1>4, <1>9, RestCarried DEF PartNext, Free
  <2> QED BY <1>0, <1>9, <2>1 DEF WriteTalk
<1>10. CASE PartAsked /\ toggle \in BOOLEAN
  <2>1. PartAsked'
    BY <1>0, <1>1a, <1>2, <1>10, WriteFits, AskCarried DEF PartAsked
  <2> QED BY <1>0, <1>10, <2>1 DEF WriteTalk
<1>11. CASE PartDone /\ toggle \in BOOLEAN
  <2>1. PartDone'
    BY <1>0, <1>1a, <1>2, <1>11, WriteFits, AnswerCarried, DeliveredCarried
      DEF PartDone
  <2> QED BY <1>0, <1>11, <2>1 DEF WriteTalk
<1> QED BY <1>5, <1>6, <1>7, <1>8, <1>9, <1>10, <1>11 DEF WriteTalk

(* Where an ask, a wait, an answer stand. *)
LEMMA Where ==
  /\ \A p1, p2, q : Ask(p1, p2, q) =>
       pc \in {p1, p2} /\ (link = "done" => pc = p1 /\ Heard)
  /\ \A p1, p2, a, j : Wait(p1, p2, a, j) =>
       pc \in {p1, p2} /\ (link = "done" => pc = p1 /\ Heard)
  /\ \A p, a : Delivered(p, a) => pc = p /\ Heard
<1>1. \A p1, p2, q : Ask(p1, p2, q) =>
        pc \in {p1, p2} /\ (link = "done" => pc = p1 /\ Heard)
  BY DEF Ask, Either, Sending, Unplaced, Listens, Receiving
<1>2. \A p1, p2, a, j : Wait(p1, p2, a, j) =>
        pc \in {p1, p2} /\ (link = "done" => pc = p1 /\ Heard)
  BY DEF Wait, Either, Listens, Receiving
<1>3. \A p, a : Delivered(p, a) => pc = p /\ Heard
  BY DEF Delivered, Come
<1> QED BY <1>1, <1>2, <1>3

(* Where a write is, and what was said by then. *)
LEMMA WritePlaces ==
  ASSUME LinkOK, WriteTalk
  PROVE  /\ At("drain") => Draining /\ sent = 0 /\ toggle = FALSE
         /\ At("request") => Heard /\ sent = 1 /\ toggle = FALSE
              /\ (DownAsked \/ DownDone)
         /\ At("response") => sent = 1 /\ toggle = FALSE /\ DownTo(1, FALSE)
              /\ Delivered("response", DownAnswer)
         /\ pc = "segment" => PartNext /\ toggle \in BOOLEAN
         /\ At("segmentSent") => Heard /\ toggle \in BOOLEAN
              /\ (PartAsked \/ PartDone)
         /\ At("segmentResponse") =>
              /\ toggle \in BOOLEAN /\ sent \in 2..NParts[call.obj]
              /\ DownTo(sent, ~toggle) /\ Delivered("segmentResponse", SegmentDone)
<1>6. DownAsked => pc \in {"request", "response"}
        /\ (link = "done" => pc = "request" /\ Heard)
  BY Where DEF DownAsked
<1>7. DownDone => /\ pc \in {"request", "response"} /\ DownTo(1, FALSE)
                  /\ link = "done" => \/ pc = "request" /\ Heard
                                      \/ pc = "response"
                                           /\ Delivered("response", DownAnswer)
  BY Where DEF DownDone
<1>8. PartAsked => pc \in {"segmentSent", "segmentResponse"}
        /\ (link = "done" => pc = "segmentSent" /\ Heard)
  BY Where DEF PartAsked
<1>9. PartDone => /\ pc \in {"segmentSent", "segmentResponse"}
                       /\ DownTo(sent, ~toggle)
                  /\ sent \in 2..NParts[call.obj]
                  /\ link = "done" => \/ pc = "segmentSent" /\ Heard
                                      \/ pc = "segmentResponse"
                                           /\ Delivered("segmentResponse",
                                                SegmentDone)
  BY Where DEF PartDone
<1>10. (WriteReturned => pc = "returned") /\ (Draining => pc = "drain")
         /\ (PartNext => pc = "segment")
  BY DEF WriteReturned, Draining, PartNext
<1> QED BY <1>6, <1>7, <1>8, <1>9, <1>10 DEF WriteTalk, At

(* Each step of a write that sends or waits goes on with the conversation; *)
LEMMA WriteSteps ==
  ASSUME SdoObjects, LinkOK, StoredOK, WriteCall, WriteTalk, calls' # 0,
         \/ Initiate \/ Placed \/ Segment \/ SegmentPlaced,
         UNCHANGED <<frames, family>>
  PROVE  LinkOK' /\ StoredOK' /\ WriteTalk' /\ call' = call
<1>1. CASE Initiate
  <2>1. Still /\ link = "done" /\ sent = 0 /\ toggle = FALSE
    BY <1>1, WritePlaces DEF Initiate, At, Draining
  <2>2. /\ StartSend([op |-> "download", obj |-> call.obj,
                      part |-> [obj |-> call.obj, val |-> call.val, num |-> 1],
                      last |-> NParts[call.obj] = 1])
        /\ pc' = "request" /\ sent' = 1
        /\ UNCHANGED <<call, buf, toggle, stored, xfer>>
    BY <1>1, <2>1 DEF Initiate, Post, NextPart, serverVars, WriteCall
  <2>3. PICK q : q = DownRequest'
    OBVIOUS
  <2>4. q = [op |-> "download", obj |-> call.obj,
             part |-> [obj |-> call.obj, val |-> call.val, num |-> 1],
             last |-> NParts[call.obj] = 1]
    BY <2>2, <2>3 DEF DownRequest, DownPart
  <2>5. q # NoMsg
    BY <2>4 DEF NoMsg
  <2>6. LinkOK' /\ Sending(q)'
    BY <2>1, <2>2, <2>4, <2>5, Posted
  <2>7. DownAsked'
    BY <2>2, <2>3, <2>6 DEF DownAsked, Ask
  <2> QED BY <2>1, <2>2, <2>6, <2>7 DEF WriteTalk, StoredOK
<1>2. CASE Placed
  <2>1. sent = 1 /\ toggle = FALSE /\ (DownAsked \/ DownDone) /\ Heard
    BY <1>2, WritePlaces DEF Placed, Answered
  <2>2. /\ StartReceive("running") /\ pc' = "response" /\ link = "done"
             /\ pc = "request"
        /\ UNCHANGED <<call, sent, toggle, stored, xfer>>
    BY <1>2 DEF Placed, Answered, At, serverVars
  <2>3. /\ LinkOK'
        /\ \A q : Ask("request", "response", q) => Ask("request", "response", q)'
        /\ \A a, j : Wait("request", "response", a, j) =>
             Wait("request", "response", a, j)'
    BY <2>2, PlacedWaits
  <2>4. DownRequest' = DownRequest /\ DownAnswer' = DownAnswer
          /\ DownTo(1, FALSE)' = DownTo(1, FALSE)
    BY <2>2 DEF DownRequest, DownPart, DownAnswer, New, DownTo, Stored
  <2>5. ~Delivered("response", DownAnswer)
    BY <2>2 DEF Delivered, Come
  <2>6. DownAsked' \/ DownDone'
    BY <2>1, <2>3, <2>4, <2>5 DEF DownAsked, DownDone
  <2> QED BY <2>1, <2>2, <2>3, <2>6 DEF WriteTalk, StoredOK
<1>3. CASE Segment
  <2>1. Still /\ link = "done" /\ DownTo(sent, toggle)
          /\ sent \in 1..(NParts[call.obj] - 1) /\ toggle \in BOOLEAN
    BY <1>3, WritePlaces DEF Segment, PartNext
  <2>2. /\ StartSend([op |-> "downloadSegment", toggle |-> toggle,
                      part |-> [obj |-> call.obj, val |-> call.val,
                        num |-> sent + 1],
                      last |-> sent + 1 = NParts[call.obj]])
        /\ pc' = "segmentSent" /\ sent' = sent + 1
        /\ UNCHANGED <<call, buf, toggle, stored, xfer>>
    BY <1>3 DEF Segment, Post, NextPart, serverVars, WriteCall
  <2>3. PICK q : q = DownSegment'
    OBVIOUS
  <2>4. q = [op |-> "downloadSegment", toggle |-> toggle,
             part |-> [obj |-> call.obj, val |-> call.val, num |-> sent + 1],
             last |-> sent + 1 = NParts[call.obj]]
    BY <2>2, <2>3 DEF DownSegment, DownPart
  <2>5. q # NoMsg
    BY <2>4 DEF NoMsg
  <2>6. LinkOK' /\ Sending(q)'
    BY <2>1, <2>2, <2>4, <2>5, Posted
  <2>7. sent' \in 2..NParts[call.obj] /\ sent' - 1 = sent
    <3>1. NParts[call.obj] \in Nat
      BY NewIs
    <3> QED BY <2>1, <2>2, <3>1
  <2>8. DownTo(sent - 1, toggle)'
    BY <2>1, <2>2, <2>7 DEF DownTo, New, Stored
  <2>9. PartAsked'
    BY <2>2, <2>3, <2>6, <2>7, <2>8 DEF PartAsked, Ask
  <2> QED BY <2>1, <2>2, <2>6, <2>9 DEF WriteTalk, StoredOK
<1>4. CASE SegmentPlaced
  <2>1. toggle \in BOOLEAN /\ (PartAsked \/ PartDone) /\ Heard
    BY <1>4, WritePlaces DEF SegmentPlaced, Answered
  <2>2. /\ StartReceive("running") /\ pc' = "segmentResponse" /\ link = "done"
             /\ pc = "segmentSent"
        /\ UNCHANGED <<call, sent, toggle, stored, xfer>>
    BY <1>4 DEF SegmentPlaced, Answered, At, serverVars
  <2>3. /\ LinkOK'
        /\ \A q : Ask("segmentSent", "segmentResponse", q) =>
             Ask("segmentSent", "segmentResponse", q)'
        /\ \A a, j : Wait("segmentSent", "segmentResponse", a, j) =>
             Wait("segmentSent", "segmentResponse", a, j)'
    BY <2>2, PlacedWaits
  <2>4. DownSegment' = DownSegment /\ SegmentDone' = SegmentDone
        /\ DownTo(sent - 1, toggle)' = DownTo(sent - 1, toggle)
        /\ DownTo(sent, ~toggle)' = DownTo(sent, ~toggle)
    BY <2>2 DEF DownSegment, DownPart, SegmentDone, New, DownTo, Stored
  <2>5. ~Delivered("segmentResponse", SegmentDone)
    BY <2>2 DEF Delivered, Come
  <2>6. PartAsked' \/ PartDone'
    BY <2>1, <2>2, <2>3, <2>4, <2>5 DEF PartAsked, PartDone
  <2> QED BY <2>1, <2>2, <2>3, <2>6 DEF WriteTalk, StoredOK
<1> QED BY <1>1, <1>2, <1>3, <1>4

(* so does each that handles an answer. *)
LEMMA WriteAnswers ==
  ASSUME SdoObjects, LinkOK, StoredOK, WriteCall, WriteTalk,
         SdoStep \/ NotPlaced, ~Initiate, ~Segment, ~SegmentPlaced,
         UNCHANGED <<frames, family>>
  PROVE  LinkOK' /\ StoredOK' /\ WriteTalk' /\ call' = call
<1>0. NParts[call.obj] \in Nat \ {0}
  BY NewIs
<1>1. ~NotPlaced /\ ~SdoNoResponse /\ ~SegmentFails
  <2>1. At("request") \/ At("segmentSent") => wkc = 1
    BY WritePlaces, Zenon DEF Heard
  <2>2. At("response") \/ At("segmentResponse") => wkc = 1
    BY WritePlaces, Zenon DEF Heard, Delivered, Come
  <2> QED BY <2>1, <2>2 DEF NotPlaced, SdoNoResponse, SegmentFails
<1>2. ~Uploaded /\ ~SegmentUploaded /\ ~UploadBegins
  BY DEF Uploaded, UploadBegins, SegmentUploaded, WriteCall
<1>3. Answered("response") =>
         /\ mbxIn = DownAnswer /\ sent = 1 /\ toggle = FALSE /\ DownTo(1, FALSE)
              /\ Still
         /\ link = "done" /\ wkc = 1 /\ Accepted(mbxIn)
  <2>1. Answered("response") =>
         /\ mbxIn = DownAnswer /\ sent = 1 /\ toggle = FALSE /\ DownTo(1, FALSE)
              /\ Still
         /\ link = "done" /\ wkc = 1
    BY WritePlaces DEF Answered, Delivered, Come, Heard
  <2>2. mbxIn = DownAnswer => Accepted(mbxIn)
    BY DEF Accepted, DownAnswer, WriteCall, Response
  <2> QED BY <2>1, <2>2
<1>4. Answered("segmentResponse") =>
         /\ mbxIn = SegmentDone /\ toggle \in BOOLEAN /\ DownTo(sent, ~toggle)
              /\ Still
         /\ sent \in 2..NParts[call.obj] /\ link = "done" /\ wkc = 1
  BY WritePlaces DEF Answered, Delivered, Come, Heard
<1>5. ~Unexpected /\ ~SegmentUnexpected
  <2>1. ~Unexpected
    BY <1>3, Zenon DEF Unexpected
  <2>2. SegmentDone.op = SegmentOp(call.kind)
    BY DEF SegmentDone, SegmentOp, WriteCall
  <2>3. ~SegmentUnexpected
    BY <1>4, <2>2, Zenon DEF SegmentUnexpected
  <2> QED BY <2>1, <2>3
<1>6. CASE Downloaded
  <2>1. sent = 1 /\ toggle = FALSE /\ DownTo(1, FALSE) /\ Still /\ link = "done"
          /\ wkc = 1
    BY <1>3, <1>6 DEF Downloaded
  <2>2. /\ UNCHANGED <<call, sent, toggle>> /\ LinkUnchanged
        /\ IF MoreParts THEN GoTo("segment") ELSE Return(1)
    BY <1>6, <2>1 DEF Downloaded, Quiet
  <2>3. link' = "done" /\ Between /\ stored' = stored /\ xfer' = xfer
    BY <2>1, <2>2, Returns
  <2>4. LinkOK' /\ Still'
    BY <2>1, <2>3, Pauses
  <2>5. CASE MoreParts
    <3>1. pc' = "segment" /\ sent \in 1..(NParts[call.obj] - 1)
      BY <1>0, <2>1, <2>2, <2>5, Returns DEF MoreParts
    <3>2. DownTo(sent, toggle)'
      BY <2>1, <2>2, <2>3 DEF DownTo, New, Stored
    <3> QED BY <2>1, <2>2, <2>3, <2>4, <3>1, <3>2 DEF WriteTalk, PartNext, StoredOK
  <2>6. CASE ~MoreParts
    <3>1. pc' = "returned" /\ wkc' = 1 /\ NParts[call.obj] = 1
      BY <1>0, <2>1, <2>2, <2>6, Returns DEF MoreParts
    <3>2. Stored'
      BY <2>1, <2>2, <2>3, <3>1 DEF DownTo, New, Stored
    <3> QED BY <2>2, <2>3, <2>4, <3>1, <3>2 DEF WriteTalk, WriteReturned, StoredOK
  <2> QED BY <2>5, <2>6
<1>7. CASE SegmentDownloaded
  <2>1. /\ toggle \in BOOLEAN /\ DownTo(sent, ~toggle) /\ Still
        /\ sent \in 2..NParts[call.obj] /\ link = "done" /\ wkc = 1
    BY <1>4, <1>7 DEF SegmentDownloaded
  <2>2. /\ UNCHANGED <<call, sent>> /\ LinkUnchanged /\ toggle' = ~toggle
        /\ IF MoreParts THEN GoTo("segment") ELSE Return(1)
    BY <1>7, <2>1 DEF SegmentDownloaded, Quiet, Toggled
  <2>3. link' = "done" /\ Between /\ stored' = stored /\ xfer' = xfer
    BY <2>1, <2>2, Returns
  <2>4. LinkOK' /\ Still'
    BY <2>1, <2>3, Pauses
  <2>5. CASE MoreParts
    <3>1. pc' = "segment" /\ sent \in 1..(NParts[call.obj] - 1)
      BY <1>0, <2>1, <2>2, <2>5, Returns DEF MoreParts
    <3>2. DownTo(sent, toggle)'
      BY <2>1, <2>2, <2>3 DEF DownTo, New, Stored
    <3>3. toggle' \in BOOLEAN
      BY <2>2
    <3> QED BY <2>1, <2>2, <2>3, <2>4, <3>1, <3>2, <3>3
        DEF WriteTalk, PartNext, StoredOK
  <2>6. CASE ~MoreParts
    <3>1. pc' = "returned" /\ wkc' = 1 /\ NParts[call.obj] = sent
      BY <1>0, <2>1, <2>2, <2>6, Returns DEF MoreParts
    <3>2. Stored'
      BY <2>1, <2>2, <2>3, <3>1 DEF DownTo, New, Stored
    <3> QED BY <2>2, <2>3, <2>4, <3>1, <3>2 DEF WriteTalk, WriteReturned, StoredOK
  <2> QED BY <2>5, <2>6
<1> QED BY <1>1, <1>2, <1>5, <1>6, <1>7 DEF SdoStep

(* Storing one object leaves the others alone. *)
LEMMA StoresNew ==
  ASSUME StoredOK, call.obj \in Obj \ {"frame"}, NEW v \in Values,
           Len(v) = NParts[call.obj],
         stored' = [stored EXCEPT ![call.obj] = v], UNCHANGED call
  PROVE  StoredOK' /\ stored'[call.obj] = v
BY DEF StoredOK

(* The slave serves what a write requests, and stores the value with the   *)
(* last part.                                                              *)
LEMMA WriteServed ==
  ASSUME SdoObjects, LinkOK, StoredOK, WriteCall, WriteTalk, ServeSdo,
         UNCHANGED <<callVars, sessionVars, eoeVars>>
  PROVE  LinkOK' /\ StoredOK' /\ WriteTalk'
<1>0. /\ New \in Values /\ Len(New) = NParts[call.obj]
           /\ NParts[call.obj] \in Nat \ {0}
      /\ call.obj \in Obj \ {"frame"}
      /\ \A i \in 1..NParts[call.obj] : New[i] = [obj |-> call.obj,
           val |-> call.val, num |-> i]
  BY NewIs
<1>a. UNCHANGED <<pc, call, buf, sent, toggle, family, calls, frames>>
  BY ServedSame
<1>b. ~LeftOver(job)
  BY NoLeftOvers DEF WriteCall
<1>c. New' = New /\ DownPart' = DownPart /\ DownAnswer' = DownAnswer
  BY <1>a DEF New, DownPart, DownAnswer
<1>1. PICK m : RespondAndGoOn(m, NoMsg) /\ m # NoMsg /\ ~IsFragment(m)
  BY SdoAnswers
<1>2. ~Still /\ \A a : a # NoMsg => ~Ans(a, NoMsg)
  BY <1>1, <1>b, Unanswering, Unlike
<1>3. ~WriteReturned /\ ~Draining /\ ~DownDone /\ ~PartNext /\ ~PartDone
  BY <1>2, WriteFits
    DEF WriteReturned, Draining, DownDone, PartNext, PartDone, Wait, Delivered, Fit
<1>4. CASE DownAsked /\ sent = 1 /\ toggle = FALSE
  <2>1. PICK q : q = DownRequest /\ Ask("request", "response", q)
    BY <1>4 DEF DownAsked
  <2>2. job = DownRequest
    BY <2>1, <1>1, <1>a, <1>b, AskServed
  <2>3. ServeDownload
    BY <2>2 DEF ServeSdo, ServeUpload, ServeUploadSegment, ServeDownloadSegment,
      Refuse, DownRequest
  <2>4. /\ RespondAndGoOn(DownAnswer, NoMsg)
        /\ IF NParts[call.obj] = 1
           THEN stored' = [stored EXCEPT ![call.obj] = <<DownPart>>]
             /\ xfer' = NoXfer
           ELSE /\ stored' = stored
                /\ xfer' = [kind |-> "download", obj |-> call.obj,
                     parts |-> <<DownPart>>, toggle |-> FALSE]
    BY <2>2, <2>3 DEF ServeDownload, DownRequest, DownAnswer, Respond
  <2>5. PICK a : a = DownAnswer
    OBVIOUS
  <2>6. LinkOK' /\ Wait("request", "response", a, NoMsg)'
    BY <2>1, <2>4, <2>5, <1>a, <1>b, WriteFits, AskServed DEF Fit
  <2>7. <<DownPart>> = SubSeq(New, 1, 1)
    <3>1. 1 \in 0..Len(New) /\ 1 \in 1..NParts[call.obj]
      BY <1>0
    <3>2. SubSeq(New, 1, 1) \in Seq(ValuePart) /\ Len(SubSeq(New, 1, 1)) = 1
            /\ SubSeq(New, 1, 1)[1] = New[1]
      BY <1>0, <3>1, FirstIs DEF Values
    <3>3. DownPart = New[1] /\ New[1] \in ValuePart
      BY <1>0, <1>4, <3>1 DEF DownPart, Values
    <3>4. <<DownPart>> \in Seq(ValuePart) /\ Len(<<DownPart>>) = 1
            /\ <<DownPart>>[1] = New[1]
      BY <3>3
    <3> QED BY <3>2, <3>4, SeqEqual
  <2>8. CASE NParts[call.obj] = 1
    <3>1. SubSeq(New, 1, 1) = New
      BY <1>0, <2>8, SubSeqFull DEF Values
    <3>2. StoredOK' /\ stored'[call.obj] = New
      BY <1>0, <1>a, <2>4, <2>7, <2>8, <3>1, StoresNew
    <3>3. DownTo(1, FALSE)'
      BY <1>a, <1>c, <2>4, <2>8, <3>2 DEF DownTo, Stored
    <3> QED BY <1>4, <1>a, <1>c, <2>5, <2>6, <3>2, <3>3 DEF WriteTalk, DownDone
  <2>9. CASE NParts[call.obj] # 1
    <3>1. DownTo(1, FALSE)'
      BY <1>a, <1>c, <2>4, <2>7, <2>9 DEF DownTo
    <3> QED BY <1>4, <1>a, <1>c, <2>4, <2>5, <2>6, <2>9, <3>1
        DEF WriteTalk, DownDone, StoredOK
  <2> QED BY <2>8, <2>9
<1>5. CASE PartAsked /\ toggle \in BOOLEAN
  <2>1. PICK q : q = DownSegment /\ Ask("segmentSent", "segmentResponse", q)
    BY <1>5 DEF PartAsked
  <2>2. job = DownSegment
    BY <2>1, <1>1, <1>a, <1>b, AskServed
  <2>n. PICK n \in 1..(NParts[call.obj] - 1) : n = sent - 1 /\ sent = n + 1
          /\ sent \in 2..NParts[call.obj]
    BY <1>0, <1>5 DEF PartAsked
  <2>3. xfer = [kind |-> "download", obj |-> call.obj,
          parts |-> SubSeq(New, 1, n), toggle |-> toggle]
    <3>1. n # NParts[call.obj] /\ DownTo(n, toggle)
      BY <1>0, <1>5, <2>n DEF PartAsked
    <3> QED BY <3>1 DEF DownTo
  <2>4. Expected("download")
    BY <2>2, <2>3 DEF Expected, DownSegment
  <2>5. ServeDownloadSegment
    BY <2>2, <2>4
      DEF ServeSdo, ServeDownload, ServeUpload, ServeUploadSegment, Refuse,
      DownSegment
  <2>6. Append(SubSeq(New, 1, n), DownPart) = SubSeq(New, 1, n + 1)
    <3>1. n \in 0..Len(New) /\ n < Len(New) /\ sent \in 1..NParts[call.obj]
      BY <1>0, <2>n
    <3>2. DownPart = New[n + 1]
      BY <1>0, <2>n, <3>1 DEF DownPart
    <3> QED BY <1>0, <3>1, <3>2, FirstIs
  <2>7. /\ RespondAndGoOn(SegmentDone, NoMsg)
        /\ IF sent = NParts[call.obj]
           THEN stored' = [stored EXCEPT ![call.obj] = SubSeq(New, 1, n + 1)]
             /\ xfer' = NoXfer
           ELSE /\ stored' = stored
                /\ xfer' = [xfer EXCEPT !.parts = SubSeq(New, 1, n + 1),
                     !.toggle = ~@]
    BY <2>2, <2>3, <2>5, <2>6
      DEF ServeDownloadSegment, SegmentDone, DownSegment, Respond
  <2>8. PICK a : a = SegmentDone
    OBVIOUS
  <2>9. LinkOK' /\ Wait("segmentSent", "segmentResponse", a, NoMsg)'
          /\ SegmentDone' = a
    BY <2>1, <2>7, <2>8, <1>a, <1>b, WriteFits, AskServed DEF Fit, SegmentDone
  <2>10. CASE sent = NParts[call.obj]
    <3>1. SubSeq(New, 1, n + 1) = New
      BY <1>0, <2>n, <2>10, SubSeqFull DEF Values
    <3>2. StoredOK' /\ stored'[call.obj] = New
      BY <1>0, <1>a, <2>7, <2>10, <3>1, StoresNew
    <3>3. DownTo(sent, ~toggle)'
      BY <1>a, <1>c, <2>7, <2>10, <3>2 DEF DownTo, Stored
    <3>4. sent' \in 2..NParts[call'.obj]
      BY <1>a, <2>n
    <3>5. PartDone'
      BY <2>9, <3>3, <3>4 DEF PartDone
    <3> QED BY <1>5, <1>a, <2>9, <3>2, <3>5 DEF WriteTalk
  <2>11. CASE sent # NParts[call.obj]
    <3>1. xfer' = [xfer EXCEPT !.parts = SubSeq(New, 1, n + 1), !.toggle = ~@]
      BY <2>7, <2>11
    <3>2. xfer' = [kind |-> "download", obj |-> call.obj,
            parts |-> SubSeq(New, 1, n + 1), toggle |-> ~toggle]
      BY <2>3, <3>1
    <3>3. DownTo(sent, ~toggle)'
      BY <1>a, <1>c, <2>n, <2>11, <3>2 DEF DownTo
    <3>4. sent' \in 2..NParts[call'.obj]
      BY <1>a, <2>n
    <3>5. PartDone'
      BY <2>9, <3>3, <3>4 DEF PartDone
    <3> QED BY <1>5, <1>a, <2>7, <2>9, <2>11, <3>5 DEF WriteTalk, StoredOK
  <2> QED BY <2>10, <2>11
<1> QED BY <1>3, <1>4, <1>5 DEF WriteTalk
-----------------------------------------------------------------------------
(* The slave serves a request it has. *)
LEMMA ServesWork == Serves => job # NoMsg
<1>1. \A m, j : RespondAndGoOn(m, j) => job # NoMsg
  BY DEF RespondAndGoOn
<1>2. \A m : Respond(m) => job # NoMsg
  BY <1>1 DEF Respond
<1>3. \A m : Spoil(m) => job # NoMsg
  BY DEF Spoil
<1>4. Absorb => job # NoMsg
  BY DEF Absorb
<1>5. ServeSdo \/ ServePdo \/ ServeFoe => job # NoMsg
  BY <1>2, <1>3, <1>4 DEF ServeSdo, ServeUpload, ServeDownload, ServeUploadSegment,
      ServeDownloadSegment, Refuse, ServePdo, ServeFoe, ServeFile, ServeAck,
      ServePacket, ServeBusy,
                                ServeFoeError, SendPacket
<1>6. ServeSoe \/ ServeInfo \/ ServeEoe \/ Reject => job # NoMsg
  BY <1>1, <1>2, <1>3, <1>4
    DEF ServeSoe, ServeIdn, ServeFragment, ServeSoeError, ServeInfo, ServeList,
      ServeDescription, ServeEoe, ServeIp, ServeFrame, Reject
<1> QED BY <1>5, <1>6 DEF Serves

(* All but the error list, the hook and the limits of the environment      *)
(* stays.                                                                  *)
Steady == UNCHANGED <<sm0, sm1, repeatReq, lastOut, repeatAck, job, outbox,
                      lastCnt, alive, link, timer, tries, smRep,
                    mbxIn, wkc, mbxOut, mbx_cnt, pc, call, buf, sent, toggle,
                      stored, xfer, frames, family, calls>>
(* What the conversations are made of stays then, *)
LEMMA LinkSteady ==
  ASSUME Steady
  PROVE  /\ LinkOK' <=> LinkOK
         /\ Still' <=> Still
         /\ \A p1, p2, q : Ask(p1, p2, q)' <=> Ask(p1, p2, q)
         /\ \A p1, p2, a, j : Wait(p1, p2, a, j)' <=> Wait(p1, p2, a, j)
         /\ \A p, a : Delivered(p, a)' <=> Delivered(p, a)
<1> USE DEF Steady
<1>1. LinkOK' <=> LinkOK
  BY DEF LinkOK, Places, Unasked, Counters, Receiving, Unplaced, Running, Sm0Idle,
    JobIdle, LeftOver, IsFragment, IsSoeOf
<1>2. Still' <=> Still
  BY DEF Still, Sm0Idle, JobIdle, LeftOver, IsFragment, IsSoeOf, Sm1Idle, Noise
<1>3. (JobIdle' <=> JobIdle) /\ (Sm1Idle' <=> Sm1Idle)
        /\ (Unplaced' <=> Unplaced) /\ (Receiving' <=> Receiving)
  BY DEF JobIdle, LeftOver, IsFragment, IsSoeOf, Sm1Idle, Noise, Unplaced, Receiving
<1>4. \A q : (Sending(q)' <=> Sending(q)) /\ (Work(q)' <=> Work(q))
  BY <1>2, <1>3 DEF Sending, Work, Running
<1>5. \A p1, p2 : Either(p1, p2)' <=> Either(p1, p2)
  BY <1>3 DEF Either, Heard, Listens, Running
<1>6. \A a, j : Ans(a, j)' <=> Ans(a, j)
  BY DEF Ans
<1>7. \A p1, p2, q : Ask(p1, p2, q)' <=> Ask(p1, p2, q)
  BY <1>4, <1>5 DEF Ask
<1>8. \A p1, p2, a, j : Wait(p1, p2, a, j)' <=> Wait(p1, p2, a, j)
  BY <1>5, <1>6 DEF Wait
<1>9. \A p, a : Delivered(p, a)' <=> Delivered(p, a)
  BY <1>2 DEF Delivered, Come, Heard
<1> QED BY <1>1, <1>2, <1>7, <1>8, <1>9

(* and so do the conversations. *)
LEMMA Stutters ==
  ASSUME Steady
  PROVE  (ReadTalk => ReadTalk') /\ (WriteTalk => WriteTalk')
<1>1. UNCHANGED <<Value, New, UpFirst, UpSegment, UpRequest, SegmentRequest,
                  DownRequest, DownAnswer, DownSegment, SegmentDone>>
  BY DEF Steady, Value, New, UpFirst, UpSegment, UpRequest, SegmentRequest,
    DownPart, DownRequest, DownAnswer, DownSegment, SegmentDone
<1>2. \A n, t : (UpTo(n, t)' <=> UpTo(n, t)) /\ (DownTo(n, t)' <=> DownTo(n, t))
  BY <1>1 DEF Steady, UpTo, DownTo, Stored
<1>3. ReadTalk => ReadTalk'
  BY <1>1, <1>2, LinkSteady DEF Steady, ReadTalk, ReadReturned, Draining, Free,
    Receiving, Fresh0, FirstAsked, FirstSent, Uploading,
    SegmentNext, SegmentAsked, SegmentSent
<1>4. WriteTalk => WriteTalk'
  BY <1>1, <1>2, LinkSteady DEF Steady, WriteTalk, WriteReturned, Stored, Draining,
    Free, Receiving, DownAsked, DownDone, PartNext,
    PartAsked, PartDone
<1> QED BY <1>3, <1>4
-----------------------------------------------------------------------------
(* SDO calls, one after the other. *)
SdoTalk ==
  \/ call.kind = "none" /\ pc = "returned" /\ Still
  \/ ReadCall /\ ReadTalk
  \/ WriteCall /\ WriteTalk

(* What a call has been told before the slave went away is right. *)
ReadTold ==
  /\ Len(buf) <= call.room
  /\ wkc > 0 => /\ pc = "returned" => buf = Value
                /\ At("response") => mbxIn = UpFirst
                /\ At("segmentResponse") => Uploading /\ mbxIn = UpSegment
(* What a write still shows after the loss of the slave: no success was    *)
(* reported unless all is stored.                                          *)
WriteTold ==
  wkc > 0 => /\ pc = "returned" => Stored
             /\ At("response") => sent = 1 /\ (sent = NParts[call.obj] => Stored)
             /\ At("segmentResponse") =>
                  sent \in 2..NParts[call.obj]
                    /\ (sent = NParts[call.obj] => Stored)
(* What the calls show after the loss of the slave. *)
SdoTold ==
  /\ StoredOK
  /\ ReadCall => ReadTold
  /\ WriteCall => WriteTold

(* There is no call, or a read or a write. *)
SdoCalled ==
  /\ call.kind = "none" \/ ReadCall \/ WriteCall
  /\ pc \in SdoPlaces \cup {"drain"}

(* While nothing went wrong, the conversation goes as it should; *)
SdoGood == Good => LinkOK /\ StoredOK /\ SdoTalk
(* after the slave was lost, what was received is still right. *)
SdoDead == Watched /\ ~alive => SdoTold
(* The inductive invariant of the SDO service. *)
SdoInv == family = "sdo" => Session /\ SdoCalled /\ SdoGood /\ SdoDead

(* The calls of the other services make no step. *)
LEMMA SdoOnly ==
  ASSUME SdoCalled
  PROVE  /\ ~PdoStep /\ ~FoeStep /\ ~SoeStep /\ ~InfoStep /\ ~EoeStep
         /\ call.kind = "none" /\ pc = "returned" => ~Services
<1>1. call.kind \in {"none", "read", "write"}
  BY DEF SdoCalled, ReadCall, WriteCall
<1>2. ~PdoStep /\ ~FoeStep /\ ~SoeStep /\ ~InfoStep /\ ~EoeStep
  BY <1>1, Alone DEF SdoCalled, SdoPlaces
<1>3. pc = "returned" => ~Services
  BY ServicesTurn
<1> QED BY <1>2, <1>3

(* The slave has no request of another service. *)
LEMMA SdoJob ==
  ASSUME SdoTalk, family = "sdo"
  PROVE  job = NoMsg \/ job.op \in SdoOps
<1>1. JobIdle => job = NoMsg
  BY NoLeftOvers DEF JobIdle
<1>2. Still => job = NoMsg
  BY <1>1 DEF Still
<1>3. \A q : q.op \in SdoOps /\ (\E p1, p2 : Ask(p1, p2, q)) =>
        job = NoMsg \/ job.op \in SdoOps
  BY <1>1, <1>2 DEF Ask, Sending, Work
<1>4. \A p1, p2, a : Wait(p1, p2, a, NoMsg) => job = NoMsg
  BY DEF Wait, Ans
<1>5. UpRequest.op \in SdoOps /\ SegmentRequest.op \in SdoOps
        /\ DownRequest.op \in SdoOps /\ DownSegment.op \in SdoOps
  BY DEF UpRequest, SegmentRequest, DownRequest, DownSegment, SdoOps
<1>6. ReadTalk => job = NoMsg \/ job.op \in SdoOps
  BY <1>2, <1>3, <1>4, <1>5
    DEF ReadTalk, ReadReturned, Draining, FirstAsked, FirstSent, SegmentNext,
     SegmentAsked, SegmentSent, Delivered
<1>7. WriteTalk => job = NoMsg \/ job.op \in SdoOps
  BY <1>2, <1>3, <1>4, <1>5
    DEF WriteTalk, WriteReturned, Draining, DownAsked, DownDone, PartNext,
     PartAsked, PartDone, Delivered
<1> QED BY <1>2, <1>6, <1>7 DEF SdoTalk

(* A call begins. *)
LEMMA SdoBegins ==
  ASSUME SdoObjects, Session, family = "sdo", Calls
  PROVE  /\ SdoCalled' /\ Session'
         /\ pc = "returned" /\ pc' = "drain" /\ StartReceive("expired")
              /\ buf' = <<>> /\ sent' = 0
         /\ toggle' = FALSE /\ UNCHANGED <<stored, xfer, frames, family>>
              /\ calls' # 0 /\ wkc' = 0
<1>0. SdoCalls /\ UNCHANGED <<eoeVars, family>> /\ calls' = calls + 1
  BY DEF Calls, Call
<1>c. calls \in Nat /\ frames' = frames
  BY <1>0 DEF Session, eoeVars
<1>1. PICK o \in SdoObj :
         \E c : /\ Enter(c)
               /\ \/ c = [kind |-> "write", obj |-> o, val |-> NewVal]
                  \/ \E room \in Room[o] : c = [kind |-> "read", obj |-> o, room |-> room]
  BY <1>0 DEF SdoCalls, CallRead, CallWrite
<1>p. PICK c : /\ Enter(c)
              /\ \/ c = [kind |-> "write", obj |-> o, val |-> NewVal]
                 \/ \E room \in Room[o] : c = [kind |-> "read", obj |-> o, room |-> room]
  BY <1>1
<1>2. call' = c /\ pc = "returned" /\ pc' = "drain" /\ StartReceive("expired")
        /\ buf' = <<>> /\ sent' = 0
      /\ toggle' = FALSE /\ UNCHANGED <<stored, xfer>> /\ wkc' = 0
  BY <1>p DEF Enter, serverVars, StartReceive
<1>3. Room[o] \subseteq Nat
  BY <1>1, ServicesConstants DEF SdoObjects
<1>4. ReadCall' \/ WriteCall'
  BY <1>0, <1>p, <1>2, <1>3, <1>c DEF ReadCall, WriteCall, NewVal
<1>5. calls' # 0 /\ calls' \in Nat
  BY <1>0, <1>c
<1>6. SdoCalled'
  BY <1>2, <1>4 DEF SdoCalled
<1>7. Session'
  BY <1>2, <1>4, <1>5, <1>c DEF Session, Unheard, ReadCall, WriteCall
<1> QED BY <1>0, <1>2, <1>5, <1>6, <1>7, <1>c

(* When a call has returned, nothing is on its way. *)
LEMMA SdoReturned == SdoTalk /\ pc = "returned" => Still
BY DEF SdoTalk, ReadTalk, WriteTalk, ReadReturned, WriteReturned, Draining,
  FirstAsked, FirstSent, SegmentNext,
     SegmentAsked, SegmentSent, DownAsked, DownDone, PartNext, PartAsked, PartDone,
     Ask, Wait, Either, Delivered, Come

(* While nothing goes wrong, every step keeps the conversation as it       *)
(* should be.                                                              *)
LEMMA SdoGoesOn ==
  ASSUME SdoObjects, SdoInv, family = "sdo", [Next]_allVars, Good, Good'
  PROVE  LinkOK' /\ StoredOK' /\ SdoTalk' /\ SdoCalled'
<1>0. LinkOK /\ StoredOK /\ SdoTalk /\ SdoCalled /\ Session /\ family' = family
  BY SessionKept DEF SdoInv, SdoGood
<1>c. UNCHANGED <<call, family>> =>
        (ReadCall' <=> ReadCall) /\ (WriteCall' <=> WriteCall)
  BY DEF ReadCall, WriteCall
<1>s. UNCHANGED stored => StoredOK'
  BY <1>0 DEF StoredOK
<1>1. CASE Calls
  <2>1. link = "done" /\ Still
    BY <1>0, <1>1, SdoBegins, SdoReturned DEF LinkOK, Places
  <2>2. LinkOK' /\ Receiving' /\ Still'
    BY <1>0, <1>1, <2>1, SdoBegins, Waits
  <2>3. Draining' /\ Fresh0' /\ sent' = 0 /\ toggle' = FALSE /\ pc' = "drain"
    BY <1>0, <1>1, <2>2, SdoBegins DEF Draining, Fresh0, Free
  <2>4. ReadTalk' /\ WriteTalk'
    BY <2>3 DEF ReadTalk, WriteTalk
  <2>5. SdoCalled' /\ UNCHANGED stored
    BY <1>0, <1>1, SdoBegins
  <2>6. SdoTalk'
    BY <2>3, <2>4, <2>5, <1>0, <1>1, SdoBegins DEF SdoTalk, SdoCalled, Session
  <2> QED BY <2>2, <2>5, <2>6, <1>s
<1>2. CASE PopError
  <2>1. /\ UNCHANGED <<pc, call, buf, sent, toggle, stored, xfer, family, frames,
                       calls, wkc>>
        /\ pc = "returned" /\ Between
    <3>1. pc = "returned" /\ link = "done"
      BY <1>0, <1>2 DEF PopError, LinkOK, Places
    <3> QED BY <1>2, <3>1 DEF PopError, LinkUnchanged, masterVars, callVars,
        eoeVars, sessionVars, serverVars, Between, SlaveStays, slaveVars
  <2>2. LinkOK' /\ Still'
    BY <1>0, <2>1, SdoReturned, Pauses
  <2>3. ReadTalk => ReadTalk'
    <3>1. ReadTalk => ReadReturned
      BY <2>1 DEF ReadTalk, Draining, FirstAsked, FirstSent, SegmentNext,
        SegmentAsked, SegmentSent, Ask, Wait, Either, Delivered, Come
    <3> QED BY <2>1, <2>2, <3>1 DEF ReadTalk, ReadReturned, Value
  <2>4. WriteTalk => WriteTalk'
    <3>1. WriteTalk => WriteReturned
      BY <2>1 DEF WriteTalk, Draining, DownAsked, DownDone, PartNext, PartAsked,
        PartDone, Ask, Wait, Either, Delivered, Come
    <3> QED BY <2>1, <2>2, <3>1 DEF WriteTalk, WriteReturned, Stored, New
  <2> QED BY <1>0, <1>c, <1>s, <2>1, <2>2, <2>3, <2>4 DEF SdoTalk, SdoCalled
<1>3. CASE Services /\ UNCHANGED <<eoeVars, sessionVars>>
  <2>0. UNCHANGED <<frames, family, calls>>
    BY <1>3 DEF eoeVars, sessionVars
  <2>1. pc # "returned" /\ calls # 0 /\ calls' # 0
    BY <1>0, <1>3, <2>0, ServicesTurn DEF Session
  <2>2. SdoStep \/ Placed \/ NotPlaced
    BY <1>0, <1>3, SdoOnly DEF Services
  <2>3. CASE ReadCall /\ ReadTalk
    <3>1. LinkOK' /\ StoredOK' /\ ReadTalk' /\ call' = call
      <4>1. CASE Initiate \/ Placed \/ Segment \/ SegmentPlaced
        BY <1>0, <2>0, <2>1, <2>3, <4>1, ReadSteps
      <4>2. CASE ~(Initiate \/ Placed \/ Segment \/ SegmentPlaced)
        BY <1>0, <2>0, <2>2, <2>3, <4>2, ReadAnswers
      <4> QED BY <4>1, <4>2
    <3> QED BY <1>c, <2>0, <2>3, <3>1, <2>2, SdoTurns, PlacedTurns
        DEF SdoTalk, SdoCalled, SdoPlaces
  <2>4. CASE WriteCall /\ WriteTalk
    <3>1. LinkOK' /\ StoredOK' /\ WriteTalk' /\ call' = call
      <4>1. CASE Initiate \/ Placed \/ Segment \/ SegmentPlaced
        BY <1>0, <2>0, <2>1, <2>4, <4>1, WriteSteps
      <4>2. CASE ~(Initiate \/ Placed \/ Segment \/ SegmentPlaced)
        BY <1>0, <2>0, <2>2, <2>4, <4>2, WriteAnswers
      <4> QED BY <4>1, <4>2
    <3> QED BY <1>c, <2>0, <2>4, <3>1, <2>2, SdoTurns, PlacedTurns
        DEF SdoTalk, SdoCalled, SdoPlaces
  <2> QED BY <1>0, <2>1, <2>3, <2>4 DEF SdoTalk
<1>4. CASE (Transports /\ Others) \/ Frames
  <2>1. UNCHANGED <<pc, call, stored, family>>
    BY <1>4, SamePc
  <2>2. LinkOK' /\ (Still /\ Free => Still')
    BY <1>0, <1>4, RestCarried
  <2>3. (ReadTalk => ReadTalk') /\ (WriteTalk => WriteTalk')
    BY <1>0, <1>4, ReadCarried, WriteCarried
  <2>4. pc = "returned" => Free
    BY <1>0 DEF LinkOK, Places, Free
  <2> QED BY <1>0, <1>c, <1>s, <2>1, <2>2, <2>3, <2>4 DEF SdoTalk, SdoCalled
<1>5. CASE Serves /\ UNCHANGED <<callVars, sessionVars, eoeVars>>
  <2>1. UNCHANGED <<pc, call, buf, sent, toggle, family, calls, frames>>
    BY <1>5, ServedSame
  <2>2. ~Reject
    BY DEF Reject, Spoil, Good, Watched
  <2>3. job # NoMsg
    BY <1>0, <1>5, ServesWork
  <2>4. job.op \in SdoOps
    BY <1>0, <2>3, SdoJob
  <2>5. ServeSdo
    BY <1>5, <2>2, <2>4, Unserved DEF Serves, SdoOps
  <2>6. ~Still
    BY <2>3, NoLeftOvers DEF Still, JobIdle
  <2>7. (ReadCall /\ ReadTalk => LinkOK' /\ StoredOK' /\ ReadTalk')
          /\ (WriteCall /\ WriteTalk => LinkOK' /\ StoredOK' /\ WriteTalk')
    BY <1>0, <1>5, <2>5, ReadServed, WriteServed
  <2> QED BY <1>0, <1>c, <2>1, <2>6, <2>7 DEF SdoTalk, SdoCalled
<1>6. ~SetUp /\ ~(Die /\ Others) /\ ~EoeStep
  BY <1>0, SdoOnly DEF SetUp, Die, Good
<1>7. CASE UNCHANGED allVars
  <2>1. UNCHANGED <<sm0, sm1, repeatReq, lastOut, repeatAck, job, outbox, lastCnt,
                    alive, link, timer, tries, smRep,
                    mbxIn, wkc, mbxOut, mbx_cnt, pc, call, buf, sent, toggle,
                      stored, xfer, frames, family, calls>>
    BY <1>7
      DEF allVars, mbxVars, slaveVars, masterVars, callVars, serverVars, eoeVars
  <2>2. LinkOK' /\ (Still => Still') /\ (ReadTalk => ReadTalk')
          /\ (WriteTalk => WriteTalk')
    BY <1>0, <2>1, Stutters, LinkSteady DEF Steady
  <2> QED BY <1>0, <1>c, <1>s, <2>1, <2>2 DEF SdoTalk, SdoCalled
<1> QED BY <1>1, <1>2, <1>3, <1>4, <1>5, <1>6, <1>7, Steps
-----------------------------------------------------------------------------
(* The slave goes away. *)
LEMMA SdoDies ==
  ASSUME SdoObjects, SdoInv, family = "sdo", Good, Die, Others
  PROVE  SdoTold'
<1>0. LinkOK /\ StoredOK /\ SdoTalk /\ Session
  BY DEF SdoInv, SdoGood
<1>1. UNCHANGED <<pc, call, buf, sent, toggle, stored, xfer, link, wkc, mbxIn,
                  family>>
  BY Aside DEF Die, masterVars
<1>2. StoredOK'
  BY <1>0, <1>1 DEF StoredOK
<1>3. ReadCall => ReadTold
  <2>1. SUFFICES ASSUME ReadCall, ReadTalk PROVE ReadTold
    BY <1>0 DEF SdoTalk, ReadCall, WriteCall
  <2>v. Value \in Values /\ Len(Value) \in Nat \ {0}
    BY <1>0, <2>1, ValueIs DEF ReadCall
  <2>r. call.room \in Nat
    BY <2>1 DEF ReadCall
  <2>2. Len(buf) <= call.room
    <3>1. CASE ReadReturned
      BY <3>1 DEF ReadReturned
    <3>2. CASE Fresh0
      BY <3>2, <2>r DEF Fresh0
    <3>3. CASE Uploading
      <4>1. PICK n \in 1..(Len(Value) - 1) : n = Len(buf)
        BY <3>3 DEF Uploading
      <4> QED BY <2>v, <2>r, <3>3, <4>1 DEF Uploading
    <3> QED BY <2>1, <3>1, <3>2, <3>3 DEF ReadTalk
  <2>3. At("response") => mbxIn = UpFirst
    BY <1>0, <2>1, ReadPlaces DEF Delivered, Come
  <2>4. At("segmentResponse") => Uploading /\ mbxIn = UpSegment
    BY <1>0, <2>1, ReadPlaces DEF Delivered, Come
  <2>5. pc = "returned" /\ wkc > 0 => buf = Value
    <3>1. pc = "returned" => ReadReturned
      BY <2>1 DEF ReadTalk, Draining, FirstAsked, FirstSent, SegmentNext,
        SegmentAsked, SegmentSent, Ask, Wait, Either, Delivered, Come
    <3> QED BY <3>1 DEF ReadReturned
  <2> QED BY <2>2, <2>3, <2>4, <2>5 DEF ReadTold
<1>4. WriteCall => WriteTold
  <2>1. SUFFICES ASSUME WriteCall, WriteTalk PROVE WriteTold
    BY <1>0 DEF SdoTalk, ReadCall, WriteCall
  <2>2. At("response") => sent = 1 /\ (sent = NParts[call.obj] => Stored)
    BY <1>0, <2>1, WritePlaces DEF DownTo
  <2>3. At("segmentResponse") =>
          sent \in 2..NParts[call.obj] /\ (sent = NParts[call.obj] => Stored)
    BY <1>0, <2>1, WritePlaces DEF DownTo
  <2>4. pc = "returned" => Stored
    BY <2>1 DEF WriteTalk, WriteReturned, Draining, DownAsked, DownDone, PartNext,
      PartAsked, PartDone, Ask, Wait, Either, Delivered, Come
  <2> QED BY <2>2, <2>3, <2>4 DEF WriteTold
<1>5. (ReadCall' <=> ReadCall) /\ (WriteCall' <=> WriteCall)
  BY <1>1 DEF ReadCall, WriteCall
<1>6. (ReadTold => ReadTold') /\ (WriteTold => WriteTold')
  BY <1>1
    DEF ReadTold, WriteTold, At, Value, UpFirst, Uploading, UpSegment, Stored, New
<1> QED BY <1>2, <1>3, <1>4, <1>5, <1>6 DEF SdoTold

(* The call goes on. *)
Fails == ~(wkc' > 0)
(* A call that had no success from the mailbox sends, waits, goes on or    *)
(* returns without one.                                                    *)
LEMMA Failing ==
  /\ \A m, p : Post(m, p) => Fails
  /\ \A t : StartReceive(t) => Fails
  /\ Return(0) => Fails
  /\ ~(wkc > 0) => /\ Return(wkc) => Fails
                   /\ \A p : GoTo(p) => Fails
BY DEF Fails, Post, StartSend, StartReceive, Return, GoTo, masterVars

(* Without the slave, a read's steps keep what it shows; *)
LEMMA ReadToldStep ==
  ASSUME SdoObjects, StoredOK, wkc \in Int, ReadCall, ReadTold,
           SdoStep \/ Placed \/ NotPlaced, UNCHANGED family
  PROVE  ReadTold'
<1>0. Value \in Values /\ Len(Value) \in Nat \ {0} /\ call.room \in Nat
        /\ call.kind = "read"
      /\ \A i \in 1..Len(Value) : Value[i] \in ValuePart
  BY ValueIs DEF ReadCall
<1>i. wkc \in Int
  OBVIOUS
<1>1. call' = call /\ stored' = stored
  BY SdoTurns, PlacedTurns, SdoErrors DEF Turns, Unhooked
<1>v. Value' = Value
  BY <1>1 DEF Value
<1>f. Fails /\ Len(buf') <= call.room => ReadTold'
  BY <1>1 DEF Fails, ReadTold
<1>2. CASE Initiate \/ SdoNoResponse \/ Unexpected \/ Segment \/ SegmentPlaced
             \/ SegmentUnexpected
           \/ Placed \/ NotPlaced
  <2>1. buf' = buf
    BY <1>2 DEF Initiate, SdoNoResponse, Unexpected, Segment, SegmentPlaced,
      SegmentUnexpected, Placed, NotPlaced, Post
  <2>2. Fails
    <3>1. Initiate \/ Segment \/ SegmentPlaced \/ Placed => Fails
      BY Failing DEF Initiate, Segment, SegmentPlaced, Placed
    <3>2. Unexpected \/ SegmentUnexpected => Fails
      BY Failing DEF Unexpected, SegmentUnexpected
    <3>3. SdoNoResponse \/ NotPlaced => Fails
      <4>1. SdoNoResponse \/ NotPlaced => wkc <= 0 /\ Return(wkc)
        BY DEF SdoNoResponse, NotPlaced
      <4>2. SdoNoResponse \/ NotPlaced => wkc' <= 0
        BY <4>1 DEF Return
      <4>3. SdoNoResponse \/ NotPlaced => wkc' \in Int
        BY <1>i, <4>1 DEF Return
      <4> QED BY <4>2, <4>3 DEF Fails
    <3> QED BY <1>2, <3>1, <3>2, <3>3
  <2> QED BY <1>f, <2>1, <2>2 DEF ReadTold
<1>3. CASE SegmentFails
  <2>1. buf' = buf /\ wkc' = wkc /\ wkc <= 0
    BY <1>3 DEF SegmentFails, Return, GoTo, masterVars
  <2> QED BY <1>f, <2>1, <1>i DEF ReadTold, Fails
<1>4. CASE Uploaded
  <2>1. mbxIn = UpFirst
    BY <1>4 DEF Uploaded, Answered, ReadTold
  <2>2. CASE Len(Value) = 1
    <3>1. mbxIn = [op |-> "uploaded", obj |-> call.obj, part |-> Value[1]]
      BY <2>1, <2>2 DEF UpFirst
    <3>2. CASE call.room >= 1
      <4>1. buf' = <<Value[1]>> /\ pc' = "returned"
        BY <1>4, <3>1, <3>2 DEF Uploaded, Return
      <4>2. <<Value[1]>> = Value
        BY <1>0, <2>2, SeqEqual DEF Values
      <4>3. Len(buf') <= call.room
        BY <4>1, <3>2, <1>0
      <4> QED BY <1>1, <1>v, <4>1, <4>2, <4>3 DEF ReadTold, At
    <3>3. CASE ~(call.room >= 1)
      <4>1. TooSmall
        BY <1>4, <3>1, <3>3 DEF Uploaded
      <4> QED BY <1>f, <4>1, Failing DEF TooSmall, ReadTold
    <3> QED BY <3>2, <3>3
  <2>3. CASE Len(Value) # 1
    <3>1. mbxIn.op = "uploadBegins"
      BY <2>1, <2>3 DEF UpFirst
    <3> QED BY <1>4, <3>1 DEF Uploaded
  <2> QED BY <2>2, <2>3
<1>5. CASE UploadBegins
  <2>1. mbxIn = UpFirst
    BY <1>5 DEF UploadBegins, Answered, ReadTold
  <2>2. Len(Value) # 1
    BY <1>5, <2>1 DEF UpFirst, UploadBegins
  <2>3. mbxIn.size = Len(Value) /\ mbxIn.part = Value[1]
    BY <2>1, <2>2 DEF UpFirst
  <2>4. CASE Fits(mbxIn)
    <3>1. buf' = <<Value[1]>> /\ pc' = "segment"
      BY <1>5, <2>3, <2>4 DEF UploadBegins, GoTo
    <3>2. Len(buf') <= call.room
      BY <1>0, <2>3, <2>4, <3>1 DEF Fits
    <3> QED BY <1>1, <3>1, <3>2 DEF ReadTold, At
  <2>5. CASE ~Fits(mbxIn)
    <3>1. TooSmall
      BY <1>5, <2>5 DEF UploadBegins
    <3> QED BY <1>f, <3>1, Failing DEF TooSmall, ReadTold
  <2> QED BY <2>4, <2>5
<1>6. CASE SegmentUploaded
  <2>1. Uploading /\ mbxIn = UpSegment
    BY <1>6 DEF SegmentUploaded, Answered, ReadTold
  <2>n. PICK n \in 1..(Len(Value) - 1) : n = Len(buf)
    BY <2>1 DEF Uploading
  <2>m. n \in 0..Len(Value) /\ n < Len(Value) /\ n + 1 <= Len(Value)
          /\ n + 1 \in 0..Len(Value)
    BY <1>0
  <2>2. mbxIn.part = Value[n + 1] /\ (mbxIn.last <=> n + 1 = Len(Value))
    BY <2>1, <2>n DEF UpSegment
  <2>3. buf' = SubSeq(Value, 1, n + 1)
    <3>1. buf' = Append(buf, Value[n + 1])
      BY <1>6, <2>2 DEF SegmentUploaded, Copied
    <3>2. buf = SubSeq(Value, 1, n)
      BY <2>1, <2>n DEF Uploading
    <3> QED BY <1>0, <2>m, <3>1, <3>2, FirstIs
  <2>4. Len(buf') <= call.room
    <3>1. Len(buf') = n + 1
      BY <1>0, <2>3, <2>m, FirstIs
    <3> QED BY <1>0, <2>1, <2>m, <3>1 DEF Uploading
  <2>5. pc' = "returned" => buf' = Value
    <3>1. pc' = "returned" => mbxIn.last
      BY <1>6 DEF SegmentUploaded, GoTo
    <3> QED BY <1>0, <2>2, <2>3, <2>m, <3>1, FirstIs
  <2>6. pc' \in {"returned", "segment"}
    BY <1>6 DEF SegmentUploaded, GoTo, Return
  <2> QED BY <1>1, <1>v, <2>4, <2>5, <2>6 DEF ReadTold, At
<1>7. ~Downloaded /\ ~SegmentDownloaded
  BY <1>0 DEF Downloaded, SegmentDownloaded
<1> QED BY <1>2, <1>3, <1>4, <1>5, <1>6, <1>7 DEF SdoStep

(* so do a write's. *)
LEMMA WriteToldStep ==
  ASSUME SdoObjects, StoredOK, wkc \in Int, WriteCall, WriteTold,
           SdoStep \/ Placed \/ NotPlaced, UNCHANGED family
  PROVE  WriteTold'
<1>0. call.kind = "write" /\ NParts[call.obj] \in Nat \ {0}
  BY NewIs DEF WriteCall
<1>i. wkc \in Int
  OBVIOUS
<1>1. call' = call /\ stored' = stored
  BY SdoTurns, PlacedTurns, SdoErrors DEF Turns, Unhooked
<1>v. Stored' <=> Stored
  BY <1>1 DEF Stored, New
<1>f. Fails => WriteTold'
  BY <1>1 DEF Fails, WriteTold
<1>2. CASE Initiate \/ SdoNoResponse \/ Unexpected \/ Segment \/ SegmentPlaced
             \/ SegmentUnexpected
           \/ Placed \/ NotPlaced
    <3>1. Initiate \/ Segment \/ SegmentPlaced \/ Placed => Fails
      BY Failing DEF Initiate, Segment, SegmentPlaced, Placed
    <3>2. Unexpected \/ SegmentUnexpected => Fails
      BY Failing DEF Unexpected, SegmentUnexpected
    <3>3. SdoNoResponse \/ NotPlaced => Fails
      <4>1. SdoNoResponse \/ NotPlaced => wkc <= 0 /\ Return(wkc)
        BY DEF SdoNoResponse, NotPlaced
      <4>2. SdoNoResponse \/ NotPlaced => wkc' <= 0
        BY <4>1 DEF Return
      <4>3. SdoNoResponse \/ NotPlaced => wkc' \in Int
        BY <1>i, <4>1 DEF Return
      <4> QED BY <4>2, <4>3 DEF Fails
    <3> QED BY <1>2, <1>f, <3>1, <3>2, <3>3
<1>3. CASE SegmentFails
  <2>1. wkc' = wkc /\ wkc <= 0
    BY <1>3 DEF SegmentFails, Return, GoTo, masterVars
  <2> QED BY <1>f, <2>1, <1>i DEF Fails
<1>4. CASE Downloaded \/ SegmentDownloaded
  <2>1. sent \in 1..NParts[call.obj] /\ (sent = NParts[call.obj] => Stored)
    BY <1>0, <1>4 DEF Downloaded, SegmentDownloaded, Answered, At, WriteTold
  <2>2. pc' \in {"returned", "segment"} /\ (pc' = "returned" => ~MoreParts)
    BY <1>4 DEF Downloaded, SegmentDownloaded, GoTo, Return
  <2>3. pc' = "returned" => Stored
    BY <1>0, <2>1, <2>2 DEF MoreParts
  <2> QED BY <1>v, <2>2, <2>3 DEF WriteTold, At
<1>5. ~Uploaded /\ ~UploadBegins /\ ~SegmentUploaded
  BY <1>0 DEF Uploaded, UploadBegins, SegmentUploaded
<1> QED BY <1>2, <1>3, <1>4, <1>5 DEF SdoStep

(* After the loss of the slave every step keeps what the calls show. *)
LEMMA SdoToldGoesOn ==
  ASSUME SdoObjects, SdoInv, family = "sdo", [Next]_allVars, Watched, ~alive
  PROVE  SdoTold' /\ SdoCalled'
<1>0. SdoTold /\ SdoCalled /\ Session /\ family' = family
  BY SessionKept DEF SdoInv, SdoDead
<1>c. UNCHANGED <<call, family>> =>
        (ReadCall' <=> ReadCall) /\ (WriteCall' <=> WriteCall)
  BY DEF ReadCall, WriteCall
<1>s. UNCHANGED stored => StoredOK'
  BY <1>0 DEF StoredOK, SdoTold
<1>t. UNCHANGED <<pc, call, buf, sent, toggle, stored, xfer, link, wkc, mbxIn,
                  family>> => SdoTold' /\ SdoCalled'
  <2>1. SUFFICES ASSUME UNCHANGED <<pc, call, buf, sent, toggle, stored, xfer,
                                    link, wkc, mbxIn, family>>
                 PROVE  SdoTold' /\ SdoCalled'
    OBVIOUS
  <2>2. (ReadTold => ReadTold') /\ (WriteTold => WriteTold')
    BY <2>1
      DEF ReadTold, WriteTold, At, Value, UpFirst, Uploading, UpSegment, Stored, New
  <2> QED BY <1>0, <1>c, <1>s, <2>1, <2>2 DEF SdoTold, SdoCalled
<1>1. CASE Calls
  <2>1. SdoCalled' /\ buf' = <<>> /\ wkc' = 0 /\ UNCHANGED stored
    BY <1>0, <1>1, SdoBegins
  <2>2. WriteTold'
    BY <2>1 DEF WriteTold
  <2>3. ReadCall' => ReadTold'
    BY <2>1 DEF ReadTold, ReadCall
  <2> QED BY <1>s, <2>1, <2>2, <2>3 DEF SdoTold
<1>2. CASE PopError
  BY <1>2, <1>t
    DEF PopError, LinkUnchanged, masterVars, callVars, serverVars, sessionVars
<1>3. CASE Services /\ UNCHANGED <<eoeVars, sessionVars>>
  <2>0. UNCHANGED family
    BY <1>3 DEF sessionVars
  <2>1. SdoStep \/ Placed \/ NotPlaced
    BY <1>0, <1>3, SdoOnly DEF Services
  <2>2. call' = call /\ stored' = stored /\ pc' \in SdoPlaces
    BY <2>1, SdoTurns, PlacedTurns, SdoErrors DEF Turns, Unhooked, SdoPlaces
  <2>w. wkc \in Int
    BY <1>0 DEF Session, Unheard
  <2>3. (ReadCall => ReadTold') /\ (WriteCall => WriteTold')
    BY <1>0, <2>w, <2>0, <2>1, ReadToldStep, WriteToldStep DEF SdoTold
  <2> QED BY <1>0, <1>c, <1>s, <2>0, <2>2, <2>3 DEF SdoTold, SdoCalled
<1>4. CASE (Transports /\ Others) \/ Frames
  <2>1. UNCHANGED <<pc, call, buf, sent, toggle, stored, xfer, family>>
    BY <1>4, SamePc
  <2>2. ~(wkc' > 0) \/ (wkc' = wkc /\ link' = link /\ mbxIn' = mbxIn)
    BY <1>0, <1>4, TransportHears DEF Session
  <2>3. CASE ~(wkc' > 0)
    <3>1. (ReadTold => ReadTold') /\ (WriteTold => WriteTold')
      BY <2>1, <2>3 DEF ReadTold, WriteTold
    <3> QED BY <1>0, <1>c, <1>s, <2>1, <3>1 DEF SdoTold, SdoCalled
  <2> QED BY <1>t, <2>1, <2>2, <2>3
<1>5. ~Serves
  BY ServesLeave DEF Leaves
<1>6. ~SetUp /\ ~(Die /\ Others) /\ ~EoeStep
  BY <1>0, SdoOnly DEF SetUp, Die
<1>7. CASE UNCHANGED allVars
  BY <1>7, <1>t DEF allVars, mbxVars, masterVars, callVars, serverVars
<1> QED BY <1>1, <1>2, <1>3, <1>4, <1>5, <1>6, <1>7, Steps
-----------------------------------------------------------------------------
(* At first every object has its first content. *)
LEMMA InitStored == Init => DOMAIN stored = Obj
  /\ \A o \in Obj : stored[o] = Content(o, 0)
BY DEF Init, CallInit

(* At first nothing is on its way. *)
LEMMA InitSession == Init => Session /\ LinkOK /\ Still /\ StoredOK
  /\ call.kind = "none" /\ pc = "returned" /\ alive
<1> SUFFICES ASSUME Init
             PROVE  Session /\ LinkOK /\ Still /\ StoredOK /\ call.kind = "none"
                      /\ pc = "returned" /\ alive
  OBVIOUS
<1>1. /\ sm0 = NoMsg /\ sm1 = NoMsg /\ lastOut = NoMsg /\ job = NoMsg
           /\ outbox = <<>>
      /\ repeatReq = FALSE /\ repeatAck = FALSE /\ lastCnt = 0 /\ alive = TRUE
      /\ link = "done" /\ mbxOut = [cnt |-> 0, msg |-> NoMsg] /\ wkc = 0
           /\ mbx_cnt = 0
      /\ pc = "returned" /\ call = [kind |-> "none"] /\ calls = 0 /\ frames = 0
  BY DEF Init, MailboxInit, CallInit, EoeInit
<1>2. Session /\ call.kind = "none"
  BY <1>1 DEF Session, Unheard
<1>3. ~Unplaced /\ ~Receiving
  BY <1>1 DEF Unplaced, Receiving
<1>4. Places
  BY <1>1, <1>3 DEF Places
<1>5. Unasked
  BY <1>1 DEF Unasked, IsFragment, NoMsg
<1>6. Counters
  BY <1>1, <1>3, Counting DEF Counters
<1>7. Still
  BY <1>1 DEF Still, Sm0Idle, JobIdle, Sm1Idle
<1>8. StoredOK
  BY InitStored, ContentIs DEF StoredOK
<1> QED BY <1>1, <1>2, <1>4, <1>5, <1>6, <1>7, <1>8 DEF LinkOK

(* The invariant holds at first. *)
LEMMA SdoFirst == Init => SdoInv
BY InitSession DEF SdoInv, SdoCalled, SdoPlaces, SdoGood, SdoDead, SdoTalk

(* The calls of a behaviour are of one service. *)
LEMMA FamilyStays == [Next]_allVars => family' = family
<1>1. CASE Calls
  BY <1>1 DEF Calls
<1>2. CASE [Next]_allVars /\ ~Calls
  BY <1>2, Steps, SamePc DEF SetUp, PopError, sessionVars, allVars, Others
<1> QED BY <1>1, <1>2

(* Only Die takes the slave away. *)
LEMMA OnlyDies ==
  ASSUME Session, [Next]_allVars, alive, ~alive'
  PROVE  Die /\ Others
<1>1. Calls => alive' = alive
  BY CallTurns DEF Calls, Turns
<1>2. SetUp \/ PopError => alive' = alive
  BY DEF SetUp, EOEdefinehook, PopError, LinkUnchanged, slaveVars
<1>3. Services \/ EoeStep => alive' = alive
  BY ServicesTurn, EoeTurns DEF SoeTurn, Turns
<1>4. (Transports /\ Others) \/ Frames => alive' = alive
  BY TransportHears DEF Session
<1>5. Serves => alive' = alive
  BY ServesLeave DEF Leaves
<1>6. UNCHANGED allVars => alive' = alive
  BY DEF allVars, mbxVars, slaveVars
<1> QED BY <1>1, <1>2, <1>3, <1>4, <1>5, <1>6, Steps

(* Every call is a read or a write. *)
LEMMA SdoCalledKept ==
  ASSUME SdoObjects, Session, family = "sdo", SdoCalled, [Next]_allVars
  PROVE  SdoCalled'
<1>c. UNCHANGED <<call, family>> =>
        (ReadCall' <=> ReadCall) /\ (WriteCall' <=> WriteCall)
  BY DEF ReadCall, WriteCall
<1>f. family' = family
  BY FamilyStays
<1>p. UNCHANGED <<call, pc>> => SdoCalled'
  BY <1>c, <1>f DEF SdoCalled
<1>1. Calls => SdoCalled'
  BY SdoBegins
<1>2. PopError => SdoCalled'
  BY <1>p DEF PopError, callVars
<1>3. Services => SdoCalled'
  <2>1. SUFFICES ASSUME Services PROVE SdoCalled'
    OBVIOUS
  <2>2. SdoStep \/ Placed \/ NotPlaced
    BY <2>1, SdoOnly DEF Services
  <2>3. call' = call /\ pc' \in SdoPlaces
    BY <2>2, SdoTurns, PlacedTurns, SdoErrors DEF Unhooked, SdoPlaces
  <2> QED BY <1>c, <1>f, <2>3 DEF SdoCalled
<1>4. (Transports /\ Others) \/ Frames => SdoCalled'
  BY <1>p, SamePc
<1>5. Serves /\ UNCHANGED <<callVars, sessionVars, eoeVars>> => SdoCalled'
  BY <1>p DEF callVars
<1>6. ~SetUp /\ ~EoeStep
  BY SdoOnly DEF SetUp
<1>7. Die /\ Others => SdoCalled'
  BY <1>p, Aside
<1>8. UNCHANGED allVars => SdoCalled'
  BY <1>p DEF allVars, callVars
<1> QED BY <1>1, <1>2, <1>3, <1>4, <1>5, <1>6, <1>7, <1>8, Steps

(* Every step keeps the invariant. *)
LEMMA SdoKept == SdoObjects /\ SdoInv /\ [Next]_allVars => SdoInv'
<1> SUFFICES ASSUME SdoObjects, SdoInv, [Next]_allVars PROVE SdoInv'
  OBVIOUS
<1>1. family' = family
  BY FamilyStays
<1> SUFFICES ASSUME family = "sdo" PROVE SdoInv'
  BY <1>1 DEF SdoInv
<1>2. Session /\ SdoCalled /\ SdoGood /\ SdoDead
  BY DEF SdoInv
<1>3. Before /\ SdoCalled' /\ Session'
  <2>1. CASE Calls
    BY <1>2, <2>1, SdoCalledKept, SdoBegins, SessionKept
  <2> QED BY <1>2, <2>1, SessionKept, SdoCalledKept
<1>4. SdoGood'
  <2>1. SUFFICES ASSUME Good' PROVE LinkOK' /\ StoredOK' /\ SdoTalk'
    BY DEF SdoGood
  <2>2. Good
    BY <1>3, <2>1 DEF Before, Good
  <2> QED BY <2>1, <2>2, SdoGoesOn
<1>5. SdoDead'
  <2>1. SUFFICES ASSUME Watched', ~alive' PROVE SdoTold'
    BY DEF SdoDead
  <2>2. Watched
    BY <1>3, <2>1 DEF Before
  <2>3. CASE alive
    BY <1>2, <2>1, <2>2, <2>3, OnlyDies, SdoDies DEF Good
  <2>4. CASE ~alive
    BY <2>2, <2>4, SdoToldGoesOn
  <2> QED BY <2>3, <2>4
<1> QED BY <1>3, <1>4, <1>5 DEF SdoInv

(* What the invariant says of the calls that have returned. *)
LEMMA SdoSuffices ==
  ASSUME SdoObjects, SdoInv, family = "sdo"
  PROVE  ReadIsRight /\ WriteIsDone /\ CallSucceeds
<1>0. Session /\ SdoCalled /\ SdoGood /\ SdoDead
  BY DEF SdoInv
<1>u. Undisturbed => Watched
  BY DEF Undisturbed, Watched
<1>1. ASSUME ReadCall, Undisturbed
      PROVE  /\ Len(buf) <= call.room
             /\ pc = "returned" /\ wkc > 0 => buf = Value
             /\ pc = "returned" /\ alive /\ call.room >= Len(Value) => wkc > 0
  <2>1. CASE ~alive
    BY <1>0, <1>1, <1>u, <2>1 DEF SdoDead, SdoTold, ReadTold
  <2>2. CASE alive
    <3>1. LinkOK /\ StoredOK /\ ReadTalk
      BY <1>0, <1>1, <1>u, <2>2 DEF SdoGood, Good, SdoTalk, ReadCall, WriteCall
    <3>v. Value \in Values /\ Len(Value) \in Nat \ {0}
      BY <3>1, <1>1, ValueIs DEF ReadCall
    <3>r. call.room \in Nat /\ wkc \in Int
      BY <1>0, <1>1 DEF ReadCall, Session, Unheard
    <3>2. Len(buf) <= call.room
      <4>1. CASE ReadReturned
        BY <4>1 DEF ReadReturned
      <4>2. CASE Fresh0
        BY <4>2, <3>r DEF Fresh0
      <4>3. CASE Uploading
        <5>1. PICK n \in 1..(Len(Value) - 1) : n = Len(buf)
          BY <4>3 DEF Uploading
        <5> QED BY <3>v, <3>r, <4>3, <5>1 DEF Uploading
      <4> QED BY <3>1, <4>1, <4>2, <4>3 DEF ReadTalk
    <3>3. pc = "returned" => ReadReturned
      BY <3>1 DEF ReadTalk, Draining, FirstAsked, FirstSent, SegmentNext,
        SegmentAsked, SegmentSent, Ask, Wait, Either, Delivered, Come
    <3>4. ReadReturned /\ wkc > 0 => buf = Value
      BY DEF ReadReturned
    <3>5. ReadReturned /\ call.room >= Len(Value) => wkc > 0
      BY <3>v, <3>r DEF ReadReturned
    <3> QED BY <3>2, <3>3, <3>4, <3>5
  <2> QED BY <2>1, <2>2
<1>2. ASSUME WriteCall, Undisturbed, pc = "returned"
      PROVE  /\ wkc > 0 => Stored
             /\ alive => wkc > 0
  <2>1. CASE ~alive
    BY <1>0, <1>2, <1>u, <2>1 DEF SdoDead, SdoTold, WriteTold
  <2>2. CASE alive
    <3>1. LinkOK /\ WriteTalk
      BY <1>0, <1>2, <1>u, <2>2 DEF SdoGood, Good, SdoTalk, ReadCall, WriteCall
    <3>2. WriteReturned
      BY <3>1, <1>2 DEF WriteTalk, WriteReturned, Draining, DownAsked, DownDone,
        PartNext, PartAsked, PartDone, Ask, Wait, Either, Delivered, Come
    <3> QED BY <3>2 DEF WriteReturned
  <2> QED BY <2>1, <2>2
<1>3. /\ call.kind \in {"none", "read", "write"}
      /\ call.kind = "read" => ReadCall
      /\ call.kind = "write" => WriteCall
  BY <1>0 DEF SdoCalled, ReadCall, WriteCall
<1>4. call.kind = "read" => Asked = Value
  BY DEF Asked, Value
<1>5. ReadIsRight
  BY <1>1, <1>3, <1>4 DEF ReadIsRight, Reads, Returned
<1>6. WriteIsDone
  BY <1>2, <1>3 DEF WriteIsDone, Writes, Returned, Stored, New
<1>7. CallSucceeds
  BY <1>1, <1>2, <1>3, <1>4 DEF CallSucceeds, Reads, Writes, Returned
<1> QED BY <1>5, <1>6, <1>7

(* Every behaviour of the model with calls of the SDO service (ecx_SDOread *)
(* and ecx_SDOwrite of ethercatcoe.c against a slave that serves them)     *)
(* satisfies the invariant: the conversation of the two is in one of the   *)
(* states named above as long as nothing happens that the code does not    *)
(* make up for.                                                            *)
THEOREM SdoInductive == ASSUME SdoObjects PROVE Spec => []SdoInv
<1>1. SdoInv /\ [Next]_allVars => SdoInv'
  BY SdoKept
<1> QED
  BY <1>1, SdoFirst, PTL DEF Spec

(* What ecx_SDOread delivers with a positive working counter is the value  *)
(* the slave has, whole and in order, and never more than fits in the      *)
(* buffer, whatever is lost, repeated or sent unasked in between, for      *)
(* objects and buffers of any size.                                        *)
THEOREM SdoReadIsRight == ASSUME SdoObjects PROVE Spec =>
  [](family = "sdo" => ReadIsRight)
BY SdoInductive, SdoSuffices, PTL
(* When ecx_SDOwrite returns a positive working counter, the slave holds   *)
(* the value, all its segments in order.                                   *)
THEOREM SdoWriteIsDone == ASSUME SdoObjects PROVE Spec =>
  [](family = "sdo" => WriteIsDone)
BY SdoInductive, SdoSuffices, PTL
(* As long as nothing is lost beyond what the mailbox functions repeat, no *)
(* call of ecx_SDOread or ecx_SDOwrite fails, but for a value too large    *)
(* for the buffer.                                                         *)
THEOREM SdoCallSucceeds == ASSUME SdoObjects PROVE Spec =>
  [](family = "sdo" => CallSucceeds)
BY SdoInductive, SdoSuffices, PTL
-----------------------------------------------------------------------------
(* An answer has come, and the slave has nothing at all to do. *)
Brought(p2, a) == Come(p2, a) /\ Silent

(* A slave with nothing to take has nothing on its way either. *)
LEMMA SilentStill == Silent => Still
BY DEF Silent, Still, Sm0Idle, JobIdle

(* That stays so. *)
LEMMA SilentCarried ==
  ASSUME LinkOK, Good, Good', (Transports /\ Others) \/ Frames, Silent, Free
  PROVE  Silent' /\ Free'
<1>1. \E q : Fit(q, q)
  <2>1. Fit([op |-> "any"], [op |-> "any"])
    BY DEF Fit, Noise, IsFragment, Emcy, MbxError, NoMsg
  <2> QED BY <2>1
<1>2. Moves
  BY <1>1, LinkGoes DEF Goes
<1>3. Still' /\ Free'
  BY SilentStill, RestCarried
<1>4. ~Unplaced
  BY DEF Unplaced, Free, Receiving
<1>5. sm0' = NoMsg /\ job' = NoMsg
  BY <1>2, <1>4 DEF Moves, Silent
<1> QED BY <1>3, <1>5 DEF Silent, Still

(* An answer that has come stays. *)
LEMMA BroughtCarried ==
  ASSUME LinkOK, Good, Good', (Transports /\ Others) \/ Frames, NEW p2, NEW a,
           Brought(p2, a)
  PROVE  Brought(p2, a)'
<1>1. Come(p2, a)'
  BY ComeCarried DEF Brought
<1>2. Silent'
  BY SilentCarried DEF Brought, Come, Heard, Free
<1> QED BY <1>1, <1>2 DEF Brought

(* The answer of a slave that has nothing more to do. *)
LEMMA AnswerBrought ==
  ASSUME LinkOK, Good, Good', (Transports /\ Others) \/ Frames,
         NEW p1, NEW p2, NEW a, Fit(a, a), Wait(p1, p2, a, NoMsg)
  PROVE  Wait(p1, p2, a, NoMsg)' \/ Brought(p2, a)'
BY WaitCarried DEF Brought, Silent

(* A message to the slave that is not answered. *)
LEMMA PostCarried ==
  ASSUME LinkOK, Good, Good', (Transports /\ Others) \/ Frames, NEW q, LeftOver(q),
         Sending(q)
  PROVE  Sending(q)' \/ (link' = "done" /\ Still')
<1>1. Fit(q, [op |-> "any"])
  BY Unlike DEF Fit, Noise, IsFragment, Emcy, MbxError, NoMsg
<1>2. Sending(q)' \/ (Heard' /\ Work(q)')
  BY <1>1, LinkGoes DEF Goes
<1>3. LeftOver(q)'
  BY SamePc DEF LeftOver, IsFragment, IsSoeOf
<1>4. Work(q)' => Still'
  BY <1>3 DEF Work, Still, Sm0Idle, JobIdle
<1> QED BY <1>2, <1>4 DEF Heard

(* A call that goes on leaves it so. *)
LEMMA SilentSteps ==
  /\ LinkOK /\ Between /\ Silent => Silent'
  /\ Steady => (Silent' <=> Silent)
<1>1. LinkOK /\ Between /\ Silent => Silent'
  <2> SUFFICES ASSUME LinkOK, Between, Silent PROVE Silent'
    OBVIOUS
  <2>1. Still' /\ sm0' = sm0 /\ job' = job
    BY Pauses, SilentStill DEF Between, SlaveStays, slaveVars
  <2> QED BY <2>1 DEF Silent, Still
<1>2. Steady => (Silent' <=> Silent)
  <2> SUFFICES ASSUME Steady PROVE Silent' <=> Silent
    OBVIOUS
  <2>1. Sm1Idle' <=> Sm1Idle
    BY DEF Steady, Sm1Idle, Noise, IsFragment
  <2>2. sm0' = sm0 /\ job' = job
    BY DEF Steady
  <2> QED BY <2>1, <2>2 DEF Silent
<1> QED BY <1>1, <1>2

(* Where a message to be placed stands. *)
LEMMA WhereSent == \A q : Sending(q) => link # "done" /\ ~Receiving
BY DEF Sending, Unplaced, Receiving
-----------------------------------------------------------------------------
(* A PDO to the slave *)
RxRequest == [op |-> "RxPDO", data |-> OneMailbox(New)]
(* The PDO is to be placed, *)
RxPosting == pc = "sending" /\ \E q \in {RxRequest} : Sending(q)
(* and was. *)
RxPosted == pc = "sending" /\ link = "done" /\ Still
(* The conversation of ecx_RxPDO: one message, and no answer. *)
RxTalk ==
  \/ pc = "returned" /\ Still
  \/ Draining \/ RxPosting \/ RxPosted
(* A RxPDO is being sent, or was the last. *)
RxCall ==
  call.kind = "RxPDO" /\ call.obj = "pdo" /\ call.val \in Nat /\ family = "pdo"

(* A PDO from the slave.  Until the request is answered a PDO sent before  *)
(* may still change the value; from then on nothing does.                  *)
TxRequest == [op |-> "TxPDOrequest"]
(* The answer to ecx_TxPDO. *)
TxAnswer == [op |-> "TxPDO", data |-> OneMailbox(Value)]
(* It has returned: with the data, or because they do not fit. *)
TxReturned ==
  /\ pc = "returned" /\ Silent
  /\ IF wkc > 0 THEN wkc = 1 /\ buf = OneMailbox(Value)
       ELSE ~(Len(OneMailbox(Value)) <= call.room)
(* The request was made, *)
TxAsked == \E q \in {TxRequest} : Ask("request", "response", q)
(* and answered. *)
TxSent ==
  \E a \in {TxAnswer} : Wait("request", "response", a, NoMsg)
    \/ Brought("response", a)
(* The conversation of ecx_TxPDO. *)
TxTalk == TxReturned \/ Draining \/ TxAsked \/ TxSent
(* A TxPDO is being read, or was the last. *)
TxCall ==
  call.kind = "TxPDO" /\ call.obj = "pdo" /\ call.room \in Nat /\ family = "pdo"

(* The messages of the PDOs are such as the link layer's lemmas ask for. *)
LEMMA PdoFits == /\ Fit(TxAnswer, TxAnswer) /\ TxRequest # NoMsg
                      /\ RxRequest # NoMsg
                 /\ ~IsFragment(TxAnswer)
                 /\ family = "pdo" => LeftOver(RxRequest) /\ ~LeftOver(TxRequest)
<1>1. TxAnswer.op = "TxPDO" /\ TxRequest.op = "TxPDOrequest"
        /\ RxRequest.op = "RxPDO"
  BY DEF TxAnswer, TxRequest, RxRequest
<1>2. family = "pdo" => LeftOver(RxRequest) /\ ~LeftOver(TxRequest)
  BY <1>1 DEF LeftOver
<1> QED BY <1>1, <1>2, Fits1

(* Sending a PDO goes on as the link layer does; *)
LEMMA RxCarried ==
  ASSUME LinkOK, Good, Good', (Transports /\ Others) \/ Frames, RxTalk,
           family = "pdo"
  PROVE  RxTalk'
<1>0. UNCHANGED <<pc, call, buf, sent, toggle, stored, xfer, family>>
  BY SamePc
<1>1. RxRequest' = RxRequest
  BY <1>0 DEF RxRequest, New
<1>2. CASE pc = "returned" /\ Still
  <2>1. link = "done"
    BY <1>2 DEF LinkOK, Places
  <2> QED BY <1>0, <1>2, <2>1, RestCarried DEF RxTalk, Free
<1>3. CASE Draining
  BY <1>0, <1>3, RestCarried DEF Draining, RxTalk
<1>4. CASE RxPosting
  BY <1>0, <1>1, <1>4, PostCarried, PdoFits DEF RxTalk, RxPosting, RxPosted
<1>5. CASE RxPosted
  <2>1. link' = "done"
    BY <1>5, PdoFits, LinkGoes DEF Goes, RxPosted
  <2> QED BY <1>0, <1>5, <2>1, RestCarried DEF RxTalk, RxPosted, Free
<1> QED BY <1>2, <1>3, <1>4, <1>5 DEF RxTalk

(* so does reading one. *)
LEMMA TxCarried ==
  ASSUME LinkOK, Good, Good', (Transports /\ Others) \/ Frames, TxTalk
  PROVE  TxTalk'
<1>0. UNCHANGED <<pc, call, buf, sent, toggle, stored, xfer, family>>
  BY SamePc
<1>1. TxRequest' = TxRequest /\ TxAnswer' = TxAnswer /\ Value' = Value
  BY <1>0 DEF TxRequest, TxAnswer, Value
<1>2. CASE TxReturned
  <2>1. link = "done"
    BY <1>2 DEF LinkOK, Places, TxReturned
  <2>2. wkc' = wkc
    BY <2>1, PdoFits, LinkGoes DEF Goes
  <2>3. Silent'
    BY <1>2, <2>1, SilentCarried DEF TxReturned, Free
  <2> QED BY <1>0, <1>1, <1>2, <2>2, <2>3 DEF TxTalk, TxReturned
<1>3. CASE Draining
  BY <1>0, <1>3, RestCarried DEF Draining, TxTalk
<1>4. CASE TxAsked
  <2>1. TxAsked'
    BY <1>1, <1>4, PdoFits, AskCarried DEF TxAsked
  <2> QED BY <2>1 DEF TxTalk
<1>5. CASE TxSent
  <2>1. TxSent'
    BY <1>1, <1>5, PdoFits, AnswerBrought, BroughtCarried DEF TxSent
  <2> QED BY <2>1 DEF TxTalk
<1> QED BY <1>2, <1>3, <1>4, <1>5 DEF TxTalk
(* Each step of the call that sends a PDO goes on with it; *)
LEMMA RxSteps ==
  ASSUME LinkOK, RxCall, RxTalk, calls' # 0, Services,
         UNCHANGED <<frames, family>>
  PROVE  LinkOK' /\ RxTalk' /\ call' = call
<1>1. CASE PdoSend
  <2>1. link = "done" /\ Still
    <3>1. ~RxPosting /\ Draining
      BY <1>1 DEF PdoSend, At, RxTalk, RxPosting, RxPosted
    <3> QED BY <1>1, <3>1 DEF Draining, PdoSend, At
  <2>2. StartSend(RxRequest) /\ pc' = "sending" /\ UNCHANGED <<call, stored, xfer>>
    BY <1>1 DEF PdoSend, Post, RxRequest, New, RxCall, serverVars
  <2>3. RxRequest' = RxRequest
    BY <2>2 DEF RxRequest, New
  <2>4. LinkOK' /\ \E q \in {RxRequest} : Sending(q)'
    <3>1. PICK q : q = RxRequest
      OBVIOUS
    <3> QED BY <3>1, <2>1, <2>2, PdoFits, Posted
  <2> QED BY <2>2, <2>3, <2>4 DEF RxTalk, RxPosting
<1>2. CASE PdoSent
  <2>1. RxPosted
    BY <1>2, WhereSent DEF RxTalk, RxPosting, PdoSent, At, Draining
  <2>2. link = "done" /\ link' = link /\ pc' = "returned" /\ LinkUnchanged
          /\ UNCHANGED <<call, stored, xfer>>
    BY <1>2, Returns DEF PdoSent, At, Quiet, LinkUnchanged, serverVars
  <2>3. Between
    BY <2>2, Returns
  <2> QED BY <2>1, <2>2, <2>3, Pauses DEF RxPosted, RxTalk
<1>3. ~Placed /\ ~NotPlaced
  BY DEF RxTalk, Draining, RxPosting, RxPosted, Placed, NotPlaced, Answered, At
<1>4. ~PdoRequest /\ ~PdoReceived /\ ~PdoFails
  BY DEF RxCall, PdoRequest, PdoReceived, PdoFails
<1>5. pc \in {"returned", "drain", "sending"} /\ call.kind = "RxPDO"
  BY DEF RxTalk, Draining, RxPosting, RxPosted, RxCall
<1>6. ~SdoStep /\ ~FoeStep /\ ~SoeStep /\ ~InfoStep
  BY <1>5, Alone
<1> QED BY <1>1, <1>2, <1>3, <1>4, <1>6 DEF Services, PdoStep

(* Where the call is tells what it has asked. *)
LEMMA TxPlaces ==
  ASSUME LinkOK, TxTalk
  PROVE  /\ At("drain") => Draining
         /\ At("request") => Heard /\ (TxAsked \/ TxSent)
         /\ At("response") => Brought("response", TxAnswer)
         /\ pc = "returned" => TxReturned
         /\ pc \in {"drain", "request", "response", "returned"}
<1>1. TxAsked => pc \in {"request", "response"}
        /\ (link = "done" => pc = "request" /\ Heard)
  BY Where DEF TxAsked
<1>2. TxSent => /\ pc \in {"request", "response"}
                /\ link = "done" => (pc = "request" /\ Heard)
                     \/ Brought("response", TxAnswer)
  BY Where DEF TxSent, Brought, Come
<1> QED BY <1>1, <1>2 DEF TxTalk, TxReturned, Draining, At, Brought, Come

(* so does each of the one that reads one. *)
LEMMA TxSteps ==
  ASSUME LinkOK, TxCall, TxTalk, calls' # 0, Services,
         UNCHANGED <<frames, family>>
  PROVE  LinkOK' /\ TxTalk' /\ call' = call
<1>1. CASE PdoRequest
  <2>1. link = "done" /\ Still
    BY <1>1, TxPlaces DEF PdoRequest, At, Draining
  <2>2. StartSend(TxRequest) /\ pc' = "request" /\ UNCHANGED <<call, stored, xfer>>
    BY <1>1 DEF PdoRequest, Post, TxRequest, serverVars
  <2>4. LinkOK' /\ \E q \in {TxRequest} : Sending(q)'
    <3>1. PICK q : q = TxRequest
      OBVIOUS
    <3> QED BY <3>1, <2>1, <2>2, PdoFits, Posted
  <2>5. TxAsked'
    BY <2>2, <2>4 DEF TxAsked, Ask, TxRequest
  <2> QED BY <2>2, <2>4, <2>5 DEF TxTalk
<1>2. CASE Placed
  <2>1. link = "done" /\ StartReceive("running") /\ pc' = "response"
          /\ UNCHANGED <<call, stored, xfer>>
    BY <1>2 DEF Placed, Answered, At, serverVars
  <2>2. TxRequest' = TxRequest /\ TxAnswer' = TxAnswer
    BY <2>1 DEF TxRequest, TxAnswer, Value
  <2>3. TxAsked \/ TxSent
    BY <1>2, TxPlaces DEF Placed, Answered
  <2>4. pc = "request"
    BY <1>2 DEF Placed, Answered, At
  <2>5. /\ LinkOK'
        /\ \A q : Ask("request", "response", q) => Ask("request", "response", q)'
        /\ \A a : Wait("request", "response", a, NoMsg) =>
             Wait("request", "response", a, NoMsg)'
    BY <2>1, PlacedWaits
  <2>6. TxAsked => TxAsked'
    BY <2>2, <2>5 DEF TxAsked
  <2>7. TxSent => TxSent'
    BY <2>2, <2>4, <2>5 DEF TxSent, Brought, Come
  <2> QED BY <2>1, <2>3, <2>5, <2>6, <2>7 DEF TxTalk
<1>3. CASE PdoReceived \/ PdoFails
  <2>1. Brought("response", TxAnswer)
    BY <1>3, TxPlaces DEF PdoReceived, PdoFails, Answered
  <2>2. wkc = 1 /\ mbxIn = TxAnswer /\ Silent /\ link = "done"
    BY <2>1 DEF Brought, Come, Heard
  <2>3. PdoReceived
    BY <1>3, <2>2 DEF PdoFails, TxAnswer
  <2>4. /\ link' = link /\ LinkUnchanged /\ pc' = "returned"
             /\ UNCHANGED <<call, stored, xfer>>
        /\ IF Len(OneMailbox(Value)) <= call.room
             THEN buf' = OneMailbox(Value) /\ wkc' = 1 ELSE wkc' = 0
    BY <2>2, <2>3, Returns
      DEF PdoReceived, TxAnswer, Quiet, Report, LinkUnchanged, serverVars
  <2>5. Between
    BY <2>2, <2>4, Returns
  <2>6. LinkOK' /\ Silent'
    BY <2>2, <2>5, SilentSteps, Pauses
  <2>8. TxReturned'
    <3>1. Value' = Value
      BY <2>4 DEF Value
    <3> QED BY <2>4, <2>6, <3>1 DEF TxReturned
  <2> QED BY <2>4, <2>6, <2>8 DEF TxTalk
<1>4. ~NotPlaced
  BY TxPlaces DEF NotPlaced, Heard
<1>5. ~PdoSend /\ ~PdoSent
  BY DEF TxCall, PdoSend, PdoSent
<1>6. ~SdoStep /\ ~FoeStep /\ ~SoeStep /\ ~InfoStep
  BY TxPlaces, Alone DEF TxCall
<1> QED BY <1>1, <1>2, <1>3, <1>4, <1>5, <1>6 DEF Services, PdoStep
(* The slave deals with a PDO sent before. *)
LEMMA PdoAbsorbed ==
  ASSUME LinkOK, family = "pdo", ServePdo, UNCHANGED <<callVars, sessionVars,
                                                       eoeVars>>,
         job.op = "RxPDO"
  PROVE  /\ LinkOK'
         /\ Still => Still'
         /\ Ask("request", "response", TxRequest) =>
              Ask("request", "response", TxRequest)'
         /\ Sending(RxRequest) => Sending(RxRequest)'
         /\ Free' = Free /\ link' = link
<1>0. UNCHANGED <<pc, call, buf, sent, toggle, family, calls, frames>>
  BY ServedSame
<1>1. Absorb /\ LeftOver(job)
  BY DEF ServePdo, LeftOver
<1>2. ~LeftOver(TxRequest)
  BY PdoFits
<1>3. PICK q : q = TxRequest
  OBVIOUS
<1>4. PICK r : r = RxRequest
  OBVIOUS
<1>5. LinkOK' /\ (Still => Still') /\ (Work(q) => Work(q)')
        /\ (Sending(q) => Sending(q)')
      /\ (Sending(r) => Sending(r)')
      /\ Heard' = Heard /\ Listens' = Listens /\ Free' = Free
  BY <1>0, <1>1, <1>2, <1>3, Absorbed
<1>6. TxRequest' = TxRequest /\ RxRequest' = RxRequest
  BY <1>0 DEF TxRequest, RxRequest, New
<1>7. Ask("request", "response", q) => Ask("request", "response", q)'
  BY <1>0, <1>5 DEF Ask, Either
<1>8. link' = link
  BY <1>1 DEF Absorb, masterVars
<1> QED BY <1>3, <1>4, <1>5, <1>6, <1>7, <1>8

(* A slave with no request left takes the PDOs sent to it. *)
LEMMA PdoIdle == family = "pdo" /\ JobIdle /\ Serves /\ clean' =>
  ServePdo /\ job.op = "RxPDO"
<1> SUFFICES ASSUME family = "pdo", JobIdle, Serves, clean' PROVE ServePdo
  /\ job.op = "RxPDO"
  OBVIOUS
<1>1. job.op = "RxPDO"
  BY ServesWork DEF JobIdle, LeftOver
<1>2. ~Reject
  BY DEF Reject, Spoil
<1> QED BY <1>1, <1>2, Unserved DEF Serves, SdoOps

(* The slave takes the PDO. *)
LEMMA RxServed ==
  ASSUME LinkOK, RxCall, RxTalk, Serves, clean', UNCHANGED <<callVars, sessionVars,
                                                             eoeVars>>
  PROVE  LinkOK' /\ RxTalk'
<1>0. UNCHANGED <<pc, call, buf, sent, toggle, family, calls, frames>>
  BY ServedSame
<1>1. JobIdle
  BY DEF RxTalk, Draining, RxPosting, RxPosted, Sending, Still
<1>2. ServePdo /\ job.op = "RxPDO"
  BY <1>1, PdoIdle DEF RxCall
<1>3. /\ LinkOK' /\ (Still => Still') /\ Free' = Free /\ link' = link
      /\ Sending(RxRequest) => Sending(RxRequest)'
  BY <1>2, PdoAbsorbed DEF RxCall
<1>4. RxRequest' = RxRequest
  BY <1>0 DEF RxRequest, New
<1>5. RxPosting => RxPosting'
  BY <1>0, <1>3 DEF RxPosting
<1> QED BY <1>0, <1>3, <1>5 DEF RxTalk, Draining, RxPosted

(* The slave answers with its PDO. *)
LEMMA TxServed ==
  ASSUME LinkOK, TxCall, TxTalk, Serves, clean', UNCHANGED <<callVars, sessionVars,
                                                             eoeVars>>
  PROVE  LinkOK' /\ TxTalk'
<1>0. UNCHANGED <<pc, call, buf, sent, toggle, family, calls, frames>>
  BY ServedSame
<1>j. job # NoMsg
  BY ServesWork
<1>1. ~TxReturned /\ ~TxSent
  BY <1>j DEF TxReturned, TxSent, Silent, Wait, Ans, Brought
<1>2. CASE JobIdle
  <2>1. ServePdo /\ job.op = "RxPDO"
    BY <1>2, PdoIdle DEF TxCall
  <2>2. /\ LinkOK' /\ (Still => Still') /\ Free' = Free
        /\ Ask("request", "response", TxRequest) =>
             Ask("request", "response", TxRequest)'
    BY <2>1, PdoAbsorbed DEF TxCall
  <2>3. TxAsked => TxAsked'
    BY <2>2 DEF TxAsked
  <2> QED BY <1>0, <1>1, <2>2, <2>3 DEF TxTalk, Draining
<1>3. CASE ~JobIdle
  <2>1. TxAsked
    BY <1>1, <1>3 DEF TxTalk, Draining, Still
  <2>2. PICK q : q = TxRequest /\ Ask("request", "response", q)
    BY <2>1 DEF TxAsked
  <2>3. job = TxRequest
    BY <1>3, <2>2 DEF Ask, Sending, Still, Work
  <2>4. Respond(TxAnswer) /\ UNCHANGED serverVars
    <3>1. job.op = "TxPDOrequest"
      BY <2>3 DEF TxRequest
    <3>2. ~Reject
      BY DEF Reject, Spoil
    <3>3. ServePdo
      BY <3>1, <3>2, Unserved DEF Serves, SdoOps
    <3> QED BY <3>1, <3>3 DEF ServePdo, TxAnswer, Value, TxCall
  <2>5. PICK a : a = TxAnswer
    OBVIOUS
  <2>6. LinkOK' /\ Wait("request", "response", a, NoMsg)'
    <3>1. RespondAndGoOn(a, NoMsg)
      BY <2>4, <2>5 DEF Respond
    <3>2. ~LeftOver(job)
      BY <1>3 DEF JobIdle
    <3>3. a # NoMsg /\ ~IsFragment(a)
      BY <2>5, PdoFits DEF Fit
    <3> QED BY <1>0, <2>2, <3>1, <3>2, <3>3, AskServed
  <2>7. TxAnswer' = TxAnswer
    BY <1>0, <2>4 DEF TxAnswer, Value, serverVars
  <2> QED BY <2>5, <2>6, <2>7 DEF TxTalk, TxSent
<1> QED BY <1>2, <1>3

(* The conversations stay where only the error list changes. *)
LEMMA PdoSteady ==
  ASSUME Steady
  PROVE  (RxTalk => RxTalk') /\ (TxTalk => TxTalk')
<1>1. UNCHANGED <<RxRequest, TxRequest, TxAnswer, Value>> /\ Free' = Free
  BY DEF Steady, RxRequest, TxRequest, TxAnswer, Value, New, Free, Receiving
<1>2. /\ Still' <=> Still
      /\ Silent' <=> Silent
      /\ \A q : Ask("request", "response", q)' <=> Ask("request", "response", q)
      /\ \A a : Wait("request", "response", a, NoMsg)' <=>
           Wait("request", "response", a, NoMsg)
  BY LinkSteady, SilentSteps
<1>3. \A q : Sending(q) => Sending(q)'
  BY <1>2 DEF Steady, Sending, Unplaced, Running
<1>4. UNCHANGED <<pc, link, wkc, mbxIn, buf, call>>
  BY DEF Steady
<1>5. RxTalk => RxTalk'
  BY <1>1, <1>2, <1>3, <1>4 DEF RxTalk, Draining, RxPosting, RxPosted
<1>6. TxTalk => TxTalk'
  BY <1>1, <1>2, <1>4
    DEF TxTalk, TxReturned, Draining, TxAsked, TxSent, Brought, Come, Heard
<1> QED BY <1>5, <1>6

(* What a call has been told before the slave went away is right. *)
TxTold ==
  wkc > 0 => /\ pc = "returned" => buf = OneMailbox(Value)
             /\ At("response") => mbxIn = TxAnswer

(* While nothing goes wrong, the answer received is the slave's PDO. *)
LEMMA TxTells == LinkOK /\ TxTalk => TxTold
BY TxPlaces DEF TxReturned, Brought, Come, TxTold

(* Without the slave, the steps keep what was received. *)
LEMMA TxToldStep ==
  ASSUME wkc \in Int, TxCall, TxTold, pc \in {"drain", "request", "response",
           "returned"}, Services
  PROVE  TxTold' /\ call' = call
           /\ (Len(buf) <= call.room => Len(buf') <= call.room)
         /\ pc' \in {"request", "response", "returned"}
<1>1. PdoRequest \/ PdoReceived \/ PdoFails \/ Placed \/ NotPlaced
  BY Alone DEF TxCall, Services, PdoStep, PdoSend, PdoSent
<1>2. CASE PdoRequest \/ Placed
  BY <1>2, Failing DEF PdoRequest, Placed, Fails, TxTold, Post
<1>3. CASE PdoReceived
  BY <1>3, Failing DEF PdoReceived, TxTold, TxAnswer, Answered, Return, Fails, At,
    Quiet, LinkUnchanged, Value, serverVars
<1>4. CASE PdoFails \/ NotPlaced
  <2>1. wkc' \in Int /\ ~(wkc' > 0) /\ buf' = buf /\ call' = call
          /\ pc' = "returned"
    BY <1>4 DEF PdoFails, NotPlaced, TxTold, Return, TxAnswer
  <2> QED BY <2>1 DEF TxTold
<1> QED BY <1>1, <1>2, <1>3, <1>4
-----------------------------------------------------------------------------
(* Values that come or go in mailboxes full of parts. *)
Lesser(a, b) == IF a < b THEN a ELSE b
(* The beginning of v that is in its first k mailboxes, *)
Upto(v, k) == SubSeq(v, 1, Lesser(k * M, Len(v)))
(* as far as it fits into r entries. *)
Taken(v, k, r) == SubSeq(v, 1, Lesser(r, Lesser(k * M, Len(v))))

(* Multiples of what a mailbox holds. *)
LEMMA FullMailboxes ==
  ASSUME NEW k \in Nat
  PROVE  M \in Nat \ {0} /\ k * M \in Nat /\ (k + 1) * M = k * M + M
           /\ (k + 1) * M \in Nat
         /\ 0 * M = 0
  BY MbxCallConstants

(* Parts of a value in the middle. *)
LEMMA MiddleIs ==
  ASSUME NEW v \in Values, NEW a \in Nat, NEW n \in Nat, a <= n, n <= Len(v)
  PROVE  /\ SubSeq(v, a + 1, n) \in Values /\ Len(SubSeq(v, a + 1, n)) = n - a
         /\ \A i \in 1..(n - a) : SubSeq(v, a + 1, n)[i] = v[a + i]
<1>1. \A i \in 1..Len(v) : v[i] \in ValuePart
  BY DEF Values
<1>2. \A i \in (a + 1)..n : v[i] \in ValuePart
  BY <1>1 DEF Values
<1>3. /\ SubSeq(v, a + 1, n) \in Seq(ValuePart)
      /\ Len(SubSeq(v, a + 1, n)) = IF a + 1 <= n THEN n - (a + 1) + 1 ELSE 0
      /\ \A i \in 1..(n - (a + 1) + 1) : SubSeq(v, a + 1, n)[i] = v[(a + 1) + i - 1]
  BY <1>2, SubSeqProperties
<1>4. n - (a + 1) + 1 = n - a /\ \A i \in 1..(n - a) : (a + 1) + i - 1 = a + i
  OBVIOUS
<1>5. Len(SubSeq(v, a + 1, n)) = n - a
  BY <1>3
<1> QED BY <1>3, <1>4, <1>5 DEF Values

(* The beginning of a middle part is one. *)
LEMMA MiddleBegins ==
  ASSUME NEW v \in Values, NEW a \in Nat, NEW c \in Nat, NEW n \in Nat, a <= c,
           c <= n, n <= Len(v)
  PROVE  SubSeq(SubSeq(v, a + 1, n), 1, c - a) = SubSeq(v, a + 1, c)
<1> DEFINE d == SubSeq(v, a + 1, n)
           e == SubSeq(v, a + 1, c)
           f == SubSeq(d, 1, c - a)
<1>1. d \in Values /\ Len(d) = n - a /\ \A i \in 1..(n - a) : d[i] = v[a + i]
  BY MiddleIs
<1>2. c <= Len(v) /\ c - a \in 0..(n - a)
  BY DEF Values
<1>3. e \in Values /\ Len(e) = c - a /\ \A i \in 1..(c - a) : e[i] = v[a + i]
  BY <1>2, MiddleIs
<1> HIDE DEF d, e
<1>4. c - a \in 0..Len(d)
  BY <1>1, <1>2
<1>5. f \in Values /\ Len(f) = c - a /\ \A i \in 1..(c - a) : f[i] = d[i]
  BY <1>1, <1>4, FirstIs
<1> HIDE DEF f
<1>6. \A i \in 1..(c - a) : f[i] = e[i]
  BY <1>1, <1>2, <1>3, <1>5
<1>7. f = e
  BY <1>3, <1>5, <1>6, SeqEqual DEF Values
<1> QED BY <1>7 DEF d, e, f

(* A mailbox full is what follows. *)
LEMMA ChunkFollows ==
  ASSUME NEW v \in Values, NEW k \in Nat, k * M <= Len(v)
  PROVE  /\ Chunk(v, k) \in Values
         /\ Len(Chunk(v, k)) = Lesser((k + 1) * M, Len(v)) - k * M
         /\ Chunk(v, k) = SubSeq(v, k * M + 1, Lesser((k + 1) * M, Len(v)))
         /\ SubSeq(v, 1, k * M) \o Chunk(v, k) = Upto(v, k + 1)
         /\ Upto(v, k) = SubSeq(v, 1, k * M) /\ Upto(v, k) \in Values
         /\ Lesser((k + 1) * M, Len(v)) \in (k * M)..Len(v)
<1>0. M \in Nat \ {0} /\ k * M \in Nat /\ (k + 1) * M = k * M + M /\ Len(v) \in Nat
  BY FullMailboxes DEF Values
<1>1. PICK a \in Nat : a = k * M
  BY <1>0
<1>2. PICK n \in Nat : n = Lesser((k + 1) * M, Len(v))
  BY <1>0 DEF Lesser
<1>3. a <= n /\ n <= Len(v) /\ n \in a..Len(v)
  BY <1>0, <1>1, <1>2 DEF Lesser
<1>4. Chunk(v, k) = SubSeq(v, a + 1, n)
  BY <1>1, <1>2 DEF Chunk, Lesser
<1>5. SubSeq(v, 1, a) \o SubSeq(v, a + 1, n) = SubSeq(v, 1, n)
  BY <1>3, SubSeqsJoin DEF Values
<1>6. Upto(v, k) = SubSeq(v, 1, a)
  BY <1>0, <1>1 DEF Upto, Lesser
<1>7. SubSeq(v, 1, a) \in Values
  BY <1>1, <1>0, FirstIs
<1>8. Chunk(v, k) \in Values /\ Len(Chunk(v, k)) = n - a
  BY <1>3, <1>4, MiddleIs
<1>9. Upto(v, k + 1) = SubSeq(v, 1, n)
  BY <1>2 DEF Upto
<1> QED BY <1>1, <1>2, <1>3, <1>4, <1>5, <1>6, <1>7, <1>8, <1>9

(* What is trimmed to the room is what follows, as far as there is room.   *)
LEMMA TakenFollows ==
  ASSUME NEW v \in Values, NEW k \in Nat, k * M <= Len(v), NEW r \in Nat, NEW b,
           b = Taken(v, k, r)
  PROVE  /\ b \in Values /\ Len(b) \in Nat /\ Len(b) <= r
         /\ Len(Chunk(v, k)) \in Nat
         /\ IF Len(b) + Len(Chunk(v, k)) > r
            THEN /\ b \o SubSeq(Chunk(v, k), 1, r - Len(b)) = Taken(v, k + 1, r)
                 /\ Len(Taken(v, k + 1, r)) = r
            ELSE b \o Chunk(v, k) = Taken(v, k + 1, r)
<1>0. M \in Nat \ {0} /\ k * M \in Nat /\ (k + 1) * M = k * M + M /\ Len(v) \in Nat
  BY FullMailboxes DEF Values
<1>1. PICK a \in Nat : a = k * M
  BY <1>0
<1>2. PICK n \in Nat : n = Lesser((k + 1) * M, Len(v))
  BY <1>0 DEF Lesser
<1>3. a <= n /\ n <= Len(v) /\ Lesser(a, Len(v)) = a
  BY <1>0, <1>1, <1>2 DEF Lesser
<1>4. PICK d : d = Chunk(v, k)
  OBVIOUS
<1>5. d = SubSeq(v, a + 1, n) /\ d \in Values /\ Len(d) = n - a
  BY <1>1, <1>2, <1>4, ChunkFollows
<1>6. Taken(v, k + 1, r) = SubSeq(v, 1, Lesser(r, n))
        /\ b = SubSeq(v, 1, Lesser(r, a))
  BY <1>1, <1>2, <1>3 DEF Taken
<1>7. CASE r < a
  <2>1. b = SubSeq(v, 1, r) /\ Taken(v, k + 1, r) = SubSeq(v, 1, r)
          /\ r \in 0..Len(v)
    BY <1>3, <1>6, <1>7 DEF Lesser
  <2>2. b \in Values /\ Len(b) = r
    BY <2>1, FirstIs
  <2>3. CASE Len(b) + Len(d) > r
    <3>1. SubSeq(d, 1, r - Len(b)) = <<>>
      BY <2>2, SubSeqEmpty
    <3>2. b \o <<>> = b
      BY <2>2, ConcatEmptySeq DEF Values
    <3> QED BY <1>4, <1>5, <1>3, <2>1, <2>2, <2>3, <3>1, <3>2
  <2>4. CASE ~(Len(b) + Len(d) > r)
    <3>1. Len(d) = 0
      BY <1>3, <1>5, <2>2, <2>4
    <3>2. d = <<>>
      BY <1>5, <3>1, EmptySeq DEF Values
    <3>3. b \o <<>> = b
      BY <2>2, ConcatEmptySeq DEF Values
    <3> QED BY <1>4, <1>5, <1>3, <2>1, <2>2, <2>4, <3>1, <3>2, <3>3
  <2> QED BY <2>3, <2>4
<1>8. CASE a <= r
  <2>1. b = SubSeq(v, 1, a) /\ a \in 0..Len(v)
    BY <1>3, <1>6, <1>8 DEF Lesser
  <2>2. b \in Values /\ Len(b) = a
    BY <2>1, FirstIs
  <2>3. CASE Len(b) + Len(d) > r
    <3>1. r < n /\ Lesser(r, n) = r /\ r <= Len(v) /\ r \in 0..Len(v)
      BY <1>3, <1>5, <2>2, <2>3 DEF Lesser
    <3>2. SubSeq(d, 1, r - a) = SubSeq(v, a + 1, r)
      BY <1>3, <1>5, <1>8, <3>1, MiddleBegins
    <3>3. SubSeq(v, 1, a) \o SubSeq(v, a + 1, r) = SubSeq(v, 1, r)
      BY <1>8, <3>1, SubSeqsJoin DEF Values
    <3>4. Len(SubSeq(v, 1, r)) = r
      BY <3>1, FirstIs
    <3>5. b \o SubSeq(d, 1, r - Len(b)) = SubSeq(v, 1, r)
      BY <2>1, <2>2, <3>2, <3>3
    <3>6. Taken(v, k + 1, r) = SubSeq(v, 1, r)
      BY <1>6, <3>1
    <3>7. Len(d) \in Nat
      BY <1>3, <1>5
    <3> QED BY <1>4, <1>8, <2>2, <2>3, <3>4, <3>5, <3>6, <3>7
  <2>4. CASE ~(Len(b) + Len(d) > r)
    <3>1. n <= r /\ Lesser(r, n) = n
      BY <1>3, <1>5, <2>2, <2>4 DEF Lesser
    <3>2. SubSeq(v, 1, a) \o SubSeq(v, a + 1, n) = SubSeq(v, 1, n)
      BY <1>3, SubSeqsJoin DEF Values
    <3>3. b \o d = SubSeq(v, 1, n)
      BY <1>5, <2>1, <3>2
    <3>4. Taken(v, k + 1, r) = SubSeq(v, 1, n)
      BY <1>6, <3>1
    <3>5. Len(d) \in Nat
      BY <1>3, <1>5
    <3> QED BY <1>4, <1>8, <2>2, <2>4, <3>3, <3>4, <3>5
  <2> QED BY <2>3, <2>4
<1> QED BY <1>7, <1>8

(* The whole of it, and the beginning. *)
LEMMA TakenEnds ==
  ASSUME NEW v \in Values, NEW r \in Nat
  PROVE  /\ Taken(v, 0, r) = <<>>
         /\ \A k \in Nat : Len(v) <= k * M =>
              Taken(v, k, r) = (IF r < Len(v) THEN SubSeq(v, 1, r) ELSE v)
                /\ Upto(v, k) = v
         /\ Upto(v, 0) = <<>>
<1>0. M \in Nat \ {0} /\ 0 * M = 0 /\ Len(v) \in Nat
  BY MbxCallConstants DEF Values
<1>1. SubSeq(v, 1, 0) = <<>>
  BY SubSeqEmpty
<1>2. SubSeq(v, 1, Len(v)) = v
  BY <1>0, FirstIs
<1>3. Taken(v, 0, r) = <<>> /\ Upto(v, 0) = <<>>
  BY <1>0, <1>1 DEF Taken, Upto, Lesser
<1>4. ASSUME NEW k \in Nat, Len(v) <= k * M
      PROVE  Taken(v, k, r) = (IF r < Len(v) THEN SubSeq(v, 1, r) ELSE v)
               /\ Upto(v, k) = v
  <2>1. k * M \in Nat
    BY FullMailboxes
  <2>2. Lesser(k * M, Len(v)) = Len(v)
    BY <1>0, <1>4, <2>1 DEF Lesser
  <2> QED BY <1>2, <2>2 DEF Taken, Upto, Lesser
<1> QED BY <1>3, <1>4
-----------------------------------------------------------------------------
(* Streams: the slave goes on with what it has been asked for.             *)
LEMMA AnyFit == \A q : q # NoMsg => \E a : Fit(q, a)
<1>1. \A q : q # NoMsg => Fit(q, [op |-> "any"])
  BY DEF Fit, Noise, IsFragment, Emcy, MbxError, NoMsg
<1> QED BY <1>1

(* A request the slave has is not lost. *)
LEMMA WorkCarried ==
  ASSUME LinkOK, Good, Good', (Transports /\ Others) \/ Frames,
         NEW p1, NEW p2, NEW q, q # NoMsg, Either(p1, p2), Work(q)
  PROVE  Either(p1, p2)' /\ Work(q)'
<1>1. PICK a : Goes(q, a, NoMsg)
  BY AnyFit, LinkGoes
<1>2. pc' = pc
  BY SamePc
<1>3. Heard => Heard'
  BY <1>1 DEF Goes, Heard
<1> QED BY <1>1, <1>2, <1>3 DEF Goes, Either

(* While a message that came is not handled, what the slave has is not     *)
(* lost.                                                                   *)
LEMMA HeldCarried ==
  ASSUME LinkOK, Good, Good', (Transports /\ Others) \/ Frames, Heard
  PROVE  /\ Heard' /\ mbxIn' = mbxIn
         /\ \A q : q # NoMsg /\ Work(q) => Work(q)'
         /\ \A a, j : Fit(a, a) /\ Ans(a, j) => Ans(a, j)'
<1>1. Heard' /\ mbxIn' = mbxIn
  <2>1. \E q, a : Fit(q, a)
    <3>1. Fit([op |-> "any"], [op |-> "any"])
      BY DEF Fit, Noise, IsFragment, Emcy, MbxError, NoMsg
    <3> QED BY <3>1
  <2>2. PICK q, a : Goes(q, a, NoMsg)
    BY <2>1, LinkGoes
  <2> QED BY <2>2 DEF Goes, Heard
<1>2. ASSUME NEW q, q # NoMsg, Work(q) PROVE Work(q)'
  <2>1. PICK a : Goes(q, a, NoMsg)
    BY <1>2, AnyFit, LinkGoes
  <2> QED BY <1>2, <2>1 DEF Goes
<1>3. ASSUME NEW a, NEW j, Fit(a, a), Ans(a, j) PROVE Ans(a, j)'
  <2>1. Goes(a, a, j)
    BY <1>3, LinkGoes
  <2> QED BY <1>3, <2>1 DEF Goes
<1> QED BY <1>1, <1>2, <1>3

-----------------------------------------------------------------------------
(* The description of an object, and its entries one after the other       *)
EntryRequest == [op |-> "info", type |-> call.kind, obj |-> call.obj,
  num |-> Len(buf) + 1]
(* The answer to the request of one entry. *)
EntryAnswer == [op |-> "info", type |-> call.kind, data |-> <<Value[Len(buf) + 1]>>]
(* The entries so far were received, in order. *)
Entering ==
  /\ buf = SubSeq(Value, 1, Len(buf)) /\ Len(buf) \in 0..(Len(Value) - 1)
  /\ call.kind = "od" => Len(buf) = 0
(* The next is to be requested, *)
EntryNext == pc = "entry" /\ link = "done" /\ Still /\ call.kind = "oe"
(* was requested, *)
EntryAsked == \E q \in {EntryRequest} : Ask("request", "response", q)
(* and answered. *)
EntrySent ==
  \E a \in {EntryAnswer} : Wait("request", "response", a, NoMsg)
    \/ Delivered("response", a)
(* All the entries were received; of the object itself only the first. *)
Described == buf = IF call.kind = "oe" THEN Value ELSE SubSeq(Value, 1, 1)
(* The conversation of ecx_readODdescription and ecx_readOE. *)
EntryTalk ==
  \/ pc = "returned" /\ Still /\ wkc = 1 /\ Described
  \/ Entering /\ (Draining \/ EntryNext \/ EntryAsked \/ EntrySent)
(* One of them is in progress, or was the last. *)
EntryCall ==
  /\ call.kind \in {"od", "oe"} /\ call.obj \in SdoObj
  /\ call.room = (IF call.kind = "od" THEN 1 ELSE NParts[call.obj])
  /\ family = "info"

(* Its messages are such as the link layer's lemmas ask for. *)
LEMMA EntryFits == Fit(EntryAnswer, EntryAnswer) /\ EntryRequest # NoMsg
  /\ ~IsFragment(EntryAnswer)
<1>1. EntryAnswer.op = "info" /\ EntryRequest.op = "info"
  BY DEF EntryAnswer, EntryRequest
<1> QED BY <1>1, Fits1

(* The conversation goes on as the link layer does. *)
LEMMA EntryCarried ==
  ASSUME LinkOK, Good, Good', (Transports /\ Others) \/ Frames, EntryTalk
  PROVE  EntryTalk'
<1>0. UNCHANGED <<pc, call, buf, sent, toggle, stored, xfer, family>>
  BY SamePc
<1>1. EntryRequest' = EntryRequest /\ EntryAnswer' = EntryAnswer /\ Value' = Value
  BY <1>0 DEF EntryRequest, EntryAnswer, Value
<1>2. link = "done" => link' = "done" /\ wkc' = wkc
  BY EntryFits, LinkGoes DEF Goes
<1>3. CASE pc = "returned" /\ Still /\ wkc = 1 /\ Described
  <2>1. link = "done"
    BY <1>3 DEF LinkOK, Places
  <2>2. Still'
    BY <1>3, <2>1, RestCarried DEF Free
  <2> QED BY <1>0, <1>1, <1>2, <1>3, <2>1, <2>2 DEF EntryTalk, Described
<1>4. Entering => Entering'
  BY <1>0, <1>1 DEF Entering
<1>5. Draining => Draining'
  BY <1>0, RestCarried DEF Draining
<1>6. EntryNext => EntryNext'
  BY <1>0, <1>2, RestCarried DEF EntryNext, Free
<1>7. EntryAsked => EntryAsked'
  BY <1>1, EntryFits, AskCarried DEF EntryAsked
<1>8. EntrySent => EntrySent'
  BY <1>1, EntryFits, AnswerCarried, DeliveredCarried DEF EntrySent
<1> QED BY <1>3, <1>4, <1>5, <1>6, <1>7, <1>8 DEF EntryTalk

(* Where the call is, and what was said by then. *)
LEMMA EntryPlaces ==
  ASSUME LinkOK, EntryTalk
  PROVE  /\ At("drain") => Entering /\ Draining
         /\ At("request") => Heard /\ Entering /\ (EntryAsked \/ EntrySent)
         /\ At("response") => Entering /\ Delivered("response", EntryAnswer)
         /\ pc = "entry" => Entering /\ EntryNext
         /\ pc = "returned" => Still /\ wkc = 1 /\ Described
         /\ pc \in {"drain", "request", "response", "entry", "returned"}
<1>1. EntryAsked => pc \in {"request", "response"}
        /\ (link = "done" => pc = "request" /\ Heard)
  BY Where DEF EntryAsked
<1>2. EntrySent => /\ pc \in {"request", "response"}
                   /\ link = "done" =>
                        (pc = "request" /\ Heard)
                          \/ Delivered("response", EntryAnswer)
  BY Where DEF EntrySent
<1> QED BY <1>1, <1>2 DEF EntryTalk, EntryNext, Draining, At, Delivered, Come

(* An entry that has come is the next part. *)
LEMMA EntryJoins ==
  ASSUME Value \in Values, Entering, NEW b, b = buf \o <<Value[Len(buf) + 1]>>
  PROVE  /\ b = SubSeq(Value, 1, Len(buf) + 1) /\ Len(b) = Len(buf) + 1
         /\ Len(buf) + 1 = Len(Value) => b = Value
<1>1. PICK n \in 0..(Len(Value) - 1) : n = Len(buf)
  BY DEF Entering
<1>2. Len(Value) \in Nat /\ n \in 0..Len(Value) /\ n < Len(Value)
        /\ n + 1 \in 0..Len(Value)
  BY DEF Values
<1>3. SubSeq(Value, 1, n) \in Values
        /\ Append(SubSeq(Value, 1, n), Value[n + 1]) = SubSeq(Value, 1, n + 1)
  BY <1>2, FirstIs
<1>4. Value[n + 1] \in ValuePart
  BY <1>2, RestIs
<1>5. \A s \in Values : \A x \in ValuePart : s \o <<x>> = Append(s, x)
  BY DEF Values
<1>6. b = SubSeq(Value, 1, n + 1)
  BY <1>1, <1>3, <1>4, <1>5 DEF Entering
<1>7. Len(SubSeq(Value, 1, n + 1)) = n + 1
        /\ (n + 1 = Len(Value) => SubSeq(Value, 1, n + 1) = Value)
  BY <1>2, FirstIs
<1> QED BY <1>1, <1>6, <1>7
(* Each step of the call goes on with the conversation. *)
LEMMA EntrySteps ==
  ASSUME SdoObjects, LinkOK, StoredOK, EntryCall, EntryTalk, calls' # 0, Services,
         UNCHANGED <<frames, family>>
  PROVE  LinkOK' /\ StoredOK' /\ EntryTalk' /\ call' = call
<1>0. /\ Value \in Values /\ Len(Value) = NParts[call.obj]
           /\ Len(Value) \in Nat \ {0}
  BY ValueIs DEF EntryCall
<1>s. UNCHANGED stored => StoredOK'
  BY DEF StoredOK
<1>1. CASE InfoRequest
  <2>1. Entering /\ link = "done" /\ Still
    BY <1>1, EntryPlaces DEF InfoRequest, At, Draining
  <2>2. UNCHANGED <<call, buf, stored, xfer>> /\ pc' = "request"
          /\ StartSend(EntryRequest)
    <3>1. (IF call.kind = "oe" THEN Len(buf) + 1 ELSE 1) = Len(buf) + 1
      BY <2>1 DEF EntryCall, Entering
    <3> QED BY <1>1, <3>1 DEF InfoRequest, Post, EntryRequest, serverVars
  <2>3. LinkOK' /\ \E q \in {EntryRequest} : Sending(q)'
    <3>1. PICK q : q = EntryRequest
      OBVIOUS
    <3> QED BY <3>1, <2>1, <2>2, EntryFits, Posted
  <2>4. EntryRequest' = EntryRequest /\ Value' = Value
    BY <2>2 DEF EntryRequest, Value
  <2>5. EntryAsked'
    BY <2>2, <2>3, <2>4 DEF EntryAsked, Ask
  <2>6. Entering'
    BY <2>1, <2>2, <2>4 DEF Entering
  <2> QED BY <1>s, <2>2, <2>3, <2>5, <2>6 DEF EntryTalk
<1>2. CASE Placed
  <2>1. link = "done" /\ StartReceive("running") /\ pc' = "response"
          /\ UNCHANGED <<call, buf, stored, xfer>>
    BY <1>2 DEF Placed, Answered, At, serverVars
  <2>2. EntryRequest' = EntryRequest /\ EntryAnswer' = EntryAnswer /\ Value' = Value
    BY <2>1 DEF EntryRequest, EntryAnswer, Value
  <2>3. Entering /\ (EntryAsked \/ EntrySent)
    BY <1>2, EntryPlaces DEF Placed, Answered
  <2>4. pc = "request"
    BY <1>2 DEF Placed, Answered, At
  <2>5. /\ LinkOK'
        /\ \A q : Ask("request", "response", q) => Ask("request", "response", q)'
        /\ \A a : Wait("request", "response", a, NoMsg) =>
             Wait("request", "response", a, NoMsg)'
    BY <2>1, PlacedWaits
  <2>6. EntryAsked => EntryAsked'
    BY <2>2, <2>5 DEF EntryAsked
  <2>7. EntrySent => EntrySent'
    BY <2>2, <2>4, <2>5 DEF EntrySent, Delivered, Come
  <2>8. Entering'
    BY <2>1, <2>2, <2>3 DEF Entering
  <2> QED BY <1>s, <2>1, <2>3, <2>5, <2>6, <2>7, <2>8 DEF EntryTalk
<1>3. CASE NextEntry
  <2>1. Entering /\ link = "done" /\ Still
    BY <1>3, EntryPlaces DEF NextEntry, EntryNext
  <2>2. StartReceive("expired") /\ pc' = "drain" /\ UNCHANGED <<call, buf, stored>>
    BY <1>3 DEF NextEntry, serverVars
  <2>3. LinkOK' /\ Receiving' /\ Still'
    BY <2>1, <2>2, Waits
  <2>4. Entering' /\ Draining'
    BY <2>1, <2>2, <2>3 DEF Entering, Draining, Free, Value
  <2> QED BY <1>s, <2>2, <2>3, <2>4 DEF EntryTalk
<1>4. CASE DescriptionReceived \/ EntryReceived
  <2>1. Entering /\ Delivered("response", EntryAnswer)
    BY <1>4, EntryPlaces DEF DescriptionReceived, EntryReceived, Answered
  <2>2. wkc = 1 /\ mbxIn = EntryAnswer /\ Still /\ link = "done"
    BY <2>1 DEF Delivered, Come, Heard
  <2>3. PICK b : b = buf \o <<Value[Len(buf) + 1]>>
    OBVIOUS
  <2>4. b = SubSeq(Value, 1, Len(buf) + 1) /\ Len(b) = Len(buf) + 1
        /\ (Len(buf) + 1 = Len(Value) => b = Value)
    BY <1>0, <2>1, <2>3, EntryJoins
  <2>5. CASE DescriptionReceived
    <3>1. Len(buf) = 0
      BY <2>1, <2>5 DEF DescriptionReceived, Entering
    <3>2. buf' = <<Value[1]>> /\ pc' = "returned" /\ wkc' = wkc /\ link' = link
            /\ LinkUnchanged /\ UNCHANGED <<call, stored, xfer>>
      BY <2>2, <2>5, <3>1, Returns
        DEF DescriptionReceived, EntryAnswer, Quiet, LinkUnchanged, serverVars
    <3>3. Between
      BY <2>2, <3>2, Returns
    <3>4. LinkOK' /\ Still'
      BY <2>2, <3>3, Pauses
    <3>5. <<Value[1]>> = SubSeq(Value, 1, 1)
      <4>1. b = <<Value[1]>>
        <5>1. buf = <<>>
          BY <2>1, <3>1, SubSeqEmpty DEF Entering
        <5> QED BY <2>3, <3>1, <5>1
      <4> QED BY <2>4, <3>1, <4>1
    <3>6. call.kind = "od" /\ Value' = Value
      BY <2>5, <3>2 DEF DescriptionReceived, Value
    <3> QED BY <1>s, <2>2, <3>2, <3>4, <3>5, <3>6 DEF EntryTalk, Described
  <2>6. CASE EntryReceived
    <3>1. buf' = b
      BY <2>2, <2>3, <2>6 DEF EntryReceived, EntryAnswer
    <3>2. /\ pc' = IF LastEntry THEN "returned" ELSE "entry"
          /\ wkc' = wkc /\ link' = link /\ LinkUnchanged
               /\ UNCHANGED <<call, stored, xfer>>
      BY <2>6, Returns
        DEF EntryReceived, EntryDone, Quiet, LinkUnchanged, serverVars
    <3>3. Between
      BY <2>2, <3>2, Returns
    <3>4. LinkOK' /\ Still'
      BY <2>2, <3>3, Pauses
    <3>5. call.kind = "oe" /\ Value' = Value /\ call' = call
      BY <2>6, <3>2 DEF EntryReceived, Value
    <3>6. CASE LastEntry
      <4>1. buf' = Value
        BY <1>0, <2>4, <3>1, <3>6 DEF LastEntry
      <4> QED BY <1>s, <2>2, <3>2, <3>4, <3>5, <3>6, <4>1 DEF EntryTalk, Described
    <3>7. CASE ~LastEntry
      <4>1. Len(buf) + 1 \in 0..(Len(Value) - 1)
        BY <1>0, <2>1, <3>7 DEF LastEntry, Entering
      <4>2. Entering'
        BY <2>4, <3>1, <3>5, <4>1 DEF Entering
      <4>3. EntryNext'
        BY <2>2, <3>2, <3>4, <3>5, <3>7 DEF EntryNext
      <4> QED BY <1>s, <3>2, <3>4, <4>2, <4>3 DEF EntryTalk
    <3> QED BY <3>6, <3>7
  <2> QED BY <1>4, <2>5, <2>6
<1>5. ~InfoFails
  <2>1. At("response") => wkc = 1 /\ mbxIn = EntryAnswer
    BY EntryPlaces DEF Delivered, Come, Heard
  <2>2. At("request") => wkc = 1
    BY EntryPlaces DEF Heard
  <2> QED BY <2>1, <2>2 DEF InfoFails, IsInfoAnswer, EntryAnswer
<1>6. ~NotPlaced
  BY EntryPlaces DEF NotPlaced, Heard
<1>7. ~ListReceived /\ ~MoreOfList
  BY EntryPlaces DEF EntryCall, ListReceived, MoreOfList
<1>8. ~SdoStep /\ ~PdoStep /\ ~FoeStep /\ ~SoeStep
  BY EntryPlaces, Alone DEF EntryCall
<1> QED BY <1>1, <1>2, <1>3, <1>4, <1>5, <1>6, <1>7, <1>8 DEF Services, InfoStep

(* The slave answers with the next entry. *)
LEMMA EntryServed ==
  ASSUME LinkOK, StoredOK, EntryCall, EntryTalk, Serves, clean',
           UNCHANGED <<callVars, sessionVars, eoeVars>>
  PROVE  LinkOK' /\ StoredOK' /\ EntryTalk'
<1>0. UNCHANGED <<pc, call, buf, sent, toggle, family, calls, frames>>
  BY ServedSame
<1>j. job # NoMsg /\ ~LeftOver(job)
  BY ServesWork, NoLeftOvers DEF EntryCall
<1>1. ~Still /\ ~EntrySent
  BY <1>j DEF Still, JobIdle, EntrySent, Wait, Ans, Delivered
<1>2. Entering /\ EntryAsked
  BY <1>1 DEF EntryTalk, Draining, EntryNext
<1>3. PICK q : q = EntryRequest /\ Ask("request", "response", q)
  BY <1>2 DEF EntryAsked
<1>4. job = EntryRequest
  BY <1>1, <1>3, <1>j DEF Ask, Sending, Work, JobIdle
<1>5. Respond(EntryAnswer) /\ UNCHANGED serverVars
  <2>1. job.op = "info" /\ job.type \in {"od", "oe"}
    BY <1>4 DEF EntryRequest, EntryCall
  <2>2. ~Reject /\ ~Spoil([op |-> "infoError"])
    BY DEF Reject, Spoil
  <2>3. ServeInfo
    BY <2>1, <2>2, Unserved DEF Serves, SdoOps
  <2>4. ServeDescription
    BY <2>1, <2>2, <2>3 DEF ServeInfo, ServeList
  <2> QED BY <1>4, <2>3, <2>4
      DEF ServeInfo, ServeDescription, EntryRequest, EntryAnswer, Value
<1>6. PICK a : a = EntryAnswer
  OBVIOUS
<1>7. LinkOK' /\ Wait("request", "response", a, NoMsg)'
  <2>1. RespondAndGoOn(a, NoMsg)
    BY <1>5, <1>6 DEF Respond
  <2>2. a # NoMsg /\ ~IsFragment(a)
    BY <1>6, EntryFits DEF Fit
  <2> QED BY <1>0, <1>3, <1>j, <2>1, <2>2, AskServed
<1>8. EntryAnswer' = EntryAnswer /\ Value' = Value /\ stored' = stored
  BY <1>0, <1>5 DEF EntryAnswer, Value, serverVars
<1>9. EntrySent'
  BY <1>6, <1>7, <1>8 DEF EntrySent
<1>10. Entering'
  BY <1>0, <1>2, <1>8 DEF Entering
<1> QED BY <1>7, <1>8, <1>9, <1>10 DEF EntryTalk, StoredOK

(* The conversation stays where only the error list changes. *)
LEMMA EntrySteady ==
  ASSUME Steady
  PROVE  EntryTalk => EntryTalk'
<1>1. UNCHANGED <<EntryRequest, EntryAnswer, Value>> /\ Free' = Free
  BY DEF Steady, EntryRequest, EntryAnswer, Value, Free, Receiving
<1>2. /\ Still' <=> Still
      /\ \A q : Ask("request", "response", q)' <=> Ask("request", "response", q)
      /\ \A a : Wait("request", "response", a, NoMsg)' <=>
           Wait("request", "response", a, NoMsg)
      /\ \A a : Delivered("response", a)' <=> Delivered("response", a)
  BY LinkSteady
<1>3. UNCHANGED <<pc, link, wkc, buf, call>>
  BY DEF Steady
<1> QED BY <1>1, <1>2, <1>3
    DEF EntryTalk, Described, Entering, Draining, EntryNext, EntryAsked, EntrySent

(* What a call has been told before the slave went away is right. *)
EntryTold ==
  wkc > 0 => /\ pc = "returned" => Described
             /\ At("response") => Entering /\ mbxIn = EntryAnswer

(* While nothing goes wrong, what was received is the slave's. *)
LEMMA EntryTells == LinkOK /\ EntryTalk => EntryTold
BY EntryPlaces DEF Delivered, Come, EntryTold

(* Without the slave, the steps keep what was received. *)
LEMMA EntryToldStep ==
  ASSUME SdoObjects, StoredOK, wkc \in Int, EntryCall, EntryTold,
         pc \in {"drain", "request", "response", "entry", "returned"}, Services
  PROVE  EntryTold' /\ call' = call
<1>0. /\ Value \in Values /\ Len(Value) = NParts[call.obj]
           /\ Len(Value) \in Nat \ {0}
  BY ValueIs DEF EntryCall
<1>1. InfoRequest \/ DescriptionReceived \/ InfoFails \/ EntryReceived
        \/ NextEntry \/ Placed \/ NotPlaced
  BY Alone DEF EntryCall, Services, InfoStep, ListReceived, MoreOfList
<1>2. CASE InfoRequest \/ NextEntry \/ Placed
  BY <1>2, Failing DEF InfoRequest, NextEntry, Placed, Fails, EntryTold, Post
<1>3. CASE DescriptionReceived \/ EntryReceived
  <2>1. Entering /\ mbxIn = EntryAnswer
    BY <1>3 DEF DescriptionReceived, EntryReceived, Answered, EntryTold
  <2>3. PICK b : b = buf \o <<Value[Len(buf) + 1]>>
    OBVIOUS
  <2>4. b = SubSeq(Value, 1, Len(buf) + 1) /\ Len(b) = Len(buf) + 1
        /\ (Len(buf) + 1 = Len(Value) => b = Value)
    BY <1>0, <2>1, <2>3, EntryJoins
  <2>5. CASE DescriptionReceived
    <3>1. Len(buf) = 0
      BY <2>1, <2>5 DEF DescriptionReceived, Entering
    <3>2. buf' = <<Value[1]>> /\ pc' = "returned" /\ UNCHANGED <<call, stored>>
      BY <2>1, <2>5, <3>1
        DEF DescriptionReceived, EntryAnswer, Quiet, LinkUnchanged, serverVars,
        Return
    <3>5. <<Value[1]>> = SubSeq(Value, 1, 1)
      <4>1. b = <<Value[1]>>
        <5>1. buf = <<>>
          BY <2>1, <3>1, SubSeqEmpty DEF Entering
        <5> QED BY <2>3, <3>1, <5>1
      <4> QED BY <2>4, <3>1, <4>1
    <3>6. call.kind = "od" /\ Value' = Value
      BY <2>5, <3>2 DEF DescriptionReceived, Value
    <3> QED BY <3>2, <3>5, <3>6 DEF EntryTold, Described, At
  <2>6. CASE EntryReceived
    <3>1. buf' = b
      BY <2>1, <2>3, <2>6 DEF EntryReceived, EntryAnswer
    <3>2. /\ pc' = IF LastEntry THEN "returned" ELSE "entry"
          /\ UNCHANGED <<call, stored>>
      BY <2>6
        DEF EntryReceived, EntryDone, Quiet, LinkUnchanged, serverVars, Return, GoTo
    <3>5. call.kind = "oe" /\ Value' = Value
      BY <2>6, <3>2 DEF EntryReceived, Value
    <3>6. LastEntry => buf' = Value
      BY <1>0, <2>4, <3>1 DEF LastEntry
    <3> QED BY <3>2, <3>5, <3>6 DEF EntryTold, Described, At
  <2> QED BY <1>3, <2>5, <2>6
<1>4. CASE NotPlaced
  <2>1. wkc' \in Int /\ ~(wkc' > 0) /\ call' = call
    BY <1>4 DEF NotPlaced, Return
  <2> QED BY <2>1 DEF EntryTold
<1>5. CASE InfoFails
  <2>1. ~(wkc > 0)
    BY <1>5 DEF InfoFails, EntryTold, EntryAnswer, IsInfoAnswer
  <2>2. wkc' = wkc /\ call' = call
    BY <2>1, <1>5 DEF InfoFails, EntryDone, Return, GoTo, masterVars
  <2> QED BY <2>1, <2>2 DEF EntryTold
<1> QED BY <1>1, <1>2, <1>3, <1>4, <1>5
(* The slave answers a request of the service when the mailbox is empty. *)
LEMMA InfoPuts == ServeInfo => CanPut
<1>1. \A m, j : RespondAndGoOn(m, j) => CanPut
  BY DEF RespondAndGoOn
<1> QED BY <1>1 DEF Respond, Spoil, ServeInfo, ServeList, ServeDescription
-----------------------------------------------------------------------------
(* The list of objects, in fragments the slave sends one after the other   *)
(* once it has been asked.                                                 *)
ListJob(k) == [op |-> "info", type |-> "ODlist", obj |-> "od", num |-> k + 1]
(* There is more of the list than the first k + 1 mailboxes hold. *)
ListMore(k) == NParts["od"] > (k + 1) * M
(* The fragment k of the list, *)
ListFrag(k) == [op |-> "info", type |-> "ODlist",
                left |-> IF ListMore(k) THEN 1 ELSE 0, data |-> Chunk(Value, k)]
(* and what the slave has to send after it. *)
ListRest(k) == IF ListMore(k) THEN ListJob(k + 1) ELSE NoMsg
(* The fragments so far were received, as far as they fit. *)
Listing ==
  /\ sent \in Nat /\ buf = Taken(Value, sent, EC_MAXODLIST)
  /\ sent * M <= Len(Value)
(* The fragment k is to be sent or was. *)
ListComing(k) ==
  \E q \in {ListJob(k)} : \E a \in {ListFrag(k)} : \E j \in {ListRest(k)} : Work(q) \/ Ans(a, j)
(* The list was received, as far as it fits. *)
ListAll == buf = IF EC_MAXODLIST < Len(Value)
  THEN SubSeq(Value, 1, EC_MAXODLIST) ELSE Value
(* The list was requested, *)
ListAsked == \E q \in {ListJob(sent)} : Ask("request", "response", q)
(* a fragment is on its way, *)
ListSent == \E a \in {ListFrag(sent)} : \E j \in {ListRest(sent)} : Wait("request", "response", a, j)
(* was received while the next one comes, *)
ListCome ==
  /\ Come("response", ListFrag(sent))
  /\ IF ListMore(sent) THEN ListComing(sent + 1) ELSE Still
(* and was handled. *)
ListNext == pc = "more" /\ Heard /\ ListComing(sent)
(* The conversation of ecx_readODlist: one request, and a fragment after   *)
(* the other.                                                              *)
ListTalk ==
  \/ pc = "returned" /\ Still /\ wkc = 1 /\ ListAll
  \/ Listing /\ ((Draining /\ sent = 0) \/ ListAsked \/ ListSent \/ ListCome
       \/ ListNext)
(* ecx_readODlist is in progress, or was the last. *)
ListCall ==
  /\ call.kind = "ODlist" /\ call.obj = "od" /\ call.room = EC_MAXODLIST
  /\ family = "info"

(* The rounds the function reads are enough for the list of the slave. *)
ListFits ==
  /\ "od" \in Obj /\ EC_MAXODLIST \in Nat /\ MaxRounds \in Nat
  /\ NParts["od"] <= MaxRounds * M

(* Its messages are such as the link layer's lemmas ask for. *)
LEMMA ListMsgs ==
  \A k : /\ Fit(ListFrag(k), ListFrag(k)) /\ ~IsFragment(ListFrag(k))
              /\ ListFrag(k) # NoMsg
         /\ ListJob(k) # NoMsg
<1> TAKE k
<1>1. ListFrag(k).op = "info" /\ ListJob(k).op = "info"
  BY DEF ListFrag, ListJob
<1> QED BY <1>1, Fits1

(* The fragment that comes is not lost. *)
LEMMA ListComes ==
  ASSUME LinkOK, Good, Good', (Transports /\ Others) \/ Frames, Heard, NEW k,
           ListComing(k)
  PROVE  ListComing(k)'
<1>0. UNCHANGED <<pc, call, buf, sent, toggle, stored, xfer, family>>
  BY SamePc
<1>1. ListJob(k)' = ListJob(k) /\ ListFrag(k)' = ListFrag(k)
        /\ ListRest(k)' = ListRest(k)
  BY <1>0 DEF ListJob, ListFrag, ListRest, ListMore, Value, Chunk
<1>2. PICK q \in {ListJob(k)}, a \in {ListFrag(k)},
        j \in {ListRest(k)} : Work(q) \/ Ans(a, j)
  BY DEF ListComing
<1>3. Work(q)' \/ Ans(a, j)'
  BY <1>2, ListMsgs, HeldCarried
<1> QED BY <1>1, <1>2, <1>3 DEF ListComing

(* The conversation goes on as the link layer does. *)
LEMMA ListCarried ==
  ASSUME LinkOK, Good, Good', (Transports /\ Others) \/ Frames, ListTalk
  PROVE  ListTalk'
<1>0. UNCHANGED <<pc, call, buf, sent, toggle, stored, xfer, family>>
  BY SamePc
<1>1. \A k : /\ ListJob(k)' = ListJob(k) /\ ListFrag(k)' = ListFrag(k)
                  /\ ListRest(k)' = ListRest(k)
             /\ ListMore(k)' = ListMore(k)
  BY <1>0 DEF ListJob, ListFrag, ListRest, ListMore, Value, Chunk
<1>v. Value' = Value /\ (Listing => Listing') /\ (ListAll => ListAll')
  BY <1>0 DEF Value, Listing, ListAll
<1>2. link = "done" => link' = "done" /\ wkc' = wkc
  BY EntryFits, LinkGoes DEF Goes
<1>3. CASE pc = "returned" /\ Still /\ wkc = 1 /\ ListAll
  <2>1. link = "done"
    BY <1>3 DEF LinkOK, Places
  <2>2. Still'
    BY <1>3, <2>1, RestCarried DEF Free
  <2> QED BY <1>0, <1>v, <1>2, <1>3, <2>1, <2>2 DEF ListTalk
<1>5. Draining => Draining'
  BY <1>0, RestCarried DEF Draining
<1>6. ListAsked => ListAsked'
  <2>1. SUFFICES ASSUME ListAsked PROVE ListAsked'
    OBVIOUS
  <2>2. PICK q : q = ListJob(sent) /\ Ask("request", "response", q)
    BY <2>1 DEF ListAsked
  <2>3. Ask("request", "response", q)'
    BY <2>2, ListMsgs, AskCarried
  <2>4. q = ListJob(sent)'
    BY <1>0, <2>2 DEF ListJob
  <2> QED BY <2>3, <2>4 DEF ListAsked
<1>7. ListSent => ListSent' \/ ListCome'
  <2>1. SUFFICES ASSUME ListSent PROVE ListSent' \/ ListCome'
    OBVIOUS
  <2>2. PICK k, a, j : k = sent /\ a = ListFrag(k) /\ j = ListRest(k)
          /\ Wait("request", "response", a, j)
    BY <2>1 DEF ListSent
  <2>3. \/ Wait("request", "response", a, j)'
        \/ Come("response", a)' /\ sm0' = NoMsg /\ job' = j /\ Sm1Idle'
    BY <2>2, ListMsgs, WaitCarried
  <2>4. a = ListFrag(sent)' /\ j = ListRest(sent)' /\ sent' = k
    BY <1>0, <2>2 DEF ListFrag, ListRest, ListJob, ListMore, Value, Chunk
  <2>5. CASE Wait("request", "response", a, j)'
    BY <2>4, <2>5 DEF ListSent
  <2>6. CASE Come("response", a)' /\ sm0' = NoMsg /\ job' = j /\ Sm1Idle'
    <3>1. CASE ListMore(k)
      <4>1. j = ListJob(k + 1)
        BY <2>2, <3>1 DEF ListRest
      <4>2. PICK q : q = ListJob(k + 1)
        OBVIOUS
      <4>3. Work(q)'
        BY <2>6, <4>1, <4>2, ListMsgs DEF Work
      <4>4. q = ListJob(sent + 1)'
        BY <2>4, <4>2 DEF ListJob
      <4>5. ListComing(sent + 1)'
        BY <4>3, <4>4 DEF ListComing
      <4>6. ListMore(sent)'
        BY <2>4, <3>1 DEF ListMore
      <4> QED BY <2>4, <2>6, <4>5, <4>6 DEF ListCome
    <3>2. CASE ~ListMore(k)
      <4>1. j = NoMsg
        BY <2>2, <3>2 DEF ListRest
      <4>2. Still'
        BY <2>6, <4>1 DEF Still, Sm0Idle, JobIdle
      <4>3. ~ListMore(sent)'
        BY <2>4, <3>2 DEF ListMore
      <4> QED BY <2>4, <2>6, <4>2, <4>3 DEF ListCome
    <3> QED BY <3>1, <3>2
  <2> QED BY <2>3, <2>5, <2>6
<1>8. ListCome => ListCome'
  <2>1. SUFFICES ASSUME ListCome PROVE ListCome'
    OBVIOUS
  <2>2. PICK k, a : k = sent /\ a = ListFrag(k) /\ Come("response", a)
    BY <2>1 DEF ListCome
  <2>3. Come("response", a)'
    BY <2>2, ComeCarried
  <2>4. a = ListFrag(sent)' /\ sent' = k /\ ListMore(sent)' = ListMore(k)
    BY <1>0, <2>2 DEF ListFrag, ListMore, Value, Chunk
  <2>5. Heard
    BY <2>2 DEF Come
  <2>6. PICK n : n = k + 1
    OBVIOUS
  <2>7. ListComing(n) => ListComing(n)'
    BY <2>5, ListComes
  <2>8. n = (sent + 1)'
    BY <2>4, <2>6
  <2>9. Still => Still'
    BY <2>5, RestCarried DEF Heard, Free
  <2>10. ListComing(n)' => ListComing(sent + 1)'
    BY <2>8
  <2> QED BY <2>1, <2>2, <2>3, <2>4, <2>6, <2>7, <2>9, <2>10 DEF ListCome
<1>9. ListNext => ListNext'
  <2>1. SUFFICES ASSUME ListNext PROVE ListNext'
    OBVIOUS
  <2>2. PICK k : k = sent
    OBVIOUS
  <2>3. Heard' /\ ListComing(k)'
    BY <2>1, <2>2, HeldCarried, ListComes DEF ListNext
  <2>4. k = sent'
    BY <1>0, <2>2
  <2> QED BY <1>0, <2>1, <2>3, <2>4 DEF ListNext
<1> QED BY <1>0, <1>v, <1>3, <1>5, <1>6, <1>7, <1>8, <1>9 DEF ListTalk

(* Where the call is, and what was said by then. *)
LEMMA ListPlaces ==
  ASSUME LinkOK, ListTalk
  PROVE  /\ At("drain") => Listing /\ Draining /\ sent = 0
         /\ At("request") => Heard /\ Listing /\ (ListAsked \/ ListSent)
         /\ At("response") => Listing /\ ListCome
         /\ pc = "more" => Listing /\ ListNext
         /\ pc = "returned" => Still /\ wkc = 1 /\ ListAll
         /\ pc \in {"drain", "request", "response", "more", "returned"}
<1>1. ListAsked => pc \in {"request", "response"}
        /\ (link = "done" => pc = "request" /\ Heard)
  BY Where DEF ListAsked
<1>2. ListSent => /\ pc \in {"request", "response"}
                  /\ link = "done" => pc = "request" /\ Heard
  BY Where DEF ListSent
<1> QED BY <1>1, <1>2 DEF ListTalk, ListNext, ListCome, Draining, At, Come

(* A fragment that has come is the next mailbox full, trimmed to the room. *)
LEMMA ListJoins ==
  ASSUME ListFits, Value \in Values, Len(Value) = NParts["od"], Listing
  PROVE  /\ buf \o Trimmed(Chunk(Value, sent)) = Taken(Value, sent + 1,
              EC_MAXODLIST)
         /\ ListMore(sent) => (sent + 1) * M <= Len(Value) /\ sent + 1 < MaxRounds
         /\ ~ListMore(sent) =>
              Taken(Value, sent + 1, EC_MAXODLIST) =
                IF EC_MAXODLIST < Len(Value) THEN SubSeq(Value, 1, EC_MAXODLIST)
                  ELSE Value
<1>0. sent \in Nat /\ sent * M <= Len(Value)
        /\ buf = Taken(Value, sent, EC_MAXODLIST)
      /\ EC_MAXODLIST \in Nat /\ sent + 1 \in Nat /\ MaxRounds \in Nat
           /\ Len(Value) \in Nat
  BY DEF Listing, ListFits, Values
<1>1. buf \o Trimmed(Chunk(Value, sent)) = Taken(Value, sent + 1, EC_MAXODLIST)
  BY <1>0, TakenFollows DEF Trimmed
<1>2. (sent + 1) * M \in Nat /\ M \in Nat \ {0}
  BY <1>0, FullMailboxes
<1>3. ASSUME ListMore(sent) PROVE (sent + 1) * M <= Len(Value)
               /\ sent + 1 < MaxRounds
  <2>1. (sent + 1) * M < Len(Value)
    BY <1>0, <1>2, <1>3 DEF ListMore
  <2>2. (sent + 1) * M < MaxRounds * M
    <3>1. NParts["od"] <= MaxRounds * M /\ MaxRounds * M \in Nat
      BY <1>0, <1>2, FullMailboxes DEF ListFits
    <3> QED BY <1>0, <1>2, <2>1, <3>1
  <2>3. ASSUME ~(sent + 1 < MaxRounds) PROVE FALSE
    <3>1. PICK d \in Nat : sent + 1 = MaxRounds + d
      <4>1. sent + 1 - MaxRounds \in Nat
        BY <1>0, <2>3
      <4> QED BY <4>1, <1>0
    <3>2. (MaxRounds + d) * M = MaxRounds * M + d * M /\ d * M \in Nat
      BY <1>0, <1>2
    <3>3. MaxRounds * M \in Nat
      BY <1>0, <1>2
    <3> QED BY <2>2, <3>1, <3>2, <3>3
  <2> QED BY <1>0, <1>2, <2>1, <2>3
<1>4. ASSUME ~ListMore(sent) PROVE Len(Value) <= (sent + 1) * M
  BY <1>0, <1>2, <1>4 DEF ListMore
<1> QED BY <1>0, <1>1, <1>3, <1>4, TakenEnds

(* The list of the objects is a value of the slave. *)
LEMMA ListValue ==
  ASSUME ListFits, StoredOK, ListCall
  PROVE  Value \in Values /\ Len(Value) = NParts["od"]
BY DEF ListFits, StoredOK, ListCall, Value

(* Each step of the call goes on with the conversation. *)
LEMMA ListSteps ==
  ASSUME ListFits, LinkOK, StoredOK, ListCall, ListTalk, calls' # 0, Services,
         UNCHANGED <<frames, family>>
  PROVE  LinkOK' /\ StoredOK' /\ ListTalk' /\ call' = call
<1>0. Value \in Values /\ Len(Value) = NParts["od"]
  BY ListValue
<1>s. UNCHANGED stored => StoredOK'
  BY DEF StoredOK
<1>t. UNCHANGED stored => (\A k : /\ ListJob(k)' = ListJob(k)
                                       /\ (UNCHANGED call =>
                                            ListFrag(k)' = ListFrag(k))
                                 /\ ListRest(k)' = ListRest(k)
                                      /\ ListMore(k)' = ListMore(k))
                         /\ (UNCHANGED call => Value' = Value)
  BY DEF ListJob, ListFrag, ListRest, ListMore, Value, Chunk
<1>1. CASE InfoRequest
  <2>1. Listing /\ link = "done" /\ Still /\ sent = 0
    BY <1>1, ListPlaces DEF InfoRequest, At, Draining
  <2>2. UNCHANGED <<call, buf, sent, stored, xfer>> /\ pc' = "request"
          /\ StartSend(ListJob(sent))
    <3>1. (IF call.kind = "oe" THEN Len(buf) + 1 ELSE 1) = sent + 1
      BY <2>1 DEF ListCall
    <3> QED BY <1>1, <3>1 DEF InfoRequest, Post, ListJob, serverVars, ListCall
  <2>3. PICK q : q = ListJob(sent)
    OBVIOUS
  <2>4. LinkOK' /\ Sending(q)'
    BY <2>1, <2>2, <2>3, ListMsgs, Posted
  <2>5. q = ListJob(sent)'
    BY <2>2, <2>3 DEF ListJob
  <2>6. ListAsked'
    BY <2>2, <2>4, <2>5 DEF ListAsked, Ask
  <2>7. Listing'
    BY <1>t, <2>1, <2>2 DEF Listing
  <2> QED BY <1>s, <2>2, <2>4, <2>6, <2>7 DEF ListTalk
<1>2. CASE Placed
  <2>1. link = "done" /\ StartReceive("running") /\ pc' = "response"
          /\ UNCHANGED <<call, buf, sent, stored, xfer>>
    BY <1>2 DEF Placed, Answered, At, serverVars
  <2>2. ListJob(sent)' = ListJob(sent) /\ ListFrag(sent)' = ListFrag(sent)
          /\ ListRest(sent)' = ListRest(sent)
    BY <2>1 DEF ListJob, ListFrag, ListRest, ListMore, Value, Chunk
  <2>3. Listing /\ (ListAsked \/ ListSent)
    BY <1>2, ListPlaces DEF Placed, Answered
  <2>5. /\ LinkOK'
        /\ \A q : Ask("request", "response", q) => Ask("request", "response", q)'
        /\ \A a, j : Wait("request", "response", a, j) =>
             Wait("request", "response", a, j)'
    BY <2>1, PlacedWaits
  <2>6. ListAsked => ListAsked'
    BY <2>2, <2>5 DEF ListAsked
  <2>7. ListSent => ListSent'
    BY <2>2, <2>5 DEF ListSent
  <2>8. Listing'
    BY <1>t, <2>1, <2>3 DEF Listing
  <2> QED BY <1>s, <2>1, <2>3, <2>5, <2>6, <2>7, <2>8 DEF ListTalk
<1>3. CASE MoreOfList
  <2>1. Listing /\ Heard /\ ListComing(sent)
    BY <1>3, ListPlaces DEF MoreOfList, ListNext
  <2>2. StartReceive("running") /\ pc' = "response"
          /\ UNCHANGED <<call, buf, sent, stored>>
    BY <1>3 DEF MoreOfList, serverVars
  <2>3. PICK q, a, j : q = ListJob(sent) /\ a = ListFrag(sent)
          /\ j = ListRest(sent) /\ (Work(q) \/ Ans(a, j))
    BY <2>1 DEF ListComing
  <2>4. LinkOK' /\ Listens' /\ (Work(q)' \/ Ans(a, j)')
    BY <2>1, <2>2, <2>3, Waits DEF Heard
  <2>5. q = ListJob(sent)' /\ a = ListFrag(sent)' /\ j = ListRest(sent)'
    BY <2>2, <2>3 DEF ListJob, ListFrag, ListRest, ListMore, Value, Chunk
  <2>6. ListAsked' \/ ListSent'
    BY <2>2, <2>4, <2>5 DEF ListAsked, ListSent, Ask, Wait, Either
  <2>7. Listing'
    BY <1>t, <2>1, <2>2 DEF Listing
  <2> QED BY <1>s, <2>2, <2>4, <2>6, <2>7 DEF ListTalk
<1>4. CASE ListReceived
  <2>1. Listing /\ ListCome
    BY <1>4, ListPlaces DEF ListReceived, Answered
  <2>2. wkc = 1 /\ mbxIn = ListFrag(sent) /\ link = "done" /\ sent \in Nat
    BY <2>1 DEF ListCome, Come, Heard, Listing
  <2>3. /\ buf' = buf \o Trimmed(Chunk(Value, sent)) /\ sent' = sent + 1
        /\ IF ListMore(sent) /\ sent + 1 < MaxRounds THEN GoTo("more")
             ELSE Return(1)
        /\ LinkUnchanged /\ call' = call
    <3>1. mbxIn.data = Chunk(Value, sent) /\ (mbxIn.left > 0 <=> ListMore(sent))
      BY <2>2 DEF ListFrag
    <3> QED BY <1>4, <2>2, <3>1 DEF ListReceived, Quiet, Report
  <2>4. /\ buf' = Taken(Value, sent + 1, EC_MAXODLIST)
        /\ IF ListMore(sent) THEN pc' = "more" /\ (sent + 1) * M <= Len(Value)
                             ELSE pc' = "returned"
                               /\ buf' = IF EC_MAXODLIST < Len(Value)
                                    THEN SubSeq(Value, 1, EC_MAXODLIST) ELSE Value
        /\ link' = link /\ wkc' = 1
    BY <1>0, <2>1, <2>2, <2>3, ListJoins, Returns
  <2>5. Between /\ stored' = stored
    BY <2>2, <2>3, <2>4, Returns
  <2>6. LinkOK' /\ (Still => Still') /\ (\A q : Work(q) => Work(q)')
          /\ (\A a, j : Ans(a, j) => Ans(a, j)')
    BY <2>5, Pauses
  <2>7. CASE ListMore(sent)
    <3>1. ListComing(sent + 1)
      BY <2>1, <2>7 DEF ListCome
    <3>2. PICK q, a, j : q = ListJob(sent + 1) /\ a = ListFrag(sent + 1)
            /\ j = ListRest(sent + 1) /\ (Work(q) \/ Ans(a, j))
      BY <3>1 DEF ListComing
    <3>3. Work(q)' \/ Ans(a, j)'
      BY <2>6, <3>2
    <3>4. q = ListJob(sent)' /\ a = ListFrag(sent)' /\ j = ListRest(sent)'
      BY <2>3, <2>5, <3>2 DEF ListJob, ListFrag, ListRest, ListMore, Value, Chunk
    <3>5. ListComing(sent)'
      BY <3>3, <3>4 DEF ListComing
    <3>6. ListNext'
      BY <2>2, <2>4, <2>7, <3>5 DEF ListNext, Heard
    <3>7. Listing'
      BY <2>2, <2>3, <2>4, <2>5, <2>7, <1>t DEF Listing
    <3> QED BY <1>s, <2>3, <2>5, <2>6, <3>6, <3>7 DEF ListTalk
  <2>8. CASE ~ListMore(sent)
    <3>1. Still'
      BY <2>1, <2>6, <2>8 DEF ListCome
    <3>2. Value' = Value
      BY <2>3, <2>5, <1>t
    <3>3. ListAll'
      BY <2>4, <2>8, <3>2 DEF ListAll
    <3> QED BY <1>s, <2>3, <2>4, <2>5, <2>6, <2>8, <3>1, <3>3 DEF ListTalk
  <2> QED BY <2>7, <2>8
<1>5. ~InfoFails
  <2>1. At("response") => wkc = 1 /\ mbxIn = ListFrag(sent)
    BY ListPlaces DEF ListCome, Come, Heard
  <2>2. At("request") => wkc = 1
    BY ListPlaces DEF Heard
  <2> QED BY <2>1, <2>2 DEF InfoFails, IsInfoAnswer, ListFrag, ListCall
<1>6. ~NotPlaced
  BY ListPlaces DEF NotPlaced, Heard
<1>7. ~DescriptionReceived /\ ~EntryReceived /\ ~NextEntry
  BY ListPlaces DEF ListCall, DescriptionReceived, EntryReceived, NextEntry
<1>8. ~SdoStep /\ ~PdoStep /\ ~FoeStep /\ ~SoeStep
  BY ListPlaces, Alone DEF ListCall
<1> QED BY <1>1, <1>2, <1>3, <1>4, <1>5, <1>6, <1>7, <1>8 DEF Services, InfoStep

(* The slave goes on with the list. *)
LEMMA ListAnswered ==
  ASSUME NEW k \in Nat, ListCall, job = ListJob(k), Serves, clean'
  PROVE  RespondAndGoOn(ListFrag(k), ListRest(k)) /\ UNCHANGED serverVars
<1>1. job.op = "info" /\ job.type = "ODlist" /\ job.num = k + 1
  BY DEF ListJob
<1>2. ~Reject /\ ~Spoil([op |-> "infoError"])
  BY DEF Reject, Spoil
<1>3. ServeInfo
  BY <1>1, <1>2, Unserved DEF Serves, SdoOps
<1>4. ServeList
  BY <1>1, <1>2, <1>3 DEF ServeInfo, ServeDescription
<1>5. job.num - 1 = k /\ job.num + 1 = k + 1 + 1 /\ stored["od"] = Value
  BY <1>1 DEF Value, ListCall
<1> QED BY <1>3, <1>4, <1>5
    DEF ServeInfo, ServeList, ListFrag, ListRest, ListJob, ListMore

(* The slave sends the next fragment. *)
LEMMA ListServed ==
  ASSUME ListFits, LinkOK, StoredOK, ListCall, ListTalk, Serves, clean',
           UNCHANGED <<callVars, sessionVars, eoeVars>>
  PROVE  LinkOK' /\ StoredOK' /\ ListTalk'
<1>0. UNCHANGED <<pc, call, buf, sent, toggle, family, calls, frames>>
  BY ServedSame
<1>j. job # NoMsg /\ ~LeftOver(job)
  BY ServesWork, NoLeftOvers DEF ListCall
<1>i. job.op = "info"
  <2>1. \A k : Work(ListJob(k)) => job = ListJob(k)
    BY <1>j DEF Work, JobIdle
  <2>2. \A a, k : Ans(a, ListRest(k)) => job = ListJob(k + 1)
    BY <1>j DEF Ans, ListRest
  <2>3. \A k : ListComing(k) => \E n : job = ListJob(n)
    BY <2>1, <2>2 DEF ListComing
  <2>4. ~Still
    BY <1>j DEF Still, JobIdle
  <2>5. ListAsked => job = ListJob(sent)
    BY <2>1, <2>4 DEF ListAsked, Ask, Sending
  <2>6. ListSent => job = ListJob(sent + 1)
    BY <2>2 DEF ListSent, Wait
  <2>7. \E n : job = ListJob(n)
    BY <2>3, <2>4, <2>5, <2>6 DEF ListTalk, Draining, ListCome, ListNext
  <2> QED BY <2>7 DEF ListJob
<1>c. CanPut /\ sm1 = NoMsg
  <2>1. ~Reject
    BY DEF Reject, Spoil
  <2>2. ServeInfo
    BY <1>i, <2>1, Unserved DEF Serves, SdoOps
  <2> QED BY <2>2, InfoPuts DEF CanPut
<1>a. \A a, j : a # NoMsg => ~Ans(a, j)
  BY <1>j, <1>c DEF Ans
<1>1. ~Still /\ ~ListSent
  BY <1>j, <1>a, ListMsgs DEF Still, JobIdle, ListSent, Wait
<1>2. Listing /\ (ListAsked \/ ListCome \/ ListNext)
  BY <1>1 DEF ListTalk, Draining
<1>n. sent \in Nat /\ sent + 1 \in Nat
  BY <1>2 DEF Listing
<1>w. \A k : ListComing(k) => Work(ListJob(k))
  BY <1>a, ListMsgs DEF ListComing
<1>3. CASE ListAsked
  <2>1. PICK q : q = ListJob(sent) /\ Ask("request", "response", q)
    BY <1>3 DEF ListAsked
  <2>2. job = ListJob(sent)
    BY <1>1, <2>1, <1>j DEF Ask, Sending, Work, JobIdle
  <2>3. PICK a, j : a = ListFrag(sent) /\ j = ListRest(sent)
    OBVIOUS
  <2>4. RespondAndGoOn(a, j) /\ UNCHANGED serverVars
    BY <1>n, <2>2, <2>3, ListAnswered
  <2>5. LinkOK' /\ Wait("request", "response", a, j)'
    BY <1>0, <1>j, <2>1, <2>3, <2>4, ListMsgs, AskServed
  <2>6. a = ListFrag(sent)' /\ j = ListRest(sent)' /\ Value' = Value
          /\ stored' = stored
    BY <1>0, <2>3, <2>4
      DEF ListFrag, ListRest, ListJob, ListMore, Value, Chunk, serverVars
  <2>7. ListSent' /\ Listing' /\ StoredOK'
    BY <1>0, <1>2, <2>5, <2>6 DEF ListSent, Listing, StoredOK
  <2> QED BY <2>5, <2>7 DEF ListTalk
<1>4. ASSUME Heard, NEW k \in Nat, ListComing(k)
      PROVE  /\ LinkOK' /\ Heard' /\ ListComing(k)'
                  /\ UNCHANGED <<stored, mbxIn, wkc>>
  <2>1. PICK q : q = ListJob(k)
    OBVIOUS
  <2>2. Work(q)
    BY <1>4, <1>w, <2>1
  <2>3. job = ListJob(k)
    BY <1>j, <2>1, <2>2 DEF Work, JobIdle
  <2>4. PICK a, j : a = ListFrag(k) /\ j = ListRest(k)
    OBVIOUS
  <2>5. RespondAndGoOn(a, j) /\ UNCHANGED serverVars
    BY <2>3, <2>4, ListAnswered
  <2>6. LinkOK' /\ Ans(a, j)' /\ Heard' = Heard
    BY <1>0, <1>4, <1>j, <2>2, <2>4, <2>5, ListMsgs, Responded
  <2>7. UNCHANGED <<stored, mbxIn, wkc>>
    BY <2>5 DEF RespondAndGoOn, masterVars, serverVars
  <2>8. a = ListFrag(k)' /\ j = ListRest(k)'
    BY <1>0, <2>4, <2>7 DEF ListFrag, ListRest, ListJob, ListMore, Value, Chunk
  <2>9. ListComing(k)'
    BY <2>6, <2>8 DEF ListComing
  <2> QED BY <1>4, <2>6, <2>7, <2>9
<1>5. CASE ListNext
  <2>1. PICK k \in Nat : k = sent
    BY <1>n
  <2>2. LinkOK' /\ Heard' /\ ListComing(k)' /\ UNCHANGED stored
    BY <1>4, <1>5, <2>1 DEF ListNext
  <2>3. k = sent'
    BY <1>0, <2>1
  <2>4. ListNext'
    BY <1>0, <1>5, <2>2, <2>3 DEF ListNext
  <2>5. Listing' /\ StoredOK'
    BY <1>0, <1>2, <2>2 DEF Listing, StoredOK, Value
  <2> QED BY <2>2, <2>4, <2>5 DEF ListTalk
<1>6. CASE ListCome
  <2>1. PICK k \in Nat : k = sent + 1
    BY <1>n
  <2>2. ListMore(sent) /\ Heard /\ ListComing(k)
    BY <1>1, <1>6, <2>1 DEF ListCome, Come
  <2>3. LinkOK' /\ Heard' /\ ListComing(k)' /\ UNCHANGED <<stored, mbxIn, wkc>>
    BY <1>4, <2>2
  <2>4. k = (sent + 1)' /\ ListMore(sent)' /\ ListFrag(sent)' = ListFrag(sent)
    BY <1>0, <2>1, <2>2, <2>3 DEF ListFrag, ListMore, Value, Chunk
  <2>5. ListCome'
    <3>1. Come("response", ListFrag(sent))'
      BY <1>0, <1>6, <2>3, <2>4 DEF ListCome, Come
    <3>2. ListComing(sent + 1)'
      BY <2>3, <2>4
    <3> QED BY <2>4, <3>1, <3>2 DEF ListCome
  <2>6. Listing' /\ StoredOK'
    BY <1>0, <1>2, <2>3 DEF Listing, StoredOK, Value
  <2> QED BY <2>3, <2>5, <2>6 DEF ListTalk
<1> QED BY <1>2, <1>3, <1>5, <1>6

(* The conversation stays where only the error list changes. *)
LEMMA ListSteady ==
  ASSUME Steady
  PROVE  ListTalk => ListTalk'
<1>1. UNCHANGED <<Value, sent, buf, pc, call, link, wkc, mbxIn, stored>>
        /\ Free' = Free
  BY DEF Steady, Value, Free, Receiving
<1>t. \A k : /\ ListJob(k)' = ListJob(k) /\ ListFrag(k)' = ListFrag(k)
             /\ ListRest(k)' = ListRest(k) /\ ListMore(k)' = ListMore(k)
  BY <1>1 DEF ListJob, ListFrag, ListRest, ListMore, Value, Chunk
<1>2. /\ Still' <=> Still
      /\ \A q : Ask("request", "response", q)' <=> Ask("request", "response", q)
      /\ \A a, j : Wait("request", "response", a, j)' <=>
           Wait("request", "response", a, j)
  BY LinkSteady
<1>3. (\A q : Work(q)' <=> Work(q)) /\ (\A a, j : Ans(a, j)' <=> Ans(a, j))
  <2>1. (JobIdle' <=> JobIdle) /\ (Sm1Idle' <=> Sm1Idle)
    BY DEF Steady, JobIdle, LeftOver, IsFragment, IsSoeOf, Sm1Idle, Noise
  <2> QED BY <2>1 DEF Steady, Work, Ans
<1>4. \A k : ListComing(k) => ListComing(k)'
  <2>1. TAKE k
  <2>2. SUFFICES ASSUME ListComing(k) PROVE ListComing(k)'
    OBVIOUS
  <2>3. PICK q, a, j : q = ListJob(k) /\ a = ListFrag(k) /\ j = ListRest(k)
          /\ (Work(q) \/ Ans(a, j))
    BY <2>2 DEF ListComing
  <2>4. Work(q)' \/ Ans(a, j)'
    BY <1>3, <2>3
  <2>5. q = ListJob(k)' /\ a = ListFrag(k)' /\ j = ListRest(k)'
    BY <1>t, <2>3
  <2> QED BY <2>4, <2>5 DEF ListComing
<1>5. ListAsked => ListAsked'
  <2>1. ListJob(sent)' = ListJob(sent)
    BY <1>1 DEF ListJob
  <2> QED BY <1>2, <2>1 DEF ListAsked
<1>6. ListSent => ListSent'
  <2>1. ListFrag(sent)' = ListFrag(sent) /\ ListRest(sent)' = ListRest(sent)
    BY <1>1 DEF ListFrag, ListRest, ListJob, ListMore, Value, Chunk
  <2> QED BY <1>2, <2>1 DEF ListSent
<1>7. ListNext => ListNext'
  <2>1. SUFFICES ASSUME ListNext PROVE ListNext'
    OBVIOUS
  <2>2. PICK k : k = sent
    OBVIOUS
  <2>3. ListComing(k)'
    BY <1>4, <2>1, <2>2 DEF ListNext
  <2>4. k = sent'
    BY <1>1, <2>2
  <2> QED BY <1>1, <2>1, <2>3, <2>4 DEF ListNext, Heard
<1>8. ListCome => ListCome'
  <2>1. SUFFICES ASSUME ListCome PROVE ListCome'
    OBVIOUS
  <2>2. PICK k : k = sent + 1
    OBVIOUS
  <2>3. ListComing(k) => ListComing(k)'
    BY <1>4
  <2>4. k = (sent + 1)' /\ ListMore(sent)' = ListMore(sent)
          /\ ListFrag(sent)' = ListFrag(sent)
    BY <1>1, <2>2 DEF ListFrag, ListMore, Value, Chunk
  <2>5. ListComing(k)' => ListComing(sent + 1)'
    BY <2>4
  <2>6. Come("response", ListFrag(sent))'
    BY <1>1, <2>1, <2>4 DEF ListCome, Come, Heard
  <2> QED BY <1>2, <2>1, <2>2, <2>3, <2>4, <2>5, <2>6 DEF ListCome
<1>9. (Listing => Listing') /\ (ListAll => ListAll') /\ (Draining => Draining')
  BY <1>1, <1>2 DEF Listing, ListAll, Draining
<1> QED BY <1>1, <1>2, <1>5, <1>6, <1>7, <1>8, <1>9 DEF ListTalk

(* What a call has been told before the slave went away is right. *)
ListTold ==
  wkc > 0 => /\ pc = "returned" => ListAll
             /\ At("response") => Listing /\ mbxIn = ListFrag(sent)

(* While nothing goes wrong, what was received is the slave's list. *)
LEMMA ListTells == LinkOK /\ ListTalk => ListTold
BY ListPlaces DEF ListCome, Come, ListTold

(* Without the slave, the steps keep what was received. *)
LEMMA ListToldStep ==
  ASSUME ListFits, StoredOK, wkc \in Int, ListCall, ListTold,
         pc \in {"drain", "request", "response", "more", "returned"}, Services
  PROVE  ListTold' /\ call' = call
<1>0. Value \in Values /\ Len(Value) = NParts["od"]
  BY ListValue
<1>1. InfoRequest \/ ListReceived \/ MoreOfList \/ InfoFails \/ Placed \/ NotPlaced
  BY Alone
    DEF ListCall, Services, InfoStep, DescriptionReceived, EntryReceived, NextEntry
<1>2. CASE InfoRequest \/ MoreOfList \/ Placed
  BY <1>2, Failing DEF InfoRequest, MoreOfList, Placed, Fails, ListTold, Post
<1>3. CASE ListReceived
  <2>1. Listing /\ mbxIn = ListFrag(sent)
    BY <1>3 DEF ListReceived, Answered, ListTold
  <2>2. mbxIn.data = Chunk(Value, sent) /\ (mbxIn.left > 0 <=> ListMore(sent))
    BY <2>1 DEF ListFrag
  <2>3. /\ buf' = Taken(Value, sent + 1, EC_MAXODLIST) /\ UNCHANGED <<call, stored>>
        /\ IF ListMore(sent) THEN pc' = "more" ELSE pc' = "returned"
    <3>1. IF ListMore(sent) /\ sent + 1 < MaxRounds THEN pc' = "more"
            ELSE pc' = "returned"
      BY <1>3, <2>2 DEF ListReceived, GoTo, Return
    <3> QED BY <1>0, <1>3, <2>1, <2>2, <3>1, ListJoins
        DEF ListReceived, Quiet, Report, LinkUnchanged, serverVars
  <2>4. Value' = Value
    BY <2>3 DEF Value
  <2>5. pc' = "returned" => ListAll'
    BY <1>0, <2>1, <2>3, <2>4, ListJoins DEF ListAll
  <2> QED BY <2>3, <2>5 DEF ListTold, At
<1>4. CASE InfoFails \/ NotPlaced
  <2>1. ~(wkc > 0) \/ ~InfoFails
    BY <1>4 DEF InfoFails, ListTold, IsInfoAnswer, ListFrag, ListCall
  <2>2. wkc' = wkc /\ ~(wkc > 0) /\ call' = call
    BY <2>1, <1>4 DEF InfoFails, NotPlaced, Return, ListCall
  <2> QED BY <2>2 DEF ListTold
<1> QED BY <1>1, <1>2, <1>3, <1>4
-----------------------------------------------------------------------------
(* Whatever happens, what is on its way are requests for entries and       *)
(* answers with as many as they should have.                               *)
ASeq(s) == \E S : s \in Seq(S)
(* A request of the service names the fragment to send. *)
IsRequest(m) == m = NoMsg \/ (m.op = "info" /\ m.num \in Nat \ {0})
(* An answer of the service brings entries: one, but for the list. *)
IsEntries(m) ==
  m.op = "info" => IF m.type = "ODlist" THEN ASeq(m.data)
    ELSE ASeq(m.data) /\ Len(m.data) = 1
(* The messages have their shape, whatever happens. *)
InfoShape ==
  /\ outbox = <<>> /\ StoredOK
  /\ IsRequest(job) /\ IsRequest(mbxOut.msg) /\ (sm0 # NoMsg => IsRequest(sm0.msg))
  /\ IsEntries(sm1) /\ IsEntries(lastOut) /\ IsEntries(mbxIn)
(* Where the call of an entry can be, *)
EntryPcs == {"drain", "request", "response", "entry", "returned"}
(* and that of the list. *)
ListPcs == {"drain", "request", "response", "more", "returned"}
(* What was received fits into the buffer, whatever happens. *)
InfoCalled ==
  \/ call.kind = "none" /\ pc = "returned"
  \/ /\ ListCall /\ pc \in ListPcs
     /\ ASeq(buf) /\ Len(buf) <= call.room
  \/ /\ EntryCall /\ pc \in EntryPcs
     /\ ASeq(buf) /\ Len(buf) <= call.room
     /\ call.kind = "oe" /\ pc # "returned" => Len(buf) < call.room

(* Sequences, of whatever. *)
LEMMA ASeqs ==
  /\ ASeq(<<>>) /\ Len(<<>>) = 0
  /\ \A x : ASeq(<<x>>) /\ Len(<<x>>) = 1
  /\ \A s : ASeq(s) => Len(s) \in Nat
  /\ \A s, t : ASeq(s) /\ ASeq(t) => ASeq(s \o t) /\ Len(s \o t) = Len(s) + Len(t)
  /\ \A s, x : ASeq(s) => ASeq(Append(s, x)) /\ Len(Append(s, x)) = Len(s) + 1
  /\ \A s, n : ASeq(s) /\ n \in 0..Len(s) =>
       ASeq(SubSeq(s, 1, n)) /\ Len(SubSeq(s, 1, n)) = n
<1>1. ASeq(<<>>) /\ Len(<<>>) = 0
  <2>1. <<>> \in Seq({})
    OBVIOUS
  <2> QED BY <2>1 DEF ASeq
<1>2. ASSUME NEW x PROVE ASeq(<<x>>) /\ Len(<<x>>) = 1
  <2>1. <<x>> \in Seq({x})
    OBVIOUS
  <2> QED BY <2>1 DEF ASeq
<1>3. ASSUME NEW s, ASeq(s) PROVE Len(s) \in Nat
  BY <1>3 DEF ASeq
<1>4. ASSUME NEW s, NEW t, ASeq(s), ASeq(t) PROVE ASeq(s \o t)
               /\ Len(s \o t) = Len(s) + Len(t)
  <2>1. PICK S : s \in Seq(S)
    BY <1>4 DEF ASeq
  <2>2. PICK T : t \in Seq(T)
    BY <1>4 DEF ASeq
  <2>3. s \in Seq(S \cup T) /\ t \in Seq(S \cup T)
    <3>1. S \subseteq S \cup T /\ T \subseteq S \cup T
      OBVIOUS
    <3> QED BY <2>1, <2>2, <3>1, SeqMonotonic
  <2>4. s \o t \in Seq(S \cup T) /\ Len(s \o t) = Len(s) + Len(t)
    BY <2>3
  <2> QED BY <2>4 DEF ASeq
<1>5. ASSUME NEW s, NEW x, ASeq(s) PROVE ASeq(Append(s, x))
               /\ Len(Append(s, x)) = Len(s) + 1
  <2>1. PICK S : s \in Seq(S)
    BY <1>5 DEF ASeq
  <2>3. s \in Seq(S \cup {x})
    <3>1. S \subseteq S \cup {x}
      OBVIOUS
    <3> QED BY <2>1, <3>1, SeqMonotonic
  <2>4. Append(s, x) \in Seq(S \cup {x}) /\ Len(Append(s, x)) = Len(s) + 1
    BY <2>3
  <2> QED BY <2>4 DEF ASeq
<1>6. ASSUME NEW s, NEW n, ASeq(s), n \in 0..Len(s)
      PROVE ASeq(SubSeq(s, 1, n)) /\ Len(SubSeq(s, 1, n)) = n
  <2>1. PICK S : s \in Seq(S)
    BY <1>6 DEF ASeq
  <2>2. Len(s) \in Nat /\ n \in Nat /\ n <= Len(s)
    BY <1>6, <2>1
  <2>3. \A i \in 1..n : s[i] \in S
    BY <2>1, <2>2
  <2>4. SubSeq(s, 1, n) \in Seq(S) /\ Len(SubSeq(s, 1, n)) = IF 1 <= n
          THEN n - 1 + 1 ELSE 0
    BY <2>2, <2>3, SubSeqProperties
  <2> QED BY <2>2, <2>4 DEF ASeq
<1> QED BY <1>1, <1>2, <1>3, <1>4, <1>5, <1>6

(* A chunk of a value is a sequence. *)
LEMMA ChunkSeq ==
  ASSUME NEW v \in Values, NEW k \in Nat
  PROVE  ASeq(Chunk(v, k))
<1>1. PICK m, n : m = k * M + 1 /\ n = IF (k + 1) * M < Len(v) THEN (k + 1) * M
        ELSE Len(v)
  OBVIOUS
<1>2. m \in Nat \ {0} /\ n \in Nat /\ n <= Len(v) /\ v \in Seq(ValuePart)
  <2>1. k * M \in Nat /\ (k + 1) * M \in Nat
    BY FullMailboxes
  <2>2. Len(v) \in Nat
    BY DEF Values
  <2> QED BY <1>1, <2>1, <2>2 DEF Values
<1>3. \A i \in m..n : v[i] \in ValuePart
  BY <1>2
<1>4. SubSeq(v, m, n) \in Seq(ValuePart)
  BY <1>2, <1>3, SubSeqProperties
<1> QED BY <1>1, <1>4 DEF Chunk, ASeq

(* The messages that bring no entries. *)
LEMMA NotEntries == IsEntries(NoMsg) /\ IsEntries(Emcy) /\ IsEntries(MbxError)
  /\ IsRequest(NoMsg)
                    /\ IsEntries([op |-> "infoError"])
BY DEF IsEntries, NoMsg, Emcy, MbxError, IsRequest

(* A transport only moves messages on. *)
LEMMA Moved ==
  ASSUME (Transports /\ Others) \/ Frames, family = "info", outbox = <<>>
  PROVE  /\ outbox' = outbox /\ mbxOut' = mbxOut
         /\ sm0' = sm0 \/ sm0' = NoMsg \/ sm0' = mbxOut
         /\ job' = job \/ job' = NoMsg \/ (sm0 # NoMsg /\ job' = sm0.msg)
         /\ sm1' \in {sm1, NoMsg, lastOut, Emcy} /\ lastOut' \in {lastOut, Emcy}
         /\ mbxIn' \in {mbxIn, sm1}
<1>1. CASE LinkStep
  BY <1>1 DEF LinkStep, MbxEmpty, MbxWrite, MbxAvail, MbxRead, MbxRepeat, MbxAck,
    MbxAgain, slaveVars
<1>2. CASE Expire
  BY <1>2 DEF Expire, slaveVars
<1>3. CASE Take
  BY <1>3 DEF Take, masterVars
<1>4. CASE Repeat
  BY <1>4 DEF Repeat, masterVars
<1>5. CASE Emergency
  BY <1>5 DEF Emergency, masterVars
<1>6. ~SendOut /\ ~Frames
  BY DEF SendOut, Frames
<1> QED BY <1>1, <1>2, <1>3, <1>4, <1>5, <1>6 DEF Transports

(* The link layer keeps the shape of the messages. *)
LEMMA ShapeMoved ==
  ASSUME (Transports /\ Others) \/ Frames, family = "info", InfoShape
  PROVE  InfoShape'
<1>1. UNCHANGED stored
  BY SamePc
<1>2. StoredOK'
  BY <1>1 DEF StoredOK, InfoShape
<1>3. IsRequest(job)' /\ IsRequest(mbxOut'.msg)
        /\ (sm0' # NoMsg => IsRequest(sm0'.msg))
  BY Moved, NotEntries DEF InfoShape
<1>4. IsEntries(sm1') /\ IsEntries(lastOut') /\ IsEntries(mbxIn')
  BY Moved, NotEntries DEF InfoShape
<1>5. outbox' = <<>>
  BY Moved DEF InfoShape
<1> QED BY <1>2, <1>3, <1>4, <1>5 DEF InfoShape, IsRequest, IsEntries

(* What the slave answers. *)
LEMMA ShapeServed ==
  ASSUME ListFits, family = "info", InfoShape, Serves,
           UNCHANGED <<callVars, sessionVars, eoeVars>>
  PROVE  InfoShape'
<1>j. job # NoMsg /\ job.op = "info" /\ job.num \in Nat \ {0}
  BY ServesWork DEF InfoShape, IsRequest
<1>0. ServeInfo \/ (Reject /\ UNCHANGED serverVars)
  BY <1>j, Unserved DEF Serves, SdoOps
<1>1. UNCHANGED <<stored, sm0, outbox, mbxOut, mbxIn>>
  BY <1>0 DEF ServeInfo, ServeList, ServeDescription, Respond, RespondAndGoOn,
    Spoil, Reject, serverVars, masterVars
<1>2. StoredOK'
  BY <1>1 DEF StoredOK, InfoShape
<1>3. IsRequest(job') /\ IsEntries(sm1') /\ lastOut' = sm1'
  <2>1. CASE Reject
    BY <2>1, NotEntries DEF Reject, Spoil
  <2>2. CASE job.op = "info" /\ Spoil([op |-> "infoError"])
    BY <2>2, NotEntries DEF Spoil
  <2>3. CASE ServeDescription
    <3>1. PICK x : sm1' = [op |-> "info", type |-> job.type, data |-> <<x>>]
            /\ lastOut' = sm1' /\ job' = NoMsg
      BY <2>3 DEF ServeDescription, Respond, RespondAndGoOn
    <3>2. IsEntries(sm1')
      BY <3>1, ASeqs DEF IsEntries
    <3> QED BY <3>1, <3>2, NotEntries
  <2>4. CASE ServeList
    <3>1. PICK k \in Nat : k = job.num - 1
      BY <1>j
    <3>2. /\ sm1'.op = "info" /\ sm1'.data = Chunk(stored["od"], k)
               /\ sm1'.type = "ODlist"
          /\ lastOut' = sm1'
          /\ job' = NoMsg \/ (job'.op = "info" /\ job'.num = job.num + 1)
      BY <2>4, <3>1 DEF ServeList, RespondAndGoOn
    <3>3. ASeq(Chunk(stored["od"], k))
      <4>1. PICK v : v = stored["od"] /\ v \in Values
        BY DEF InfoShape, StoredOK, ListFits
      <4> QED BY <4>1, ChunkSeq
    <3>4. IsEntries(sm1')
      BY <3>2, <3>3 DEF IsEntries
    <3> QED BY <1>j, <3>2, <3>4, NotEntries DEF IsRequest
  <2> QED BY <1>0, <2>1, <2>2, <2>3, <2>4 DEF ServeInfo
<1> QED BY <1>1, <1>2, <1>3 DEF InfoShape, IsRequest, IsEntries

(* Calls of the SDO information service, one after the other. *)
InfoObjects == SdoObjects /\ ListFits

(* The calls of the other services make no step. *)
LEMMA InfoOnly ==
  ASSUME InfoCalled
  PROVE  /\ ~SdoStep /\ ~PdoStep /\ ~FoeStep /\ ~SoeStep /\ ~EoeStep
         /\ pc \in EntryPcs \cup ListPcs
         /\ call.kind \in {"none", "ODlist", "od", "oe"}
<1>1. call.kind \in {"none", "ODlist", "od", "oe"}
  BY DEF InfoCalled, ListCall, EntryCall
<1>2. pc \in EntryPcs \cup ListPcs
  BY DEF InfoCalled, ListPcs, EntryPcs
<1>3. ~SdoStep /\ ~PdoStep /\ ~FoeStep /\ ~SoeStep /\ ~EoeStep
  BY <1>1, <1>2, Alone DEF ListPcs, EntryPcs
<1> QED BY <1>1, <1>2, <1>3

(* A call begins with an empty buffer, and empties the mailbox. *)
LEMMA InfoBegins ==
  ASSUME InfoObjects, Session, family = "info", Calls
  PROVE  /\ InfoCalled' /\ Session'
         /\ pc = "returned" /\ pc' = "drain" /\ StartReceive("expired")
              /\ buf' = <<>> /\ sent' = 0
         /\ UNCHANGED <<stored, xfer, frames, family>> /\ calls' # 0 /\ wkc' = 0
         /\ call'.kind # "none" /\ mbxIn' = NoMsg
<1>0. InfoCalls /\ UNCHANGED <<eoeVars, family>> /\ calls' = calls + 1
  BY DEF Calls, Call
<1>c. calls \in Nat /\ frames' = frames
  BY <1>0 DEF Session, eoeVars
<1>1. PICK c : /\ Enter(c)
              /\ \/ c = [kind |-> "ODlist", obj |-> "od", room |-> EC_MAXODLIST]
                 \/ \E o \in SdoObj : \/ c = [kind |-> "od", obj |-> o, room |-> 1]
                                      \/ c = [kind |-> "oe", obj |-> o, room |-> NParts[o]]
  BY <1>0 DEF InfoCalls, ReadODlist, ReadODdescription, ReadOE
<1>2. call' = c /\ pc = "returned" /\ pc' = "drain" /\ StartReceive("expired")
        /\ buf' = <<>> /\ sent' = 0
      /\ UNCHANGED <<stored, xfer>> /\ wkc' = 0 /\ mbxIn' = NoMsg
  BY <1>1 DEF Enter, serverVars, StartReceive
<1>b. ASeq(buf') /\ Len(buf') = 0
  BY <1>2, ASeqs
<1>3. InfoCalled'
  <2>1. CASE c = [kind |-> "ODlist", obj |-> "od", room |-> EC_MAXODLIST]
    <3>1. ListCall' /\ Len(buf') <= call'.room
      BY <1>0, <1>2, <1>b, <2>1 DEF ListCall, InfoObjects, ListFits
    <3> QED BY <1>2, <1>b, <3>1 DEF InfoCalled, ListPcs, ASeq
  <2>2. CASE \E o \in SdoObj : \/ c = [kind |-> "od", obj |-> o, room |-> 1]
                               \/ c = [kind |-> "oe", obj |-> o, room |-> NParts[o]]
    <3>1. EntryCall' /\ call'.obj \in SdoObj
            /\ (call'.room = 1 \/ call'.room = NParts[call'.obj])
      BY <1>0, <1>2, <2>2 DEF EntryCall
    <3>2. NParts[call'.obj] \in Nat \ {0}
      BY <3>1, MbxCallConstants DEF InfoObjects, SdoObjects
    <3>3. Len(buf') < call'.room
      BY <1>b, <3>1, <3>2
    <3>4. Len(buf') <= call'.room
      BY <1>b, <3>1, <3>2
    <3> QED BY <1>2, <1>b, <3>1, <3>3, <3>4 DEF InfoCalled, EntryPcs, ASeq
  <2> QED BY <1>1, <2>1, <2>2
<1>4. calls' # 0 /\ calls' \in Nat /\ call'.kind # "none"
  BY <1>0, <1>1, <1>2, <1>c
<1>5. Session'
  BY <1>2, <1>4, <1>c DEF Session, Unheard
<1> QED BY <1>0, <1>2, <1>3, <1>4, <1>5, <1>c

(* A step of a function of the service. *)
LEMMA InfoTurn ==
  ASSUME InfoObjects, InfoShape, InfoCalled, InfoStep \/ Placed \/ NotPlaced,
           UNCHANGED family
  PROVE  InfoShape' /\ InfoCalled' /\ call' = call
<1>1. CASE InfoRequest
  <2>1. PICK n : mbxOut'.msg = [op |-> "info", type |-> call.kind,
          obj |-> call.obj, num |-> n]
                 /\ n = IF call.kind = "oe" THEN Len(buf) + 1 ELSE 1
    BY <1>1 DEF InfoRequest, Post, StartSend
  <2>2. n \in Nat \ {0}
    BY <1>1, <2>1, ASeqs DEF InfoCalled, InfoRequest, At
  <2>3. UNCHANGED <<call, buf, stored, sm0, sm1, lastOut, outbox, job>>
          /\ mbxIn' = NoMsg /\ pc' = "request"
        /\ pc = "drain"
    BY <1>1 DEF InfoRequest, Post, StartSend, serverVars, slaveVars, At
  <2>4. IsRequest(mbxOut'.msg)
    BY <2>1, <2>2 DEF IsRequest
  <2>5. InfoShape'
    BY <2>3, <2>4, NotEntries DEF InfoShape, StoredOK, IsEntries, IsRequest
  <2>6. InfoCalled'
    BY <2>3 DEF InfoCalled, ListCall, EntryCall, ListPcs, EntryPcs
  <2> QED BY <2>3, <2>5, <2>6
<1>2. CASE ~InfoRequest
  <2>1. /\ UNCHANGED <<call, stored, sm0, sm1, lastOut, outbox, job, mbxOut>>
        /\ mbxIn' \in {mbxIn, NoMsg}
    BY <1>2 DEF InfoStep, ListReceived, MoreOfList, DescriptionReceived, InfoFails,
      EntryReceived, NextEntry,
         EntryDone, Placed, NotPlaced, GoTo, Return, StartReceive, Quiet, Report,
         LinkUnchanged, serverVars, slaveVars, masterVars
  <2>2. InfoShape'
    BY <2>1, NotEntries DEF InfoShape, StoredOK, IsEntries, IsRequest
  <2>3. (ListCall' <=> ListCall) /\ (EntryCall' <=> EntryCall)
    BY <2>1 DEF ListCall, EntryCall
  <2>m. IsEntries(mbxIn)
    BY DEF InfoShape
  <2>b. ASeq(buf) => Len(buf) \in Nat
    BY ASeqs
  <2>4. CASE ListCall
    <3>1. ASeq(buf) /\ Len(buf) <= call.room /\ call.room = EC_MAXODLIST
            /\ EC_MAXODLIST \in Nat /\ Len(buf) \in Nat
          /\ pc \in ListPcs /\ call.kind = "ODlist"
      BY <2>4, <2>b DEF InfoCalled, ListCall, EntryCall, InfoObjects, ListFits
    <3>2. CASE ListReceived
      <4>1. ASeq(mbxIn.data) /\ buf' = buf \o Trimmed(mbxIn.data) /\ pc' \in ListPcs
        BY <2>m, <3>1, <3>2
          DEF ListReceived, IsInfoAnswer, IsEntries, GoTo, Return, ListPcs
      <4>2. PICK d : d = mbxIn.data
        OBVIOUS
      <4>3. ASeq(Trimmed(d)) /\ Len(buf) + Len(Trimmed(d)) <= EC_MAXODLIST
        <5>1. ASeq(d) /\ Len(d) \in Nat
          BY <4>1, <4>2, ASeqs
        <5>2. CASE Len(buf) + Len(d) > EC_MAXODLIST
          <6>1. EC_MAXODLIST - Len(buf) \in 0..Len(d)
            BY <3>1, <5>1, <5>2
          <6>2. Trimmed(d) = SubSeq(d, 1, EC_MAXODLIST - Len(buf))
            BY <5>2 DEF Trimmed
          <6>3. ASeq(Trimmed(d)) /\ Len(Trimmed(d)) = EC_MAXODLIST - Len(buf)
            BY <5>1, <6>1, <6>2, ASeqs
          <6> QED BY <3>1, <6>3
        <5>3. CASE ~(Len(buf) + Len(d) > EC_MAXODLIST)
          BY <3>1, <5>1, <5>3 DEF Trimmed
        <5> QED BY <5>2, <5>3
      <4>4. ASeq(buf') /\ Len(buf') <= EC_MAXODLIST
        BY <3>1, <4>1, <4>2, <4>3, ASeqs
      <4> QED BY <2>1, <2>2, <2>3, <2>4, <3>1, <4>1, <4>4 DEF InfoCalled
    <3>3. CASE ~ListReceived
      <4>1. buf' = buf /\ pc' \in ListPcs
        BY <1>2, <3>1, <3>3, Alone DEF InfoStep, MoreOfList, DescriptionReceived,
          InfoFails, EntryReceived, NextEntry,
           Placed, NotPlaced, Return, ListPcs
      <4> QED BY <2>1, <2>2, <2>3, <2>4, <3>1, <4>1 DEF InfoCalled
    <3> QED BY <3>2, <3>3
  <2>5. CASE EntryCall
    <3>1. ASeq(buf) /\ Len(buf) <= call.room /\ Len(buf) \in Nat /\ pc \in EntryPcs
          /\ (call.kind = "oe" /\ pc # "returned" => Len(buf) < call.room)
          /\ call.kind \in {"od", "oe"}
               /\ (call.kind = "oe" => call.room = NParts[call.obj])
      BY <2>5, <2>b DEF InfoCalled, ListCall, EntryCall
    <3>r. call.room \in Nat \ {0} /\ (call.kind = "od" => call.room = 1)
      BY <2>5, MbxCallConstants DEF EntryCall, InfoObjects, SdoObjects
    <3>2. CASE DescriptionReceived
      <4>1. ASeq(buf') /\ Len(buf') = 1 /\ pc' \in EntryPcs /\ call.kind = "od"
        BY <2>m, <3>1, <3>2
          DEF DescriptionReceived, IsInfoAnswer, IsEntries, Return, EntryPcs
      <4> QED BY <2>1, <2>2, <2>3, <2>5, <3>r, <4>1 DEF InfoCalled
    <3>3. CASE EntryReceived \/ (InfoFails /\ call.kind = "oe")
      <4>1. /\ ASeq(buf') /\ Len(buf') = Len(buf) + 1 /\ call.kind = "oe"
            /\ pc' = IF LastEntry THEN "returned" ELSE "entry"
        <5>1. CASE EntryReceived
          <6>1. ASeq(mbxIn.data) /\ Len(mbxIn.data) = 1
                  /\ buf' = buf \o mbxIn.data /\ call.kind = "oe"
            BY <2>m, <5>1 DEF EntryReceived, IsInfoAnswer, IsEntries
          <6>2. pc' = IF LastEntry THEN "returned" ELSE "entry"
            BY <5>1 DEF EntryReceived, EntryDone, GoTo, Return
          <6>3. ASeq(buf \o mbxIn.data)
                  /\ Len(buf \o mbxIn.data) = Len(buf) + Len(mbxIn.data)
            BY <3>1, <6>1, ASeqs
          <6> QED BY <6>1, <6>2, <6>3
        <5>2. CASE InfoFails /\ call.kind = "oe"
          <6>1. buf' = Append(buf, NoEntry)
            BY <5>2 DEF InfoFails
          <6>2. pc' = IF LastEntry THEN "returned" ELSE "entry"
            BY <5>2 DEF InfoFails, EntryDone, GoTo, Return
          <6>3. ASeq(Append(buf, NoEntry))
                  /\ Len(Append(buf, NoEntry)) = Len(buf) + 1
            BY <3>1, ASeqs
          <6> QED BY <5>2, <6>1, <6>2, <6>3
        <5> QED BY <3>3, <5>1, <5>2
      <4>2. pc # "returned"
        BY <3>3 DEF EntryReceived, InfoFails, Answered, At
      <4>3. Len(buf') <= call.room /\ (pc' # "returned" => Len(buf') < call.room)
        BY <3>1, <3>r, <4>1, <4>2 DEF LastEntry
      <4> QED BY <2>1, <2>2, <2>3, <2>5, <4>1, <4>3 DEF InfoCalled, EntryPcs
    <3>4. CASE ~DescriptionReceived /\ ~EntryReceived
                 /\ ~(InfoFails /\ call.kind = "oe")
      <4>1. buf' = buf /\ pc' \in EntryPcs /\ pc # "returned"
        BY <1>2, <3>1, <3>4
          DEF InfoStep, MoreOfList, ListReceived, InfoFails, NextEntry,
           Placed, NotPlaced, Return, EntryPcs, Answered, At
      <4> QED BY <2>1, <2>2, <2>3, <2>5, <3>1, <4>1 DEF InfoCalled
    <3> QED BY <3>2, <3>3, <3>4
  <2>6. CASE call.kind = "none" /\ pc = "returned"
    BY <2>6 DEF InfoStep, InfoRequest, ListReceived, MoreOfList,
      DescriptionReceived, InfoFails, EntryReceived, NextEntry,
         Placed, NotPlaced, At, Answered
  <2> QED BY <2>4, <2>5, <2>6 DEF InfoCalled
<1> QED BY <1>1, <1>2

(* The conversation of whatever call it is. *)
InfoTalk ==
  \/ call.kind = "none" /\ pc = "returned" /\ Still
  \/ ListCall /\ ListTalk
  \/ EntryCall /\ EntryTalk
(* What the calls show after the loss of the slave. *)
InfoTold == (ListCall => ListTold) /\ (EntryCall => EntryTold)
(* While nothing went wrong, the conversation goes as it should; *)
InfoGood == Good => LinkOK /\ InfoTalk
(* after the slave was lost, what was received is still right. *)
InfoDead == Watched /\ ~alive => InfoTold
(* The inductive invariant of the SDO information service. *)
InfoInv == family = "info" =>
  Session /\ InfoShape /\ InfoCalled /\ InfoGood /\ InfoDead

(* The call is of one kind. *)
LEMMA InfoKinds ==
  /\ UNCHANGED <<call, family>> =>
       (ListCall' <=> ListCall) /\ (EntryCall' <=> EntryCall)
  /\ ~(ListCall /\ EntryCall) /\ (call.kind = "none" => ~ListCall /\ ~EntryCall)
  /\ UNCHANGED <<call, pc, buf, family>> /\ InfoCalled => InfoCalled'
<1>1. UNCHANGED <<call, family>> =>
        (ListCall' <=> ListCall) /\ (EntryCall' <=> EntryCall)
  BY DEF ListCall, EntryCall
<1>2. ~(ListCall /\ EntryCall) /\ (call.kind = "none" => ~ListCall /\ ~EntryCall)
  BY DEF ListCall, EntryCall
<1>3. UNCHANGED <<call, pc, buf, family>> /\ InfoCalled => InfoCalled'
  BY <1>1 DEF InfoCalled, ASeq
<1> QED BY <1>1, <1>2, <1>3

(* The messages and the buffer stay what they are, whatever happens. *)
LEMMA InfoKeeps ==
  ASSUME InfoObjects, Session, family = "info", InfoShape, InfoCalled,
           [Next]_allVars
  PROVE  InfoShape' /\ InfoCalled'
<1>f. family' = family
  BY FamilyStays
<1>p. UNCHANGED <<call, pc, buf>> => InfoCalled'
  BY <1>f, InfoKinds
<1>q. UNCHANGED <<outbox, stored, job, mbxOut, sm0, sm1, lastOut>>
        /\ mbxIn' \in {mbxIn, NoMsg} => InfoShape'
  BY NotEntries DEF InfoShape, StoredOK, IsRequest, IsEntries
<1>1. CASE Calls
  <2>1. UNCHANGED <<outbox, stored, job, mbxOut, sm0, sm1, lastOut>>
          /\ mbxIn' = NoMsg
    BY <1>1, InfoBegins DEF StartReceive, slaveVars
  <2> QED BY <1>1, <1>q, <2>1, InfoBegins
<1>2. CASE PopError
  <2>1. UNCHANGED <<outbox, stored, job, mbxOut, sm0, sm1, lastOut, mbxIn, call,
                    pc, buf>>
    BY <1>2 DEF PopError, LinkUnchanged, slaveVars, masterVars, callVars, serverVars
  <2> QED BY <1>p, <1>q, <2>1
<1>3. CASE Services
  <2>1. InfoStep \/ Placed \/ NotPlaced
    BY <1>3, InfoOnly DEF Services
  <2> QED BY <1>f, <2>1, InfoTurn
<1>4. CASE (Transports /\ Others) \/ Frames
  BY <1>4, <1>p, ShapeMoved, SamePc
<1>5. CASE Serves /\ UNCHANGED <<callVars, sessionVars, eoeVars>>
  BY <1>5, <1>p, ShapeServed, ServedSame DEF InfoObjects
<1>6. ~SetUp /\ ~EoeStep
  BY InfoOnly DEF SetUp
<1>7. CASE Die /\ Others
  <2>1. UNCHANGED <<outbox, stored, job, mbxOut, sm0, sm1, lastOut, mbxIn, call,
                    pc, buf>>
    BY <1>7, Aside DEF Die, masterVars
  <2> QED BY <1>p, <1>q, <2>1
<1>8. CASE UNCHANGED allVars
  <2>1. UNCHANGED <<outbox, stored, job, mbxOut, sm0, sm1, lastOut, mbxIn, call,
                    pc, buf>>
    BY <1>8 DEF allVars, mbxVars, slaveVars, masterVars, callVars, serverVars
  <2> QED BY <1>p, <1>q, <2>1
<1> QED BY <1>1, <1>2, <1>3, <1>4, <1>5, <1>6, <1>7, <1>8, Steps

(* When a call has returned, nothing is on its way. *)
LEMMA InfoReturned ==
  ASSUME LinkOK, InfoTalk, pc = "returned"
  PROVE  Still
BY ListPlaces, EntryPlaces DEF InfoTalk

(* While nothing goes wrong, every step keeps the conversation as it       *)
(* should be.                                                              *)
LEMMA InfoGoesOn ==
  ASSUME InfoObjects, InfoInv, family = "info", [Next]_allVars, Good, Good'
  PROVE  LinkOK' /\ InfoTalk'
<1>0. LinkOK /\ StoredOK /\ InfoTalk /\ InfoCalled /\ Session
        /\ family' = family /\ SdoObjects /\ ListFits
  BY SessionKept DEF InfoInv, InfoGood, InfoShape, InfoObjects
<1>c. UNCHANGED call => (ListCall' <=> ListCall) /\ (EntryCall' <=> EntryCall)
  BY <1>0, InfoKinds
<1>1. CASE Calls
  <2>0. /\ InfoCalled' /\ pc' = "drain" /\ StartReceive("expired")
             /\ buf' = <<>> /\ sent' = 0
        /\ UNCHANGED <<stored, frames, family>> /\ calls' # 0 /\ pc = "returned"
             /\ call'.kind # "none"
    BY <1>0, <1>1, InfoBegins
  <2>1. link = "done" /\ Still
    BY <1>0, <2>0, InfoReturned DEF LinkOK, Places
  <2>2. LinkOK' /\ Receiving' /\ Still'
    BY <1>0, <2>0, <2>1, Waits
  <2>3. Draining'
    BY <2>0, <2>2 DEF Draining, Free
  <2>s. StoredOK'
    BY <1>0, <2>0 DEF StoredOK
  <2>4. ListCall' => ListTalk'
    <3>1. SUFFICES ASSUME ListCall' PROVE ListTalk'
      OBVIOUS
    <3>2. stored["od"] \in Values
      BY <1>0 DEF StoredOK, ListFits
    <3>3. Value' = stored["od"] /\ EC_MAXODLIST \in Nat
      BY <1>0, <2>0, <3>1 DEF ListCall, Value, ListFits
    <3>4. Taken(stored["od"], 0, EC_MAXODLIST) = <<>> /\ 0 * M = 0
            /\ Len(stored["od"]) \in Nat
      <4>1. Taken(stored["od"], 0, EC_MAXODLIST) = <<>>
        BY <3>2, <3>3, TakenEnds
      <4>2. 0 * M = 0
        BY FullMailboxes
      <4>3. Len(stored["od"]) \in Nat
        BY <3>2 DEF Values
      <4> QED BY <4>1, <4>2, <4>3
    <3>5. Taken(Value, sent, EC_MAXODLIST)' = Taken(stored["od"], 0, EC_MAXODLIST)
      BY <2>0, <3>3 DEF Taken
    <3>6. Listing'
      BY <2>0, <3>3, <3>4, <3>5 DEF Listing
    <3> QED BY <2>0, <2>3, <3>6 DEF ListTalk
  <2>5. EntryCall' => EntryTalk'
    <3>1. SUFFICES ASSUME EntryCall' PROVE EntryTalk'
      OBVIOUS
    <3>2. Value' \in Values /\ Len(Value') \in Nat \ {0}
      <4>1. call'.obj \in SdoObj
        BY <3>1 DEF EntryCall
      <4>2. stored'[call'.obj] \in Values
              /\ Len(stored'[call'.obj]) = NParts[call'.obj]
            /\ NParts[call'.obj] \in Nat \ {0}
        BY <1>0, <2>s, <4>1, MbxCallConstants DEF StoredOK, SdoObjects
      <4> QED BY <4>2 DEF Value
    <3>3. SubSeq(Value', 1, 0) = <<>> /\ Len(<<>>) = 0
      BY SubSeqEmpty
    <3>4. Entering'
      BY <2>0, <3>2, <3>3 DEF Entering
    <3> QED BY <2>3, <3>4 DEF EntryTalk
  <2> QED BY <2>0, <2>2, <2>4, <2>5 DEF InfoTalk, InfoCalled
<1>2. CASE PopError
  <2>1. /\ UNCHANGED <<pc, call, buf, sent, stored, wkc>> /\ pc = "returned"
             /\ Between
    <3>1. pc = "returned" /\ link = "done"
      BY <1>0, <1>2 DEF PopError, LinkOK, Places
    <3> QED BY <1>2, <3>1 DEF PopError, LinkUnchanged, masterVars, callVars,
        eoeVars, sessionVars, serverVars, Between, SlaveStays, slaveVars
  <2>2. LinkOK' /\ Still'
    BY <1>0, <2>1, InfoReturned, Pauses
  <2>3. (ListCall /\ ListTalk => ListTalk')
          /\ (EntryCall /\ EntryTalk => EntryTalk')
    BY <1>0, <2>1, <2>2, ListPlaces, EntryPlaces
      DEF ListTalk, EntryTalk, ListAll, Described, Value
  <2> QED BY <1>0, <1>c, <2>1, <2>2, <2>3 DEF InfoTalk
<1>3. CASE Services /\ UNCHANGED <<eoeVars, sessionVars>>
  <2>0. UNCHANGED <<frames, family, calls>>
    BY <1>3 DEF eoeVars, sessionVars
  <2>1. pc # "returned" /\ calls' # 0
    BY <1>0, <1>3, <2>0, ServicesTurn DEF Session
  <2>2. CASE ListCall /\ ListTalk
    BY <1>0, <1>3, <1>c, <2>0, <2>1, <2>2, ListSteps DEF InfoTalk
  <2>3. CASE EntryCall /\ EntryTalk
    BY <1>0, <1>3, <1>c, <2>0, <2>1, <2>3, EntrySteps DEF InfoTalk
  <2> QED BY <1>0, <2>1, <2>2, <2>3 DEF InfoTalk
<1>4. CASE (Transports /\ Others) \/ Frames
  <2>1. UNCHANGED <<pc, call>>
    BY <1>4, SamePc
  <2>2. LinkOK' /\ (Still /\ Free => Still')
    BY <1>0, <1>4, RestCarried
  <2>3. (ListTalk => ListTalk') /\ (EntryTalk => EntryTalk')
    BY <1>0, <1>4, ListCarried, EntryCarried
  <2>4. pc = "returned" => Free
    BY <1>0 DEF LinkOK, Places, Free
  <2> QED BY <1>0, <1>c, <2>1, <2>2, <2>3, <2>4 DEF InfoTalk
<1>5. CASE Serves /\ UNCHANGED <<callVars, sessionVars, eoeVars>>
  <2>1. UNCHANGED <<pc, call>>
    BY <1>5, ServedSame
  <2>2. clean'
    BY DEF Good, Watched
  <2>3. ~Still
    BY <1>5, ServesWork, NoLeftOvers DEF Still, JobIdle
  <2>4. CASE ListCall /\ ListTalk
    BY <1>0, <1>5, <1>c, <2>1, <2>2, <2>4, ListServed DEF InfoTalk
  <2>5. CASE EntryCall /\ EntryTalk
    BY <1>0, <1>5, <1>c, <2>1, <2>2, <2>5, EntryServed DEF InfoTalk
  <2> QED BY <1>0, <2>3, <2>4, <2>5 DEF InfoTalk
<1>6. ~SetUp /\ ~(Die /\ Others) /\ ~EoeStep
  BY <1>0, InfoOnly DEF SetUp, Die, Good
<1>7. CASE UNCHANGED allVars
  <2>1. Steady
    BY <1>7
      DEF Steady, allVars, mbxVars, slaveVars, masterVars, callVars, serverVars,
      eoeVars
  <2>2. LinkOK' /\ (Still => Still') /\ (ListTalk => ListTalk')
          /\ (EntryTalk => EntryTalk')
    BY <1>0, <2>1, ListSteady, EntrySteady, LinkSteady
  <2>3. UNCHANGED <<call, pc>>
    BY <2>1 DEF Steady
  <2> QED BY <1>0, <1>c, <2>2, <2>3 DEF InfoTalk
<1> QED BY <1>1, <1>2, <1>3, <1>4, <1>5, <1>6, <1>7, Steps

(* While nothing goes wrong, what was received is right. *)
LEMMA InfoTells == LinkOK /\ InfoTalk => InfoTold
BY ListTells, EntryTells, InfoKinds DEF InfoTalk, InfoTold

(* What the calls show stays when they make no step. *)
LEMMA ToldStays ==
  UNCHANGED <<pc, call, buf, sent, toggle, stored, link, wkc, mbxIn, family>>
    /\ InfoTold => InfoTold'
<1> SUFFICES ASSUME UNCHANGED <<pc, call, buf, sent, toggle, stored, link, wkc,
                                mbxIn, family>>, InfoTold
             PROVE  InfoTold'
  OBVIOUS
<1>1. ListTold => ListTold'
  BY DEF ListTold, At, ListAll, Listing, Value, ListFrag, ListMore, Chunk, Taken
<1>2. EntryTold => EntryTold'
  BY DEF EntryTold, At, Described, Entering, Value, EntryAnswer
<1> QED BY <1>1, <1>2, InfoKinds DEF InfoTold

(* After the loss of the slave every step keeps what the calls show. *)
LEMMA InfoToldGoesOn ==
  ASSUME InfoObjects, InfoInv, family = "info", [Next]_allVars, Watched, ~alive
  PROVE  InfoTold'
<1>0. InfoTold /\ InfoCalled /\ Session /\ family' = family /\ StoredOK
        /\ SdoObjects /\ ListFits
  BY SessionKept DEF InfoInv, InfoDead, InfoShape, InfoObjects
<1>c. UNCHANGED call => (ListCall' <=> ListCall) /\ (EntryCall' <=> EntryCall)
  BY <1>0, InfoKinds
<1>1. CASE Calls
  <2>1. wkc' = 0
    BY <1>0, <1>1, InfoBegins
  <2> QED BY <2>1 DEF InfoTold, ListTold, EntryTold
<1>2. CASE PopError
  BY <1>0, <1>2, ToldStays
    DEF PopError, LinkUnchanged, masterVars, callVars, serverVars
<1>3. CASE Services
  <2>1. wkc \in Int
    BY <1>0 DEF Session, Unheard
  <2>2. pc # "returned"
    BY <1>3, ServicesTurn
  <2>3. CASE ListCall
    <3>1. ListTold' /\ call' = call
      BY <1>0, <1>3, <2>1, <2>3, ListToldStep, InfoKinds
        DEF InfoTold, InfoCalled, ListPcs
    <3> QED BY <1>c, <2>3, <3>1, InfoKinds DEF InfoTold
  <2>4. CASE EntryCall
    <3>1. EntryTold' /\ call' = call
      BY <1>0, <1>3, <2>1, <2>4, EntryToldStep, InfoKinds
        DEF InfoTold, InfoCalled, EntryPcs
    <3> QED BY <1>c, <2>4, <3>1, InfoKinds DEF InfoTold
  <2> QED BY <1>0, <2>2, <2>3, <2>4 DEF InfoCalled
<1>4. CASE (Transports /\ Others) \/ Frames
  <2>1. UNCHANGED <<pc, call, buf, sent, toggle, stored, xfer, family>>
    BY <1>4, SamePc
  <2>2. ~(wkc' > 0) \/ (wkc' = wkc /\ link' = link /\ mbxIn' = mbxIn)
    BY <1>0, <1>4, TransportHears DEF Session
  <2>3. CASE ~(wkc' > 0)
    BY <2>3 DEF InfoTold, ListTold, EntryTold
  <2> QED BY <1>0, <2>1, <2>2, <2>3, ToldStays
<1>5. ~Serves
  BY ServesLeave DEF Leaves
<1>6. ~SetUp /\ ~(Die /\ Others) /\ ~EoeStep
  BY <1>0, InfoOnly DEF SetUp, Die
<1>7. CASE UNCHANGED allVars
  BY <1>0, <1>7, ToldStays DEF allVars, mbxVars, masterVars, callVars, serverVars
<1> QED BY <1>1, <1>2, <1>3, <1>4, <1>5, <1>6, <1>7, Steps

(* The invariant holds at first. *)
LEMMA InfoFirst == Init => InfoInv
<1> SUFFICES ASSUME Init PROVE InfoInv
  OBVIOUS
<1>1. Session /\ LinkOK /\ Still /\ StoredOK /\ call.kind = "none"
        /\ pc = "returned" /\ alive
  BY InitSession
<1>2. sm0 = NoMsg /\ sm1 = NoMsg /\ lastOut = NoMsg /\ job = NoMsg /\ outbox = <<>>
      /\ mbxOut.msg = NoMsg /\ mbxIn = NoMsg
  BY DEF Init, MailboxInit
<1>3. InfoShape
  BY <1>1, <1>2, NotEntries DEF InfoShape
<1> QED BY <1>1, <1>3 DEF InfoInv, InfoCalled, InfoGood, InfoDead, InfoTalk

(* Every step keeps the invariant. *)
LEMMA InfoKept == InfoObjects /\ InfoInv /\ [Next]_allVars => InfoInv'
<1> SUFFICES ASSUME InfoObjects, InfoInv, [Next]_allVars PROVE InfoInv'
  OBVIOUS
<1>1. family' = family
  BY FamilyStays
<1> SUFFICES ASSUME family = "info" PROVE InfoInv'
  BY <1>1 DEF InfoInv
<1>2. Session /\ InfoShape /\ InfoCalled /\ InfoGood /\ InfoDead
  BY DEF InfoInv
<1>3. Before /\ Session' /\ InfoShape' /\ InfoCalled'
  BY <1>2, InfoKeeps, InfoBegins, SessionKept
<1>4. InfoGood'
  <2>1. SUFFICES ASSUME Good' PROVE LinkOK' /\ InfoTalk'
    BY DEF InfoGood
  <2>2. Good
    BY <1>3, <2>1 DEF Before, Good
  <2> QED BY <2>1, <2>2, InfoGoesOn
<1>5. InfoDead'
  <2>1. SUFFICES ASSUME Watched', ~alive' PROVE InfoTold'
    BY DEF InfoDead
  <2>2. Watched
    BY <1>3, <2>1 DEF Before
  <2>3. CASE alive
    <3>1. Die /\ Others
      BY <1>2, <2>1, <2>3, OnlyDies
    <3>2. InfoTold
      BY <1>2, <2>2, <2>3, InfoTells DEF InfoGood, Good
    <3>3. UNCHANGED <<pc, call, buf, sent, toggle, stored, link, wkc, mbxIn,
            family>>
      BY <3>1, Aside DEF Die, masterVars
    <3> QED BY <3>2, <3>3, ToldStays
  <2>4. CASE ~alive
    BY <2>2, <2>4, InfoToldGoesOn
  <2> QED BY <2>3, <2>4
<1> QED BY <1>3, <1>4, <1>5 DEF InfoInv

(* The invariant implies what the runs check. *)
LEMMA InfoSuffices ==
  ASSUME InfoObjects, InfoInv, family = "info"
  PROVE  ReadIsRight /\ WriteIsDone /\ CallSucceeds
<1>0. Session /\ InfoShape /\ InfoCalled /\ InfoGood /\ InfoDead /\ StoredOK
        /\ SdoObjects /\ ListFits
  BY DEF InfoInv, InfoShape, InfoObjects
<1>u. Undisturbed => Watched
  BY DEF Undisturbed, Watched
<1>1. ASSUME call.kind # "none"
      PROVE  call.kind \in {"ODlist", "od", "oe"} /\ Len(buf) <= call.room
  BY <1>0, <1>1 DEF InfoCalled, ListCall, EntryCall
<1>2. ASSUME ListCall, Undisturbed, pc = "returned"
      PROVE  (wkc > 0 => buf = Asked) /\ (alive => wkc > 0)
  <2>1. ListAll => buf = Asked
    BY <1>2 DEF ListAll, Asked, ListCall, Value
  <2>2. CASE ~alive
    BY <1>0, <1>2, <1>u, <2>1, <2>2 DEF InfoDead, InfoTold, ListTold
  <2>3. CASE alive
    BY <1>0, <1>2, <1>u, <2>1, <2>3, ListPlaces, InfoKinds
      DEF InfoGood, Good, InfoTalk
  <2> QED BY <2>2, <2>3
<1>3. ASSUME EntryCall, Undisturbed, pc = "returned"
      PROVE  (wkc > 0 => buf = Asked) /\ (alive => wkc > 0)
  <2>v. Value \in Values /\ Len(Value) \in Nat \ {0}
          /\ Len(Value) = NParts[call.obj]
    BY <1>0, <1>3, ValueIs DEF EntryCall
  <2>1. Described => buf = Asked
    <3>1. CASE call.kind = "oe"
      BY <3>1 DEF Described, Asked, Value
    <3>2. CASE call.kind = "od"
      <4>1. call.room = 1 /\ Asked = IF 1 < Len(Value) THEN SubSeq(Value, 1, 1)
              ELSE Value
        BY <1>3, <3>2 DEF Asked, EntryCall, Value
      <4>2. ~(1 < Len(Value)) => SubSeq(Value, 1, 1) = Value
        <5>1. SUFFICES ASSUME ~(1 < Len(Value)) PROVE SubSeq(Value, 1, 1) = Value
          OBVIOUS
        <5>2. Len(Value) = 1 /\ 1 \in 0..Len(Value)
          BY <2>v, <5>1
        <5> QED BY <2>v, <5>2, FirstIs
      <4> QED BY <3>2, <4>1, <4>2 DEF Described
    <3> QED BY <1>3, <3>1, <3>2 DEF EntryCall
  <2>2. CASE ~alive
    BY <1>0, <1>3, <1>u, <2>1, <2>2 DEF InfoDead, InfoTold, EntryTold
  <2>3. CASE alive
    BY <1>0, <1>3, <1>u, <2>1, <2>3, EntryPlaces, InfoKinds
      DEF InfoGood, Good, InfoTalk
  <2> QED BY <2>2, <2>3
<1>4. call.kind # "none" => ListCall \/ EntryCall
  BY <1>0 DEF InfoCalled
<1>5. ReadIsRight
  BY <1>0, <1>1, <1>2, <1>3, <1>4 DEF ReadIsRight, Reads, Returned
<1>6. WriteIsDone
  BY <1>0, <1>1 DEF WriteIsDone, Writes, Returned
<1>7. CallSucceeds
  BY <1>1, <1>2, <1>3, <1>4 DEF CallSucceeds, Reads, Writes, Returned
<1> QED BY <1>5, <1>6, <1>7

(* Every behaviour with calls of the SDO information service               *)
(* (ecx_readODlist, ecx_readODdescription and ecx_readOE of ethercatcoe.c) *)
(* satisfies the invariant.                                                *)
THEOREM InfoInductive == ASSUME InfoObjects PROVE Spec => []InfoInv
<1>1. InfoInv /\ [Next]_allVars => InfoInv'
  BY InfoKept
<1> QED
  BY <1>1, InfoFirst, PTL DEF Spec

(* What the SDO information service delivers is right: the object list of  *)
(* ecx_readODlist is the slave's, its fragments put together in order up   *)
(* to the end of the array, and the descriptions are those of the entries  *)
(* asked for; and no array is written past its end, whatever happens to    *)
(* the messages.                                                           *)
THEOREM InfoReadIsRight == ASSUME InfoObjects PROVE Spec =>
  [](family = "info" => ReadIsRight)
BY InfoInductive, InfoSuffices, PTL
(* As long as nothing is lost beyond what the mailbox functions repeat,    *)
(* none of these calls fails.                                              *)
THEOREM InfoCallSucceeds == ASSUME InfoObjects PROVE Spec =>
  [](family = "info" => CallSucceeds)
BY InfoInductive, InfoSuffices, PTL

(* PDOs, one after the other. *)
PdoObject == "pdo" \in Obj
(* Where the call that sends a PDO can be, *)
RxPcs == {"drain", "sending", "returned"}
(* and the one that reads one. *)
TxPcs == {"drain", "request", "response", "returned"}
(* What was received fits into the buffer, whatever happens. *)
PdoCalled ==
  \/ call.kind = "none" /\ pc = "returned"
  \/ RxCall /\ pc \in RxPcs
  \/ TxCall /\ pc \in TxPcs /\ Len(buf) <= call.room
(* The conversation of whatever call it is. *)
PdoTalk ==
  \/ call.kind = "none" /\ pc = "returned" /\ Still
  \/ RxCall /\ RxTalk
  \/ TxCall /\ TxTalk
(* What the calls show after the loss of the slave. *)
PdoTold == TxCall => TxTold
(* While nothing went wrong, the conversation goes as it should; *)
PdoGood == Good => LinkOK /\ PdoTalk
(* after the slave was lost, what was received is still right. *)
PdoDead == Watched /\ ~alive => PdoTold
(* The inductive invariant of the PDOs over the mailbox. *)
PdoInv == family = "pdo" => Session /\ PdoCalled /\ PdoGood /\ PdoDead

(* The call is of one kind. *)
LEMMA PdoKinds ==
  /\ UNCHANGED <<call, family>> => (RxCall' <=> RxCall) /\ (TxCall' <=> TxCall)
  /\ ~(RxCall /\ TxCall) /\ (call.kind = "none" => ~RxCall /\ ~TxCall)
  /\ UNCHANGED <<call, pc, buf, family>> /\ PdoCalled => PdoCalled'
<1>1. UNCHANGED <<call, family>> => (RxCall' <=> RxCall) /\ (TxCall' <=> TxCall)
  BY DEF RxCall, TxCall
<1>2. ~(RxCall /\ TxCall) /\ (call.kind = "none" => ~RxCall /\ ~TxCall)
  BY DEF RxCall, TxCall
<1>3. UNCHANGED <<call, pc, buf, family>> /\ PdoCalled => PdoCalled'
  BY <1>1 DEF PdoCalled
<1> QED BY <1>1, <1>2, <1>3

(* The calls of the other services make no step. *)
LEMMA PdoOnly ==
  ASSUME PdoCalled
  PROVE  /\ ~SdoStep /\ ~FoeStep /\ ~SoeStep /\ ~InfoStep /\ ~EoeStep
         /\ call.kind \in {"none", "RxPDO", "TxPDO"}
<1>1. call.kind \in {"none", "RxPDO", "TxPDO"} /\ pc \in RxPcs \cup TxPcs
  BY DEF PdoCalled, RxCall, TxCall, RxPcs, TxPcs
<1> QED BY <1>1, Alone DEF RxPcs, TxPcs

(* A call begins by emptying the mailbox. *)
LEMMA PdoBegins ==
  ASSUME PdoObject, Session, family = "pdo", Calls
  PROVE  /\ PdoCalled' /\ Session'
         /\ pc = "returned" /\ pc' = "drain" /\ StartReceive("expired")
         /\ UNCHANGED <<stored, frames, family>> /\ calls' # 0 /\ wkc' = 0
         /\ call'.kind # "none"
<1>0. PdoCalls /\ UNCHANGED <<eoeVars, family>> /\ calls' = calls + 1
  BY DEF Calls, Call
<1>c. calls \in Nat /\ frames' = frames
  BY <1>0 DEF Session, eoeVars
<1>1. PICK c : /\ Enter(c)
              /\ \/ c = [kind |-> "RxPDO", obj |-> "pdo", val |-> NewVal]
                 \/ \E room \in Room["pdo"] : c = [kind |-> "TxPDO", obj |-> "pdo", room |-> room]
  BY <1>0 DEF PdoCalls, RxPDO, TxPDO
<1>2. call' = c /\ pc = "returned" /\ pc' = "drain" /\ StartReceive("expired")
        /\ buf' = <<>>
      /\ UNCHANGED stored /\ wkc' = 0
  BY <1>1 DEF Enter, serverVars, StartReceive
<1>3. Room["pdo"] \subseteq Nat
  BY ServicesConstants DEF PdoObject
<1>4. PdoCalled'
  <2>1. RxCall' \/ (TxCall' /\ call'.room \in Nat)
    BY <1>0, <1>1, <1>2, <1>3, <1>c DEF RxCall, TxCall, NewVal
  <2>2. call'.room \in Nat => Len(buf') <= call'.room
    BY <1>2
  <2> QED BY <1>2, <2>1, <2>2 DEF PdoCalled, RxPcs, TxPcs
<1>5. calls' # 0 /\ calls' \in Nat /\ call'.kind # "none"
  BY <1>0, <1>1, <1>2, <1>c
<1>6. Session'
  BY <1>2, <1>5, <1>c DEF Session, Unheard
<1> QED BY <1>0, <1>2, <1>4, <1>5, <1>6, <1>c

(* A step of a function; a PDO too long for the buffer is left.            *)
LEMMA PdoTurn ==
  ASSUME PdoCalled, Services, UNCHANGED family
  PROVE  PdoCalled' /\ call' = call
<1>0. PdoStep \/ Placed \/ NotPlaced
  BY PdoOnly DEF Services
<1>1. /\ call' = call /\ pc' \in {"sending", "request", "response", "returned"}
           /\ pc # "returned"
      /\ (call.kind = "RxPDO" /\ ~Placed /\ ~NotPlaced => pc' \in RxPcs)
      /\ (call.kind = "TxPDO" => pc' \in TxPcs)
  BY <1>0 DEF PdoStep, PdoSend, PdoSent, PdoRequest, PdoReceived, PdoFails, Placed,
    NotPlaced, Post, Return,
              RxPcs, TxPcs, At, Answered
<1>2. call.kind = "RxPDO" /\ PdoCalled => ~Placed /\ ~NotPlaced
  BY DEF PdoCalled, Placed, NotPlaced, At, Answered, RxPcs, TxCall
<1>3. buf' = buf \/ Len(buf') <= call.room
  BY <1>0 DEF PdoStep, PdoSend, PdoSent, PdoRequest, PdoReceived, PdoFails, Placed,
    NotPlaced, Post
<1>4. RxCall => call.kind = "RxPDO"
  BY DEF RxCall
<1>5. TxCall => call.kind = "TxPDO"
  BY DEF TxCall
<1>6. (RxCall => RxCall') /\ (TxCall => TxCall')
  BY <1>1, PdoKinds
<1> QED BY <1>1, <1>2, <1>3, <1>4, <1>5, <1>6 DEF PdoCalled

(* Every call is of one of the two kinds, and what it received fits. *)
LEMMA PdoKeeps ==
  ASSUME PdoObject, Session, family = "pdo", PdoCalled, [Next]_allVars
  PROVE  PdoCalled'
<1>f. family' = family
  BY FamilyStays
<1>p. UNCHANGED <<call, pc, buf>> => PdoCalled'
  BY <1>f, PdoKinds
<1>1. Calls => PdoCalled'
  BY PdoBegins
<1>2. PopError => PdoCalled'
  BY <1>p DEF PopError, callVars
<1>3. Services => PdoCalled'
  BY <1>f, PdoTurn
<1>4. (Transports /\ Others) \/ Frames => PdoCalled'
  BY <1>p, SamePc
<1>5. Serves /\ UNCHANGED <<callVars, sessionVars, eoeVars>> => PdoCalled'
  BY <1>p, ServedSame
<1>6. ~SetUp /\ ~EoeStep
  BY PdoOnly DEF SetUp
<1>7. Die /\ Others => PdoCalled'
  BY <1>p, Aside
<1>8. UNCHANGED allVars => PdoCalled'
  BY <1>p DEF allVars, callVars
<1> QED BY <1>1, <1>2, <1>3, <1>4, <1>5, <1>6, <1>7, <1>8, Steps

(* When a call has returned, nothing is on its way. *)
LEMMA PdoReturned ==
  ASSUME LinkOK, PdoTalk, pc = "returned"
  PROVE  Still
<1>1. RxTalk => Still
  BY DEF RxTalk, Draining, RxPosting, RxPosted
<1>2. TxTalk => Still
  BY TxPlaces, SilentStill DEF TxReturned
<1> QED BY <1>1, <1>2 DEF PdoTalk

(* While nothing goes wrong, every step keeps the conversation as it       *)
(* should be.                                                              *)
LEMMA PdoGoesOn ==
  ASSUME PdoObject, PdoInv, family = "pdo", [Next]_allVars, Good, Good'
  PROVE  LinkOK' /\ PdoTalk'
<1>0. LinkOK /\ PdoTalk /\ PdoCalled /\ Session /\ family' = family
  BY SessionKept DEF PdoInv, PdoGood
<1>c. UNCHANGED call => (RxCall' <=> RxCall) /\ (TxCall' <=> TxCall)
  BY <1>0, PdoKinds
<1>1. CASE Calls
  <2>0. /\ PdoCalled' /\ pc' = "drain" /\ StartReceive("expired")
        /\ UNCHANGED <<stored, frames, family>> /\ calls' # 0 /\ pc = "returned"
             /\ call'.kind # "none"
    BY <1>0, <1>1, PdoBegins
  <2>1. link = "done" /\ Still
    BY <1>0, <2>0, PdoReturned DEF LinkOK, Places
  <2>2. LinkOK' /\ Receiving' /\ Still'
    BY <1>0, <2>0, <2>1, Waits
  <2>3. Draining'
    BY <2>0, <2>2 DEF Draining, Free
  <2> QED BY <2>0, <2>2, <2>3 DEF PdoTalk, PdoCalled, RxTalk, TxTalk
<1>2. CASE PopError
  <2>1. /\ UNCHANGED <<pc, call, buf, sent, stored, wkc>> /\ pc = "returned"
             /\ Between
    <3>1. pc = "returned" /\ link = "done"
      BY <1>0, <1>2 DEF PopError, LinkOK, Places
    <3> QED BY <1>2, <3>1 DEF PopError, LinkUnchanged, masterVars, callVars,
        eoeVars, sessionVars, serverVars, Between, SlaveStays, slaveVars
  <2>2. LinkOK' /\ Still' /\ (Silent => Silent')
    BY <1>0, <2>1, PdoReturned, Pauses, SilentSteps
  <2>3. TxTalk => TxTalk'
    BY <1>0, <2>1, <2>2, TxPlaces DEF TxTalk, TxReturned, Value
  <2> QED BY <1>0, <1>c, <2>1, <2>2, <2>3 DEF PdoTalk, RxTalk
<1>3. CASE Services /\ UNCHANGED <<eoeVars, sessionVars>>
  <2>0. UNCHANGED <<frames, family, calls>>
    BY <1>3 DEF eoeVars, sessionVars
  <2>1. pc # "returned" /\ calls' # 0
    BY <1>0, <1>3, <2>0, ServicesTurn DEF Session
  <2>2. CASE RxCall /\ RxTalk
    BY <1>0, <1>3, <1>c, <2>0, <2>1, <2>2, RxSteps DEF PdoTalk
  <2>3. CASE TxCall /\ TxTalk
    BY <1>0, <1>3, <1>c, <2>0, <2>1, <2>3, TxSteps DEF PdoTalk
  <2> QED BY <1>0, <2>1, <2>2, <2>3 DEF PdoTalk
<1>4. CASE (Transports /\ Others) \/ Frames
  <2>1. UNCHANGED <<pc, call>>
    BY <1>4, SamePc
  <2>2. LinkOK' /\ (Still /\ Free => Still')
    BY <1>0, <1>4, RestCarried
  <2>3. (RxTalk => RxTalk') /\ (TxTalk => TxTalk')
    BY <1>0, <1>4, RxCarried, TxCarried
  <2>4. pc = "returned" => Free
    BY <1>0 DEF LinkOK, Places, Free
  <2> QED BY <1>0, <1>c, <2>1, <2>2, <2>3, <2>4 DEF PdoTalk
<1>5. CASE Serves /\ UNCHANGED <<callVars, sessionVars, eoeVars>>
  <2>1. UNCHANGED <<pc, call>>
    BY <1>5, ServedSame
  <2>2. clean'
    BY DEF Good, Watched
  <2>3. Still => LinkOK' /\ Still'
    <3>1. SUFFICES ASSUME Still PROVE LinkOK' /\ Still'
      OBVIOUS
    <3>2. ServePdo /\ job.op = "RxPDO"
      BY <1>5, <2>2, <3>1, PdoIdle DEF Still
    <3> QED BY <1>0, <1>5, <3>1, <3>2, PdoAbsorbed
  <2>4. CASE RxCall /\ RxTalk
    BY <1>0, <1>5, <1>c, <2>1, <2>2, <2>4, RxServed DEF PdoTalk
  <2>5. CASE TxCall /\ TxTalk
    BY <1>0, <1>5, <1>c, <2>1, <2>2, <2>5, TxServed DEF PdoTalk
  <2> QED BY <1>0, <2>1, <2>3, <2>4, <2>5 DEF PdoTalk
<1>6. ~SetUp /\ ~(Die /\ Others) /\ ~EoeStep
  BY <1>0, PdoOnly DEF SetUp, Die, Good
<1>7. CASE UNCHANGED allVars
  <2>1. Steady
    BY <1>7
      DEF Steady, allVars, mbxVars, slaveVars, masterVars, callVars, serverVars,
      eoeVars
  <2>2. LinkOK' /\ (Still => Still') /\ (RxTalk => RxTalk') /\ (TxTalk => TxTalk')
    BY <1>0, <2>1, PdoSteady, LinkSteady
  <2>3. UNCHANGED <<call, pc>>
    BY <2>1 DEF Steady
  <2> QED BY <1>0, <1>c, <2>2, <2>3 DEF PdoTalk
<1> QED BY <1>1, <1>2, <1>3, <1>4, <1>5, <1>6, <1>7, Steps

(* What the calls show stays when they make no step. *)
LEMMA PdoToldStays ==
  UNCHANGED <<pc, call, buf, stored, link, wkc, mbxIn, family>> /\ PdoTold =>
    PdoTold'
BY PdoKinds DEF PdoTold, TxTold, At, Value, TxAnswer

(* After the loss of the slave every step keeps what the calls show. *)
LEMMA PdoToldGoesOn ==
  ASSUME PdoObject, PdoInv, family = "pdo", [Next]_allVars, Watched, ~alive
  PROVE  PdoTold'
<1>0. PdoTold /\ PdoCalled /\ Session /\ family' = family
  BY SessionKept DEF PdoInv, PdoDead
<1>c. UNCHANGED call => (RxCall' <=> RxCall) /\ (TxCall' <=> TxCall)
  BY <1>0, PdoKinds
<1>1. CASE Calls
  <2>1. wkc' = 0
    BY <1>0, <1>1, PdoBegins
  <2> QED BY <2>1 DEF PdoTold, TxTold
<1>2. CASE PopError
  BY <1>0, <1>2, PdoToldStays
    DEF PopError, LinkUnchanged, masterVars, callVars, serverVars
<1>3. CASE Services
  <2>1. wkc \in Int
    BY <1>0 DEF Session, Unheard
  <2>2. call' = call
    BY <1>0, <1>3, PdoTurn
  <2>3. CASE TxCall
    <3>1. TxTold'
      BY <1>0, <1>3, <2>1, <2>3, TxToldStep, PdoKinds DEF PdoTold, PdoCalled, TxPcs
    <3> QED BY <3>1 DEF PdoTold
  <2> QED BY <1>c, <2>2, <2>3 DEF PdoTold
<1>4. CASE (Transports /\ Others) \/ Frames
  <2>1. UNCHANGED <<pc, call, buf, sent, toggle, stored, xfer, family>>
    BY <1>4, SamePc
  <2>2. ~(wkc' > 0) \/ (wkc' = wkc /\ link' = link /\ mbxIn' = mbxIn)
    BY <1>0, <1>4, TransportHears DEF Session
  <2>3. CASE ~(wkc' > 0)
    BY <2>3 DEF PdoTold, TxTold
  <2> QED BY <1>0, <2>1, <2>2, <2>3, PdoToldStays
<1>5. ~Serves
  BY ServesLeave DEF Leaves
<1>6. ~SetUp /\ ~(Die /\ Others) /\ ~EoeStep
  BY <1>0, PdoOnly DEF SetUp, Die
<1>7. CASE UNCHANGED allVars
  BY <1>0, <1>7, PdoToldStays DEF allVars, mbxVars, masterVars, callVars, serverVars
<1> QED BY <1>1, <1>2, <1>3, <1>4, <1>5, <1>6, <1>7, Steps

(* The invariant holds at first. *)
LEMMA PdoFirst == Init => PdoInv
BY InitSession DEF PdoInv, PdoCalled, PdoGood, PdoDead, PdoTalk

(* Every step keeps the invariant. *)
LEMMA PdoKept == PdoObject /\ PdoInv /\ [Next]_allVars => PdoInv'
<1> SUFFICES ASSUME PdoObject, PdoInv, [Next]_allVars PROVE PdoInv'
  OBVIOUS
<1>1. family' = family
  BY FamilyStays
<1> SUFFICES ASSUME family = "pdo" PROVE PdoInv'
  BY <1>1 DEF PdoInv
<1>2. Session /\ PdoCalled /\ PdoGood /\ PdoDead
  BY DEF PdoInv
<1>3. Before /\ Session' /\ PdoCalled'
  BY <1>2, PdoKeeps, PdoBegins, SessionKept
<1>4. PdoGood'
  <2>1. SUFFICES ASSUME Good' PROVE LinkOK' /\ PdoTalk'
    BY DEF PdoGood
  <2>2. Good
    BY <1>3, <2>1 DEF Before, Good
  <2> QED BY <2>1, <2>2, PdoGoesOn
<1>5. PdoDead'
  <2>1. SUFFICES ASSUME Watched', ~alive' PROVE PdoTold'
    BY DEF PdoDead
  <2>2. Watched
    BY <1>3, <2>1 DEF Before
  <2>3. CASE alive
    <3>1. Die /\ Others
      BY <1>2, <2>1, <2>3, OnlyDies
    <3>2. PdoTold
      BY <1>2, <2>2, <2>3, TxTells, PdoKinds DEF PdoGood, Good, PdoTalk, PdoTold
    <3>3. UNCHANGED <<pc, call, buf, stored, link, wkc, mbxIn, family>>
      BY <3>1, Aside DEF Die, masterVars
    <3> QED BY <3>2, <3>3, PdoToldStays
  <2>4. CASE ~alive
    BY <2>2, <2>4, PdoToldGoesOn
  <2> QED BY <2>3, <2>4
<1> QED BY <1>3, <1>4, <1>5 DEF PdoInv

(* The invariant implies what the runs check. *)
LEMMA PdoSuffices ==
  ASSUME PdoObject, PdoInv, family = "pdo"
  PROVE  ReadIsRight /\ WriteIsDone /\ CallSucceeds
<1>0. Session /\ PdoCalled /\ PdoGood /\ PdoDead
        /\ call.kind \in {"none", "RxPDO", "TxPDO"}
  BY PdoOnly DEF PdoInv
<1>u. Undisturbed => Watched
  BY DEF Undisturbed, Watched
<1>1. call.kind = "TxPDO" => TxCall /\ Len(buf) <= call.room
  BY <1>0 DEF PdoCalled, RxCall
<1>2. ASSUME TxCall, Undisturbed, pc = "returned"
      PROVE  (wkc > 0 => buf = Asked)
               /\ (alive => wkc > 0 \/ ~(call.room >= Len(Asked)))
  <2>1. Asked = OneMailbox(Value) /\ call.room \in Nat
    BY <1>2 DEF Asked, TxCall, Value
  <2>2. CASE ~alive
    BY <1>0, <1>2, <1>u, <2>1, <2>2 DEF PdoDead, PdoTold, TxTold
  <2>3. CASE alive
    <3>1. TxReturned
      BY <1>0, <1>2, <1>u, <2>3, TxPlaces, PdoKinds DEF PdoGood, Good, PdoTalk
    <3>2. call.room >= Len(Asked) <=> Len(Asked) <= call.room
      OBVIOUS
    <3> QED BY <2>1, <3>1, <3>2 DEF TxReturned
  <2> QED BY <2>2, <2>3
<1>5. ReadIsRight
  BY <1>0, <1>1, <1>2 DEF ReadIsRight, Reads, Returned
<1>6. WriteIsDone
  BY <1>0 DEF WriteIsDone, Writes, Returned
<1>7. CallSucceeds
  BY <1>0, <1>1, <1>2 DEF CallSucceeds, Reads, Writes, Returned
<1> QED BY <1>5, <1>6, <1>7

(* Every behaviour with the calls ecx_RxPDO and ecx_TxPDO of ethercatcoe.c *)
(* satisfies the invariant.                                                *)
THEOREM PdoInductive == ASSUME PdoObject PROVE Spec => []PdoInv
<1>1. PdoInv /\ [Next]_allVars => PdoInv'
  BY PdoKept
<1> QED
  BY <1>1, PdoFirst, PTL DEF Spec

(* What ecx_TxPDO delivers is the PDO of the slave, as much of it as a     *)
(* mailbox holds, and never more than the buffer holds.                    *)
THEOREM PdoReadIsRight == ASSUME PdoObject PROVE Spec =>
  [](family = "pdo" => ReadIsRight)
BY PdoInductive, PdoSuffices, PTL
(* As long as nothing is lost beyond what the mailbox functions repeat,    *)
(* neither call fails, but for a PDO too large for the buffer.             *)
THEOREM PdoCallSucceeds == ASSUME PdoObject PROVE Spec =>
  [](family = "pdo" => CallSucceeds)
BY PdoInductive, PdoSuffices, PTL
==============================================================================
